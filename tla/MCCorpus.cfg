SPECIFICATION Spec
CONSTANTS
    None = None
    Filler = {"the"}
    Qualifier = {"maximum", "operating", "limit"}
    RowLimit = 2
    RrfK = 60
    Similarities <- MCSimilarities
    astro = astro
    anafi = anafi
    limits = limits
    revised = revised
    sheet = sheet
    wind = wind
    furniture = furniture
    injected = injected
    heat = heat
    Airframes = {astro, anafi}
    Paths = {1, 2}
    Files = {limits, revised, sheet}
    Paragraphs = {wind, furniture, injected, heat}
    Furniture = {furniture}
    Tripping = {injected}
    Text <- MCText
    Words <- MCWords
    Numbers <- MCNumbers
    Listing <- MCListing
    Checkout <- MCCheckout
    Commits <- MCCommits
    Overwrites <- MCOverwrites
    Production = TRUE
    Embedders <- MCEmbedders
    Services = {"small", "large"}
    Width <- MCWidth
    Asked <- MCAsked
    Query <- MCQuery
    CalcNumbers = {119}
    Prose <- MCProse
INVARIANTS
    EveryParagraphAccountedFor
    OperatorReadsOwnScreenedText
    GateSeesWhatIsCited
    AbstainsOnlyWithoutEvidence
    ComparedWithinOneModel
