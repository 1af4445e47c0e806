SPECIFICATION IngestSpec
CONSTANTS
    None = None
    Filler = {"the"}
    Qualifier = {"maximum", "operating", "limit"}
    RowLimit = 1
    RrfK = 60
    Similarities <- MCSimilarities
    astro = astro
    anafi = anafi
    limits = limits
    revised = revised
    sheet = sheet
    wind = wind
    furniture = furniture
    injected = injected
    heat = heat
    Airframes = {}
    Paths = {1, 2}
    Files = {limits, revised, sheet}
    Paragraphs = {wind, furniture, injected, heat}
    Furniture = {furniture}
    Tripping = {injected}
    Text <- MCText
    Words <- MCWords
    Numbers <- MCNumbers
    Listing <- GeneralListing
    Checkout <- MCCheckout
    Commits <- MCCommits
    Overwrites = {}
    Production = TRUE
    Embedders <- HashingOnly
    Services = {"small"}
    Width <- MCWidth
    Asked <- MCNothingAsked
    Query <- MCQuery
    CalcNumbers = {119}
    Prose <- MCProse
PROPERTIES
    RevisedDocumentArrives
