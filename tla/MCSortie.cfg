SPECIFICATION Spec
CONSTANTS
    None = None
    NoValue = NoValue
    DensityCurve <- MCDensityCurve
    MomentumFactor <- MCMomentumFactor
    Heights <- MCHeights
    Ratios <- MCRatios
    Reserve = 20
    VerticalSpeed = 30
    ClimbEfficiency = 60
    HighMinSamples = 4
    MediumMinSamples = 3
    RecordedRows <- MCRecordedRows
    MaxRows = 5
    MinApplySamples = 3
    Bundled <- MCBundled
    Payloads <- MCPayloads
    Missions <- MCMissions
    Altitudes = {50, 120}
    HoverTimes = {220, 300}
    Conditions <- MCConditions
    Snapshots <- MCSnapshots
INVARIANTS
    OneVoice
    BriefAndReplanAgree
    HoverFigureIsOfHover
PROPERTIES
    NeverMilder
