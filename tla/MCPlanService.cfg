SPECIFICATION FairSpec
CONSTANTS
    None = None
    scout = scout
    ghost = ghost
    cam = cam
    spare = spare
    low = low
    high = high
    NoPayload = NoPayload
    AircraftIds = {scout, ghost}
    KnownAircraft = {scout}
    PayloadIds = {cam, spare}
    KnownPayloads = {cam, spare}
    MissionParams = {low, high}
    Weathers = {calm}
    FlyableWeathers = {calm}
    MaxAckRounds = 2
    Plans = {p1}
    Acks = {a1, a2}
    PlanRequests <- MCPlanRequests
    Edits <- MCEdits
    Workers = {w1, w2}
    RowLocks = TRUE
    AuthOn = TRUE
    MaxFailures = 1
INVARIANTS
    ReviewBeforeBrief
    SignatureAndBriefAgree
PROPERTIES
    OneDecisionPerReview
    EveryRequestEnds
