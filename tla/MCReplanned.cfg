SPECIFICATION Spec
CONSTANTS
    None = None
    scout = scout
    ghost = ghost
    cam = cam
    spare = spare
    low = low
    high = high
    NoPayload = NoPayload
    AircraftIds = {scout, ghost}
    KnownAircraft = {scout}
    PayloadIds = {cam, spare}
    KnownPayloads = {cam, spare}
    MissionParams = {low, high}
    Weathers = {calm}
    FlyableWeathers = {calm}
    MaxAckRounds = 1
    Plans = {p1, p2}
    Acks = {a1, a2}
    PlanRequests <- MCPlanRequestsOther
    Edits <- MCEdits
    Workers = {w1}
    RowLocks = FALSE
    AuthOn = FALSE
    MaxFailures = 1
SYMMETRY MCSymmetry
INVARIANTS
    SealedInputsAreCurrent
    NeverAppliedToChangedNumbers
    AbortIsFinal
    ReviewRoundsAreBounded
