SPECIFICATION FairSpec
CONSTANTS
    None = None
    Requests = {q1, q2, q3, q4}
    Pruners = {w1}
    MaxRequests = 2
    Window <- MCWindow
    Second <- MCSecond
    Kinds <- MCKinds
    MaxClock = 5
    MaxFailures = 1
INVARIANTS
    Ceiling
    NoEarlyRefusal
    PruningForgetsNothing
    RetryAfterSuffices
PROPERTY
    EveryCallIsDecided
