SPECIFICATION FairSpec
CONSTANTS
    None = None
    Plans = {p1, p2}
    Acks = {a1}
    Replans = {r1}
    Workers = {w1, w2}
    OwnThreads = {1}
    AuthOn = FALSE
    MaxChild = 3
    MaxFailures = 1
INVARIANTS
    PurgedOnce
    NoOrphanedCheckpoint
    SignedThreadIsThere
    OwnThreadsUntouched
PROPERTY
    ExpiredThreadGoes
