SPECIFICATION Spec
CONSTANTS
    None = None
    Plans = {p1}
    Acks = {}
    Replans = {r1, r2}
    Workers = {w1}
    OwnThreads = {}
    AuthOn = FALSE
    MaxChild = 2
    MaxFailures = 0
SYMMETRY MCSymmetry
INVARIANT DistinctChildren
