SPECIFICATION FairSpec
CONSTANTS
    None = None
    c1 = c1
    c2 = c2
    c3 = c3
    c4 = c4
    c5 = c5
    hot = hot
    warm = warm
    cold = cold
    Callers = {c1, c2, c3, c4, c5}
    Threads = {hot, warm, cold}
    ThreadOf <- MCThreadOf
    MaxTracked = 2
INVARIANTS
    ExclusionUnlessDropped
    TableBounded
PROPERTY
    EveryCallerGetsIn
