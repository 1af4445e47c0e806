SPECIFICATION FairSpec
CONSTANTS
    None = None
    Undated = Undated
    Shared = Shared
    f1 = f1
    f2 = f2
    Fetches = {f1, f2}
    Workers = {w1, w2}
    Pruners = {w1}
    Leftovers = {2}
    Cells = {1, 2}
    CellOf <- MCCellOf
    Kinds = {"memory", "sqlite", "postgresql"}
    RetryAttempts = 2
    Deadline = 1
    CacheTtl = 1
    StaleMaxAge = 2
    PageSize = 1
    MaxClock = 4
    MaxFailures = 1
INVARIANTS
    SourceIsHonest
    AgeFitsSource
    PruningChangesNoAnswer
PROPERTIES
    ExpiredRowGoes
    EveryFetchEnds
