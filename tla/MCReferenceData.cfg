SPECIFICATION FairSpec
CONSTANTS
    None = None
    Workers = {w1, w2}
    Migrators = {m1}
    Migrations = 2
    Concurrently = {2}
    Inherited = {1}
    Corrected <- MCCorrected
    MaxFailures = 1
    hover = hover
    cruise = cruise
    Fields = {hover, cruise}
    u1 = u1
    u2 = u2
    u3 = u3
    hoverLog = hoverLog
    cruiseLog = cruiseLog
    Uploads = {u1, u2}
    Contents = {hoverLog, cruiseLog}
    Content <- MCContent
    Applying = {u1, u2}
    Strangers = {}
    Samples <- MCSamples
    MinApplySamples = 3
INVARIANTS
    NobodyCollides
    OnlyApplyingMeasures
    CorrectionsLast
    FiguresHaveTheirBasisInTurn
PROPERTIES
    EveryStartEnds
