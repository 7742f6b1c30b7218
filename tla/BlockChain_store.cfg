SPECIFICATION Spec
CONSTANTS
    x1 = x1
    x2 = x2
    x3 = x3
    y1 = y1
    y2 = y2
    z2 = z2
    r1 = r1
    Genesis = Genesis
    NoHash = NoHash
    Blocks = {x1, x2, y1, y2, z2}
    Parent <- MCParent
    Number <- MCNumber
    Line <- MCLine
    TotalDifficulty <- MCTotalDifficulty
    GasUsed <- MCGasUsed
    TieBreakingGas = TRUE
    Readers = {r1}
    MaxCrashes = 1
    MaxRewinds = 1
INVARIANTS
    TypeOK
    Durable
    ChildrenListed
    NumbersCovered
    LastIsHeaviest
    IndexFollows
PROPERTIES
    KeepsPromise
CHECK_DEADLOCK FALSE
