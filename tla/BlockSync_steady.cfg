SPECIFICATION FairSteadySpec
CONSTANTS
    b1 = b1
    b2 = b2
    b3 = b3
    b4 = b4
    v1 = v1
    v2 = v2
    v3 = v3
    Genesis = Genesis
    NoBlock = NoBlock
    EmptyListSHA3 = EmptyListSHA3
    Blocks = {b1, b2, b3, b4}
    Verifiers = {v1, v2}
    SealValid = {b1, b2, b4}
    Enactable = {b1, b2, b3, b4}
    Flaky = {}
    Ours = {}
    Parent <- MCParent
    Number <- MCNumber
    Timestamp <- FutureTime
    Difficulty <- UnitDifficulty
    TotalDifficulty <- UnitTotal
    MaxFuture = 1
    MaxSync = 2
    MaxTime = 1
INVARIANTS
    QueueInvariants
    InOrder
    UnknownWaits
PROPERTIES
    PipelineFlows
    FutureImported
CHECK_DEADLOCK FALSE
