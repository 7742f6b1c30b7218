SPECIFICATION FairSpec
CONSTANTS
    g = g
    b1 = b1
    b2 = b2
    b3 = b3
    b4 = b4
    c1 = c1
    c2 = c2
    d3 = d3
    x = x
    y = y
    z = z
    p1 = p1
    p2 = p2
    Blocks = {g, b1, b2, b3, b4, c2}
    Genesis = g
    NoBlock = NoBlock
    Parent <- MCParent
    Body <- MCBody
    EmptyBody = EmptyBody
    Rejected = {}
    Early = {b4}
    Local = c2
    Sealed = {}
    Peers = {p1, p2}
    FirstHead <- BothFar
    ChainStart = 0
    DaoFork = 0
    DaoBlocks = {}
    MaxRequestHeaders = 1
    MaxRequestBodies = 1
    MaxUnknownNew = 1
    MaxKnown = 1
    MaxUnknown = 1
    Short = FALSE
    Reopens = FALSE
    MaxFaults = 1
INVARIANTS
    WaitingForRoom
PROPERTIES
    Synced
CHECK_DEADLOCK FALSE
