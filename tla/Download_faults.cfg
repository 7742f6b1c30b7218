SPECIFICATION Spec
CONSTANTS
    g = g
    b1 = b1
    b2 = b2
    b3 = b3
    b4 = b4
    c1 = c1
    c2 = c2
    d3 = d3
    x = x
    y = y
    z = z
    p1 = p1
    p2 = p2
    Blocks = {g, b1, b2, b3, c2}
    Genesis = g
    NoBlock = NoBlock
    Parent <- MCParent
    Body <- MCBody
    EmptyBody = EmptyBody
    Rejected = {c2}
    Early = {b3}
    Local = g
    Sealed = {c2}
    Peers = {p1, p2}
    FirstHead <- Close
    ChainStart = 0
    DaoFork = 1
    DaoBlocks = {b1}
    MaxRequestHeaders = 2
    MaxRequestBodies = 1
    MaxUnknownNew = 1
    MaxKnown = 1
    MaxUnknown = 1
    Short = TRUE
    Reopens = TRUE
    MaxFaults = 1
INVARIANTS
    DownloadsOwned
    ChallengeInFlight
CHECK_DEADLOCK FALSE
