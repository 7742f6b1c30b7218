SPECIFICATION TxSpec
CONSTANTS
    A = A
    B = B
    a0 = a0
    a1 = a1
    a2 = a2
    b0 = b0
    c1 = c1
    v1 = v1
    NoTx = NoTx
    Accounts = {A, B}
    Transactions = {a0, a1, a2, b0, c1}
    FromPeers = {c1}
    TxVerifiers = {v1}
    Account <- MCAccount
    Nonce <- MCNonce
    GasPrice <- MCGasPrice
    Limit = 2
    FutureLimit = 1
    MaxUnverified = 1
INVARIANTS
    TxTypeOK
    OnePerNonce
    FutureCounted
    HeldKnown
    HeldBounded
PROPERTIES
    ReleasedTogether
    NeverUnderbid
CHECK_DEADLOCK FALSE
