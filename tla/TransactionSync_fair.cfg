SPECIFICATION FairSpec
CONSTANTS
    A = A
    B = B
    a0 = a0
    a1 = a1
    b0 = b0
    d0 = d0
    c0 = c0
    c1 = c1
    v1 = v1
    NoTx = NoTx
    Accounts = {A, B}
    Transactions = {a0, a1, c0, b0}
    FromPeers = {c0}
    TxVerifiers = {v1}
    Account <- MCAccount
    Nonce <- MCNonce
    GasPrice <- MCGasPrice
    Limit = 2
    FutureLimit = 1
    MaxUnverified = 1
    Invalid = {}
    Unaffordable = {b0}
    BlockRoom = 2
    Ask = 1
    MaxSyncTransactions = 2
INVARIANT WorkingConsecutive
PROPERTY ReplacedIsReset
CHECK_DEADLOCK FALSE
