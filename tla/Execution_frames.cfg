SPECIFICATION Spec
CONSTANTS
    eoa = eoa
    eob = eob
    con = con
    left = left
    pre = pre
    nil = nil
    k = k
    byteCode = byteCode
    Addresses = {eoa, eob, con, left, pre, nil}
    Keys = {k}
    Values = {0, 1}
    Codes = {byteCode}
    EmptyCode = EmptyCode
    NoAccount = NoAccount
    AccountStartNonce = 0
    Genesis <- MCGenesis
    Senders = {eoa, eob}
    Author = pre
    Precompiled = {pre}
    NewAddresses <- MCNewAddresses
    BlockhashContract = nil
    EIP158 = TRUE
    TxGas = 1
    GasPrice = 1
    Amounts = {1}
    DepthLimit = 3
    MaxOps = 5
INVARIANTS
    CleanIsCommitted
    NoEtherCreated
PROPERTIES
    NonceSpent
    RestoresWorld
CHECK_DEADLOCK FALSE
