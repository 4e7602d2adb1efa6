CONSTANTS
    NoTx = NoTx
    Cycles = {c1, c2}
    Keys = {1, 2}
    Sessions = {"s1"}
    KeysOf <- SharedKeysOf
    Amounts = {1}
    PerTxCap = 1
    SpendCap = 2
    MaxActive = 1
    WatchLimit = 2
    RequiresUserFunds = FALSE
    LostSend = FALSE
    Faults = FALSE
SPECIFICATION Spec
INVARIANTS
    OneLiveTxPerKey
