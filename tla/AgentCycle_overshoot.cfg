CONSTANTS
    NoTx = NoTx
    Cycles = {c1, c2, c3}
    Keys = {1, 2, 3}
    Sessions = {"s1"}
    KeysOf <- FreshKeysOf
    Amounts = {1}
    PerTxCap = 1
    SpendCap = 1
    MaxActive = 2
    WatchLimit = 0
    RequiresUserFunds = FALSE
    LostSend = FALSE
    Faults = FALSE
SPECIFICATION Spec
INVARIANTS
    OvershootBounded
    FinalizedByReceipt
