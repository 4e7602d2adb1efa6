CONSTANTS
    NoTx = NoTx
    Cycles = {c1, c2}
    Keys = {1, 2}
    Sessions = {"s1"}
    KeysOf <- FreshKeysOf
    Amounts = {1}
    PerTxCap = 1
    SpendCap = 1
    MaxActive = 2
    WatchLimit = 2
    RequiresUserFunds = FALSE
    LostSend = FALSE
    Faults = TRUE
SPECIFICATION FairSpec
INVARIANTS
    ConfirmedIsMined
    LiveTxIsCounted
PROPERTIES
    ImplementsLifecycle
    MinedIsReconciled
