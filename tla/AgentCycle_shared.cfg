CONSTANTS
    NoTx = NoTx
    Cycles = {c1, c2}
    Keys = {1}
    Sessions = {"s1", "s2"}
    KeysOf <- SharedKeysOf
    Amounts = {1}
    PerTxCap = 1
    SpendCap = 2
    MaxActive = 2
    WatchLimit = 0
    RequiresUserFunds = TRUE
    LostSend = TRUE
    Faults = TRUE
SPECIFICATION Spec
INVARIANTS
    TypeOK
    CommittedIsMined
    PositionIsMined
    KillSwitch
SYMMETRY Symmetry
