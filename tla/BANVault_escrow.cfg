CONSTANTS
    Accounts = {a1}
    Zero = Zero
    Tokens = {usd}
    Targets = {t1}
    Selectors = {s1}
    JobIds = {j1, j2}
    Day = 2
    DeployTick = 1
    MaxDay = 2
    Amounts = {1}
    MaxLimit = 2
    MaxDeposit = 2
    MaxFree = 1
SPECIFICATION Spec
INVARIANTS
    TypeOK
    DailyCap
    JobAccounts
    EscrowAccounted
SYMMETRY Symmetry
