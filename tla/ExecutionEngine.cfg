CONSTANTS
    Executes = {e1, e2, e3}
    Reconciles = {r1, r2}
    Ids = {x}
    IdOf <- OneId
    Overlap = FALSE
    NoTx = NoTx
SPECIFICATION Spec
INVARIANTS
    TypeOK
    FailedIsDead
PROPERTIES
    PromiseKept
    HashKept
CHECK_DEADLOCK FALSE
