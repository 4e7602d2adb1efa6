CONSTANTS
    Requests = {q1, q2, q3}
    First = First
    None = None
    Instances = {i1, i2}
    Configs = {1, 2}
    Together = {{"activate", "revoke", "provision", "delete"},
        {"activate", "pause", "revoke", "register", "edit", "revokeSession",
         "activatePermission", "revokePermission"}}
SPECIFICATION Spec
INVARIANTS
    TypeOK
    RevokeHolds
    KeyKept
    KeyDestroyed
    KeyMatchesConfig
SYMMETRY Symmetry
CHECK_DEADLOCK FALSE
