CONSTANTS
    Requests = {q1, q2}
    First = First
    None = None
    Instances = {i1, i2}
    Configs = {1}
    Together = {{"provision"}}
SPECIFICATION Spec
PROPERTIES
    KeyNotReplaced
CHECK_DEADLOCK FALSE
