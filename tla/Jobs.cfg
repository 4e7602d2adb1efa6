CONSTANTS
    Requests = {"first", "again", "other"}
    Keys = {"k1", "k2"}
    KeyOf <- KeysOfRequests
    Directive <- Directives
    MaxAttempts = 2
    Concurrency = 1
    MaxFaults = 3
    NoJob = NoJob
SPECIFICATION Spec
INVARIANTS
    TypeOK
    ProcessedOnce
    AuditIsTrue
PROPERTIES
    JobsEnd
CHECK_DEADLOCK FALSE
