CONSTANTS
    Runs = {1, 2}
    Concurrency = 1
    Retries = 1
    AgentLimit = 1
    TaskLimit = 1
    MaxLost = 1
    MaxNewer = 1
    MaxAhead = 1
SPECIFICATION Spec
INVARIANT TypeOK
PROPERTIES
    PausedStops
    KeepsTicking
