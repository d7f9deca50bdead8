\* The newest state reaches the database; the database never fails.
SPECIFICATION Spec
CONSTANTS
    Positions = {"pc"}
    Aggregations = {"oa"}
    MaxVer <- MCTwoVersions
    MaxQueueSize = 4
    BatchSize = 3
    DBFails = FALSE
    CanStop = FALSE
    Graceful = FALSE
    MainReturns = FALSE
INVARIANTS RestRowIsNewest
