\* Both loops may flush the same key, the database may fail, Stop comes at any
\* moment, GracefulShutdown may time out and flush as well, main may return.
SPECIFICATION FairSpec
CONSTANTS
    Positions = {"pc"}
    Aggregations = {"oa"}
    MaxVer <- MCPositionTwice
    MaxQueueSize = 2
    BatchSize = 2
    DBFails = TRUE
    CanStop = TRUE
    Graceful = TRUE
    MainReturns = TRUE
INVARIANTS TypeOK StopDrains
PROPERTIES RowNeverGoesBack BuffersDrain
CHECK_DEADLOCK FALSE
