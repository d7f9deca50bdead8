\* A reversed order; every message goes through the worker; two pool goroutines; a
\* trade may be redelivered; SubscriptionManager.Close at any moment.
SPECIFICATION Spec
CONSTANTS
    Orders = {"r1"}
    Dirs = {CloseLong, OpenShort}
    KnownDirs = {CloseLong, OpenShort}
    Tids = {1}
    Statuses = {"filled"}
    OpenStatuses = {"open"}
    NoStatus = "none"
    NoDir = ""
    Filled = "filled"
    Msgs <- MCMsgsReversed
    Worker = "worker"
    Callers = {"c1"}
    Flushers = {f1, f2}
    QueueCap = 3
    FlushCap = 1
    MaxMsgs = 3
    HasBatchWriter = FALSE
    CanStop = TRUE
INVARIANTS TypeOK NoOrderLost OncePerFlusher StatusNotStranded StopDrainsFlushes
PROPERTIES ImplementsOrderSignals
SYMMETRY FlusherDirSymmetry
CHECK_DEADLOCK FALSE
