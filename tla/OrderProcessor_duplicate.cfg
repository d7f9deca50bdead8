\* One signal per order.
SPECIFICATION Spec
CONSTANTS
    Orders = {"r1"}
    Dirs = {"Open Long"}
    KnownDirs = {"Open Long"}
    Tids = {1, 2}
    Statuses = {"filled"}
    OpenStatuses = {"open"}
    NoStatus = "none"
    NoDir = ""
    Filled = "filled"
    Msgs <- MCMsgsOne
    Worker = "worker"
    Callers = {"c1"}
    Flushers = {f1, f2}
    QueueCap = 3
    FlushCap = 1
    MaxMsgs = 3
    HasBatchWriter = FALSE
    CanStop = FALSE
INVARIANTS AtMostOneSignal
SYMMETRY FlusherSymmetry
