\* A queue of one message: callbacks fall back to handling messages themselves; the
\* batch writer takes rows at any moment; publishing may fail again and again.
SPECIFICATION FairSpec
CONSTANTS
    Orders = {"r1"}
    Dirs = {"Open Long"}
    KnownDirs = {"Open Long"}
    Tids = {1, 2}
    Statuses = {"filled"}
    OpenStatuses = {"open"}
    NoStatus = "none"
    NoDir = ""
    Filled = "filled"
    Msgs <- MCMsgsOne
    Worker = "worker"
    Callers = {"c1"}
    Flushers = {f1}
    QueueCap = 1
    FlushCap = 1
    MaxMsgs = 3
    HasBatchWriter = TRUE
    CanStop = FALSE
INVARIANTS TradesCounted PendingTailUnique SentRowWasPublished
PROPERTIES EveryOrderSignalled
CONSTRAINT SecondTradeLast
