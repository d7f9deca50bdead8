\* One order over seven units of time, windows of two, rows kept for three.
SPECIFICATION Spec
CONSTANTS
    Orders = {o1}
    NoAgg = NoAgg
    MaxAge = 2
    TTL = 2
    Keep = 3
    MaxTime = 6
    MaxTrades = 2
    MaxSignals = 2
INVARIANTS
    TypeOK
    ResignalGap
    FillSignalledOnce
CHECK_DEADLOCK FALSE
