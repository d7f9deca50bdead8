\* Two addresses come and go, subscriptions fail, the process may shut down.
SPECIFICATION FairSpec
CONSTANTS
    Addrs = {"a", "b"}
    NoAddr = "none"
    Grace = 2
    PoolFails = TRUE
    CanStop = TRUE
INVARIANTS
    TypeOK
    ManagersMatchLoader
    NoOrphanSubscription
PROPERTIES
    GraceHonoured
    Converges
CHECK_DEADLOCK FALSE
