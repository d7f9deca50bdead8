\* Two addresses subscribed and unsubscribed at any time, three messages.
SPECIFICATION Spec
CONSTANTS
    Addrs = {"a", "b"}
    NoAddr = "none"
    Oids <- MCOids
    NoOid = 0
    Owner <- MCOwner
    Reversed = {1}
    Foreign = {2}
    MaxMsgs = 3
INVARIANTS
    TypeOK
    StatusOncePerUpdate
    FillsReachQueue
    MappedStatusReachesQueue
CHECK_DEADLOCK FALSE
