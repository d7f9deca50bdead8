\* Two keys, one per connection: the second key needs a connection of its own.
SPECIFICATION FairSpec
CONSTANTS
    Keys = {"fills", "updates"}
    NoKey = "none"
    MaxConnections = 2
    MaxSubscriptions = 1
    MaxCalls = 2
    MaxBreaks = 1
    MaxDialFails = 1
    CanClose = TRUE
INVARIANTS
    TypeOK
    RecordedAtHome
    ServedWhenUp
PROPERTIES
    DisconnectedIsReplaced
    ImplementsRegistry
CHECK_DEADLOCK FALSE
