\* One link breaks, dials succeed, nobody shuts down: every key is served again.
SPECIFICATION FairSpec
CONSTANTS
    Keys = {"fills", "updates"}
    NoKey = "none"
    MaxConnections = 2
    MaxSubscriptions = 1
    MaxCalls = 2
    MaxBreaks = 1
    MaxDialFails = 0
    CanClose = FALSE
PROPERTIES
    AutoReconnect
CHECK_DEADLOCK FALSE
