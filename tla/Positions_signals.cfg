\* Two callbacks at a time; a perp listed later; a queue of one message.
SPECIFICATION Spec
CONSTANTS
    Docs <- MCDocs
    SpotPairs <- MCSpotPairs
    FirstPerps <- MCFirstPerps
    LaterPerps <- MCLaterPerps
    Alias <- MCAlias
    Orders <- MCOrders
    Size = 3
    Price = 2
    None = None
    Callbacks = {c1, c2}
    QueueCap = 1
    MaxUpdates = 2
INVARIANTS StaleOnlyIfOverlapping ForgottenUnlessLate SignalFollowsUpdate
CONSTRAINT Explored
SYMMETRY CallbackSymmetry
CHECK_DEADLOCK FALSE
