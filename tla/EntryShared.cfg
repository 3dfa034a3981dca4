SPECIFICATION Spec
CONSTANTS
    Engines = {"a", "b"}
    Timeframes = {"m1"}
    LengthOf <- MCLengths
    Directions = {"BUY"}
    NoBar = NoBar
    NoDirection = "none"
    Cap = 2
    Shared = TRUE
    MaxTime = 2
    MaxOrders = 3
    Outages = TRUE
    Worlds <- Rough
INVARIANTS
    AtMostOneOrder
PROPERTIES
    FollowsProtocol
