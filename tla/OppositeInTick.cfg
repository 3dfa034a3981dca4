SPECIFICATION Spec
CONSTANTS
    Engines = {"a"}
    Timeframes = {"m2", "m1"}
    LengthOf <- MCLengths
    Directions = {"BUY", "SELL"}
    NoBar = NoBar
    NoDirection = "none"
    Cap = 2
    Shared = TRUE
    MaxTime = 2
    MaxOrders = 3
    Outages = FALSE
    Worlds <- Unanswered
INVARIANTS
    NoOppositeInTick
CHECK_DEADLOCK FALSE
