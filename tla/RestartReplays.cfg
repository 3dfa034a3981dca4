SPECIFICATION Spec
CONSTANTS
    Engines = {"a"}
    Timeframes = {"m1"}
    LengthOf <- MCLengths
    Directions = {"BUY"}
    NoBar = NoBar
    NoDirection = "none"
    Cap = 2
    Shared = FALSE
    MaxTime = 2
    MaxOrders = 3
    Outages = FALSE
    Worlds <- OldBars
INVARIANTS
    NeverReplayed
CHECK_DEADLOCK FALSE
