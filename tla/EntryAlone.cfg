SPECIFICATION Spec
CONSTANTS
    Engines = {"a"}
    Timeframes = {"m2", "m1", "M1"}
    LengthOf <- MCLengths
    Directions = {"BUY", "SELL"}
    NoBar = NoBar
    NoDirection = "none"
    Cap = 2
    Shared = FALSE
    MaxTime = 2
    MaxOrders = 3
    Outages = FALSE
    Worlds <- AnswersArrive
INVARIANTS
    OneEntryPerTick
    CapKept
    OneWayKept
CHECK_DEADLOCK FALSE
