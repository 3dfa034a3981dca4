SPECIFICATION Spec
CONSTANTS
    Engine = "engine"
    Watchdog = "watchdog"
    Pollers = {"poller"}
    Tasks <- AllTasks
    NoTask = "nobody"
    Ids = {1, 2}
    NoId = 0
    StartAttempts = 2
    EnsureAttempts = 1
    Worlds <- GathersOrCalms
PROPERTIES
    FreshSessionKept
