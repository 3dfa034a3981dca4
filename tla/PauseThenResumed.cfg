SPECIFICATION Spec
CONSTANTS
    Commands = {"pause1", "resume1"}
    KeyOf <- MCKeyOf
    NoCommand = "none"
    Ttl = 1
    Worlds <- ApartAgeless
    Outages = FALSE
    Crashes = FALSE
PROPERTIES
    PauseBeatsResume
CHECK_DEADLOCK FALSE
