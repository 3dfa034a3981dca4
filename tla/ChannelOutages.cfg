SPECIFICATION Spec
CONSTANTS
    Commands = {"close1", "risk1"}
    KeyOf <- MCKeyOf
    NoCommand = "none"
    Ttl = 1
    Worlds <- ApartOrTogether
    Outages = TRUE
    Crashes = TRUE
INVARIANTS
    RepeatHasCause
    LossHasCause
