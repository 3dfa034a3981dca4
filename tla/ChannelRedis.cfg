SPECIFICATION FairSpec
CONSTANTS
    Commands = {"pause1", "pause2", "resume1"}
    KeyOf <- MCKeyOf
    NoCommand = "none"
    Ttl = 1
    Worlds <- Apart
    Outages = FALSE
    Crashes = FALSE
INVARIANTS
    OnceUnlessRaced
PROPERTIES
    SentIsActedOn
CHECK_DEADLOCK FALSE
