SPECIFICATION FairSpec
CONSTANTS
    Tickets = {t1}
    t1 = t1
    Chats <- TwoChats
    BusLimit = 1
    OutboxLimit = 1
    Attempts = 2
    MaxLinkChanges = 2
    MaxLives = 2
    MaxRows = 2
    Nothing = Nothing
INVARIANTS
    RepeatHasCause
    SilenceHasCause
    TellsTheLatest
PROPERTIES
    AnnouncedOnce
    Settles
CHECK_DEADLOCK FALSE
