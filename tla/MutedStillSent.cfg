SPECIFICATION Spec
CONSTANTS
    Tickets = {t1}
    t1 = t1
    Chats <- TwoChats
    BusLimit = 1
    OutboxLimit = 1
    Attempts = 2
    MaxLinkChanges = 2
    MaxLives = 2
    MaxRows = 2
    Nothing = Nothing
PROPERTIES
    MutedStaysSilent
CHECK_DEADLOCK FALSE
