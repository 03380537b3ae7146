SPECIFICATION FairSpec
CONSTANTS
    MaxChats = 4
    MaxRows = 3
    OlderChats = 2
    ResumeOlder = FALSE
    MaxFailures = 1
CHECK_DEADLOCK FALSE
INVARIANTS RowsInOrder NothingFromThePast
PROPERTIES NewestChatSeen
