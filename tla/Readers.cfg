SPECIFICATION FairReaders
CONSTANTS
    Client = {c1}
    MaxSeq = 5
    EventCache = 2
    ReadLimit = 6
    BacklogLimit = 6
    Stores = {"sqlite", "pg"}
    FailingStores = {"pg"}
    MaxDrops = 2
    Kinds = {"terminal", "dashboard"}
    MaxFeeds = 2
CHECK_DEADLOCK FALSE
INVARIANTS NoGapBelowCursor TimelineIsHistory
PROPERTIES LiveEventsAreNext WelcomeComes ReadPositionIsTrue
