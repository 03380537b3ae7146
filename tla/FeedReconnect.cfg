SPECIFICATION ReadersSpec
CONSTANTS
    Client = {c1}
    MaxSeq = 4
    EventCache = 2
    ReadLimit = 6
    BacklogLimit = 6
    Stores = {"sqlite"}
    FailingStores = {}
    MaxDrops = 1
    Kinds = {"terminal"}
    MaxFeeds = 1
CHECK_DEADLOCK FALSE
INVARIANT FeedShowsEverything
