SPECIFICATION Spec
CONSTANTS
    Server = {s1, s2}
    Backends = {"sqlite"}
    Overlaps = {"sqlite"}
    EventCache = 2
    PageSize = 2
    MaxEvents = 4
    MaxBoots = 2
    MaxKills = 0
CHECK_DEADLOCK FALSE
INVARIANTS RestartLosesNothing
