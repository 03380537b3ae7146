SPECIFICATION Spec
SYMMETRY Interchangeable
CONSTANTS
    Server = {s1, s2}
    Backends = {"jsonl", "sqlite", "postgres"}
    Overlaps = {"jsonl"}
    EventCache = 2
    PageSize = 2
    MaxEvents = 5
    MaxBoots = 3
    MaxKills = 2
CHECK_DEADLOCK FALSE
INVARIANTS SummaryOfWholeHistory ModeOfHistory TrimmedIsStored
PROPERTIES RestartKeepsHistory SeatsAreKept
