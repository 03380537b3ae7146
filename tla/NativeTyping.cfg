SPECIFICATION FairSpec
CONSTANTS
    Kinds = {"pty", "opencode"}
    MaxInstructions = 3
    RecentLimit = 2
    MaxHostKeys = 1
CHECK_DEADLOCK FALSE
INVARIANTS EachTypedOnce
PROPERTIES  InstructionsReachThePrompt
