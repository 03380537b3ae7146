SPECIFICATION FairSpec
CONSTANTS
    Kinds = {"acp", "codex", "cursor"}
    MaxInstructions = 3
CHECK_DEADLOCK FALSE
INVARIANTS EachAccountedFor OneTurnAtATime
PROPERTIES OutcomesPerPrompt NothingGivenWhilePaused QueueMoves
