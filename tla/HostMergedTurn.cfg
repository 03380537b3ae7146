SPECIFICATION Spec
CONSTANTS
    MaxInstructions = 2
    MaxFrames = 2
    EarlyFrames = FALSE
CHECK_DEADLOCK FALSE
INVARIANTS WorkCarriesTurn
