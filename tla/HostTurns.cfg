SPECIFICATION FairSpec
CONSTANTS
    MaxInstructions = 2
    MaxFrames = 3
    EarlyFrames = TRUE
CHECK_DEADLOCK FALSE
INVARIANTS InstructionsInOrder TurnsAreBracketed
PROPERTIES TurnEnds
