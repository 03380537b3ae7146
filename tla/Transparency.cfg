SPECIFICATION FairSpec
CONSTANTS
    Kinds = {"claude", "codex", "cursor", "acp", "opencode", "hooks", "claude-native", "cursor-native"}
    MaxTurns = 2
    MaxSaid = 4
    MaxTools = 1
    History = 1
    MaxClears = 1
CHECK_DEADLOCK FALSE
INVARIANTS ProseInOrder ToolsInPlace
PROPERTIES ReplyBeforeResult ReplyMirrored
