SPECIFICATION Spec
CONSTANTS
    MaxParticipants = 1
    MaxAgents = 2
    MaxInstructions = 2
    PendingLimit = 1
    Socket = {s1, s2, s3}
    NoSocket = NoSocket
    AsyncStore = TRUE
    Requests = {"join", "add_agent", "attach", "instruct", "detach_agent", "use_agent"}
    AgentEvents = {"exited"}
    MaxRestarts = 1
SYMMETRY Symmetry
INVARIANTS TypeOK ConnectionsAreCurrent AttachedMeansOpen QueuedMeansUnreachable NoOvertaking
PROPERTIES QueueOnlyDrainsBySending
