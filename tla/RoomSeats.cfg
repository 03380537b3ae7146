SPECIFICATION FairSpec
CONSTANTS
    MaxParticipants = 3
    MaxAgents = 1
    MaxInstructions = 0
    PendingLimit = 1
    Socket = {s1, s2}
    NoSocket = NoSocket
    AsyncStore = FALSE
    Requests = {"join", "rejoin", "leave", "handoff", "pause", "resume", "set_mode", "archive", "end", "delete"}
    AgentEvents = {}
    MaxRestarts = 0
INVARIANTS DriverIsMember SomeoneDrives ConnectedMeansSocket
PROPERTIES ImplementsDriverSeat LostPeersStepAway
