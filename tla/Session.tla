------------------------------- MODULE Session -------------------------------
(***************************************************************************)
(* The room object: class Session and class AgentSession of src/core.      *)
(*                                                                         *)
(* A Session holds the people of a room (a Map from participant id to seat,*)
(* in joining order), the driver seat, the room's agent sessions (a Map    *)
(* from agent id, never shrinking) and the queue of instructions that wait *)
(* for an agent.  This module declares that state and one operator per     *)
(* method; the server's handlers, in module Room, are built from them.     *)
(*                                                                         *)
(* Ids are numbers in the order in which they are minted, so that the      *)
(* order of ids is the iteration order of the two Maps, and the order of   *)
(* instruction ids (event seqs) is the order of the pending array, which   *)
(* the code only appends to and filters.                                   *)
(***************************************************************************)
EXTENDS Naturals, FiniteSets

CONSTANTS
    MaxParticipants,   \* bound: participants one run may add
    MaxAgents,         \* bound: agent sessions one run may add
    MaxInstructions,   \* bound: instructions one run may accept
    PendingLimit       \* PENDING_LIMIT of the server (100 in the code)

ASSUME SessionBounds ==
    /\ MaxParticipants \in Nat
    /\ MaxAgents \in Nat
    /\ MaxInstructions \in Nat
    /\ PendingLimit \in Nat

None == 0   \* null, for an id

Participant == 1 .. MaxParticipants
Agent       == 1 .. MaxAgents
Instruction == 1 .. MaxInstructions

VARIABLES
    lifecycle,       \* "none" before create, then active | archived | ended
    paused,
    mode,            \* open | driver
    driverId,
    defaultAgentId,  \* the room's focus, moved by a handoff to an agent
    participants,    \* id -> seat; role "none" where the Map has no entry
    minted,          \* participants added so far: the next id is minted + 1
    agents,          \* id -> agent session; status "absent" before it is added
    instructions,    \* instructions appended so far
    addressee,       \* instruction -> the agent it was resolved to, or None
    pending,         \* the queue, a set read in the order of the ids
    sentTo           \* instruction -> the agent whose connection it was sent to

seats  == <<driverId, participants, minted>>
queue  == <<instructions, addressee, pending, sentTo>>
session == <<lifecycle, paused, mode, defaultAgentId, seats, agents, queue>>

-----------------------------------------------------------------------------
(* The participants Map and the driver seat. *)

NoSeat == [role |-> "none", connected |-> FALSE, defaultAgentId |-> None]

Seat == [role: {"none", "host", "collaborator"},
         connected: BOOLEAN,
         defaultAgentId: Agent \cup {None}]

Members == {p \in Participant : participants[p].role # "none"}

HasConnectedHost ==
    \E p \in Members : participants[p].role = "host" /\ participants[p].connected

\* Mutant: every host who enters takes the seat.
AddParticipantAlwaysSeats(role) ==
    LET p == minted + 1 IN
    /\ minted < MaxParticipants
    /\ minted' = p
    /\ participants' = [participants EXCEPT ![p] =
           [role |-> role, connected |-> TRUE, defaultAgentId |-> None]]
    /\ driverId' = IF role = "host" THEN p ELSE driverId

AddParticipant(role) ==
    LET p == minted + 1 IN
    /\ minted < MaxParticipants
    /\ minted' = p
    /\ participants' = [participants EXCEPT ![p] =
           [role |-> role, connected |-> TRUE, defaultAgentId |-> None]]
    /\ driverId' = IF role = "host" /\ driverId = None THEN p ELSE driverId

\* The entry of S that the Map iterates first takes the seat.
FirstTakesSeat(S) == \E p \in S : (\A q \in S : p <= q) /\ driverId' = p

\* Mutant: the seat stays with whoever left.
RemoveParticipantKeepingSeat(p) ==
    /\ participants' = [participants EXCEPT ![p] = NoSeat]
    /\ UNCHANGED <<minted, driverId>>

\* Mutant: the seat falls back to a host only.
RemoveParticipantToHost(p) ==
    LET hosts == {q \in Members \ {p} : participants[q].role = "host"}
    IN  /\ participants' = [participants EXCEPT ![p] = NoSeat]
        /\ UNCHANGED minted
        /\ \/ driverId # p /\ UNCHANGED driverId
           \/ driverId = p /\ FirstTakesSeat(hosts)
           \/ driverId = p /\ hosts = {} /\ driverId' = None

RemoveParticipant(p) ==
    LET rest  == Members \ {p}
        hosts == {q \in rest : participants[q].role = "host"}
    IN  /\ participants' = [participants EXCEPT ![p] = NoSeat]
        /\ UNCHANGED minted
        /\ \/ driverId # p /\ UNCHANGED driverId
           \/ driverId = p /\ FirstTakesSeat(hosts)
           \/ driverId = p /\ hosts = {} /\ FirstTakesSeat(rest)
           \/ driverId = p /\ rest = {} /\ driverId' = None

-----------------------------------------------------------------------------
(* Agent sessions. *)

AgentStatus == {"created", "connecting", "starting", "working", "idle",
                "failed", "disconnected"}

NoAgent == [attached |-> FALSE, status |-> "absent", turn |-> FALSE]

AgentRecord == [attached: BOOLEAN, status: AgentStatus \cup {"absent"}, turn: BOOLEAN]

AgentSessions == {a \in Agent : agents[a].status # "absent"}
AttachedAgents == {a \in AgentSessions : agents[a].attached}
PrimaryAgent == 1

\* Agent ids are handed out in order and agent sessions are never removed.
AddAgentSession ==
    \E a \in Agent \ AgentSessions :
        /\ \A b \in Agent : b < a => b \in AgentSessions
        /\ agents' = [agents EXCEPT ![a] = [NoAgent EXCEPT !.status = "created"]]

\* Mutant: an exit is passed on as it is.
AgentStatusMapVerbatim ==
    [starting |-> "starting", ready |-> "idle", working |-> "working",
     idle |-> "idle", exited |-> "exited", disconnected |-> "disconnected",
     error |-> "failed"]

\* What agent_status makes of the AgentSession's status; other values of the
\* wire are ignored by the code.
AgentStatusMap ==
    [starting |-> "starting", ready |-> "idle", working |-> "working",
     idle |-> "idle", exited |-> "disconnected", disconnected |-> "disconnected",
     error |-> "failed"]

MarkAttached(agent) ==
    [agent EXCEPT !.attached = TRUE,
                  !.status = IF @ \in {"created", "disconnected"} THEN "connecting" ELSE @]

MarkDetached(agent) ==
    [agent EXCEPT !.attached = FALSE, !.status = "disconnected", !.turn = FALSE]

-----------------------------------------------------------------------------
(* permissions.js: what a participant may do. *)

\* The manager still has the room: manager.get(code) finds it.
Live == lifecycle \in {"active", "archived"}

Can(p, action) ==
    LET isHost   == participants[p].role = "host"
        isDriver == driverId = p
    IN  CASE action = "instruct"  -> /\ ~paused
                                     /\ mode = "open" \/ isDriver \/ isHost
          [] action = "use_agent" -> TRUE
          [] action \in {"pause", "resume", "handoff", "add_agent", "detach_agent"}
                                  -> isHost \/ isDriver
          [] action \in {"set_mode", "end", "archive"} -> isHost

-----------------------------------------------------------------------------
\* A room before create_session.
SessionInit ==
    /\ lifecycle = "none"
    /\ paused = FALSE
    /\ mode = "open"
    /\ driverId = None
    /\ defaultAgentId = None
    /\ participants = [p \in Participant |-> NoSeat]
    /\ minted = 0
    /\ agents = [a \in Agent |-> NoAgent]
    /\ instructions = 0
    /\ addressee = [i \in Instruction |-> None]
    /\ pending = {}
    /\ sentTo = [i \in Instruction |-> None]

SessionTypeOK ==
    /\ lifecycle \in {"none", "active", "archived", "ended"}
    /\ paused \in BOOLEAN
    /\ mode \in {"open", "driver"}
    /\ driverId \in Participant \cup {None}
    /\ defaultAgentId \in Agent \cup {None}
    /\ participants \in [Participant -> Seat]
    /\ minted \in 0 .. MaxParticipants
    /\ agents \in [Agent -> AgentRecord]
    /\ instructions \in 0 .. MaxInstructions
    /\ addressee \in [Instruction -> Agent \cup {None}]
    /\ pending \in SUBSET Instruction
    /\ sentTo \in [Instruction -> Agent \cup {None}]

\* What a restart restores from the stored meta (applyMeta, AgentSession.restore):
\* the people, disconnected, with their roles; the agent sessions, detached;
\* mode and lifecycle.  Everything else starts as in a new Session.
RestoreSession ==
    /\ Live
    /\ participants' = [p \in Participant |->
           IF p \in Members
           THEN [NoSeat EXCEPT !.role = participants[p].role]
           ELSE NoSeat]
    /\ agents' = [a \in Agent |->
           IF a \in AgentSessions THEN MarkDetached(agents[a]) ELSE NoAgent]
    /\ paused' = FALSE
    /\ driverId' = None
    /\ defaultAgentId' = None
    /\ pending' = {}
    /\ UNCHANGED <<lifecycle, mode, minted, instructions, addressee, sentTo>>
=============================================================================
