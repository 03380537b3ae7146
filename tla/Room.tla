-------------------------------- MODULE Room --------------------------------
(***************************************************************************)
(* One room and the session server's handlers for it (server/server.js):   *)
(* WebSockets open, drop and close; messages arrive on them; each handler  *)
(* runs to its first await without interruption.  The handler that changes *)
(* a room others use after an await is onJoin, which looks up the user and *)
(* the workspace membership in the store first: with AsyncStore its two    *)
(* halves are separate actions, as on PostgreSQL, otherwise (a synchronous *)
(* store, whose awaits never let another callback in) it is one action.    *)
(* onCreateSession awaits too, but before anybody can know the room's code.*)
(***************************************************************************)
EXTENDS Session

CONSTANTS
    Socket,        \* names for connections; a name is reused once it is free
    NoSocket,
    AsyncStore,    \* TRUE: the store answers in a later callback (PostgreSQL)
    Requests,      \* the messages that people and agents send in this instance
    AgentEvents,   \* the agent_event kinds that agents send in this instance
    MaxRestarts    \* bound: server restarts

AllAgentEvents == DOMAIN AgentStatusMap \cup {"turn_started", "turn_ended"}

AllRequests == {"join", "rejoin", "leave", "add_agent", "attach", "instruct", "pause",
                "resume", "handoff", "use_agent", "detach_agent", "set_mode", "archive",
                "end", "delete"}

ASSUME RoomConstants ==
    /\ NoSocket \notin Socket
    /\ AsyncStore \in BOOLEAN
    /\ Requests \subseteq AllRequests
    /\ AgentEvents \subseteq AllAgentEvents
    /\ MaxRestarts \in Nat

VARIABLES
    sock,        \* socket -> readyState, peer reachable?, ws._ctx, join in flight
    agentConn,   \* agentConns.get(code): agent id -> its current socket
    restarts

vars == <<session, sock, agentConn, restarts>>

FreeSocket == [ready |-> "none", peer |-> FALSE, role |-> "none", id |-> None,
               joining |-> FALSE]

SocketRecord == [ready: {"none", "open", "closing", "closed"}, peer: BOOLEAN,
                 role: {"none", "participant", "agent"},
                 id: 0 .. (MaxParticipants + MaxAgents),
                 joining: BOOLEAN]

Open(s)     == sock[s].ready = "open"
IsOpenConn(a) == agentConn[a] # NoSocket /\ Open(agentConn[a])

\* A frame can arrive from a reachable peer, also while the server is closing.
Receives(s) == sock[s].ready \in {"open", "closing"} /\ sock[s].peer

\* The shipped clients join, rejoin or attach once, on a connection of their own.
Unseated(s) == Receives(s) /\ Open(s) /\ sock[s].role = "none" /\ ~sock[s].joining

\* resolveParticipant: the room is still known and the participant still in it.
SpeaksFor(s, p) ==
    /\ Live
    /\ Receives(s)
    /\ sock[s].role = "participant"
    /\ sock[s].id = p
    /\ p \in Members

SocketsOf(p) == {s \in Socket : /\ sock[s].ready \in {"open", "closing"}
                                /\ sock[s].role = "participant"
                                /\ sock[s].id = p}

-----------------------------------------------------------------------------
(* Connections. *)

Connect(s) ==
    /\ sock[s].ready = "none"
    /\ sock' = [sock EXCEPT ![s] = [FreeSocket EXCEPT !.ready = "open", !.peer = TRUE]]
    /\ UNCHANGED <<session, agentConn, restarts>>

\* The peer vanishes: the server keeps the socket OPEN until the heartbeat
\* (or the timeout of its own closing handshake) finds out.
LosePeer(s) ==
    /\ Receives(s)
    /\ sock' = [sock EXCEPT ![s].peer = FALSE]
    /\ UNCHANGED <<session, agentConn, restarts>>

RegisterParticipant(s, p) ==
    sock' = [sock EXCEPT ![s].role = "participant", ![s].id = p]

-----------------------------------------------------------------------------
(* People. *)

\* onCreateSession: the creator takes a seat (the CLI) or not (the dashboard).
CreateSession(s, seat) ==
    /\ lifecycle = "none"
    /\ Unseated(s)
    /\ lifecycle' = "active"
    /\ AddAgentSession
    /\ IF seat
       THEN /\ AddParticipant("host")
            /\ RegisterParticipant(s, minted + 1)
       ELSE UNCHANGED <<seats, sock>>
    /\ UNCHANGED <<paused, mode, defaultAgentId, queue, agentConn, restarts>>

\* onJoin after its awaits.  Nothing is checked again: the room may have ended
\* and the socket may have closed in between.
Admit(s) ==
    /\ lifecycle' = IF lifecycle = "archived" THEN "active" ELSE lifecycle
    /\ AddParticipant(IF HasConnectedHost THEN "collaborator" ELSE "host")
    /\ sock' = [sock EXCEPT ![s] =
           IF @.ready = "closed"
           THEN FreeSocket
           ELSE [@ EXCEPT !.joining = FALSE, !.role = "participant", !.id = minted + 1]]
    /\ UNCHANGED <<paused, mode, defaultAgentId, agents, queue, agentConn, restarts>>

Join(s) ==
    /\ ~AsyncStore
    /\ Live
    /\ Unseated(s)
    /\ Admit(s)

JoinRequested(s) ==
    /\ AsyncStore
    /\ Live
    /\ Unseated(s)
    /\ sock' = [sock EXCEPT ![s].joining = TRUE]
    /\ UNCHANGED <<session, agentConn, restarts>>

JoinAdmitted(s) == sock[s].joining /\ Admit(s)

\* No valid user, or neither join key, membership nor an earlier seat.
JoinRefused(s) ==
    /\ sock[s].joining
    /\ sock' = [sock EXCEPT ![s] = IF @.ready = "closed" THEN FreeSocket
                                   ELSE [@ EXCEPT !.joining = FALSE]]
    /\ UNCHANGED <<session, agentConn, restarts>>

\* onRejoin, with the participant's resume token.
Rejoin(s, p) ==
    /\ Live
    /\ Unseated(s)
    /\ p \in Members
    /\ participants' = [participants EXCEPT ![p].connected = TRUE]
    /\ RegisterParticipant(s, p)
    /\ UNCHANGED <<lifecycle, paused, mode, defaultAgentId, driverId, minted, agents,
                   queue, agentConn, restarts>>

Leave(s, p) ==
    /\ SpeaksFor(s, p)
    /\ RemoveParticipant(p)
    /\ sock' = [sock EXCEPT ![s].role = "none", ![s].id = None]
    /\ UNCHANGED <<lifecycle, paused, mode, defaultAgentId, agents, queue, agentConn,
                   restarts>>

-----------------------------------------------------------------------------
(* Agents. *)

AddAgent(s, p) ==
    /\ SpeaksFor(s, p)
    /\ Can(p, "add_agent")
    /\ AddAgentSession
    /\ UNCHANGED <<lifecycle, paused, mode, defaultAgentId, seats, queue, sock,
                   agentConn, restarts>>

\* Mutant: only what has no addressee is flushed.
DeliverableUnaddressed(a) == {i \in pending : addressee[i] = None}

\* What flushPending hands to an agent.
Deliverable(a) == {i \in pending : addressee[i] \in {None, a}}

\* onAgentAttach, flushPending included: whoever holds the agent's token takes
\* its connection over and receives every queued instruction that is not
\* addressed to another agent.
AgentAttach(s, a) ==
    LET deliverable == Deliverable(a)
        attached    == MarkAttached(agents[a])
    IN  /\ Live
        /\ Unseated(s)
        /\ a \in AgentSessions
        /\ agentConn' = [agentConn EXCEPT ![a] = s]
        /\ sock' = [sock EXCEPT ![s].role = "agent", ![s].id = a]
        /\ pending' = pending \ deliverable
        /\ sentTo' = [i \in Instruction |-> IF i \in deliverable THEN a ELSE sentTo[i]]
        /\ agents' = [agents EXCEPT ![a] =
               IF deliverable = {} THEN attached ELSE [attached EXCEPT !.status = "working"]]
        /\ UNCHANGED <<lifecycle, paused, mode, defaultAgentId, seats, instructions,
                       addressee, restarts>>

\* onAgentEvent: from any socket that attached as the agent, current or not.
AgentEvent(s, a, kind) ==
    /\ Live
    /\ Receives(s)
    /\ sock[s].role = "agent"
    /\ sock[s].id = a
    /\ agents' = [agents EXCEPT ![a] =
           CASE kind = "turn_started" -> [@ EXCEPT !.turn = TRUE]
             [] kind = "turn_ended"   -> [@ EXCEPT !.turn = FALSE]
             [] OTHER                 -> [@ EXCEPT !.status = AgentStatusMap[kind]]]
    /\ UNCHANGED <<lifecycle, paused, mode, defaultAgentId, seats, queue, sock,
                   agentConn, restarts>>

DetachAgent(s, p, a) ==
    /\ SpeaksFor(s, p)
    /\ Can(p, "detach_agent")
    /\ a \in AgentSessions
    /\ sock' = IF agentConn[a] = NoSocket THEN sock
               ELSE [sock EXCEPT ![agentConn[a]].ready = "closing"]
    /\ agents' = [agents EXCEPT ![a] = IF @.attached THEN MarkDetached(@) ELSE @]
    /\ UNCHANGED <<lifecycle, paused, mode, defaultAgentId, seats, queue, agentConn,
                   restarts>>

-----------------------------------------------------------------------------
(* Instructions. *)

\* The agent an instruction without an address goes to.  No element: the sender
\* is asked to pick one.
DefaultTarget(p) ==
    LET use == participants[p].defaultAgentId
    IN  CASE Cardinality(AttachedAgents) = 1 -> AttachedAgents
          [] Cardinality(AttachedAgents) > 1 ->
                 IF use \in AttachedAgents THEN {use} ELSE {defaultAgentId} \cap AttachedAgents
          [] OTHER -> IF Cardinality(AgentSessions) = 1 THEN {PrimaryAgent} ELSE {None}

\* Mutant: a full queue makes room by dropping its oldest instruction.
EnqueueDroppingOldest(i) ==
    IF Cardinality(pending) >= PendingLimit
    THEN {j \in pending : \E k \in pending : k < j} \cup {i}
    ELSE pending \cup {i}

\* Dropped, with an error event, when the queue is full.
Enqueue(i) == IF Cardinality(pending) >= PendingLimit THEN pending ELSE pending \cup {i}

\* onInstruction once the target is known: sent if its connection is open,
\* queued otherwise.
Route(target) ==
    LET i == instructions + 1 IN
    /\ instructions < MaxInstructions
    /\ instructions' = i
    /\ addressee' = [addressee EXCEPT ![i] = target]
    /\ IF target # None /\ IsOpenConn(target)
       THEN /\ sentTo' = [sentTo EXCEPT ![i] = target]
            /\ agents' = [agents EXCEPT ![target].status = "working"]
            /\ UNCHANGED pending
       ELSE pending' = Enqueue(i) /\ UNCHANGED <<sentTo, agents>>

Instruct(s, p) ==
    /\ SpeaksFor(s, p)
    /\ Can(p, "instruct")
    /\ \E target \in DefaultTarget(p) : Route(target)
    /\ UNCHANGED <<lifecycle, paused, mode, defaultAgentId, seats, sock, agentConn, restarts>>

InstructAgent(s, p, a) ==
    /\ SpeaksFor(s, p)
    /\ Can(p, "instruct")
    /\ a \in AgentSessions
    /\ participants' = [participants EXCEPT ![p].defaultAgentId = a]
    /\ Route(a)
    /\ UNCHANGED <<lifecycle, paused, mode, defaultAgentId, driverId, minted, sock,
                   agentConn, restarts>>

-----------------------------------------------------------------------------
(* Control. *)

\* pause and resume also tell the agent hosts, which hold their own queues.
Pause(s, p) ==
    /\ SpeaksFor(s, p)
    /\ Can(p, "pause")
    /\ paused' = TRUE
    /\ UNCHANGED <<lifecycle, mode, defaultAgentId, seats, agents, queue, sock, agentConn,
                   restarts>>

Resume(s, p) ==
    /\ SpeaksFor(s, p)
    /\ Can(p, "resume")
    /\ paused' = FALSE
    /\ UNCHANGED <<lifecycle, mode, defaultAgentId, seats, agents, queue, sock, agentConn,
                   restarts>>

HandoffToHuman(s, p, to) ==
    /\ SpeaksFor(s, p)
    /\ Can(p, "handoff")
    /\ to \in Members
    /\ driverId' = to
    /\ UNCHANGED <<lifecycle, paused, mode, defaultAgentId, participants, minted, agents,
                   queue, sock, agentConn, restarts>>

\* The brief is an instruction of its own: it has no event seq and is never queued.
HandoffToAgent(s, p, a) ==
    /\ SpeaksFor(s, p)
    /\ Can(p, "handoff")
    /\ a \in AgentSessions
    /\ defaultAgentId' = a
    /\ agents' = IF agentConn[a] = NoSocket THEN agents
                 ELSE [agents EXCEPT ![a].status = "working"]
    /\ UNCHANGED <<lifecycle, paused, mode, seats, queue, sock, agentConn, restarts>>

UseAgent(s, p, a) ==
    /\ SpeaksFor(s, p)
    /\ Can(p, "use_agent")
    /\ a \in AgentSessions
    /\ participants' = [participants EXCEPT ![p].defaultAgentId = a]
    /\ UNCHANGED <<lifecycle, paused, mode, defaultAgentId, driverId, minted, agents,
                   queue, sock, agentConn, restarts>>

SetMode(s, p, m) ==
    /\ SpeaksFor(s, p)
    /\ Can(p, "set_mode")
    /\ mode' = m
    /\ UNCHANGED <<lifecycle, paused, defaultAgentId, seats, agents, queue, sock,
                   agentConn, restarts>>

Archive(s, p) ==
    /\ SpeaksFor(s, p)
    /\ Can(p, "archive")
    /\ lifecycle' = "archived"
    /\ UNCHANGED <<paused, mode, defaultAgentId, seats, agents, queue, sock, agentConn,
                   restarts>>

\* manager.end and the closing of every connection of the room that is still in
\* its two maps.  The map of agent connections is never read again once the
\* manager has dropped the room.
InRoom(s) == sock[s].role = "participant" \/ \E a \in Agent : agentConn[a] = s

CloseRoom ==
    /\ lifecycle' = "ended"
    /\ sock' = [s \in Socket |->
           IF sock[s].ready = "open" /\ InRoom(s)
           THEN [sock[s] EXCEPT !.ready = "closing"] ELSE sock[s]]
    /\ agentConn' = [a \in Agent |-> NoSocket]
    /\ UNCHANGED <<paused, mode, defaultAgentId, seats, agents, queue, restarts>>

End(s, p) ==
    /\ SpeaksFor(s, p)
    /\ Can(p, "end")
    /\ CloseRoom

\* DELETE /api/sessions/:code by loopback or with the admin token.
DeleteRoom == Live /\ CloseRoom

-----------------------------------------------------------------------------
(* The end of a connection, and of the server process. *)

\* Mutants: closing a connection forgets the participant, unless it is the host;
\* the agent's attachment; its entry in agentConns.
SeatsAfterCloseHostsOnly(s) ==
    IF Live /\ sock[s].role = "participant" /\ participants[sock[s].id].role = "host"
    THEN [participants EXCEPT ![sock[s].id].connected = FALSE]
    ELSE participants

AgentsAfterCloseUnchanged(s) == agents

ConnsAfterCloseUnchanged(s) == agentConn

\* handleClose, part by part: the seat of the participant behind the socket, the
\* attachment of the agent behind it, and the entry of agentConns that still
\* names it.
SeatsAfterClose(s) ==
    IF Live /\ sock[s].role = "participant" /\ sock[s].id \in Members
    THEN [participants EXCEPT ![sock[s].id].connected = FALSE]
    ELSE participants

AgentsAfterClose(s) ==
    IF Live /\ sock[s].role = "agent" /\ agents[sock[s].id].attached
    THEN [agents EXCEPT ![sock[s].id] = MarkDetached(@)]
    ELSE agents

ConnsAfterClose(s) ==
    [a \in Agent |-> IF Live /\ agentConn[a] = s THEN NoSocket ELSE agentConn[a]]

\* The peer closed, the heartbeat terminated the connection, or the server's own
\* close() completed.  A join that is still waiting for the store goes on.
HandleClose(s) ==
    /\ sock[s].ready \in {"open", "closing"}
    /\ participants' = SeatsAfterClose(s)
    /\ agents' = AgentsAfterClose(s)
    /\ agentConn' = ConnsAfterClose(s)
    /\ sock' = [sock EXCEPT ![s] =
           IF @.joining THEN [FreeSocket EXCEPT !.ready = "closed", !.joining = TRUE]
           ELSE FreeSocket]
    /\ UNCHANGED <<lifecycle, paused, mode, defaultAgentId, driverId, minted, queue,
                   restarts>>

\* The process is shut down, which flushes the store's writes, and a new one
\* restores the room.  A crash is the same for a synchronous store.
Restart ==
    /\ restarts < MaxRestarts
    /\ restarts' = restarts + 1
    /\ RestoreSession
    /\ sock' = [s \in Socket |-> FreeSocket]
    /\ agentConn' = [a \in Agent |-> NoSocket]

-----------------------------------------------------------------------------
Init ==
    /\ SessionInit
    /\ sock = [s \in Socket |-> FreeSocket]
    /\ agentConn = [a \in Agent |-> NoSocket]
    /\ restarts = 0

Connection(s) == Connect(s) \/ LosePeer(s) \/ HandleClose(s)

Entering(s) ==
    \/ \E seat \in BOOLEAN : CreateSession(s, seat)
    \/ "join" \in Requests /\ (Join(s) \/ JoinRequested(s))
    \/ JoinAdmitted(s)
    \/ JoinRefused(s)
    \/ "rejoin" \in Requests /\ \E p \in Participant : Rejoin(s, p)

AgentMessage(s, a) ==
    \/ "attach" \in Requests /\ AgentAttach(s, a)
    \/ \E kind \in AgentEvents : AgentEvent(s, a, kind)

ParticipantMessage(s, p) ==
    \/ "leave" \in Requests /\ Leave(s, p)
    \/ "add_agent" \in Requests /\ AddAgent(s, p)
    \/ "instruct" \in Requests /\ (Instruct(s, p) \/ \E a \in Agent : InstructAgent(s, p, a))
    \/ "pause" \in Requests /\ Pause(s, p)
    \/ "resume" \in Requests /\ Resume(s, p)
    \/ "handoff" \in Requests /\ \/ \E to \in Participant : HandoffToHuman(s, p, to)
                                 \/ \E a \in Agent : HandoffToAgent(s, p, a)
    \/ "use_agent" \in Requests /\ \E a \in Agent : UseAgent(s, p, a)
    \/ "detach_agent" \in Requests /\ \E a \in Agent : DetachAgent(s, p, a)
    \/ "set_mode" \in Requests /\ \E m \in {"open", "driver"} : SetMode(s, p, m)
    \/ "archive" \in Requests /\ Archive(s, p)
    \/ "end" \in Requests /\ End(s, p)

Next ==
    \/ \E s \in Socket :
          \/ Connection(s)
          \/ Entering(s)
          \/ \E a \in Agent : AgentMessage(s, a)
          \/ \E p \in Participant : ParticipantMessage(s, p)
    \/ "delete" \in Requests /\ DeleteRoom
    \/ Restart

Spec == Init /\ [][Next]_vars

\* The heartbeat terminates a connection whose peer stopped answering, and the
\* WebSocket library completes or abandons every closing handshake it began.
Reap(s) ==
    /\ sock[s].ready = "closing" \/ ~sock[s].peer
    /\ HandleClose(s)

FairSpec == Spec /\ \A s \in Socket : WF_vars(Reap(s))

-----------------------------------------------------------------------------
(* Properties. *)

\* Every variable has its type (Session, AgentSession, ws._ctx).
TypeOK ==
    /\ SessionTypeOK
    /\ sock \in [Socket -> SocketRecord]
    /\ agentConn \in [Agent -> Socket \cup {NoSocket}]
    /\ restarts \in 0 .. MaxRestarts

\* The driver seat is held by somebody who is in the room, never by somebody who
\* left: addParticipant, removeParticipant and handoff agree on it.
DriverIsMember == driverId # None => driverId \in Members

\* A room with people in it has a driver: whoever leaves with the seat passes it
\* on, and the first to enter an empty room takes it.
SomeoneDrives == lifecycle # "none" /\ Members # {} => driverId # None

\* The agent an instruction would be sent to is registered under its own id, by a
\* socket that has not closed: no entry of agentConns is left behind.
ConnectionsAreCurrent ==
    \A a \in Agent : agentConn[a] # NoSocket =>
        LET c == sock[agentConn[a]]
        IN  c.ready \in {"open", "closing"} /\ c.role = "agent" /\ c.id = a

\* An agent counted as attached can be reached through a connection the server
\* has not begun to close.
AttachedMeansOpen ==
    \A a \in Agent : Live /\ agents[a].attached => IsOpenConn(a)

\* An instruction waits for an agent only while that agent has no open connection:
\* onInstruction queues and flushPending delivers under the same condition.
QueuedMeansUnreachable ==
    \A i \in pending : Live /\ addressee[i] # None => ~IsOpenConn(addressee[i])

\* No instruction for an agent overtakes an earlier one for the same agent that
\* is still queued, whether sent directly or flushed on attach.
NoOvertaking ==
    \A i, j \in Instruction :
        i < j /\ addressee[i] = addressee[j] /\ addressee[i] # None /\ sentTo[j] # None
            => i \notin pending

\* A queued instruction leaves the queue only by being sent, or with a restart,
\* which drops the queue; an instruction that was sent is never sent again, to the
\* same agent or to another.
QueueOnlyDrainsBySending ==
    [][ /\ \A i \in pending : i \notin pending' => sentTo'[i] # None \/ restarts' # restarts
        /\ \A i \in Instruction : sentTo[i] # None => sentTo'[i] = sentTo[i]
        /\ \A i \in Instruction : sentTo'[i] # None => i \notin pending' ]_vars

\* Someone shown as connected has a connection: presence does not outlive the
\* last socket of a participant.
ConnectedMeansSocket ==
    \A p \in Members : Live /\ participants[p].connected => SocketsOf(p) # {}

\* Somebody whose connections have all lost their peer is not shown as connected
\* for ever: the heartbeat finds out, or they come back.
LostPeersStepAway ==
    \A p \in Participant :
        Live /\ participants[p].connected ~>
            \/ ~Live
            \/ ~participants[p].connected
            \/ \E s \in SocketsOf(p) : sock[s].peer

\* Without restarts, a room implements the abstract driver seat.
Seat0 == INSTANCE DriverSeat WITH
    Person <- Participant, Nobody <- None, members <- Members, driver <- driverId

ImplementsDriverSeat == Seat0!Spec
=============================================================================
