----------------------------- MODULE RoomProofs -----------------------------
(***************************************************************************)
(* Proofs about a room, for every number of sockets, participants, agents  *)
(* and instructions, and for both kinds of store: its type, the driver     *)
(* seat, who is in the room and who is shown as connected, and its end.    *)
(***************************************************************************)
EXTENDS Room, FiniteSetTheorems, TLAPS

\* Types of the sets the state is built from.
LEMMA Constants ==
    /\ MaxParticipants \in Nat
    /\ MaxAgents \in Nat
    /\ MaxInstructions \in Nat
    /\ MaxRestarts \in Nat
    /\ PendingLimit \in Nat
    /\ NoSocket \notin Socket
    /\ AsyncStore \in BOOLEAN
    /\ AgentEvents \subseteq AllAgentEvents
BY SessionBounds, RoomConstants

\* The records of the state under the updates that the handlers make.
LEMMA SocketTypes ==
    /\ FreeSocket \in SocketRecord
    /\ [FreeSocket EXCEPT !.ready = "open", !.peer = TRUE] \in SocketRecord
    /\ [FreeSocket EXCEPT !.ready = "closed", !.joining = TRUE] \in SocketRecord
    /\ \A c \in SocketRecord :
          /\ [c EXCEPT !.peer = FALSE] \in SocketRecord
          /\ [c EXCEPT !.ready = "closing"] \in SocketRecord
          /\ \A b \in BOOLEAN : [c EXCEPT !.joining = b] \in SocketRecord
          /\ [c EXCEPT !.role = "none", !.id = None] \in SocketRecord
          /\ \A i \in Agent : [c EXCEPT !.role = "agent", !.id = i] \in SocketRecord
          /\ \A i \in Participant :
                /\ [c EXCEPT !.role = "participant", !.id = i] \in SocketRecord
                /\ [c EXCEPT !.joining = FALSE, !.role = "participant", !.id = i]
                       \in SocketRecord
<1> DEFINE Id == 0 .. (MaxParticipants + MaxAgents)
<1>1. None \in Id /\ Agent \subseteq Id /\ Participant \subseteq Id
  BY Constants DEF Agent, Participant, None
<1> HIDE DEF Id
<1>2. SocketRecord = [ready: {"none", "open", "closing", "closed"}, peer: BOOLEAN,
                      role: {"none", "participant", "agent"}, id: Id, joining: BOOLEAN]
  BY DEF SocketRecord, Id
<1>3. /\ FreeSocket \in SocketRecord
      /\ [FreeSocket EXCEPT !.ready = "open", !.peer = TRUE] \in SocketRecord
      /\ [FreeSocket EXCEPT !.ready = "closed", !.joining = TRUE] \in SocketRecord
  BY <1>1, <1>2 DEF FreeSocket
<1>4. ASSUME NEW c \in SocketRecord
      PROVE  /\ [c EXCEPT !.peer = FALSE] \in SocketRecord
             /\ [c EXCEPT !.ready = "closing"] \in SocketRecord
             /\ \A b \in BOOLEAN : [c EXCEPT !.joining = b] \in SocketRecord
             /\ [c EXCEPT !.role = "none", !.id = None] \in SocketRecord
  BY <1>1, <1>2
<1>5. ASSUME NEW c \in SocketRecord, NEW i \in Id
      PROVE  /\ [c EXCEPT !.role = "agent", !.id = i] \in SocketRecord
             /\ [c EXCEPT !.role = "participant", !.id = i] \in SocketRecord
             /\ [c EXCEPT !.joining = FALSE, !.role = "participant", !.id = i] \in SocketRecord
  BY <1>2
<1> QED
  BY <1>1, <1>3, <1>4, <1>5

LEMMA SeatTypes ==
    /\ NoSeat \in Seat
    /\ \A role \in {"host", "collaborator"} :
          [role |-> role, connected |-> TRUE, defaultAgentId |-> None] \in Seat
    /\ \A r \in Seat :
          /\ \A b \in BOOLEAN : [r EXCEPT !.connected = b] \in Seat
          /\ \A a \in Agent : [r EXCEPT !.defaultAgentId = a] \in Seat
          /\ [NoSeat EXCEPT !.role = r.role] \in Seat
BY DEF NoSeat, Seat

LEMMA AgentTypes ==
    /\ NoAgent \in AgentRecord
    /\ [NoAgent EXCEPT !.status = "created"] \in AgentRecord
    /\ \A r \in AgentRecord :
          /\ MarkDetached(r) \in AgentRecord
          /\ MarkAttached(r) \in AgentRecord
          /\ [MarkAttached(r) EXCEPT !.status = "working"] \in AgentRecord
          /\ \A status \in AgentStatus : [r EXCEPT !.status = status] \in AgentRecord
          /\ \A b \in BOOLEAN : [r EXCEPT !.turn = b] \in AgentRecord
<1>1. NoAgent \in AgentRecord /\ [NoAgent EXCEPT !.status = "created"] \in AgentRecord
  BY DEF NoAgent, AgentRecord, AgentStatus
<1>2. ASSUME NEW r \in AgentRecord PROVE MarkDetached(r) \in AgentRecord
  BY DEF MarkDetached, AgentRecord, AgentStatus
<1>3. ASSUME NEW r \in AgentRecord
      PROVE  /\ MarkAttached(r) \in AgentRecord
             /\ [MarkAttached(r) EXCEPT !.status = "working"] \in AgentRecord
  BY DEF MarkAttached, AgentRecord, AgentStatus
<1>4. ASSUME NEW r \in AgentRecord
      PROVE  /\ \A status \in AgentStatus : [r EXCEPT !.status = status] \in AgentRecord
             /\ \A b \in BOOLEAN : [r EXCEPT !.turn = b] \in AgentRecord
  BY DEF AgentRecord
<1> QED
  BY <1>1, <1>2, <1>3, <1>4

\* A room starts with every variable of its type.
LEMMA InitType == Init => TypeOK
<1> SUFFICES ASSUME Init PROVE TypeOK
  OBVIOUS
<1>1. /\ minted \in 0 .. MaxParticipants
      /\ instructions \in 0 .. MaxInstructions
      /\ restarts \in 0 .. MaxRestarts
  BY Constants DEF Init, SessionInit
<1>2. participants \in [Participant -> Seat] /\ agents \in [Agent -> AgentRecord]
  BY SeatTypes, AgentTypes DEF Init, SessionInit
<1>3. /\ lifecycle \in {"none", "active", "archived", "ended"}
      /\ paused \in BOOLEAN
      /\ mode \in {"open", "driver"}
      /\ driverId \in Participant \cup {None}
      /\ defaultAgentId \in Agent \cup {None}
      /\ addressee \in [Instruction -> Agent \cup {None}]
      /\ pending \in SUBSET Instruction
      /\ sentTo \in [Instruction -> Agent \cup {None}]
  BY DEF Init, SessionInit
<1>4. sock \in [Socket -> SocketRecord] /\ agentConn \in [Agent -> Socket \cup {NoSocket}]
  BY SocketTypes DEF Init
<1> QED
  BY <1>1, <1>2, <1>3, <1>4 DEF TypeOK, SessionTypeOK

\* An instruction goes to an agent or waits for any.
LEMMA TargetTypes ==
    ASSUME NEW p \in Participant
    PROVE  DefaultTarget(p) \subseteq Agent \cup {None}
<1>1. ASSUME Cardinality(AgentSessions) = 1 PROVE PrimaryAgent \in Agent
  <2>1. ASSUME AgentSessions = {} PROVE FALSE
    <3>1. Cardinality(AgentSessions) = Cardinality({})
      BY <2>1
    <3> QED
      BY <3>1, <1>1, FS_EmptySet
  <2>2. PICK a \in Agent : TRUE
    BY <2>1 DEF AgentSessions
  <2> QED
    BY <2>2, Constants DEF PrimaryAgent, Agent
<1> QED
  BY <1>1 DEF DefaultTarget, AttachedAgents, AgentSessions

-----------------------------------------------------------------------------
\* Every step keeps every variable in its type.
LEMMA NextType == TypeOK /\ [Next]_vars => TypeOK'
<1> SUFFICES ASSUME TypeOK, [Next]_vars PROVE TypeOK'
  OBVIOUS
<1> USE DEF TypeOK, SessionTypeOK, session, seats, queue
<1>1. ASSUME NEW s \in Socket, Connect(s) PROVE TypeOK'
  BY <1>1, SocketTypes DEF Connect
<1>2. ASSUME NEW s \in Socket, LosePeer(s) PROVE TypeOK'
  BY <1>2, SocketTypes DEF LosePeer
<1>3. ASSUME NEW s \in Socket, HandleClose(s) PROVE TypeOK'
  <2>1. sock' \in [Socket -> SocketRecord]
    BY <1>3, SocketTypes DEF HandleClose
  <2>2. participants' \in [Participant -> Seat]
    BY <1>3, SeatTypes DEF HandleClose, SeatsAfterClose, Members
  <2>3. agents' \in [Agent -> AgentRecord]
    BY <1>3, AgentTypes DEF HandleClose, AgentsAfterClose
  <2>4. agentConn' \in [Agent -> Socket \cup {NoSocket}]
    BY <1>3 DEF HandleClose, ConnsAfterClose
  <2> QED
    BY <1>3, <2>1, <2>2, <2>3, <2>4 DEF HandleClose
<1>4. ASSUME NEW s \in Socket, NEW seat \in BOOLEAN, CreateSession(s, seat) PROVE TypeOK'
  <2>1. agents' \in [Agent -> AgentRecord]
    BY <1>4, AgentTypes DEF CreateSession, AddAgentSession
  <2>2. CASE seat
    <3>1. minted + 1 \in Participant /\ minted' = minted + 1
      BY <1>4, <2>2, Constants DEF CreateSession, AddParticipant, Participant
    <3>2. /\ participants' \in [Participant -> Seat]
          /\ driverId' \in Participant \cup {None}
          /\ minted' \in 0 .. MaxParticipants
      BY <1>4, <2>2, <3>1, SeatTypes DEF CreateSession, AddParticipant, Participant
    <3>3. sock' \in [Socket -> SocketRecord]
      <4>1. sock' = [sock EXCEPT ![s].role = "participant", ![s].id = minted + 1]
        BY <1>4, <2>2 DEF CreateSession, RegisterParticipant
      <4>2. [sock[s] EXCEPT !.role = "participant", !.id = minted + 1] \in SocketRecord
        BY <3>1, SocketTypes
      <4> QED
        BY <4>1, <4>2
    <3> QED
      BY <1>4, <2>1, <3>2, <3>3 DEF CreateSession
  <2>3. CASE ~seat
    BY <1>4, <2>1, <2>3 DEF CreateSession
  <2> QED
    BY <2>2, <2>3
<1>5. ASSUME NEW s \in Socket, Admit(s) PROVE TypeOK'
  <2>1. minted + 1 \in Participant /\ minted' = minted + 1
    BY <1>5, Constants DEF Admit, AddParticipant, Participant
  <2>2. /\ driverId' \in Participant \cup {None}
        /\ minted' \in 0 .. MaxParticipants
    BY <1>5, <2>1 DEF Admit, AddParticipant, Participant
  <2> DEFINE role == IF HasConnectedHost THEN "collaborator" ELSE "host"
  <2>4. [role |-> role, connected |-> TRUE, defaultAgentId |-> None] \in Seat
    BY SeatTypes
  <2>5. participants' \in [Participant -> Seat]
    BY <1>5, <2>1, <2>4 DEF Admit, AddParticipant
  <2>3. sock' \in [Socket -> SocketRecord]
    BY <1>5, <2>1, SocketTypes DEF Admit
  <2> QED
    BY <1>5, <2>2, <2>3, <2>5 DEF Admit
<1>6. ASSUME NEW s \in Socket, JoinRequested(s) PROVE TypeOK'
  BY <1>6, SocketTypes DEF JoinRequested
<1>7. ASSUME NEW s \in Socket, JoinRefused(s) PROVE TypeOK'
  BY <1>7, SocketTypes DEF JoinRefused
<1>8. ASSUME NEW s \in Socket, NEW p \in Participant, Rejoin(s, p) PROVE TypeOK'
  BY <1>8, SocketTypes, SeatTypes DEF Rejoin, RegisterParticipant
<1>9. ASSUME NEW s \in Socket, NEW a \in Agent, AgentAttach(s, a) PROVE TypeOK'
  <2>1. sock' \in [Socket -> SocketRecord]
    BY <1>9, SocketTypes DEF AgentAttach
  <2>2. agents' \in [Agent -> AgentRecord]
    BY <1>9, AgentTypes DEF AgentAttach
  <2>3. sentTo' \in [Instruction -> Agent \cup {None}]
    BY <1>9 DEF AgentAttach
  <2> QED
    BY <1>9, <2>1, <2>2, <2>3 DEF AgentAttach
<1>10. ASSUME NEW s \in Socket, NEW a \in Agent, NEW kind \in AgentEvents,
              AgentEvent(s, a, kind)
       PROVE  TypeOK'
  <2>1. CASE kind \in {"turn_started", "turn_ended"}
    BY <1>10, <2>1, AgentTypes DEF AgentEvent
  <2>2. CASE kind \notin {"turn_started", "turn_ended"}
    <3>1. kind \in DOMAIN AgentStatusMap
      BY <2>2, Constants DEF AllAgentEvents
    <3>2. AgentStatusMap[kind] \in AgentStatus
      BY <3>1 DEF AgentStatusMap, AgentStatus
    <3> QED
      BY <1>10, <2>2, <3>2, AgentTypes DEF AgentEvent
  <2> QED
    BY <2>1, <2>2
<1>11. ASSUME NEW s \in Socket, NEW p \in Participant, Leave(s, p) PROVE TypeOK'
  <2>1. /\ participants' \in [Participant -> Seat]
        /\ minted' = minted
    BY <1>11, SeatTypes DEF Leave, RemoveParticipant
  <2>2. driverId' \in Participant \cup {None}
    BY <1>11 DEF Leave, RemoveParticipant, FirstTakesSeat, Members
  <2>3. sock' \in [Socket -> SocketRecord]
    BY <1>11, SocketTypes DEF Leave
  <2> QED
    BY <1>11, <2>1, <2>2, <2>3 DEF Leave
<1>12. ASSUME NEW s \in Socket, NEW p \in Participant, AddAgent(s, p) PROVE TypeOK'
  BY <1>12, AgentTypes DEF AddAgent, AddAgentSession
<1>13. ASSUME NEW target \in Agent \cup {None}, Route(target)
       PROVE  /\ instructions' \in 0 .. MaxInstructions
              /\ addressee' \in [Instruction -> Agent \cup {None}]
              /\ pending' \in SUBSET Instruction
              /\ sentTo' \in [Instruction -> Agent \cup {None}]
              /\ agents' \in [Agent -> AgentRecord]
  <2>1. instructions + 1 \in Instruction /\ instructions + 1 \in 0 .. MaxInstructions
    BY <1>13, Constants DEF Route, Instruction
  <2>2. "working" \in AgentStatus
    BY DEF AgentStatus
  <2>3. agents' \in [Agent -> AgentRecord]
    <3>1. CASE target # None /\ IsOpenConn(target)
      <4>1. [agents[target] EXCEPT !.status = "working"] \in AgentRecord
        BY <2>2, <3>1, AgentTypes DEF None
      <4> QED
        BY <1>13, <3>1, <4>1 DEF Route
    <3>2. CASE ~(target # None /\ IsOpenConn(target))
      BY <1>13, <3>2 DEF Route
    <3> QED
      BY <3>1, <3>2
  <2>4. /\ addressee' \in [Instruction -> Agent \cup {None}]
        /\ sentTo' \in [Instruction -> Agent \cup {None}]
    BY <1>13, <2>1 DEF Route
  <2>5. pending' \in SUBSET Instruction
    BY <1>13, <2>1 DEF Route, Enqueue
  <2> QED
    BY <1>13, <2>1, <2>3, <2>4, <2>5 DEF Route
<1>14. ASSUME NEW s \in Socket, NEW p \in Participant, Instruct(s, p) PROVE TypeOK'
  BY <1>13, <1>14, TargetTypes DEF Instruct
<1>15. ASSUME NEW s \in Socket, NEW p \in Participant, NEW a \in Agent, InstructAgent(s, p, a)
       PROVE  TypeOK'
  <2>1. participants' \in [Participant -> Seat]
    BY <1>15, SeatTypes DEF InstructAgent
  <2> QED
    BY <1>13, <1>15, <2>1 DEF InstructAgent
<1>16. ASSUME NEW s \in Socket, NEW p \in Participant, Pause(s, p) \/ Resume(s, p) PROVE TypeOK'
  BY <1>16 DEF Pause, Resume
<1>17. ASSUME NEW s \in Socket, NEW p \in Participant, NEW to \in Participant,
              HandoffToHuman(s, p, to)
       PROVE  TypeOK'
  BY <1>17 DEF HandoffToHuman
<1>18. ASSUME NEW s \in Socket, NEW p \in Participant, NEW a \in Agent, HandoffToAgent(s, p, a)
       PROVE  TypeOK'
  BY <1>18, AgentTypes DEF HandoffToAgent, AgentStatus
<1>19. ASSUME NEW s \in Socket, NEW p \in Participant, NEW a \in Agent, UseAgent(s, p, a)
       PROVE  TypeOK'
  BY <1>19, SeatTypes DEF UseAgent
<1>20. ASSUME NEW s \in Socket, NEW p \in Participant, NEW a \in Agent, DetachAgent(s, p, a)
       PROVE  TypeOK'
  <2>1. sock' \in [Socket -> SocketRecord]
    BY <1>20, SocketTypes DEF DetachAgent
  <2> QED
    BY <1>20, <2>1, AgentTypes DEF DetachAgent
<1>21. ASSUME NEW s \in Socket, NEW p \in Participant, NEW m \in {"open", "driver"},
              SetMode(s, p, m)
       PROVE  TypeOK'
  BY <1>21 DEF SetMode
<1>22. ASSUME NEW s \in Socket, NEW p \in Participant, Archive(s, p) PROVE TypeOK'
  BY <1>22 DEF Archive
<1>23. ASSUME CloseRoom PROVE TypeOK'
  BY <1>23, SocketTypes DEF CloseRoom
<1>24. ASSUME Restart PROVE TypeOK'
  <2>1. /\ sock' \in [Socket -> SocketRecord]
        /\ agentConn' \in [Agent -> Socket \cup {NoSocket}]
    BY <1>24, SocketTypes DEF Restart
  <2>3. restarts' \in 0 .. MaxRestarts
    BY <1>24, Constants DEF Restart
  <2>2. /\ participants' \in [Participant -> Seat]
        /\ agents' \in [Agent -> AgentRecord]
    BY <1>24, SeatTypes, AgentTypes DEF Restart, RestoreSession
  <2> QED
    BY <1>24, <2>1, <2>2, <2>3 DEF Restart, RestoreSession, Instruction
<1>25. ASSUME UNCHANGED vars PROVE TypeOK'
  BY <1>25 DEF vars
<1> QED
  BY <1>1, <1>2, <1>3, <1>4, <1>5, <1>6, <1>7, <1>8, <1>9, <1>10, <1>11, <1>12, <1>14,
     <1>15, <1>16, <1>17, <1>18, <1>19, <1>20, <1>21, <1>22, <1>23, <1>24, <1>25
  DEF Next, Connection, Entering, AgentMessage, ParticipantMessage, Join, JoinAdmitted, End,
      DeleteRoom

\* Type correctness: every variable always has its type.
THEOREM TypeCorrect == Spec => []TypeOK
BY InitType, NextType, PTL DEF Spec
-----------------------------------------------------------------------------
(* Before create_session nothing has happened but connections. *)

Unborn ==
    lifecycle = "none" =>
        /\ participants = [p \in Participant |-> NoSeat]
        /\ driverId = None
        /\ agents = [a \in Agent |-> NoAgent]
        /\ agentConn = [a \in Agent |-> NoSocket]
        /\ pending = {}
        /\ \A s \in Socket : ~sock[s].joining /\ sock[s].role = "none"

LEMMA InitUnborn == Init => Unborn
BY DEF Init, SessionInit, Unborn, FreeSocket

\* Until the room exists, messages other than create_session find nothing.
LEMMA OnlyConnections ==
    ASSUME Unborn, [Next]_vars, lifecycle = "none"
    PROVE  \/ \E s \in Socket : \/ Connect(s) \/ LosePeer(s) \/ HandleClose(s)
                                \/ \E seat \in BOOLEAN : CreateSession(s, seat)
           \/ UNCHANGED vars
<1>1. ~Live
  BY DEF Live
<1>2. ASSUME NEW s \in Socket, NEW p \in Participant, ParticipantMessage(s, p) PROVE FALSE
  BY <1>1, <1>2 DEF ParticipantMessage, SpeaksFor, Leave, AddAgent, Instruct, InstructAgent,
     Pause, Resume, HandoffToHuman, HandoffToAgent, UseAgent, DetachAgent, SetMode, Archive, End
<1>3. ASSUME NEW s \in Socket, NEW a \in Agent, AgentMessage(s, a) PROVE FALSE
  BY <1>1, <1>3 DEF AgentMessage, AgentAttach, AgentEvent
<1>4. ASSUME NEW s \in Socket, Join(s) \/ JoinRequested(s) \/ JoinAdmitted(s) \/ JoinRefused(s)
      PROVE  FALSE
  BY <1>1, <1>4 DEF Join, JoinRequested, JoinAdmitted, JoinRefused, Unborn
<1>5. ASSUME NEW s \in Socket, NEW p \in Participant, Rejoin(s, p) PROVE FALSE
  BY <1>1, <1>5 DEF Rejoin
<1>6. ~DeleteRoom /\ ~Restart
  BY <1>1 DEF DeleteRoom, Restart, RestoreSession
<1> QED
  BY <1>2, <1>3, <1>4, <1>5, <1>6 DEF Next, Connection, Entering

\* A room that exists never becomes unborn again.
LEMMA StaysBorn ==
    ASSUME [Next]_vars, lifecycle # "none"
    PROVE  lifecycle' # "none"
<1> USE DEF session, seats, queue
<1>1. ASSUME NEW s \in Socket, NEW p \in Participant, ParticipantMessage(s, p)
      PROVE  lifecycle' # "none"
  BY <1>1 DEF ParticipantMessage, Leave, AddAgent, Instruct, InstructAgent, Pause, Resume,
     HandoffToHuman, HandoffToAgent, UseAgent, DetachAgent, SetMode, Archive, End, CloseRoom
<1>2. ASSUME NEW s \in Socket, NEW a \in Agent, AgentMessage(s, a) PROVE lifecycle' # "none"
  BY <1>2 DEF AgentMessage, AgentAttach, AgentEvent
<1>3. ASSUME NEW s \in Socket, Entering(s) PROVE lifecycle' # "none"
  BY <1>3 DEF Entering, CreateSession, Join, JoinRequested, JoinAdmitted, JoinRefused, Admit, Rejoin
<1>4. ASSUME NEW s \in Socket, Connection(s) PROVE lifecycle' # "none"
  BY <1>4 DEF Connection, Connect, LosePeer, HandleClose
<1>5. ASSUME DeleteRoom \/ Restart PROVE lifecycle' # "none"
  BY <1>5 DEF DeleteRoom, CloseRoom, Restart, RestoreSession
<1> QED
  BY <1>1, <1>2, <1>3, <1>4, <1>5 DEF Next, vars

LEMMA NextUnborn == TypeOK /\ Unborn /\ [Next]_vars => Unborn'
<1> SUFFICES ASSUME TypeOK, Unborn, [Next]_vars, lifecycle = "none", lifecycle' = "none"
             PROVE  Unborn'
  BY StaysBorn DEF Unborn
<1> USE DEF session, seats, queue
<1> DEFINE Quiet == \A s \in Socket : ~sock[s].joining /\ sock[s].role = "none"
<1> DEFINE Kept == UNCHANGED <<participants, driverId, agents, agentConn, pending>>
<1>1. ASSUME Kept, Quiet' PROVE Unborn'
  BY <1>1 DEF Unborn
<1>2. ASSUME NEW s \in Socket, Connect(s) PROVE Unborn'
  <2>1. Kept /\ Quiet'
    BY <1>2 DEF Connect, Unborn, FreeSocket, TypeOK
  <2> QED
    BY <1>1, <2>1
<1>3. ASSUME NEW s \in Socket, LosePeer(s) PROVE Unborn'
  <2>1. Kept /\ Quiet'
    BY <1>3 DEF LosePeer, Unborn, TypeOK, SocketRecord
  <2> QED
    BY <1>1, <2>1
<1>4. ASSUME NEW s \in Socket, HandleClose(s) PROVE Unborn'
  <2>1. ~Live
    BY DEF Live
  <2>2. Kept
    BY <1>4, <2>1 DEF HandleClose, SeatsAfterClose, AgentsAfterClose, ConnsAfterClose, TypeOK
  <2>3. Quiet'
    BY <1>4 DEF HandleClose, Unborn, FreeSocket, TypeOK
  <2> QED
    BY <1>1, <2>2, <2>3
<1>5. ASSUME NEW s \in Socket, NEW seat \in BOOLEAN, CreateSession(s, seat) PROVE FALSE
  BY <1>5 DEF CreateSession
<1>6. ASSUME UNCHANGED vars PROVE Unborn'
  BY <1>6 DEF vars, Unborn
<1> QED
  BY <1>2, <1>3, <1>4, <1>5, <1>6, OnlyConnections

LEMMA UnbornAlways == Spec => []Unborn
BY InitUnborn, NextUnborn, TypeCorrect, PTL DEF Spec

-----------------------------------------------------------------------------
(* The driver seat.  Every step of a room does one of five things to it        *)
(* (lemma SeatSteps); what the theorems about the seat need of the thirty      *)
(* actions is in that lemma.                                                   *)

\* The five things a step does to the seat.
SeatStays ==
    /\ Members' = Members
    /\ UNCHANGED <<driverId, minted>>
    /\ lifecycle = lifecycle' \/ lifecycle' # "none"

SeatEntered ==
    /\ \E role \in {"host", "collaborator"} :
          /\ AddParticipant(role)
          /\ Members = {} => role = "host"
    /\ lifecycle' # "none"

SeatExited == \E p \in Members : RemoveParticipant(p) /\ UNCHANGED lifecycle

SeatHandedOn ==
    /\ driverId' \in Members
    /\ Members' = Members
    /\ UNCHANGED <<minted, lifecycle>>

SeatRestored ==
    /\ Members' = Members
    /\ driverId' = None
    /\ UNCHANGED <<minted, lifecycle>>
    /\ restarts < MaxRestarts

\* Changing presence or a default agent changes nobody's membership.
LEMMA RolesKept ==
    ASSUME TypeOK, TypeOK',
           \A q \in Participant : participants'[q].role = participants[q].role
    PROVE  Members' = Members
BY DEF Members

\* Every step does one of these five things.
LEMMA SeatSteps ==
    ASSUME TypeOK, TypeOK', Unborn, [Next]_vars
    PROVE  SeatStays \/ SeatEntered \/ SeatExited \/ SeatHandedOn \/ SeatRestored
<1> USE DEF session, seats, queue
<1> DEFINE Rest == UNCHANGED <<driverId, minted>> /\ (lifecycle = lifecycle' \/ lifecycle' # "none")
<1>0. ASSUME Rest, UNCHANGED participants PROVE SeatStays
  BY <1>0 DEF SeatStays, Members
<1>1. ASSUME NEW s \in Socket,
             \/ Connect(s) \/ LosePeer(s) \/ JoinRequested(s) \/ JoinRefused(s)
      PROVE  SeatStays
  BY <1>0, <1>1 DEF Connect, LosePeer, JoinRequested, JoinRefused
<1>2. ASSUME NEW s \in Socket, HandleClose(s) PROVE SeatStays
  <2>1. \A q \in Participant : participants'[q].role = participants[q].role
    BY <1>2 DEF HandleClose, SeatsAfterClose, Members, TypeOK, SessionTypeOK, Seat
  <2> QED
    BY <1>2, <2>1, RolesKept DEF HandleClose, SeatStays
<1>3. ASSUME NEW s \in Socket, NEW seat \in BOOLEAN, CreateSession(s, seat)
      PROVE  SeatStays \/ SeatEntered
  <2>1. CASE seat
    BY <1>3, <2>1 DEF CreateSession, SeatEntered
  <2>2. CASE ~seat
    BY <1>0, <1>3, <2>2 DEF CreateSession
  <2> QED
    BY <2>1, <2>2
<1>4. ASSUME NEW s \in Socket, Admit(s), lifecycle # "none" PROVE SeatEntered
  <2>1. Members = {} => ~HasConnectedHost
    BY DEF HasConnectedHost
  <2> QED
    BY <1>4, <2>1 DEF Admit, SeatEntered
<1>5. ASSUME NEW s \in Socket, NEW p \in Participant, Rejoin(s, p) PROVE SeatStays
  <2>1. \A q \in Participant : participants'[q].role = participants[q].role
    BY <1>5 DEF Rejoin, TypeOK, SessionTypeOK, Seat
  <2> QED
    BY <1>5, <2>1, RolesKept DEF Rejoin, SeatStays
<1>6. ASSUME NEW s \in Socket, Entering(s) PROVE SeatStays \/ SeatEntered
  <2>1. Join(s) \/ JoinAdmitted(s) => lifecycle # "none" /\ Admit(s)
    BY DEF Join, JoinAdmitted, Live, Unborn
  <2> QED
    BY <1>1, <1>3, <1>4, <1>5, <1>6, <2>1 DEF Entering
<1>7. ASSUME NEW s \in Socket, NEW a \in Agent, AgentMessage(s, a) PROVE SeatStays
  BY <1>0, <1>7 DEF AgentMessage, AgentAttach, AgentEvent
<1>8. ASSUME NEW s \in Socket, NEW p \in Participant, ParticipantMessage(s, p)
      PROVE  SeatStays \/ SeatExited \/ SeatHandedOn
  <2>1. ASSUME Leave(s, p) PROVE SeatExited
    BY <2>1 DEF Leave, SpeaksFor, SeatExited
  <2>2. ASSUME \/ AddAgent(s, p) \/ Instruct(s, p) \/ Pause(s, p) \/ Resume(s, p)
               \/ Archive(s, p) \/ End(s, p)
               \/ \E m \in {"open", "driver"} : SetMode(s, p, m)
               \/ \E a \in Agent : HandoffToAgent(s, p, a) \/ DetachAgent(s, p, a)
        PROVE  SeatStays
    BY <1>0, <2>2 DEF AddAgent, Instruct, Pause, Resume, Archive, End, CloseRoom, SetMode,
       HandoffToAgent, DetachAgent
  <2>3. ASSUME NEW a \in Agent, InstructAgent(s, p, a) \/ UseAgent(s, p, a) PROVE SeatStays
    <3>1. /\ participants' = [participants EXCEPT ![p].defaultAgentId = a]
          /\ Rest
      BY <2>3 DEF InstructAgent, UseAgent
    <3>2. \A q \in Participant : participants'[q].role = participants[q].role
      BY <3>1 DEF TypeOK, SessionTypeOK, Seat
    <3> QED
      BY <3>1, <3>2, RolesKept DEF SeatStays
  <2>4. ASSUME NEW to \in Participant, HandoffToHuman(s, p, to) PROVE SeatHandedOn
    BY <2>4 DEF HandoffToHuman, SeatHandedOn, Members
  <2> QED
    BY <1>8, <2>1, <2>2, <2>3, <2>4 DEF ParticipantMessage
<1>9. ASSUME DeleteRoom PROVE SeatStays
  BY <1>0, <1>9 DEF DeleteRoom, CloseRoom
<1>10. ASSUME Restart PROVE SeatRestored
  <2>1. \A q \in Participant : participants'[q].role = participants[q].role
    BY <1>10 DEF Restart, RestoreSession, Members, NoSeat, TypeOK, SessionTypeOK, Seat
  <2>2. MaxRestarts \in Nat
    BY Constants
  <2> QED
    BY <1>10, <2>1, RolesKept DEF Restart, RestoreSession, SeatRestored
<1>11. ASSUME UNCHANGED vars PROVE SeatStays
  BY <1>0, <1>11 DEF vars
<1> QED
  BY <1>1, <1>2, <1>6, <1>7, <1>8, <1>9, <1>10, <1>11 DEF Next, Connection

-----------------------------------------------------------------------------
(* The driver is in the room. *)

\* The members' ids have been minted, so the next one is new.
IdsMinted == \A p \in Members : p <= minted

SeatInv == DriverIsMember /\ IdsMinted

LEMMA InitSeat == Init => SeatInv /\ Members = {} /\ driverId = None
BY DEF Init, SessionInit, Members, NoSeat, SeatInv, DriverIsMember, IdsMinted

\* What addParticipant does to the membership.
LEMMA Entered ==
    ASSUME TypeOK, TypeOK', IdsMinted, NEW role \in {"host", "collaborator"},
           AddParticipant(role)
    PROVE  /\ minted + 1 \in Participant
           /\ minted + 1 \notin Members
           /\ Members' = Members \cup {minted + 1}
           /\ minted' = minted + 1
           /\ driverId' = IF role = "host" /\ driverId = None THEN minted + 1 ELSE driverId
<1>1. minted + 1 \in Participant
  BY Constants DEF AddParticipant, TypeOK, SessionTypeOK, Participant
<1>2. minted + 1 \notin Members
  BY DEF IdsMinted, TypeOK, SessionTypeOK, Members, Participant
<1>3. participants'[minted + 1].role = role
  BY <1>1 DEF AddParticipant, TypeOK, SessionTypeOK
<1>4. \A q \in Participant \ {minted + 1} : participants'[q].role = participants[q].role
  BY <1>1 DEF AddParticipant, TypeOK, SessionTypeOK
<1>5. Members' = Members \cup {minted + 1}
  BY <1>1, <1>3, <1>4 DEF Members
<1> QED
  BY <1>1, <1>2, <1>5 DEF AddParticipant

\* What removeParticipant does to the membership and the seat.
LEMMA Exited ==
    ASSUME TypeOK, TypeOK', NEW p \in Members, RemoveParticipant(p)
    PROVE  /\ Members' = Members \ {p}
           /\ minted' = minted
           /\ \/ driverId # p /\ driverId' = driverId
              \/ driverId = p /\ driverId' \in Members'
              \/ Members' = {} /\ driverId = p /\ driverId' = None
<1>1. participants' = [participants EXCEPT ![p] = NoSeat]
  BY DEF RemoveParticipant
<1>2. p \in Participant
  BY DEF Members
<1>3. Members' = Members \ {p}
  BY <1>1, <1>2 DEF Members, NoSeat, TypeOK, SessionTypeOK
<1> QED
  BY <1>3 DEF RemoveParticipant, FirstTakesSeat

LEMMA NextSeat == TypeOK /\ TypeOK' /\ Unborn /\ SeatInv /\ [Next]_vars => SeatInv'
<1> SUFFICES ASSUME TypeOK, TypeOK', Unborn, SeatInv, [Next]_vars PROVE SeatInv'
  OBVIOUS
<1> USE DEF SeatInv
<1>1. CASE SeatStays \/ SeatHandedOn \/ SeatRestored
  BY <1>1 DEF SeatStays, SeatHandedOn, SeatRestored, DriverIsMember, IdsMinted
<1>2. CASE SeatEntered
  <2>1. PICK role \in {"host", "collaborator"} : AddParticipant(role)
    BY <1>2 DEF SeatEntered
  <2>2. /\ Members' = Members \cup {minted + 1}
        /\ minted' = minted + 1
        /\ driverId' \in {minted + 1, driverId}
    BY <2>1, Entered
  <2>3. DriverIsMember'
    BY <2>2 DEF DriverIsMember
  <2>4. IdsMinted'
    BY <2>2 DEF IdsMinted, Members, Participant, TypeOK, SessionTypeOK
  <2> QED
    BY <2>3, <2>4
<1>3. CASE SeatExited
  <2>1. PICK p \in Members : RemoveParticipant(p)
    BY <1>3 DEF SeatExited
  <2> QED
    BY <2>1, Exited DEF DriverIsMember, IdsMinted
<1> QED
  BY <1>1, <1>2, <1>3, SeatSteps

LEMMA SeatAlways == Spec => []SeatInv
BY InitSeat, NextSeat, TypeCorrect, UnbornAlways, PTL DEF Spec

\* The driver seat is never held by somebody who is not in the room, restarts
\* included.
THEOREM DriverInRoom == Spec => []DriverIsMember
BY SeatAlways, PTL DEF SeatInv

-----------------------------------------------------------------------------
(* Without restarts the room implements the abstract driver seat. *)

LEMMA NextDrives ==
    ASSUME MaxRestarts = 0, TypeOK, TypeOK', Unborn, SeatInv, SomeoneDrives, [Next]_vars
    PROVE  SomeoneDrives' /\ [Seat0!Next]_(Seat0!seat)
<1> USE DEF SeatInv, Seat0!Next, Seat0!seat
<1>0. Members # {} => driverId # None
  BY DEF SomeoneDrives, Unborn, Members, NoSeat
<1>1. CASE SeatStays
  <2>1. Members' = Members /\ driverId' = driverId
    BY <1>1 DEF SeatStays
  <2> QED
    BY <2>1, <1>0 DEF SomeoneDrives
<1>2. CASE SeatEntered
  <2>1. PICK role \in {"host", "collaborator"} :
            AddParticipant(role) /\ (Members = {} => role = "host")
    BY <1>2 DEF SeatEntered
  <2>2. /\ minted + 1 \in Participant
        /\ minted + 1 \notin Members
        /\ Members' = Members \cup {minted + 1}
        /\ driverId' = IF role = "host" /\ driverId = None THEN minted + 1 ELSE driverId
    BY <2>1, Entered
  <2>3. driverId' = IF Members = {} THEN minted + 1 ELSE driverId
    BY <1>0, <2>1, <2>2 DEF DriverIsMember
  <2>4. Seat0!Enter(minted + 1)
    BY <2>2, <2>3 DEF Seat0!Enter
  <2>5. minted + 1 # None
    BY <2>2 DEF Participant, None
  <2> QED
    BY <1>0, <2>2, <2>3, <2>4, <2>5 DEF SomeoneDrives
<1>3. CASE SeatExited
  <2>1. PICK p \in Members : RemoveParticipant(p)
    BY <1>3 DEF SeatExited
  <2>2. /\ Members' = Members \ {p}
        /\ \/ driverId # p /\ driverId' = driverId
           \/ driverId = p /\ driverId' \in Members'
           \/ Members' = {} /\ driverId = p /\ driverId' = None
    BY <2>1, Exited
  <2>3. p \in Participant /\ Seat0!Exit(p)
    BY <2>2 DEF Seat0!Exit, Members
  <2>4. None \notin Members'
    BY DEF Members, Participant, None
  <2> QED
    BY <1>0, <2>2, <2>3, <2>4 DEF SomeoneDrives
<1>4. CASE SeatHandedOn
  <2>1. Seat0!HandOn
    BY <1>4 DEF SeatHandedOn, Seat0!HandOn
  <2>2. None \notin Members
    BY DEF Members, Participant, None
  <2> QED
    BY <1>4, <2>1, <2>2 DEF SeatHandedOn, SomeoneDrives
<1>5. CASE SeatRestored
  BY <1>5 DEF SeatRestored, TypeOK
<1> QED
  BY <1>1, <1>2, <1>3, <1>4, <1>5, SeatSteps

\* Without restarts, a room with people in it always has a driver.
THEOREM RoomIsDriven ==
    ASSUME MaxRestarts = 0
    PROVE  Spec => []SomeoneDrives
<1>1. Init => SomeoneDrives
  BY InitSeat DEF SomeoneDrives
<1>2. TypeOK /\ TypeOK' /\ Unborn /\ SeatInv /\ SomeoneDrives /\ [Next]_vars => SomeoneDrives'
  BY NextDrives
<1> QED
  BY <1>1, <1>2, TypeCorrect, UnbornAlways, SeatAlways, PTL DEF Spec

\* Without restarts, every behaviour of a room is one of the abstract driver seat:
\* the seat is empty exactly while the room is, and moves only by entering an
\* empty room, by a handoff or by its holder's leaving.
THEOREM RoomImplementsSeat ==
    ASSUME MaxRestarts = 0
    PROVE  Spec => ImplementsDriverSeat
<1>1. Init => Seat0!Init
  BY InitSeat DEF Seat0!Init
<1>2. TypeOK /\ TypeOK' /\ Unborn /\ SeatInv /\ SomeoneDrives /\ [Next]_vars
          => [Seat0!Next]_(Seat0!seat)
  BY NextDrives
<1> QED
  BY <1>1, <1>2, TypeCorrect, UnbornAlways, SeatAlways, RoomIsDriven, PTL
  DEF Spec, ImplementsDriverSeat, Seat0!Spec

-----------------------------------------------------------------------------
\* Presence and the end of a room, for a store that answers in the same callback
\* (SQLite, files, no store).  With a store that answers later the statements about
\* them fail: see the comment on Admit in Room.

\* No join waits for the store.
NoJoining == \A s \in Socket : ~sock[s].joining

LEMMA InitNoJoining == Init => NoJoining
BY DEF Init, NoJoining, FreeSocket

LEMMA NextNoJoining ==
    ASSUME AsyncStore = FALSE, TypeOK, NoJoining, [Next]_vars
    PROVE  NoJoining'
<1> USE DEF NoJoining, TypeOK, session, seats
<1>1. ASSUME NEW s \in Socket, Connection(s) PROVE NoJoining'
  <2>1. ASSUME Connect(s) PROVE NoJoining'
    BY <2>1 DEF Connect, FreeSocket
  <2>2. ASSUME LosePeer(s) PROVE NoJoining'
    BY <2>2 DEF LosePeer, SocketRecord
  <2>3. ASSUME HandleClose(s) PROVE NoJoining'
    BY <2>3 DEF HandleClose, FreeSocket
  <2> QED
    BY <1>1, <2>1, <2>2, <2>3 DEF Connection
<1>2. ASSUME NEW s \in Socket, Entering(s) PROVE NoJoining'
  <2>1. ASSUME Join(s) PROVE NoJoining'
    BY <2>1 DEF Join, Admit, FreeSocket, SocketRecord
  <2>2. ASSUME NEW seat \in BOOLEAN, CreateSession(s, seat) PROVE NoJoining'
    BY <2>2 DEF CreateSession, RegisterParticipant, SocketRecord
  <2>3. ASSUME NEW p \in Participant, Rejoin(s, p) PROVE NoJoining'
    BY <2>3 DEF Rejoin, RegisterParticipant, SocketRecord
  <2>4. ~JoinRequested(s) /\ ~JoinAdmitted(s) /\ ~JoinRefused(s)
    BY DEF JoinRequested, JoinAdmitted, JoinRefused
  <2> QED
    BY <1>2, <2>1, <2>2, <2>3, <2>4 DEF Entering
<1>3. ASSUME NEW s \in Socket, NEW a \in Agent, AgentMessage(s, a) PROVE NoJoining'
  BY <1>3 DEF AgentMessage, AgentAttach, AgentEvent, SocketRecord
<1>4. ASSUME NEW s \in Socket, NEW p \in Participant, ParticipantMessage(s, p) PROVE NoJoining'
  <2>1. ASSUME UNCHANGED sock PROVE NoJoining'
    BY <2>1
  <2>2. ASSUME Leave(s, p) PROVE NoJoining'
    BY <2>2 DEF Leave, SocketRecord
  <2>3. ASSUME NEW a \in Agent, DetachAgent(s, p, a) PROVE NoJoining'
    BY <2>3 DEF DetachAgent, SocketRecord
  <2>4. ASSUME End(s, p) PROVE NoJoining'
    BY <2>4 DEF End, CloseRoom, SocketRecord
  <2> QED
    BY <1>4, <2>1, <2>2, <2>3, <2>4 DEF ParticipantMessage, AddAgent, Instruct, InstructAgent,
       Pause, Resume, HandoffToHuman, HandoffToAgent, UseAgent, SetMode, Archive
<1>5. ASSUME DeleteRoom \/ Restart PROVE NoJoining'
  BY <1>5 DEF DeleteRoom, CloseRoom, Restart, FreeSocket, SocketRecord
<1>6. ASSUME UNCHANGED vars PROVE NoJoining'
  BY <1>6 DEF vars
<1> QED
  BY <1>1, <1>2, <1>3, <1>4, <1>5, <1>6 DEF Next

LEMMA NeverJoining ==
    ASSUME AsyncStore = FALSE
    PROVE  Spec => []NoJoining
<1>1. TypeOK /\ NoJoining /\ [Next]_vars => NoJoining'
  BY NextNoJoining
<1> QED
  BY <1>1, InitNoJoining, TypeCorrect, PTL DEF Spec

-----------------------------------------------------------------------------
\* In an ended room only connections, and the store's answers to joins, move.
LEMMA EndedIsOver ==
    ASSUME TypeOK, NoJoining, [Next]_vars, lifecycle = "ended"
    PROVE  UNCHANGED <<lifecycle, participants>>
<1> USE DEF session, seats, queue
<1>1. ~Live
  BY DEF Live
<1>2. ASSUME NEW s \in Socket, NEW p \in Participant, ParticipantMessage(s, p) PROVE FALSE
  BY <1>1, <1>2 DEF ParticipantMessage, SpeaksFor, Leave, AddAgent, Instruct, InstructAgent,
     Pause, Resume, HandoffToHuman, HandoffToAgent, UseAgent, DetachAgent, SetMode, Archive, End
<1>3. ASSUME NEW s \in Socket, NEW a \in Agent, AgentMessage(s, a) PROVE FALSE
  BY <1>1, <1>3 DEF AgentMessage, AgentAttach, AgentEvent
<1>4. ASSUME NEW s \in Socket, Entering(s) PROVE FALSE
  BY <1>1, <1>4 DEF Entering, CreateSession, Join, JoinRequested, JoinAdmitted, JoinRefused,
     Rejoin, NoJoining
<1>5. ~DeleteRoom /\ ~Restart
  BY <1>1 DEF DeleteRoom, Restart, RestoreSession
<1>6. ASSUME NEW s \in Socket, Connection(s) PROVE UNCHANGED <<lifecycle, participants>>
  BY <1>1, <1>6 DEF Connection, Connect, LosePeer, HandleClose, SeatsAfterClose
<1> QED
  BY <1>2, <1>3, <1>4, <1>5, <1>6 DEF Next, vars

-----------------------------------------------------------------------------
\* Whoever is shown as connected still has a seat's socket.
LEMMA InitConnected == Init => ConnectedMeansSocket
BY DEF Init, SessionInit, ConnectedMeansSocket, Live

\* A participant whose sockets are untouched, and who did not just return, is fine.
LEMMA StaysConnected ==
    ASSUME ConnectedMeansSocket, lifecycle = "ended" => lifecycle' = "ended",
           lifecycle = "none" => Members = {},
           NEW q \in Members',
           q \in Members,
           participants'[q].connected => participants[q].connected,
           SocketsOf(q) \subseteq SocketsOf(q)',
           Live', participants'[q].connected,
           TypeOK
    PROVE  SocketsOf(q)' # {}
BY DEF ConnectedMeansSocket, Live, TypeOK, SessionTypeOK

\* Sockets that keep their participant, and stay open or closing, still count.
LEMMA SocketsKept ==
    ASSUME NEW q \in Participant,
           \A x \in SocketsOf(q) : /\ sock'[x].ready \in {"open", "closing"}
                                   /\ sock'[x].role = sock[x].role
                                   /\ sock'[x].id = sock[x].id
    PROVE  SocketsOf(q) \subseteq SocketsOf(q)'
BY DEF SocketsOf

LEMMA NextConnected ==
    ASSUME AsyncStore = FALSE, TypeOK, TypeOK', Unborn, NoJoining, IdsMinted,
           ConnectedMeansSocket, [Next]_vars
    PROVE  ConnectedMeansSocket'
<1> USE DEF session, seats, queue
<1>0. SUFFICES ASSUME NEW q \in Members', Live', participants'[q].connected
               PROVE  SocketsOf(q)' # {}
  BY DEF ConnectedMeansSocket
<1>b. lifecycle = "none" => Members = {}
  BY DEF Unborn, Members, NoSeat
<1>e. lifecycle = "ended" => lifecycle' = "ended"
  BY EndedIsOver
<1> DEFINE Kept == /\ q \in Members
                   /\ participants[q].connected
                   /\ SocketsOf(q) \subseteq SocketsOf(q)'
<1>k. ASSUME Kept PROVE SocketsOf(q)' # {}
  BY <1>0, <1>b, <1>e, <1>k, StaysConnected
<1>q. q \in Participant
  BY DEF Members
<1>u. ASSUME NEW s \in Socket, sock[s].role = "none" \/ sock[s].id # q,
             \A x \in Socket \ {s} : sock'[x] = sock[x]
      PROVE  SocketsOf(q) \subseteq SocketsOf(q)'
  BY <1>q, <1>u DEF SocketsOf
<1>1. ASSUME NEW s \in Socket, Connect(s) \/ JoinRequested(s) PROVE Kept
  <2>1. UNCHANGED participants
    BY <1>1 DEF Connect, JoinRequested
  <2>2. /\ \A x \in Socket \ {s} : sock'[x] = sock[x]
        /\ s \notin SocketsOf(q)
    BY <1>1 DEF Connect, JoinRequested, Unseated, SocketsOf, TypeOK
  <2>3. SocketsOf(q) \subseteq SocketsOf(q)'
    BY <1>q, <2>2 DEF SocketsOf
  <2> QED
    BY <1>0, <2>1, <2>3 DEF Members
<1>2. ASSUME NEW s \in Socket, LosePeer(s) PROVE Kept
  <2>1. /\ UNCHANGED participants
        /\ \A x \in SocketsOf(q) : /\ sock'[x].ready \in {"open", "closing"}
                                   /\ sock'[x].role = sock[x].role
                                   /\ sock'[x].id = sock[x].id
    BY <1>2 DEF LosePeer, SocketsOf, TypeOK, SocketRecord
  <2> QED
    BY <1>0, <1>q, <2>1, SocketsKept DEF Members
<1>3. ASSUME NEW s \in Socket, HandleClose(s) PROVE Kept
  <2>1. Live
    BY <1>0, <1>3 DEF HandleClose, Live
  <2>2. \A r \in Participant : participants'[r].role = participants[r].role
    BY <1>3 DEF HandleClose, SeatsAfterClose, Members, TypeOK, SessionTypeOK, Seat
  <2>3. q \in Members
    BY <1>q, <2>2 DEF Members
  <2>4. ASSUME sock[s].role = "participant", sock[s].id = q PROVE FALSE
    BY <1>0, <1>q, <1>3, <2>1, <2>3, <2>4 DEF HandleClose, SeatsAfterClose, TypeOK,
       SessionTypeOK, Seat
  <2>5. participants[q].connected
    BY <1>0, <1>q, <1>3 DEF HandleClose, SeatsAfterClose, TypeOK, SessionTypeOK, Seat
  <2>6. s \notin SocketsOf(q) /\ \A x \in Socket \ {s} : sock'[x] = sock[x]
    BY <1>3, <2>4 DEF HandleClose, SocketsOf, TypeOK
  <2>7. SocketsOf(q) \subseteq SocketsOf(q)'
    BY <2>6 DEF SocketsOf
  <2> QED
    BY <2>3, <2>5, <2>7
<1>4. ASSUME NEW s \in Socket, Open(s), sock[s].role = "none",
             NEW role \in {"host", "collaborator"}, AddParticipant(role),
             \A x \in Socket \ {s} : sock'[x] = sock[x],
             /\ sock'[s].ready = "open"
             /\ sock'[s].role = "participant"
             /\ sock'[s].id = minted + 1
      PROVE  SocketsOf(q)' # {}
  <2>1. CASE q = minted + 1
    BY <1>4, <2>1 DEF SocketsOf
  <2>2. CASE q # minted + 1
    <3>1. q \in Members
      BY <1>4, <2>2, Entered
    <3>2. participants'[q] = participants[q]
      BY <1>q, <1>4, <2>2 DEF AddParticipant, TypeOK, SessionTypeOK
    <3>3. SocketsOf(q) \subseteq SocketsOf(q)'
      BY <1>4, <1>u
    <3> QED
      BY <1>0, <1>k, <3>1, <3>2, <3>3
  <2> QED
    BY <2>1, <2>2
<1>5. ASSUME NEW s \in Socket, NEW seat \in BOOLEAN, CreateSession(s, seat)
      PROVE  SocketsOf(q)' # {}
  <2>1. CASE seat
    <3>1. /\ \A x \in Socket \ {s} : sock'[x] = sock[x]
          /\ sock'[s].ready = "open"
          /\ sock'[s].role = "participant"
          /\ sock'[s].id = minted + 1
          /\ Open(s) /\ sock[s].role = "none"
          /\ AddParticipant("host")
      BY <1>5, <2>1 DEF CreateSession, RegisterParticipant, Unseated, Open, TypeOK, SocketRecord
    <3> QED
      BY <1>4, <3>1
  <2>2. CASE ~seat
    BY <1>0, <1>b, <1>5, <2>2 DEF CreateSession, Members
  <2> QED
    BY <2>1, <2>2
<1>6. ASSUME NEW s \in Socket, Join(s) PROVE SocketsOf(q)' # {}
  <2> DEFINE role == IF HasConnectedHost THEN "collaborator" ELSE "host"
  <2>1. /\ \A x \in Socket \ {s} : sock'[x] = sock[x]
        /\ sock'[s].ready = "open"
        /\ sock'[s].role = "participant"
        /\ sock'[s].id = minted + 1
        /\ Open(s) /\ sock[s].role = "none"
        /\ AddParticipant(role)
    BY <1>6 DEF Join, Admit, Unseated, Open, TypeOK, SocketRecord
  <2>2. role \in {"host", "collaborator"}
    OBVIOUS
  <2> QED
    BY <1>4, <2>1, <2>2
<1>7. ASSUME NEW s \in Socket, NEW p \in Participant, Rejoin(s, p) PROVE SocketsOf(q)' # {}
  <2>1. /\ \A x \in Socket \ {s} : sock'[x] = sock[x]
        /\ sock'[s].ready = "open"
        /\ sock'[s].role = "participant"
        /\ sock'[s].id = p
        /\ sock[s].role = "none"
    BY <1>7 DEF Rejoin, RegisterParticipant, Unseated, Open, TypeOK, SocketRecord
  <2>2. CASE q = p
    BY <2>1, <2>2 DEF SocketsOf
  <2>3. CASE q # p
    <3>1. participants'[q] = participants[q]
      BY <1>q, <1>7, <2>3 DEF Rejoin, TypeOK, SessionTypeOK
    <3>2. SocketsOf(q) \subseteq SocketsOf(q)'
      BY <2>1, <1>u
    <3> QED
      BY <1>0, <1>k, <1>q, <3>1, <3>2 DEF Members
  <2> QED
    BY <2>2, <2>3
<1>8. ASSUME NEW s \in Socket, Entering(s) PROVE SocketsOf(q)' # {}
  <2>1. ~JoinAdmitted(s) /\ ~JoinRefused(s)
    BY DEF JoinAdmitted, JoinRefused, NoJoining
  <2> QED
    BY <1>8, <1>1, <1>k, <1>5, <1>6, <1>7, <2>1 DEF Entering
<1>9. ASSUME NEW s \in Socket, NEW a \in Agent, AgentMessage(s, a) PROVE Kept
  <2>1. ASSUME AgentAttach(s, a) PROVE Kept
    <3>1. /\ UNCHANGED participants
          /\ \A x \in Socket \ {s} : sock'[x] = sock[x]
          /\ sock[s].role = "none"
      BY <2>1 DEF AgentAttach, Unseated, TypeOK
    <3> QED
      BY <1>0, <1>u, <3>1 DEF Members
  <2>2. ASSUME NEW kind \in AgentEvents, AgentEvent(s, a, kind) PROVE Kept
    BY <1>0, <2>2 DEF AgentEvent, Members, SocketsOf
  <2> QED
    BY <1>9, <2>1, <2>2 DEF AgentMessage
<1>10. ASSUME NEW s \in Socket, NEW p \in Participant, ParticipantMessage(s, p) PROVE Kept
  <2>1. ASSUME Leave(s, p) PROVE Kept
    <3>1. /\ p \in Members
          /\ participants' = [participants EXCEPT ![p] = NoSeat]
          /\ sock[s].id = p
          /\ \A x \in Socket \ {s} : sock'[x] = sock[x]
      BY <2>1 DEF Leave, SpeaksFor, RemoveParticipant, TypeOK
    <3>2. q # p
      BY <3>1, <1>q DEF Members, NoSeat, TypeOK, SessionTypeOK
    <3>3. participants'[q] = participants[q]
      BY <3>1, <3>2, <1>q DEF TypeOK, SessionTypeOK
    <3>4. SocketsOf(q) \subseteq SocketsOf(q)'
      BY <1>u, <3>1, <3>2
    <3> QED
      BY <1>0, <1>q, <3>3, <3>4 DEF Members
  <2>2. ASSUME \/ AddAgent(s, p) \/ Instruct(s, p) \/ Pause(s, p) \/ Resume(s, p)
               \/ Archive(s, p)
               \/ \E m \in {"open", "driver"} : SetMode(s, p, m)
               \/ \E to \in Participant : HandoffToHuman(s, p, to)
               \/ \E a \in Agent : HandoffToAgent(s, p, a)
        PROVE  Kept
    <3>1. UNCHANGED <<participants, sock>>
      BY <2>2 DEF AddAgent, Instruct, Pause, Resume, Archive, SetMode, HandoffToHuman,
         HandoffToAgent
    <3> QED
      BY <1>0, <3>1 DEF Members, SocketsOf
  <2>3. ASSUME NEW a \in Agent, InstructAgent(s, p, a) \/ UseAgent(s, p, a) PROVE Kept
    <3>1. /\ participants' = [participants EXCEPT ![p].defaultAgentId = a]
          /\ UNCHANGED sock
      BY <2>3 DEF InstructAgent, UseAgent
    <3>2. /\ participants'[q].role = participants[q].role
          /\ participants'[q].connected = participants[q].connected
      BY <1>q, <3>1 DEF TypeOK, SessionTypeOK, Seat
    <3> QED
      BY <1>0, <1>q, <3>1, <3>2 DEF Members, SocketsOf
  <2>4. ASSUME NEW a \in Agent, DetachAgent(s, p, a) PROVE Kept
    <3>1. /\ UNCHANGED participants
          /\ \A x \in SocketsOf(q) : /\ sock'[x].ready \in {"open", "closing"}
                                     /\ sock'[x].role = sock[x].role
                                     /\ sock'[x].id = sock[x].id
      BY <2>4 DEF DetachAgent, SocketsOf, TypeOK, SocketRecord
    <3> QED
      BY <1>0, <1>q, <3>1, SocketsKept DEF Members
  <2>5. ASSUME End(s, p) PROVE Kept
    BY <1>0, <2>5 DEF End, CloseRoom, Live
  <2> QED
    BY <1>10, <2>1, <2>2, <2>3, <2>4, <2>5 DEF ParticipantMessage
<1>11. ASSUME DeleteRoom PROVE Kept
  BY <1>0, <1>11 DEF DeleteRoom, CloseRoom, Live
<1>12. ASSUME Restart PROVE Kept
  BY <1>0, <1>q, <1>12 DEF Restart, RestoreSession, NoSeat
<1>13. ASSUME UNCHANGED vars PROVE Kept
  BY <1>0, <1>13 DEF vars, Members, SocketsOf
<1> QED
  BY <1>k, <1>1, <1>2, <1>3, <1>8, <1>9, <1>10, <1>11, <1>12, <1>13 DEF Next, Connection

\* Presence does not outlive the last socket of a participant, as long as nothing
\* can come between onJoin's lookup and the seat it gives.
THEOREM PresenceHasSocket ==
    ASSUME AsyncStore = FALSE
    PROVE  Spec => []ConnectedMeansSocket
<1>1. TypeOK /\ TypeOK' /\ Unborn /\ NoJoining /\ SeatInv /\ ConnectedMeansSocket /\ [Next]_vars
          => ConnectedMeansSocket'
  BY NextConnected DEF SeatInv
<1> QED
  BY <1>1, InitConnected, NeverJoining, TypeCorrect, UnbornAlways, SeatAlways, PTL DEF Spec
=============================================================================
