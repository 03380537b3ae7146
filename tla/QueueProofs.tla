----------------------------- MODULE QueueProofs -----------------------------
(***************************************************************************)
(* Proofs about the agents' connections and the queue of instructions,     *)
(* for every number of sockets, agents and instructions, for both kinds of *)
(* store and with restarts.                                                *)
(***************************************************************************)
EXTENDS RoomProofs

-----------------------------------------------------------------------------
(* The agents' connections. *)

\* A socket whose join is in flight speaks for nobody yet.
JoiningIsNobody == \A s \in Socket : sock[s].joining => sock[s].role = "none"

\* The connections of a room that is not live are forgotten.
ClosedRoomHasNoConns == ~Live => \A a \in Agent : agentConn[a] = NoSocket

ConnInv == JoiningIsNobody /\ ClosedRoomHasNoConns /\ ConnectionsAreCurrent

LEMMA InitConn == Init => ConnInv
BY DEF Init, SessionInit, FreeSocket, ConnInv, JoiningIsNobody, ClosedRoomHasNoConns,
   ConnectionsAreCurrent

\* A step that leaves agentConns alone, and the identity of the sockets in it.
LEMMA ConnsKept ==
    ASSUME ConnInv,
           Live => Live',
           UNCHANGED agentConn,
           \A s \in Socket : sock'[s].joining => sock'[s].role = "none",
           \A a \in Agent : agentConn[a] # NoSocket =>
               /\ sock'[agentConn[a]].ready \in {"open", "closing"}
               /\ sock'[agentConn[a]].role = sock[agentConn[a]].role
               /\ sock'[agentConn[a]].id = sock[agentConn[a]].id
    PROVE  ConnInv'
BY DEF ConnInv, JoiningIsNobody, ClosedRoomHasNoConns, ConnectionsAreCurrent

\* A step that changes a socket that no agent's connection is.
LEMMA OtherSocketChanged ==
    ASSUME TypeOK, ConnInv, NEW s \in Socket,
           Live => Live',
           UNCHANGED agentConn,
           \A x \in Socket \ {s} : sock'[x] = sock[x],
           sock'[s].joining => sock'[s].role = "none",
           sock[s].role # "agent" \/ sock[s].ready \notin {"open", "closing"}
    PROVE  ConnInv'
<1>1. \A a \in Agent : agentConn[a] # s
  BY Constants DEF ConnInv, ConnectionsAreCurrent, TypeOK
<1>2. \A a \in Agent : agentConn[a] # NoSocket => agentConn[a] \in Socket \ {s}
  BY <1>1 DEF TypeOK
<1>3. ASSUME NEW a \in Agent, agentConn[a] # NoSocket
      PROVE  /\ sock'[agentConn[a]] = sock[agentConn[a]]
             /\ sock[agentConn[a]].ready \in {"open", "closing"}
  <2>1. agentConn[a] \in Socket \ {s}
    BY <1>2, <1>3
  <2> QED
    BY <1>3, <2>1 DEF ConnInv, ConnectionsAreCurrent
<1>4. \A x \in Socket : sock'[x].joining => sock'[x].role = "none"
  BY DEF ConnInv, JoiningIsNobody
<1> QED
  BY <1>3, <1>4, ConnsKept

LEMMA NextConn == TypeOK /\ TypeOK' /\ Unborn /\ ConnInv /\ [Next]_vars => ConnInv'
<1> SUFFICES ASSUME TypeOK, TypeOK', Unborn, ConnInv, [Next]_vars PROVE ConnInv'
  OBVIOUS
<1> USE DEF session, seats, queue
<1>0. ASSUME UNCHANGED <<sock, agentConn>>, Live => Live' PROVE ConnInv'
  BY <1>0 DEF ConnInv, JoiningIsNobody, ClosedRoomHasNoConns, ConnectionsAreCurrent
<1>1. ASSUME NEW s \in Socket, Connect(s) PROVE ConnInv'
  BY <1>1, OtherSocketChanged DEF Connect, FreeSocket, Live, TypeOK, SocketRecord
<1>2. ASSUME NEW s \in Socket, LosePeer(s) PROVE ConnInv'
  <2>1. \A x \in Socket : /\ sock'[x].ready = sock[x].ready
                          /\ sock'[x].role = sock[x].role
                          /\ sock'[x].id = sock[x].id
                          /\ sock'[x].joining = sock[x].joining
    BY <1>2 DEF LosePeer, TypeOK, SocketRecord
  <2> QED
    BY <1>2, <2>1 DEF LosePeer, Live, TypeOK, ConnInv, JoiningIsNobody, ClosedRoomHasNoConns,
       ConnectionsAreCurrent
<1>3. ASSUME NEW s \in Socket, HandleClose(s) PROVE ConnInv'
  <2>1. /\ \A x \in Socket \ {s} : sock'[x] = sock[x]
        /\ sock'[s].role = "none"
    BY <1>3 DEF HandleClose, TypeOK, FreeSocket
  <2>2. /\ UNCHANGED lifecycle
        /\ agentConn' = ConnsAfterClose(s)
    BY <1>3 DEF HandleClose
  <2>3. \A a \in Agent : agentConn'[a] # NoSocket => /\ agentConn'[a] = agentConn[a]
                                                     /\ agentConn[a] \in Socket \ {s}
    BY <2>2 DEF ConnsAfterClose, ConnInv, ClosedRoomHasNoConns, TypeOK
  <2>4. JoiningIsNobody'
    BY <2>1 DEF ConnInv, JoiningIsNobody
  <2>5. ClosedRoomHasNoConns'
    BY <2>2, <2>3 DEF ConnInv, ClosedRoomHasNoConns, Live
  <2>6. ConnectionsAreCurrent'
    BY <2>1, <2>3 DEF ConnInv, ConnectionsAreCurrent
  <2> QED
    BY <2>4, <2>5, <2>6 DEF ConnInv
<1>4. ASSUME NEW s \in Socket, NEW seat \in BOOLEAN, CreateSession(s, seat) PROVE ConnInv'
  <2>1. /\ \A x \in Socket \ {s} : sock'[x] = sock[x]
        /\ sock'[s].joining = sock[s].joining
        /\ ~sock[s].joining
        /\ sock[s].role = "none"
        /\ UNCHANGED agentConn
        /\ Live'
    BY <1>4 DEF CreateSession, RegisterParticipant, Unseated, Live, TypeOK, SocketRecord
  <2> QED
    BY <2>1, OtherSocketChanged
<1>5. ASSUME NEW s \in Socket, Join(s) \/ JoinAdmitted(s) PROVE ConnInv'
  <2>1. sock[s].role = "none" /\ Admit(s)
    BY <1>5 DEF Join, JoinAdmitted, Unseated, ConnInv, JoiningIsNobody
  <2>2. /\ \A x \in Socket \ {s} : sock'[x] = sock[x]
        /\ ~sock'[s].joining
        /\ UNCHANGED agentConn
        /\ Live => Live'
    BY <2>1 DEF Admit, FreeSocket, Live, TypeOK, SocketRecord
  <2> QED
    BY <2>1, <2>2, OtherSocketChanged
<1>6. ASSUME NEW s \in Socket, JoinRequested(s) \/ JoinRefused(s) PROVE ConnInv'
  <2>1. /\ \A x \in Socket \ {s} : sock'[x] = sock[x]
        /\ sock'[s].role = "none"
        /\ sock[s].role = "none"
        /\ UNCHANGED <<agentConn, lifecycle>>
    BY <1>6 DEF JoinRequested, JoinRefused, Unseated, FreeSocket, TypeOK, SocketRecord, ConnInv,
       JoiningIsNobody
  <2> QED
    BY <2>1, OtherSocketChanged DEF Live
<1>7. ASSUME NEW s \in Socket, NEW p \in Participant, Rejoin(s, p) \/ Leave(s, p) PROVE ConnInv'
  <2>1. /\ \A x \in Socket \ {s} : sock'[x] = sock[x]
        /\ sock'[s].joining = sock[s].joining
        /\ ~sock[s].joining
        /\ sock[s].role # "agent"
        /\ UNCHANGED <<agentConn, lifecycle>>
    BY <1>7 DEF Rejoin, Leave, SpeaksFor, RegisterParticipant, Unseated, TypeOK, SocketRecord,
       ConnInv, JoiningIsNobody
  <2> QED
    BY <2>1, OtherSocketChanged DEF Live
<1>8. ASSUME NEW s \in Socket, NEW a \in Agent, AgentAttach(s, a) PROVE ConnInv'
  <2>1. /\ \A x \in Socket \ {s} : sock'[x] = sock[x]
        /\ sock'[s].joining = sock[s].joining
        /\ ~sock[s].joining
        /\ sock[s].role = "none"
        /\ sock'[s].ready = "open" /\ sock'[s].role = "agent" /\ sock'[s].id = a
        /\ agentConn' = [agentConn EXCEPT ![a] = s]
        /\ Live'
    BY <1>8 DEF AgentAttach, Unseated, Open, Live, TypeOK, SocketRecord
  <2>2. \A b \in Agent \ {a} : agentConn'[b] = agentConn[b] /\ agentConn[b] # s
    BY <2>1, Constants DEF ConnInv, ConnectionsAreCurrent, TypeOK
  <2>3. ConnectionsAreCurrent'
    BY <2>1, <2>2 DEF ConnInv, ConnectionsAreCurrent, TypeOK
  <2> QED
    BY <2>1, <2>3 DEF ConnInv, ClosedRoomHasNoConns, JoiningIsNobody
<1>9. ASSUME NEW s \in Socket, NEW p \in Participant, NEW a \in Agent, DetachAgent(s, p, a)
      PROVE  ConnInv'
  <2>1. CASE agentConn[a] = NoSocket
    BY <1>0, <1>9, <2>1 DEF DetachAgent, Live
  <2>2. CASE agentConn[a] # NoSocket
    <3>1. agentConn[a] \in Socket /\ sock' = [sock EXCEPT ![agentConn[a]].ready = "closing"]
      BY <1>9, <2>2 DEF DetachAgent, TypeOK
    <3>2. \A x \in Socket : /\ sock'[x].ready \in {sock[x].ready, "closing"}
                            /\ sock'[x].role = sock[x].role
                            /\ sock'[x].id = sock[x].id
                            /\ sock'[x].joining = sock[x].joining
      BY <3>1 DEF TypeOK, SocketRecord
    <3>3. UNCHANGED <<agentConn, lifecycle>>
      BY <1>9 DEF DetachAgent
    <3>4. \A b \in Agent : agentConn[b] # NoSocket => agentConn[b] \in Socket
      BY DEF TypeOK
    <3>5. JoiningIsNobody' /\ ClosedRoomHasNoConns'
      BY <3>2, <3>3 DEF ConnInv, JoiningIsNobody, ClosedRoomHasNoConns, Live
    <3>6. ConnectionsAreCurrent'
      BY <3>2, <3>3, <3>4 DEF ConnInv, ConnectionsAreCurrent
    <3> QED
      BY <3>5, <3>6 DEF ConnInv
  <2> QED
    BY <2>1, <2>2
<1>10. ASSUME CloseRoom PROVE ConnInv'
  <2>1. \A x \in Socket : sock'[x].role = sock[x].role /\ sock'[x].joining = sock[x].joining
    BY <1>10 DEF CloseRoom, TypeOK, SocketRecord
  <2> QED
    BY <1>10, <2>1 DEF CloseRoom, ConnInv, JoiningIsNobody, ClosedRoomHasNoConns,
       ConnectionsAreCurrent
<1>11. ASSUME Restart PROVE ConnInv'
  BY <1>11 DEF Restart, FreeSocket, ConnInv, JoiningIsNobody, ClosedRoomHasNoConns,
     ConnectionsAreCurrent
<1>12. ASSUME NEW s \in Socket, NEW a \in Agent, NEW kind \in AgentEvents,
              AgentEvent(s, a, kind)
       PROVE  ConnInv'
  BY <1>0, <1>12 DEF AgentEvent, Live
<1>13. ASSUME NEW s \in Socket, NEW p \in Participant,
              \/ AddAgent(s, p) \/ Instruct(s, p) \/ Pause(s, p) \/ Resume(s, p)
              \/ Archive(s, p)
              \/ \E m \in {"open", "driver"} : SetMode(s, p, m)
              \/ \E to \in Participant : HandoffToHuman(s, p, to)
              \/ \E a \in Agent : \/ HandoffToAgent(s, p, a) \/ InstructAgent(s, p, a)
                                  \/ UseAgent(s, p, a)
       PROVE  ConnInv'
  BY <1>0, <1>13 DEF AddAgent, Instruct, Pause, Resume, Archive, SetMode, HandoffToHuman,
     HandoffToAgent, InstructAgent, UseAgent, Live
<1>14. ASSUME UNCHANGED vars PROVE ConnInv'
  BY <1>0, <1>14 DEF vars, Live
<1> QED
  BY <1>1, <1>2, <1>3, <1>4, <1>5, <1>6, <1>7, <1>8, <1>9, <1>10, <1>11, <1>12, <1>13, <1>14
  DEF Next, Connection, Entering, AgentMessage, ParticipantMessage, End, DeleteRoom

LEMMA ConnAlways == Spec => []ConnInv
BY InitConn, NextConn, TypeCorrect, UnbornAlways, PTL DEF Spec

\* The agent an instruction would be sent to is registered under its own id, by a
\* socket that has not closed.
THEOREM AgentConnsCurrent == Spec => []ConnectionsAreCurrent
BY ConnAlways, PTL DEF ConnInv

-----------------------------------------------------------------------------
(* An attached agent has an open connection. *)

\* Nothing reopens an ended room.
LEMMA EndedStays ==
    ASSUME [Next]_vars, Unborn, ~Live, Live'
    PROVE  \E s \in Socket, seat \in BOOLEAN : CreateSession(s, seat)
<1> USE DEF session, seats, queue
<1>1. CASE lifecycle = "none"
  <2>1. ~UNCHANGED vars
    BY DEF vars, Live
  <2>2. ASSUME NEW s \in Socket, Connect(s) \/ LosePeer(s) \/ HandleClose(s) PROVE FALSE
    BY <2>2 DEF Connect, LosePeer, HandleClose, Live
  <2> QED
    BY <1>1, <2>1, <2>2, OnlyConnections
<1>2. CASE lifecycle # "none"
  <2>1. ASSUME NEW s \in Socket, NEW p \in Participant, ParticipantMessage(s, p) PROVE FALSE
    BY <2>1 DEF ParticipantMessage, SpeaksFor, Leave, AddAgent, Instruct, InstructAgent, Pause,
       Resume, HandoffToHuman, HandoffToAgent, UseAgent, DetachAgent, SetMode, Archive, End
  <2>2. ASSUME NEW s \in Socket, NEW a \in Agent, AgentMessage(s, a) PROVE FALSE
    BY <2>2 DEF AgentMessage, AgentAttach, AgentEvent
  <2>3. ASSUME NEW s \in Socket, Entering(s) PROVE FALSE
    BY <1>2, <2>3 DEF Entering, CreateSession, Join, JoinRequested, JoinAdmitted, JoinRefused,
       Admit, Rejoin, Live
  <2>4. ASSUME NEW s \in Socket, Connection(s) PROVE FALSE
    BY <2>4 DEF Connection, Connect, LosePeer, HandleClose, Live
  <2>5. ~DeleteRoom /\ ~Restart /\ ~UNCHANGED vars
    BY DEF DeleteRoom, Restart, RestoreSession, Live, vars
  <2> QED
    BY <2>1, <2>2, <2>3, <2>4, <2>5 DEF Next
<1> QED
  BY <1>1, <1>2

\* What a step does to the openness of an agent's connection: only attaching and
\* creating make one, and whatever else keeps the socket's readyState keeps it.
LEMMA OpenKept ==
    ASSUME TypeOK, NEW a \in Agent,
           agentConn'[a] = agentConn[a],
           \A s \in Socket : sock'[s].ready = sock[s].ready
    PROVE  IsOpenConn(a)' <=> IsOpenConn(a)
BY DEF IsOpenConn, Open, TypeOK

\* The steps that change the readyState of a socket, agentConns, or who is attached.
ConnectionStep ==
    \/ \E s \in Socket : \/ Connect(s) \/ HandleClose(s) \/ JoinAdmitted(s) \/ JoinRefused(s)
                         \/ \E seat \in BOOLEAN : CreateSession(s, seat)
                         \/ \E a \in Agent : AgentAttach(s, a)
                         \/ \E p \in Participant : AddAgent(s, p)
                         \/ \E p \in Participant, a \in Agent : DetachAgent(s, p, a)
    \/ CloseRoom
    \/ Restart

LEMMA OtherSteps ==
    ASSUME TypeOK, TypeOK', [Next]_vars, ~ConnectionStep
    PROVE  /\ UNCHANGED agentConn
           /\ \A s \in Socket : sock'[s].ready = sock[s].ready
           /\ \A a \in Agent : agents'[a].attached = agents[a].attached
<1> USE DEF session, seats, queue
<1>1. ASSUME NEW s \in Socket, LosePeer(s) \/ JoinRequested(s) PROVE
          /\ UNCHANGED <<agentConn, agents>>
          /\ \A x \in Socket : sock'[x].ready = sock[x].ready
  BY <1>1 DEF LosePeer, JoinRequested, TypeOK, SocketRecord
<1>2. ASSUME NEW s \in Socket, NEW p \in Participant, Rejoin(s, p) \/ Leave(s, p) PROVE
          /\ UNCHANGED <<agentConn, agents>>
          /\ \A x \in Socket : sock'[x].ready = sock[x].ready
  BY <1>2 DEF Rejoin, Leave, RegisterParticipant, TypeOK, SocketRecord
<1>3. ASSUME NEW s \in Socket, Join(s) PROVE
          /\ UNCHANGED <<agentConn, agents>>
          /\ \A x \in Socket : sock'[x].ready = sock[x].ready
  BY <1>3 DEF Join, Admit, Unseated, Open, TypeOK, SocketRecord
<1>4. ASSUME NEW s \in Socket, NEW p \in Participant,
             \/ Pause(s, p) \/ Resume(s, p) \/ Archive(s, p)
             \/ \E m \in {"open", "driver"} : SetMode(s, p, m)
             \/ \E to \in Participant : HandoffToHuman(s, p, to)
             \/ \E a \in Agent : UseAgent(s, p, a)
      PROVE  UNCHANGED <<agentConn, agents, sock>>
  BY <1>4 DEF Pause, Resume, Archive, SetMode, HandoffToHuman, UseAgent
<1>5. ASSUME \E t : Route(t) PROVE \A a \in Agent : agents'[a].attached = agents[a].attached
  BY <1>5 DEF Route, TypeOK, SessionTypeOK, AgentRecord
<1>6. ASSUME NEW s \in Socket, NEW p \in Participant,
             Instruct(s, p) \/ \E a \in Agent : InstructAgent(s, p, a)
      PROVE  /\ UNCHANGED <<agentConn, sock>>
             /\ \A a \in Agent : agents'[a].attached = agents[a].attached
  BY <1>5, <1>6 DEF Instruct, InstructAgent
<1>7. ASSUME NEW s \in Socket, NEW p \in Participant, NEW b \in Agent, HandoffToAgent(s, p, b)
      PROVE  /\ UNCHANGED <<agentConn, sock>>
             /\ \A a \in Agent : agents'[a].attached = agents[a].attached
  BY <1>7 DEF HandoffToAgent, TypeOK, SessionTypeOK, AgentRecord
<1>8. ASSUME NEW s \in Socket, NEW b \in Agent, NEW kind \in AgentEvents, AgentEvent(s, b, kind)
      PROVE  /\ UNCHANGED <<agentConn, sock>>
             /\ \A a \in Agent : agents'[a].attached = agents[a].attached
  BY <1>8 DEF AgentEvent, TypeOK, SessionTypeOK, AgentRecord
<1>9. ASSUME UNCHANGED vars PROVE UNCHANGED <<agentConn, agents, sock>>
  BY <1>9 DEF vars
<1> QED
  BY <1>1, <1>2, <1>3, <1>4, <1>6, <1>7, <1>8, <1>9
  DEF ConnectionStep, Next, Connection, Entering, AgentMessage, ParticipantMessage, End,
      DeleteRoom

LEMMA InitAttached == Init => AttachedMeansOpen
BY DEF Init, SessionInit, AttachedMeansOpen, NoAgent

LEMMA NextAttached ==
    ASSUME TypeOK, TypeOK', Unborn, ConnInv, AttachedMeansOpen, [Next]_vars
    PROVE  AttachedMeansOpen'
<1> USE DEF session, seats, queue
<1>0. SUFFICES ASSUME NEW b \in Agent, Live', agents'[b].attached PROVE IsOpenConn(b)'
  BY DEF AttachedMeansOpen
<1>1. ASSUME NEW s \in Socket, NEW seat \in BOOLEAN, CreateSession(s, seat) PROVE FALSE
  <2>1. /\ AddAgentSession
        /\ \A a \in Agent : agents[a] = NoAgent
    BY <1>1 DEF CreateSession, Unborn
  <2> QED
    BY <1>0, <2>1 DEF AddAgentSession, NoAgent
<1> SUFFICES ASSUME \A s \in Socket, seat \in BOOLEAN : ~CreateSession(s, seat)
             PROVE  IsOpenConn(b)'
  BY <1>1
<1>2. Live
  BY <1>0, EndedStays
<1>3. agents[b].attached => IsOpenConn(b)
  BY <1>2 DEF AttachedMeansOpen
<1>4. ASSUME IsOpenConn(b) PROVE /\ agentConn[b] \in Socket
                                 /\ sock[agentConn[b]].ready = "open"
                                 /\ sock[agentConn[b]].role = "agent"
                                 /\ sock[agentConn[b]].id = b
  BY <1>4 DEF IsOpenConn, Open, ConnInv, ConnectionsAreCurrent, TypeOK
<1>5. ASSUME agents[b].attached, agentConn'[b] = agentConn[b],
             \A x \in Socket : x = agentConn[b] => sock'[x].ready = sock[x].ready
      PROVE  IsOpenConn(b)'
  BY <1>3, <1>4, <1>5 DEF IsOpenConn, Open
<1>6. ASSUME ~ConnectionStep PROVE IsOpenConn(b)'
  BY <1>0, <1>5, <1>6, OtherSteps
<1>7. ASSUME NEW s \in Socket, Connect(s) PROVE IsOpenConn(b)'
  <2>1. agents[b].attached /\ agentConn'[b] = agentConn[b]
    BY <1>0, <1>7 DEF Connect
  <2>2. s # agentConn[b]
    BY <1>3, <1>4, <1>7, <2>1 DEF Connect
  <2> QED
    BY <1>5, <1>7, <2>1, <2>2 DEF Connect, TypeOK
<1>8. ASSUME NEW s \in Socket, JoinAdmitted(s) \/ JoinRefused(s) PROVE IsOpenConn(b)'
  <2>1. /\ agents[b].attached /\ agentConn'[b] = agentConn[b]
        /\ sock[s].role = "none"
        /\ \A x \in Socket \ {s} : sock'[x] = sock[x]
    BY <1>0, <1>8 DEF JoinAdmitted, Admit, JoinRefused, ConnInv, JoiningIsNobody, TypeOK
  <2>2. s # agentConn[b]
    BY <1>3, <1>4, <2>1
  <2> QED
    BY <1>5, <2>1, <2>2
<1>9. ASSUME NEW s \in Socket, HandleClose(s) PROVE IsOpenConn(b)'
  <2>1. agents' = AgentsAfterClose(s) /\ agentConn' = ConnsAfterClose(s)
    BY <1>9 DEF HandleClose
  <2>2. ~(sock[s].role = "agent" /\ sock[s].id = b)
    BY <1>0, <1>2, <2>1 DEF AgentsAfterClose, MarkDetached, TypeOK, SessionTypeOK, AgentRecord
  <2>3. agents[b].attached
    BY <1>0, <2>1 DEF AgentsAfterClose, MarkDetached, TypeOK, SessionTypeOK, AgentRecord
  <2>4. agentConn[b] # s
    BY <1>3, <1>4, <2>2, <2>3
  <2>5. agentConn'[b] = agentConn[b]
    BY <2>1, <2>4 DEF ConnsAfterClose
  <2> QED
    BY <1>5, <1>9, <2>3, <2>4, <2>5 DEF HandleClose, TypeOK
<1>10. ASSUME NEW s \in Socket, NEW a \in Agent, AgentAttach(s, a) PROVE IsOpenConn(b)'
  <2>1. /\ agentConn' = [agentConn EXCEPT ![a] = s]
        /\ \A x \in Socket : sock'[x].ready = sock[x].ready
        /\ sock[s].ready = "open"
    BY <1>10 DEF AgentAttach, Unseated, Open, TypeOK, SocketRecord
  <2>2. CASE b = a
    BY <2>1, <2>2, Constants DEF IsOpenConn, Open, TypeOK
  <2>3. CASE b # a
    <3>1. agents[b].attached
      BY <1>0, <1>10, <2>3 DEF AgentAttach, TypeOK, SessionTypeOK
    <3>2. agentConn'[b] = agentConn[b]
      BY <2>1, <2>3 DEF TypeOK
    <3> QED
      BY <1>5, <2>1, <3>1, <3>2
  <2> QED
    BY <2>2, <2>3
<1>11. ASSUME NEW s \in Socket, NEW p \in Participant, AddAgent(s, p) PROVE IsOpenConn(b)'
  <2>1. agents[b].attached
    BY <1>0, <1>11 DEF AddAgent, AddAgentSession, NoAgent, TypeOK, SessionTypeOK
  <2> QED
    BY <1>5, <1>11, <2>1 DEF AddAgent
<1>12. ASSUME NEW s \in Socket, NEW p \in Participant, NEW a \in Agent, DetachAgent(s, p, a)
       PROVE  IsOpenConn(b)'
  <2>1. agents' = [agents EXCEPT ![a] = IF @.attached THEN MarkDetached(@) ELSE @]
    BY <1>12 DEF DetachAgent
  <2>2. b # a /\ agents[b].attached
    BY <1>0, <2>1 DEF MarkDetached, TypeOK, SessionTypeOK, AgentRecord
  <2>3. agentConn' = agentConn /\ agentConn[b] \in Socket
    BY <1>3, <1>4, <1>12, <2>2 DEF DetachAgent
  <2>4. agentConn[a] # agentConn[b]
    <3>1. agentConn[a] # NoSocket => sock[agentConn[a]].id = a
      BY DEF ConnInv, ConnectionsAreCurrent
    <3> QED
      BY <1>3, <1>4, <2>2, <3>1, Constants
  <2>5. sock'[agentConn[b]] = sock[agentConn[b]]
    BY <1>12, <2>3, <2>4 DEF DetachAgent, TypeOK
  <2> QED
    BY <1>5, <2>2, <2>3, <2>5
<1>13. ASSUME CloseRoom PROVE FALSE
  BY <1>0, <1>13 DEF CloseRoom, Live
<1>14. ASSUME Restart PROVE FALSE
  BY <1>0, <1>14 DEF Restart, RestoreSession, MarkDetached, NoAgent, TypeOK, SessionTypeOK,
     AgentRecord
<1> QED
  BY <1>6, <1>7, <1>8, <1>9, <1>10, <1>11, <1>12, <1>13, <1>14 DEF ConnectionStep

\* An agent counted as attached can be reached through a connection the server
\* has not begun to close.
THEOREM AttachedAgentsReachable == Spec => []AttachedMeansOpen
<1>1. TypeOK /\ TypeOK' /\ Unborn /\ ConnInv /\ AttachedMeansOpen /\ [Next]_vars
          => AttachedMeansOpen'
  BY NextAttached
<1> QED
  BY <1>1, InitAttached, ConnAlways, TypeCorrect, UnbornAlways, PTL DEF Spec

-----------------------------------------------------------------------------
(* The queue. *)

\* The four things a step does to the queue.
QueueStays ==
    /\ UNCHANGED queue
    /\ \A a \in Agent : IsOpenConn(a)' => IsOpenConn(a)

QueueRouted ==
    /\ \E target \in Agent \cup {None} : Route(target)
    /\ \A a \in Agent : IsOpenConn(a)' <=> IsOpenConn(a)

QueueFlushed == \E s \in Socket, a \in Agent : AgentAttach(s, a)

QueueDropped ==
    /\ pending' = {}
    /\ UNCHANGED <<instructions, addressee, sentTo>>
    /\ restarts' # restarts

LEMMA QueueSteps ==
    ASSUME TypeOK, TypeOK', Unborn, ConnInv, [Next]_vars
    PROVE  QueueStays \/ QueueRouted \/ QueueFlushed \/ QueueDropped
<1> USE DEF session, seats, queue
<1>1. ASSUME ~ConnectionStep PROVE QueueStays \/ QueueRouted
  <2>1. \A a \in Agent : IsOpenConn(a)' <=> IsOpenConn(a)
    BY <1>1, OtherSteps, OpenKept
  <2>2. ASSUME NEW s \in Socket, NEW p \in Participant, Instruct(s, p) PROVE QueueRouted
    BY <2>1, <2>2, TargetTypes DEF Instruct, QueueRouted
  <2>3. ASSUME NEW s \in Socket, NEW p \in Participant, NEW a \in Agent, InstructAgent(s, p, a)
        PROVE  QueueRouted
    BY <2>1, <2>3 DEF InstructAgent, QueueRouted
  <2>4. ASSUME NEW s \in Socket, NEW p \in Participant,
               \/ LosePeer(s) \/ Join(s) \/ JoinRequested(s) \/ Rejoin(s, p) \/ Leave(s, p)
               \/ Pause(s, p) \/ Resume(s, p) \/ Archive(s, p)
               \/ \E m \in {"open", "driver"} : SetMode(s, p, m)
               \/ \E to \in Participant : HandoffToHuman(s, p, to)
               \/ \E a \in Agent : HandoffToAgent(s, p, a) \/ UseAgent(s, p, a)
        PROVE  UNCHANGED queue
    BY <2>4 DEF LosePeer, Join, Admit, JoinRequested, Rejoin, Leave, Pause, Resume, Archive,
       SetMode, HandoffToHuman, HandoffToAgent, UseAgent
  <2>5. ASSUME NEW s \in Socket, LosePeer(s) \/ Join(s) \/ JoinRequested(s)
        PROVE  UNCHANGED queue
    BY <2>5 DEF LosePeer, Join, Admit, JoinRequested
  <2>6. ASSUME NEW s \in Socket, NEW a \in Agent, NEW kind \in AgentEvents,
               AgentEvent(s, a, kind)
        PROVE  UNCHANGED queue
    BY <2>6 DEF AgentEvent
  <2>7. ASSUME UNCHANGED vars PROVE UNCHANGED queue
    BY <2>7 DEF vars
  <2> QED
    BY <1>1, <2>1, <2>2, <2>3, <2>4, <2>5, <2>6, <2>7
    DEF QueueStays, ConnectionStep, Next, Connection, Entering, AgentMessage,
        ParticipantMessage, End, DeleteRoom
<1>2. ASSUME NEW s \in Socket, Connect(s) PROVE QueueStays
  <2>1. ASSUME NEW a \in Agent, IsOpenConn(a)' PROVE IsOpenConn(a)
    <3>1. agentConn[a] \in Socket /\ sock'[agentConn[a]].ready = "open"
      BY <1>2, <2>1 DEF Connect, IsOpenConn, Open, TypeOK
    <3>2. agentConn[a] # s
      BY <1>2, <3>1, Constants DEF Connect, ConnInv, ConnectionsAreCurrent
    <3> QED
      BY <1>2, <3>1, <3>2, Constants DEF Connect, IsOpenConn, Open, TypeOK
  <2> QED
    BY <1>2, <2>1 DEF Connect, QueueStays
<1>3. ASSUME UNCHANGED queue, \A a \in Agent : agentConn'[a] \in {agentConn[a], NoSocket},
             \A x \in Socket : sock'[x].ready = "open" => sock[x].ready = "open"
      PROVE  QueueStays
  BY <1>3 DEF QueueStays, IsOpenConn, Open, TypeOK
<1>4. ASSUME NEW s \in Socket, HandleClose(s) PROVE QueueStays
  BY <1>3, <1>4 DEF HandleClose, ConnsAfterClose, FreeSocket, TypeOK
<1>5. ASSUME NEW s \in Socket, JoinAdmitted(s) \/ JoinRefused(s) PROVE QueueStays
  <2>1. UNCHANGED <<queue, agentConn>>
    BY <1>5 DEF JoinAdmitted, Admit, JoinRefused
  <2>2. ASSUME JoinAdmitted(s)
        PROVE  \A x \in Socket : sock'[x].ready = "open" => sock[x].ready = "open"
    BY <2>2 DEF JoinAdmitted, Admit, FreeSocket, TypeOK, SocketRecord
  <2>3. ASSUME JoinRefused(s)
        PROVE  \A x \in Socket : sock'[x].ready = "open" => sock[x].ready = "open"
    BY <2>3 DEF JoinRefused, FreeSocket, TypeOK, SocketRecord
  <2> QED
    BY <1>3, <1>5, <2>1, <2>2, <2>3
<1>6. ASSUME NEW s \in Socket, NEW seat \in BOOLEAN, CreateSession(s, seat) PROVE QueueStays
  <2>1. /\ UNCHANGED <<queue, agentConn>>
        /\ \A x \in Socket : sock'[x].ready = "open" => sock[x].ready = "open"
    BY <1>6 DEF CreateSession, RegisterParticipant, TypeOK, SocketRecord
  <2> QED
    BY <1>3, <2>1
<1>7. ASSUME NEW s \in Socket, NEW p \in Participant, AddAgent(s, p) PROVE QueueStays
  BY <1>3, <1>7 DEF AddAgent
<1>8. ASSUME NEW s \in Socket, NEW p \in Participant, NEW a \in Agent, DetachAgent(s, p, a)
      PROVE  QueueStays
  <2>1. /\ UNCHANGED <<queue, agentConn>>
        /\ \A x \in Socket : sock'[x].ready = "open" => sock[x].ready = "open"
    BY <1>8 DEF DetachAgent, TypeOK, SocketRecord
  <2> QED
    BY <1>3, <2>1
<1>9. ASSUME CloseRoom PROVE QueueStays
  <2>1. /\ UNCHANGED queue
        /\ \A a \in Agent : agentConn'[a] = NoSocket
        /\ \A x \in Socket : sock'[x].ready = "open" => sock[x].ready = "open"
    BY <1>9 DEF CloseRoom, TypeOK, SocketRecord
  <2> QED
    BY <1>3, <2>1
<1>10. ASSUME Restart PROVE QueueDropped
  BY <1>10 DEF Restart, RestoreSession, QueueDropped, TypeOK
<1> QED
  BY <1>1, <1>2, <1>4, <1>5, <1>6, <1>7, <1>8, <1>9, <1>10 DEF ConnectionStep, QueueFlushed

-----------------------------------------------------------------------------
\* The queue holds instructions that were accepted and not sent.
QueueOfUnsent ==
    /\ \A i \in pending : i <= instructions /\ sentTo[i] = None
    /\ \A i \in Instruction : i > instructions => sentTo[i] = None

\* QueuedMeansUnreachable, in rooms that are not live too.
Unreachable ==
    \A i \in pending : addressee[i] # None => ~IsOpenConn(addressee[i])

QueueInv == QueueOfUnsent /\ Unreachable /\ NoOvertaking

LEMMA InitQueue == Init => QueueInv
BY DEF Init, SessionInit, QueueInv, QueueOfUnsent, Unreachable, NoOvertaking

\* What onInstruction does to the queue, once its target is known.
LEMMA Routed ==
    ASSUME TypeOK, NEW target \in Agent \cup {None}, Route(target)
    PROVE  LET i == instructions + 1 IN
           /\ i \in Instruction
           /\ instructions' = i
           /\ addressee'[i] = target
           /\ \A j \in Instruction \ {i} : addressee'[j] = addressee[j] /\ sentTo'[j] = sentTo[j]
           /\ \/ /\ target # None
                 /\ IsOpenConn(target)
                 /\ sentTo'[i] = target
                 /\ pending' = pending
              \/ /\ target = None \/ ~IsOpenConn(target)
                 /\ sentTo' = sentTo
                 /\ pending' \in {pending, pending \cup {i}}
<1>1. instructions + 1 \in Instruction
  BY Constants DEF Route, Instruction, TypeOK, SessionTypeOK
<1> QED
  BY <1>1 DEF Route, Enqueue, TypeOK, SessionTypeOK

\* What flushPending does to the queue.
LEMMA Flushed ==
    ASSUME TypeOK, NEW s \in Socket, NEW a \in Agent, AgentAttach(s, a)
    PROVE  /\ UNCHANGED <<instructions, addressee>>
           /\ pending' = {i \in pending : addressee[i] \notin {None, a}}
           /\ \A i \in Instruction :
                 sentTo'[i] = IF i \in pending /\ addressee[i] \in {None, a} THEN a ELSE sentTo[i]
           /\ \A b \in Agent \ {a} : IsOpenConn(b)' => IsOpenConn(b)
<1>1. /\ UNCHANGED <<instructions, addressee>>
      /\ pending' = {i \in pending : addressee[i] \notin {None, a}}
      /\ \A i \in Instruction :
             sentTo'[i] = IF i \in pending /\ addressee[i] \in {None, a} THEN a ELSE sentTo[i]
  BY DEF AgentAttach, Deliverable, TypeOK, SessionTypeOK
<1>2. /\ \A x \in Socket : sock'[x].ready = sock[x].ready
      /\ \A b \in Agent \ {a} : agentConn'[b] = agentConn[b]
  BY DEF AgentAttach, TypeOK, SocketRecord
<1> QED
  BY <1>1, <1>2 DEF IsOpenConn, Open, TypeOK

LEMMA NextQueue ==
    ASSUME TypeOK, TypeOK', QueueInv, [Next]_vars,
           QueueStays \/ QueueRouted \/ QueueFlushed \/ QueueDropped
    PROVE  QueueInv'
<1>t. /\ pending \subseteq Instruction
      /\ pending' \subseteq Instruction
      /\ \A i \in Instruction : addressee[i] \in Agent \cup {None}
      /\ \A i \in Instruction : i \in Nat
      /\ instructions \in Nat
  BY DEF TypeOK, SessionTypeOK, Instruction
<1>1. CASE QueueStays
  BY <1>1, <1>t DEF QueueStays, queue, QueueInv, QueueOfUnsent, Unreachable, NoOvertaking
<1>2. CASE QueueDropped
  BY <1>2 DEF QueueDropped, QueueInv, QueueOfUnsent, Unreachable, NoOvertaking
<1>3. CASE QueueRouted
  <2>1. PICK target \in Agent \cup {None} : Route(target)
    BY <1>3 DEF QueueRouted
  <2> DEFINE n == instructions + 1
  <2>2. /\ n \in Instruction
        /\ instructions' = n
        /\ addressee'[n] = target
        /\ \A j \in Instruction \ {n} : addressee'[j] = addressee[j] /\ sentTo'[j] = sentTo[j]
        /\ \/ /\ target # None
              /\ IsOpenConn(target)
              /\ sentTo'[n] = target
              /\ pending' = pending
           \/ /\ target = None \/ ~IsOpenConn(target)
              /\ sentTo' = sentTo
              /\ pending' \in {pending, pending \cup {n}}
    BY <2>1, Routed
  <2>3. \A i \in pending : i # n /\ i <= n
    BY <1>t DEF QueueInv, QueueOfUnsent
  <2>4. \A i \in Instruction : i > n => i # n /\ i > instructions
    BY <1>t
  <2>5. sentTo[n] = None
    BY <1>t, <2>2 DEF QueueInv, QueueOfUnsent
  <2>6. QueueOfUnsent'
    <3>1. \A i \in pending' : i <= n /\ sentTo'[i] = None
      BY <1>t, <2>2, <2>3, <2>5 DEF QueueInv, QueueOfUnsent
    <3>2. \A i \in Instruction : i > n => sentTo'[i] = None
      BY <2>2, <2>4 DEF QueueInv, QueueOfUnsent
    <3> QED
      BY <2>2, <3>1, <3>2 DEF QueueOfUnsent
  <2>7. Unreachable'
    <3>1. ASSUME NEW i \in pending', addressee'[i] # None
          PROVE  ~IsOpenConn(addressee'[i])
      BY <1>t, <2>2, <2>3, <3>1 DEF QueueInv, Unreachable
    <3>2. ASSUME NEW i \in pending', addressee'[i] # None
          PROVE  addressee'[i] \in Agent
      BY <1>t, <2>2, <3>2
    <3> QED
      BY <1>3, <3>1, <3>2 DEF QueueRouted, Unreachable
  <2>8. NoOvertaking'
    <3>1. ASSUME NEW i \in Instruction, NEW j \in Instruction, i < j,
                 addressee'[i] = addressee'[j], addressee'[i] # None, sentTo'[j] # None,
                 i \in pending'
          PROVE  FALSE
      <4>1. CASE j = n
        <5>1. i # n /\ i \in pending /\ IsOpenConn(target)
          BY <1>t, <2>2, <2>5, <3>1, <4>1
        <5> QED
          BY <2>2, <3>1, <4>1, <5>1 DEF QueueInv, Unreachable
      <4>2. CASE j # n
        <5>1. j <= instructions
          BY <1>t, <2>2, <3>1, <4>2 DEF QueueInv, QueueOfUnsent
        <5>2. i # n
          BY <1>t, <3>1, <5>1
        <5> QED
          BY <2>2, <3>1, <4>2, <5>2 DEF QueueInv, NoOvertaking
      <4> QED
        BY <4>1, <4>2
    <3> QED
      BY <3>1 DEF NoOvertaking
  <2> QED
    BY <2>6, <2>7, <2>8 DEF QueueInv
<1>4. CASE QueueFlushed
  <2>1. PICK s \in Socket, a \in Agent : AgentAttach(s, a)
    BY <1>4 DEF QueueFlushed
  <2>2. /\ UNCHANGED <<instructions, addressee>>
        /\ pending' = {i \in pending : addressee[i] \notin {None, a}}
        /\ \A i \in Instruction :
               sentTo'[i] = IF i \in pending /\ addressee[i] \in {None, a} THEN a ELSE sentTo[i]
        /\ \A b \in Agent \ {a} : IsOpenConn(b)' => IsOpenConn(b)
    BY <2>1, Flushed
  <2>3. QueueOfUnsent'
    <3>1. \A i \in pending' : i <= instructions' /\ sentTo'[i] = None
      BY <1>t, <2>2 DEF QueueInv, QueueOfUnsent
    <3>2. \A i \in Instruction : i > instructions => i \notin pending
      BY <1>t DEF QueueInv, QueueOfUnsent
    <3>3. \A i \in Instruction : i > instructions' => sentTo'[i] = None
      BY <2>2, <3>2 DEF QueueInv, QueueOfUnsent
    <3> QED
      BY <3>1, <3>3 DEF QueueOfUnsent
  <2>4. Unreachable'
    BY <1>t, <2>2 DEF QueueInv, Unreachable
  <2>5. NoOvertaking'
    BY <1>t, <2>2 DEF QueueInv, NoOvertaking
  <2> QED
    BY <2>3, <2>4, <2>5 DEF QueueInv
<1> QED
  BY <1>1, <1>2, <1>3, <1>4

LEMMA QueueAlways == Spec => []QueueInv
<1>1. TypeOK /\ TypeOK' /\ Unborn /\ ConnInv /\ QueueInv /\ [Next]_vars => QueueInv'
  BY QueueSteps, NextQueue
<1> QED
  BY <1>1, InitQueue, ConnAlways, TypeCorrect, UnbornAlways, PTL DEF Spec

\* An instruction waits for an agent only while that agent has no open connection.
THEOREM QueuedAgentsUnreachable == Spec => []QueuedMeansUnreachable
<1>1. QueueInv => QueuedMeansUnreachable
  BY DEF QueueInv, Unreachable, QueuedMeansUnreachable
<1> QED
  BY <1>1, QueueAlways, PTL

\* No instruction for an agent overtakes an earlier one that is still queued.
THEOREM InstructionsInOrder == Spec => []NoOvertaking
BY QueueAlways, PTL DEF QueueInv

\* A queued instruction leaves the queue only by being sent, or with a restart,
\* and no instruction is sent twice.
THEOREM QueueSendsOnce == Spec => QueueOnlyDrainsBySending
<1>1. ASSUME TypeOK, TypeOK', Unborn, ConnInv, QueueInv, QueueInv', [Next]_vars
      PROVE  /\ \A i \in pending : i \notin pending' => sentTo'[i] # None \/ restarts' # restarts
             /\ \A i \in Instruction : sentTo[i] # None => sentTo'[i] = sentTo[i]
             /\ \A i \in Instruction : sentTo'[i] # None => i \notin pending'
  <2>1. \A i \in Instruction : sentTo'[i] # None => i \notin pending'
    BY <1>1 DEF QueueInv, QueueOfUnsent
  <2>2. CASE QueueStays
    BY <2>1, <2>2 DEF QueueStays, queue
  <2>3. CASE QueueDropped
    BY <2>1, <2>3 DEF QueueDropped
  <2>4. CASE QueueRouted
    <3>1. PICK target \in Agent \cup {None} : Route(target)
      BY <2>4 DEF QueueRouted
    <3>2. sentTo[instructions + 1] = None
      BY <1>1, <3>1, Routed DEF QueueInv, QueueOfUnsent, TypeOK, SessionTypeOK
    <3>3. /\ pending \subseteq pending'
          /\ \A j \in Instruction \ {instructions + 1} : sentTo'[j] = sentTo[j]
      BY <1>1, <3>1, Routed
    <3> QED
      BY <2>1, <3>2, <3>3
  <2>5. CASE QueueFlushed
    <3>1. PICK s \in Socket, a \in Agent : AgentAttach(s, a)
      BY <2>5 DEF QueueFlushed
    <3>2. /\ pending' = {i \in pending : addressee[i] \notin {None, a}}
          /\ \A i \in Instruction :
                sentTo'[i] = IF i \in pending /\ addressee[i] \in {None, a} THEN a ELSE sentTo[i]
      BY <1>1, <3>1, Flushed
    <3>3. a # None /\ pending \subseteq Instruction
      BY <1>1 DEF Agent, None, TypeOK, SessionTypeOK
    <3>4. \A i \in pending : sentTo[i] = None
      BY <1>1 DEF QueueInv, QueueOfUnsent
    <3> QED
      BY <2>1, <3>2, <3>3, <3>4
  <2> QED
    BY <1>1, <2>2, <2>3, <2>4, <2>5, QueueSteps
<1> QED
  BY <1>1, QueueAlways, ConnAlways, TypeCorrect, UnbornAlways, PTL
  DEF Spec, QueueOnlyDrainsBySending
=============================================================================
