------------------------------ MODULE AgentHost ------------------------------
(***************************************************************************)
(* One AgentHost (client/client.js) and the adapter it drives, here        *)
(* ClaudeCodeAdapter (adapters/claude/headless.js): frames arrive from the *)
(* server, the host opens a turn and passes instructions on, the adapter   *)
(* holds them while it is paused or writes them to its process, and what   *)
(* the process reports goes back to the server under the host's turn.      *)
(*                                                                         *)
(* Instructions are numbered in the order in which the server sends them.  *)
(* The agent process is external: it takes what was written to its stdin   *)
(* one by one, reports some work, then a result; it may exit or be killed  *)
(* at any time.                                                            *)
(***************************************************************************)
EXTENDS Naturals, Sequences

CONSTANTS
    MaxInstructions,  \* bound: instructions one run may send
    MaxFrames,        \* bound: frames on their way to the host
    EarlyFrames       \* TRUE: frames may arrive in one segment with agent_attached

ASSUME HostConstants ==
    /\ MaxInstructions \in Nat
    /\ MaxFrames \in Nat
    /\ EarlyFrames \in BOOLEAN

VARIABLES
    toHost,    \* frames on their way to the host
    sent,      \* instructions sent so far
    link,      \* the host's connection is open; it is never reopened
    started,   \* start() went on after agent_attached
    paused,    \* the adapter's paused
    held,      \* the adapter's queue
    procs,     \* every process the adapter ever spawned
    proc,      \* the one this.proc refers to, or None
    written,   \* instructions written to a process, in order
    stopping,  \* disconnect() was called
    turn,      \* the host's _turn, or None
    turns,     \* turns begun so far
    feed       \* agent events the server received

adapter == <<paused, held, procs, proc, written, stopping>>
host    == <<turn, turns, feed>>
vars    == <<toHost, sent, link, started, adapter, host>>

None == 0

Instruction == 1 .. MaxInstructions

\* Every spawn but one is for an instruction.
Process == 1 .. MaxInstructions + 1

NewProcess == [state |-> "alive", inbox |-> <<>>, worked |-> FALSE]

Dead(state) == [NewProcess EXCEPT !.state = state]

Told(type, n) == [type |-> type, n |-> n]

Event(kind, t) == [kind |-> kind, turn |-> t]

\* _emit: events are dropped, without a word, once the socket is not open.
Emitted(events) == IF link THEN feed \o events ELSE feed

-----------------------------------------------------------------------------
(* The server's side of the connection. *)

\* Nothing follows an "end", after which the server closes the connection.
Send(frame) ==
    /\ link
    /\ ~stopping
    /\ \A k \in 1 .. Len(toHost) : toHost[k].type # "end"
    /\ Len(toHost) < MaxFrames
    /\ toHost' = Append(toHost, frame)
    /\ UNCHANGED <<link, started, adapter, host>>

\* onInstruction, flushPending, or the brief of a handoff.
SendInstruction ==
    /\ sent < MaxInstructions
    /\ sent' = sent + 1
    /\ Send(Told("instruction", sent + 1))

SendControl == \E type \in {"pause", "resume", "end"} : Send(Told(type, None)) /\ UNCHANGED sent

-----------------------------------------------------------------------------
(* The turn. *)

\* _beginTurn: no new turn while one is open.
BeginTurn ==
    IF turn # None THEN UNCHANGED host
    ELSE /\ turns' = turns + 1
         /\ turn' = turns + 1
         /\ feed' = Emitted(<<Event("turn_started", turns + 1)>>)

\* Mutant: the turn is not reset.
ReportAndEndTurnTwice(kind) ==
    /\ feed' = Emitted(IF turn = None THEN <<Event(kind, turn)>>
                       ELSE <<Event(kind, turn), Event("turn_ended", turn)>>)
    /\ UNCHANGED <<turn, turns>>

\* _onAdapterEvent for a result, or for an exit or error of the agent: the event
\* itself under the turn, then _endTurn.
ReportAndEndTurn(kind) ==
    /\ feed' = Emitted(IF turn = None THEN <<Event(kind, turn)>>
                       ELSE <<Event(kind, turn), Event("turn_ended", turn)>>)
    /\ turn' = None
    /\ UNCHANGED turns

-----------------------------------------------------------------------------
(* The adapter. *)

\* _write's test for a dead process: exitCode is null for one killed by a signal.
LooksDead == proc = None \/ procs[proc].state = "exited"

Spawned == Append(procs, NewProcess)

\* What is written to a process that was killed is lost.
Fed(ps, p, batch) == [ps EXCEPT ![p].inbox = IF ps[p].state = "alive" THEN @ \o batch ELSE @]

\* _write for each instruction of a non-empty batch; it respawns once at most.
Write(batch) ==
    /\ written' = written \o batch
    /\ proc' = IF LooksDead THEN Len(procs) + 1 ELSE proc
    /\ procs' = Fed(IF LooksDead THEN Spawned ELSE procs, proc', batch)

\* start() goes on after agent_attached: createSession spawns a process, whatever
\* an instruction that came with agent_attached may have spawned already.
Start ==
    /\ ~started
    /\ started' = TRUE
    /\ procs' = Spawned
    /\ proc' = Len(procs) + 1
    /\ UNCHANGED <<toHost, sent, link, paused, held, written, stopping, host>>

\* The host's 'message' event.  The frames of one segment are emitted in one go,
\* before start() goes on.
Receive(type) ==
    /\ started \/ EarlyFrames
    /\ toHost # <<>>
    /\ Head(toHost).type = type
    /\ toHost' = Tail(toHost)

\* _route and sendInstruction.
ReceiveInstruction ==
    /\ Receive("instruction")
    /\ BeginTurn
    /\ IF paused
       THEN held' = Append(held, Head(toHost).n) /\ UNCHANGED <<procs, proc, written>>
       ELSE Write(<<Head(toHost).n>>) /\ UNCHANGED held
    /\ UNCHANGED <<sent, link, started, paused, stopping>>

ReceivePause ==
    /\ Receive("pause")
    /\ paused' = TRUE
    /\ UNCHANGED <<sent, link, started, held, procs, proc, written, stopping, host>>

\* Mutant: the queue is written and kept.
ReceiveResumeKeepingQueue ==
    /\ Receive("resume")
    /\ paused' = FALSE
    /\ UNCHANGED held
    /\ IF held = <<>> THEN UNCHANGED <<procs, proc, written>> ELSE Write(held)
    /\ UNCHANGED <<sent, link, started, stopping, host>>

ReceiveResume ==
    /\ Receive("resume")
    /\ paused' = FALSE
    /\ held' = <<>>
    /\ IF held = <<>> THEN UNCHANGED <<procs, proc, written>> ELSE Write(held)
    /\ UNCHANGED <<sent, link, started, stopping, host>>

\* "end": disconnect() closes stdin and waits for the process.  A room is not
\* ended in the segment that attaches its agent.
ReceiveEnd ==
    /\ started
    /\ Receive("end")
    /\ stopping' = TRUE
    /\ UNCHANGED <<sent, link, started, paused, held, procs, proc, written, host>>

\* The process exited or its 1.5 s were up; then the host closes its connection.
Disconnected ==
    /\ stopping
    /\ proc # None
    /\ link' = FALSE
    /\ toHost' = <<>>
    /\ proc' = None
    /\ procs' = [procs EXCEPT ![proc] = IF @.state = "alive" THEN Dead("killed") ELSE @]
    /\ UNCHANGED <<sent, started, paused, held, written, stopping, host>>

LoseLink ==
    /\ link
    /\ link' = FALSE
    /\ toHost' = <<>>
    /\ UNCHANGED <<sent, started, adapter, host>>

-----------------------------------------------------------------------------
(* The agent processes. *)

\* What a process does is heard once start() has gone on, which needs no event.
Alive(p) == started /\ p <= Len(procs) /\ procs[p].state = "alive"

Working(p) == Alive(p) /\ procs[p].inbox # <<>>

\* A message or a tool call for the instruction at hand.
Work(p) ==
    /\ Working(p)
    /\ ~procs[p].worked
    /\ procs' = [procs EXCEPT ![p].worked = TRUE]
    /\ feed' = Emitted(<<Event("work", turn)>>)
    /\ UNCHANGED <<toHost, sent, link, started, paused, held, proc, written, stopping, turn, turns>>

Finish(p) ==
    /\ Working(p)
    /\ procs' = [procs EXCEPT ![p].inbox = Tail(@), ![p].worked = FALSE]
    /\ ReportAndEndTurn("result")
    /\ UNCHANGED <<toHost, sent, link, started, paused, held, proc, written, stopping>>

\* Mutant: an exit is reported, and the turn left open.
ExitReported == feed' = Emitted(<<Event("exited", turn)>>) /\ UNCHANGED <<turn, turns>>

\* The 'exit' handler (or 'error', when the process could not be started).
Exited == IF stopping THEN UNCHANGED host ELSE ReportAndEndTurn("exited")

Die(p) ==
    /\ Alive(p)
    /\ \E state \in {"exited", "killed"} :
          procs' = [procs EXCEPT ![p] = Dead(state)]
    /\ Exited
    /\ UNCHANGED <<toHost, sent, link, started, paused, held, proc, written, stopping>>

-----------------------------------------------------------------------------
Init ==
    /\ toHost = <<>>
    /\ sent = 0
    /\ link = TRUE
    /\ started = FALSE
    /\ paused = FALSE
    /\ held = <<>>
    /\ procs = <<>>
    /\ proc = None
    /\ written = <<>>
    /\ stopping = FALSE
    /\ turn = None
    /\ turns = 0
    /\ feed = <<>>

ReceiveFrame == ReceiveInstruction \/ ReceivePause \/ ReceiveResume \/ ReceiveEnd

Next ==
    \/ SendInstruction
    \/ SendControl
    \/ Start
    \/ ReceiveFrame
    \/ Disconnected
    \/ LoseLink
    \/ \E p \in Process : Work(p) \/ Finish(p) \/ Die(p)

Spec == Init /\ [][Next]_vars

\* Microtasks and socket events run; an agent that was given an instruction
\* finishes it or dies.
FairSpec ==
    /\ Spec
    /\ WF_vars(Start)
    /\ WF_vars(ReceiveFrame)
    /\ \A p \in Process : WF_vars(Finish(p) \/ (Working(p) /\ Die(p)))

-----------------------------------------------------------------------------
(* Properties. *)

TypeOK ==
    /\ toHost \in Seq([type: {"instruction", "pause", "resume", "end"},
                       n: Instruction \cup {None}])
    /\ sent \in 0 .. MaxInstructions
    /\ {link, started, paused, stopping} \subseteq BOOLEAN
    /\ held \in Seq(Instruction)
    /\ procs \in Seq([state: {"alive", "exited", "killed"}, inbox: Seq(Instruction),
                      worked: BOOLEAN])
    /\ Len(procs) <= MaxInstructions + 1
    /\ proc \in 0 .. Len(procs)
    /\ written \in Seq(Instruction)
    /\ turns \in 0 .. MaxInstructions
    /\ turn \in {None, turns}
    /\ feed \in Seq([kind: {"turn_started", "work", "result", "exited", "turn_ended"},
                     turn: 0 .. turns])

\* Whatever pauses, resumes, restarts of the agent and early frames come between,
\* the adapter passes on every instruction it was sent, once and in order: those
\* it wrote and those it holds are the first ones, and on a connection that never
\* broke the rest is still on its way.
InstructionsInOrder ==
    LET taken    == written \o held
        underway == {k \in 1 .. Len(toHost) : toHost[k].type = "instruction"}
    IN  /\ \A k \in 1 .. Len(taken) : taken[k] = k
        /\ link => {toHost[k].n : k \in underway} = Len(taken) + 1 .. sent

\* README: turns are bracketed by turn_started and turn_completed.  Of each turn
\* the server first sees its start, and nothing after its end, which comes once.
TurnsAreBracketed ==
    \A j, k \in 1 .. Len(feed) :
        j < k /\ feed[j].turn = feed[k].turn /\ feed[j].turn # None
            => feed[j].kind # "turn_ended" /\ feed[k].kind # "turn_started"

\* A turn ends: by the agent's result, or with the agent.  While the adapter is
\* paused it may stay open, and when the room ends; and it stays open when the
\* instruction was written to an agent that a signal had killed.
TurnEnds ==
    turn # None ~>
        \/ turn = None
        \/ paused
        \/ stopping
        \/ proc # None /\ procs[proc].state = "killed"

\* README: every agent-originated event carries an explicit turnId.
WorkCarriesTurn ==
    \A k \in 1 .. Len(feed) : feed[k].kind \in {"work", "result"} => feed[k].turn # None
=============================================================================
