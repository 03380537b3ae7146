----------------------------- MODULE PromptAdapter -----------------------------
(***************************************************************************)
(* The adapters that hand an agent one prompt per instruction, one of them *)
(* per behaviour:                                                          *)
(*   acp     AcpAdapter (adapters/acp/client.js): JSON-RPC, one prompt at  *)
(*           a time, the others queue;                                     *)
(*   codex   CodexAppServerAdapter (adapters/codex/app-server.js):         *)
(*           JSON-RPC, turns are started as instructions come;             *)
(*   cursor  CursorAgentAdapter (adapters/cursor/headless.js): one process *)
(*           per instruction, the others queue.                            *)
(*                                                                         *)
(* Instructions are numbered in the order in which the host receives them. *)
(* They may come before createSession has its session: the server sends    *)
(* what its room queued as soon as the agent is attached.  The agent is    *)
(* external: it answers, finishes, or exits at any time.                   *)
(***************************************************************************)
EXTENDS Naturals, Sequences, FiniteSets

CONSTANTS
    Kinds,            \* the adapters considered
    MaxInstructions   \* bound: instructions one run may receive

ASSUME PromptConstants ==
    /\ Kinds \subseteq {"acp", "codex", "cursor"}
    /\ MaxInstructions \in Nat

VARIABLES
    kind,
    received,   \* instructions received so far
    session,    \* createSession: not called, under way, done or failed
    known,      \* sessionId (threadId) is set
    proc,       \* this.proc of the JSON-RPC adapters: none, alive, its stdin closed, dead
    paused,
    busy,       \* one prompt is under way (not kept by codex)
    queue,
    next,       \* codex: what resume() starts once the request for n is answered
    pending,    \* instructions whose request awaits its answer, or whose process runs
    given,      \* instructions that reached the agent, in order
    running,    \* those the agent works on
    overdue,    \* those it works on although their request timed out
    written,    \* cursor: instructions whose result line is written and not yet read
    results,    \* instruction -> result events emitted for it
    refused,    \* instructions an error was emitted for
    dropped,    \* instructions let go without a word
    turnId,     \* codex: it is set, and never reset
    stopping

turn    == <<busy, queue, next, pending, given, running, dropped>>
reports == <<overdue, written, results, refused, turnId>>
vars    == <<kind, received, session, known, proc, paused, turn, reports, stopping>>

None == 0

Instruction == 1 .. MaxInstructions

\* _send writes nothing before there is a process or once its stdin is closed;
\* cursor spawns a process for the purpose.
Writable == kind = "cursor" \/ proc' = "alive"

\* The instruction reaches the agent, if anything can.
Give(n, working) ==
    /\ given' = IF Writable THEN Append(given, n) ELSE given
    /\ running' = IF Writable THEN working \cup {n} ELSE working
    /\ UNCHANGED dropped

LetGo(S, working) ==
    /\ dropped' = dropped \cup S
    /\ running' = working
    /\ UNCHANGED given

-----------------------------------------------------------------------------
(* Starting a turn.  rest is the queue that remains; waiting and working are   *)
(* pending and running without the turn that has just ended, if one has.       *)

\* AcpAdapter._prompt: without a session the instruction is gone; else its request
\* waits for the answer, even if no process is there to read it.
AcpPrompt(n, rest, waiting, working) ==
    /\ queue' = rest
    /\ busy' = known
    /\ IF known THEN pending' = waiting \cup {n} /\ Give(n, working)
       ELSE pending' = waiting /\ LetGo({n}, working)

\* CursorAgentAdapter._runTurn: a process for the instruction.
CursorRunTurn(n, rest, waiting, working) ==
    /\ queue' = rest
    /\ busy' = TRUE
    /\ pending' = waiting \cup {n}
    /\ Give(n, working)

\* CodexAppServerAdapter._startTurn, whatever the agent works on already.
CodexStartTurn(n, rest, waiting, working) ==
    /\ queue' = rest
    /\ IF known THEN pending' = waiting \cup {n} /\ Give(n, working)
       ELSE pending' = waiting /\ LetGo({n}, working)
    /\ UNCHANGED busy

Prompt(n, rest, waiting, working) ==
    \/ kind = "acp"    /\ AcpPrompt(n, rest, waiting, working)
    \/ kind = "codex"  /\ CodexStartTurn(n, rest, waiting, working)
    \/ kind = "cursor" /\ CursorRunTurn(n, rest, waiting, working)

\* Mutant: the end of a turn does not look at the pause.
TurnDoneDuringPause(waiting, working) ==
    /\ UNCHANGED next
    /\ IF queue # <<>> THEN Prompt(Head(queue), Tail(queue), waiting, working)
       ELSE /\ busy' = FALSE
            /\ pending' = waiting
            /\ running' = working
            /\ UNCHANGED <<queue, given, dropped>>

\* Mutant: the end of a turn leaves the queue to the next instruction.
TurnDoneAlone(waiting, working) ==
    /\ busy' = FALSE
    /\ pending' = waiting
    /\ running' = working
    /\ UNCHANGED <<queue, next, given, dropped>>

\* _turnDone, or the end of _prompt: the next one, unless paused.
TurnDone(waiting, working) ==
    /\ UNCHANGED next
    /\ IF ~paused /\ queue # <<>>
       THEN Prompt(Head(queue), Tail(queue), waiting, working)
       ELSE /\ busy' = FALSE
            /\ pending' = waiting
            /\ running' = working
            /\ UNCHANGED <<queue, given, dropped>>

\* The loop of codex's resume() goes on once the request for n is settled.
CodexContinue(n, waiting, working) ==
    /\ next' = [next EXCEPT ![n] = None]
    /\ IF next[n] # None THEN CodexStartTurn(next[n], queue, waiting, working)
       ELSE /\ pending' = waiting
            /\ running' = working
            /\ UNCHANGED <<busy, queue, given, dropped>>

\* The request for n is settled.
Settle(n, working) ==
    IF kind = "codex" THEN CodexContinue(n, pending \ {n}, working)
    ELSE TurnDone(pending \ {n}, working)

-----------------------------------------------------------------------------
(* What the host asks for; nothing follows an "end". *)

\* Mutant: an instruction that comes during a turn starts one of its own.
ReceiveInstructionDuringTurn ==
    /\ received < MaxInstructions
    /\ ~stopping
    /\ received' = received + 1
    /\ UNCHANGED <<kind, session, known, proc, paused, reports, stopping, next>>
    /\ IF paused
       THEN /\ queue' = Append(queue, received')
            /\ UNCHANGED <<busy, pending, given, running, dropped>>
       ELSE Prompt(received', queue, pending, running)

\* sendInstruction.
ReceiveInstruction ==
    /\ received < MaxInstructions
    /\ ~stopping
    /\ received' = received + 1
    /\ UNCHANGED <<kind, session, known, proc, paused, reports, stopping, next>>
    /\ IF paused \/ busy
       THEN /\ queue' = Append(queue, received')
            /\ UNCHANGED <<busy, pending, given, running, dropped>>
       ELSE Prompt(received', queue, pending, running)

Pause ==
    /\ ~stopping
    /\ paused' = TRUE
    /\ UNCHANGED <<kind, received, session, known, proc, turn, reports, stopping>>

\* codex takes the whole queue and starts it one by one, or lets all of it go.
CodexResumeQueue ==
    IF known
    THEN /\ next' = [n \in Instruction |->
                IF \E k \in 1 .. Len(queue) - 1 : queue[k] = n
                THEN queue[CHOOSE k \in 2 .. Len(queue) : queue[k - 1] = n] ELSE next[n]]
         /\ CodexStartTurn(Head(queue), <<>>, pending, running)
    ELSE /\ queue' = <<>>
         /\ LetGo({queue[k] : k \in 1 .. Len(queue)}, running)
         /\ UNCHANGED <<busy, next, pending>>

\* Mutant: the instruction that is started stays in the queue.
ResumeKeepingQueue ==
    /\ ~stopping
    /\ paused' = FALSE
    /\ UNCHANGED <<kind, received, session, known, proc, reports, stopping>>
    /\ IF queue = <<>> \/ busy THEN UNCHANGED turn
       ELSE IF kind = "codex" THEN CodexResumeQueue
       ELSE Prompt(Head(queue), queue, pending, running) /\ UNCHANGED next

Resume ==
    /\ ~stopping
    /\ paused' = FALSE
    /\ UNCHANGED <<kind, received, session, known, proc, reports, stopping>>
    /\ IF queue = <<>> \/ busy THEN UNCHANGED turn
       ELSE IF kind = "codex" THEN CodexResumeQueue
       ELSE Prompt(Head(queue), Tail(queue), pending, running) /\ UNCHANGED next

\* disconnect: stdin is closed, by codex once an interrupt has been answered.
Disconnect ==
    /\ ~stopping
    /\ stopping' = TRUE
    /\ proc' = IF proc = "alive" /\ ~(kind = "codex" /\ turnId) THEN "closed" ELSE proc
    /\ UNCHANGED <<kind, received, session, known, paused, turn, reports>>

Interrupted ==
    /\ stopping
    /\ kind = "codex"
    /\ proc = "alive"
    /\ proc' = "closed"
    /\ UNCHANGED <<kind, received, session, known, paused, turn, reports, stopping>>

-----------------------------------------------------------------------------
(* The session. *)

\* createSession: cursor has nothing to start.
CreateSession ==
    /\ session = "none"
    /\ ~stopping
    /\ session' = IF kind = "cursor" THEN "ready" ELSE "starting"
    /\ proc' = IF kind = "cursor" THEN proc ELSE "alive"
    /\ UNCHANGED <<kind, received, known, paused, turn, reports, stopping>>

\* initialize and session/new, session/load, thread/start or thread/resume.
SessionAnswered ==
    /\ session = "starting"
    /\ proc = "alive"
    /\ session' = "ready"
    /\ known' = TRUE
    /\ UNCHANGED <<kind, received, proc, paused, turn, reports, stopping>>

SessionFails ==
    /\ session = "starting"
    /\ session' = "failed"
    /\ UNCHANGED <<kind, received, known, proc, paused, turn, reports, stopping>>

-----------------------------------------------------------------------------
(* The agent behind JSON-RPC. *)

\* The agent answers session/prompt once it is done, turn/start at once.
Answer(n) ==
    /\ kind \in {"acp", "codex"}
    /\ proc \in {"alive", "closed"}
    /\ n \in pending \cap running
    /\ results' = IF kind = "acp" THEN [results EXCEPT ![n] = @ + 1] ELSE results
    /\ turnId' = (turnId \/ kind = "codex")
    /\ UNCHANGED <<kind, received, session, known, proc, paused, overdue, written, refused, stopping>>
    /\ Settle(n, IF kind = "acp" THEN running \ {n} ELSE running)

\* It answers with an error, which ends the turn without a result.
Refuse(n) ==
    /\ kind \in {"acp", "codex"}
    /\ proc \in {"alive", "closed"}
    /\ n \in pending \cap running
    /\ refused' = refused \cup {n}
    /\ UNCHANGED <<kind, received, session, known, proc, paused, overdue, written, results, turnId, stopping>>
    /\ Settle(n, running \ {n})

\* The timer of _request: the agent is not told.
TimeOut(n) ==
    /\ kind \in {"acp", "codex"}
    /\ n \in pending
    /\ refused' = refused \cup {n}
    /\ overdue' = overdue \cup ({n} \cap running)
    /\ UNCHANGED <<kind, received, session, known, proc, paused, written, results, turnId, stopping>>
    /\ Settle(n, running)

\* Mutant: an answer is taken for a prompt that has timed out.
LateAnswerReported(n) ==
    /\ kind = "acp"
    /\ n \in overdue
    /\ overdue' = overdue \ {n}
    /\ running' = running \ {n}
    /\ results' = [results EXCEPT ![n] = @ + 1]
    /\ UNCHANGED <<kind, received, session, known, proc, paused, busy, queue, next, pending, given,
                   dropped, written, refused, turnId, stopping>>

\* _onLine: nobody waits for this answer any more.
LateAnswer(n) ==
    /\ kind = "acp"
    /\ n \in overdue
    /\ overdue' = overdue \ {n}
    /\ running' = running \ {n}
    /\ UNCHANGED <<kind, received, session, known, proc, paused, busy, queue, next, pending, given,
                   dropped, written, results, refused, turnId, stopping>>

\* codex reports the end of a turn by a notification of its own.
TurnCompleted(n) ==
    /\ kind = "codex"
    /\ n \in running \ pending
    /\ running' = running \ {n}
    /\ overdue' = overdue \ {n}
    /\ results' = [results EXCEPT ![n] = @ + 1]
    /\ UNCHANGED <<kind, received, session, known, proc, paused, busy, queue, next, pending, given,
                   dropped, written, refused, turnId, stopping>>

\* The 'exit' handler: every request is rejected, and what waits behind one is sent
\* to the dead process, to wait for its timeout.
Exit ==
    /\ proc \in {"alive", "closed"}
    /\ proc' = "dead"
    /\ session' = IF session = "starting" THEN "failed" ELSE session
    /\ refused' = refused \cup pending
    /\ overdue' = {}
    /\ UNCHANGED <<kind, received, known, paused, written, results, turnId, stopping>>
    /\ \/ kind = "acp" /\ pending # {} /\ TurnDone({}, {})
       \/ kind = "acp" /\ pending = {} /\ running' = {}
              /\ UNCHANGED <<busy, queue, next, pending, given, dropped>>
       \/ /\ kind = "codex"
          /\ pending' = {next[n] : n \in pending} \ {None}
          /\ next' = [n \in Instruction |-> IF n \in pending THEN None ELSE next[n]]
          /\ running' = {}
          /\ UNCHANGED <<busy, queue, given, dropped>>

-----------------------------------------------------------------------------
(* The process of one cursor turn. *)

WriteResult(n) ==
    /\ kind = "cursor"
    /\ n \in running
    /\ n \notin written
    /\ results[n] = 0
    /\ written' = written \cup {n}
    /\ UNCHANGED <<kind, received, session, known, proc, paused, turn, overdue, results, refused,
                   turnId, stopping>>

\* A 'line' event, which may come after the 'exit' event of the process.
ReadResult(n) ==
    /\ n \in written
    /\ written' = written \ {n}
    /\ results' = [results EXCEPT ![n] = @ + 1]
    /\ UNCHANGED <<kind, received, session, known, proc, paused, turn, overdue, refused, turnId, stopping>>

\* 'exit': an exit without a result stands for one, unless disconnecting.
TurnExit(n) ==
    /\ kind = "cursor"
    /\ n \in running
    /\ LET silent == results[n] = 0 /\ ~stopping IN
       /\ results' = IF silent THEN [results EXCEPT ![n] = 1] ELSE results
       /\ refused' = IF silent THEN refused \cup {n} ELSE refused
    /\ UNCHANGED <<kind, received, session, known, proc, paused, overdue, written, turnId, stopping>>
    /\ Settle(n, running \ {n})

\* 'error': the process could not be started.
SpawnError(n) ==
    /\ kind = "cursor"
    /\ n \in running \ written
    /\ results[n] = 0
    /\ refused' = refused \cup {n}
    /\ UNCHANGED <<kind, received, session, known, proc, paused, overdue, written, results, turnId, stopping>>
    /\ Settle(n, running \ {n})

-----------------------------------------------------------------------------
\* sessionId is known from the start when a room is reopened.
Init ==
    /\ kind \in Kinds
    /\ received = 0
    /\ session = "none"
    /\ known \in BOOLEAN
    /\ proc = "none"
    /\ paused = FALSE
    /\ busy = FALSE
    /\ queue = <<>>
    /\ next = [n \in Instruction |-> None]
    /\ pending = {} /\ running = {} /\ overdue = {} /\ written = {} /\ refused = {} /\ dropped = {}
    /\ given = <<>>
    /\ results = [n \in Instruction |-> 0]
    /\ turnId = FALSE
    /\ stopping = FALSE

Next ==
    \/ ReceiveInstruction
    \/ Pause
    \/ Resume
    \/ Disconnect
    \/ Interrupted
    \/ CreateSession
    \/ SessionAnswered
    \/ SessionFails
    \/ Exit
    \/ \E n \in Instruction :
          \/ Answer(n)
          \/ Refuse(n)
          \/ TimeOut(n)
          \/ LateAnswer(n)
          \/ TurnCompleted(n)
          \/ WriteResult(n)
          \/ ReadResult(n)
          \/ TurnExit(n)
          \/ SpawnError(n)

Spec == Init /\ [][Next]_vars

\* Timers fire; a cursor process ends or its start fails.
FairSpec ==
    /\ Spec
    /\ \A n \in Instruction :
          /\ WF_vars(Answer(n) \/ Refuse(n) \/ TimeOut(n))
          /\ WF_vars(TurnExit(n) \/ SpawnError(n))

-----------------------------------------------------------------------------
(* Properties. *)

TypeOK ==
    /\ kind \in Kinds
    /\ received \in 0 .. MaxInstructions
    /\ session \in {"none", "starting", "ready", "failed"}
    /\ proc \in {"none", "alive", "closed", "dead"}
    /\ {known, paused, busy, turnId, stopping} \subseteq BOOLEAN
    /\ queue \in Seq(Instruction)
    /\ given \in Seq(Instruction)
    /\ next \in [Instruction -> Instruction \cup {None}]
    /\ UNION {pending, running, overdue, written, refused, dropped} \subseteq Instruction
    /\ results \in [Instruction -> 0 .. 2]

Members(s) == {s[k] : k \in 1 .. Len(s)}

Distinct(s) == Cardinality(Members(s)) = Len(s)

\* Through pauses, resumes, timeouts and exits every instruction the adapter
\* received is in one place: it waits, once, or it was handed over, once, or it
\* was answered with an error, or it was dropped for want of a session.
EachAccountedFor ==
    LET waiting == Members(queue) \cup (Members(next) \ {None})
        handed  == pending \cup Members(given) \cup refused
    IN  /\ Distinct(queue) /\ Distinct(given)
        /\ 1 .. received = waiting \cup handed \cup dropped
        /\ waiting \cap handed = {}
        /\ dropped \cap (waiting \cup handed) = {}

\* acp/client.js: "Turns run one at a time" - but for those whose request timed
\* out, which the agent is not told; and there is one cursor process at a time.
OneTurnAtATime ==
    kind \in {"acp", "cursor"} => Cardinality(running \ overdue) <= 1

\* A turn that ends during a pause starts no other, nor does an exit or a timeout.
NothingGivenWhilePaused ==
    [][ paused /\ paused' /\ kind \in {"acp", "cursor"} => given' = given ]_vars

\* What is queued behind a turn is taken, by whichever way the turn ends.
QueueMoves ==
    \A n \in Instruction :
        busy /\ n \in Members(queue) ~> n \notin Members(queue) \/ paused

\* The host closes its turn on a result, so one too many closes the turn of the next
\* instruction.  A prompt has one outcome, an error or a result, but for two cases: a
\* codex turn whose request timed out still reports its result when it completes, and
\* a cursor process that exits before its result line is read yields an error and a
\* result of its own, and then the one of the line.  An ACP answer that comes after its
\* timeout is never taken for a result, and no prompt fails after its result.
OutcomesPerPrompt ==
    [][ \A n \in Instruction :
            /\ results'[n] # results[n] =>
                  \/ results[n] = 0 /\ n \notin refused
                  \/ results[n] = 0 /\ kind = "codex" /\ n \in overdue
                  \/ results[n] = 1 /\ kind = "cursor" /\ n \in refused \cap written
            /\ n \in refused' \ refused => results[n] = 0 ]_vars
=============================================================================
