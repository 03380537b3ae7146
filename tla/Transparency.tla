------------------------------ MODULE Transparency ------------------------------
(***************************************************************************)
(* What the room gets to see of an agent's turn: the adapters translate    *)
(* what their runtime reports into agent_message, tool_use, tool_result,   *)
(* error and result events.  One kind per way of reporting:                *)
(*   claude, codex, cursor   every message, item or line as it comes       *)
(*   acp            prose in chunks, which the adapter joins               *)
(*   opencode       parts that are updated, prose joined at the end        *)
(*   hooks          codex, gemini and goose behind their own interface:    *)
(*                  hooks for tools, the final message with the last one   *)
(*   claude-native  hooks for tools, prose from the transcript on disk     *)
(*   cursor-native  records of the chat store                              *)
(*                                                                         *)
(* Pieces of prose and tool calls are numbered as the agent makes them.    *)
(* The agent is external: it speaks and calls tools as it likes.           *)
(***************************************************************************)
EXTENDS Naturals, Sequences

CONSTANTS
    Kinds,      \* the kinds considered
    MaxTurns,   \* bound: turns of one run
    MaxSaid,    \* bound: pieces of prose, the history included
    MaxTools,   \* bound: tool calls
    History,    \* pieces a resumed conversation has already
    MaxClears   \* bound: conversations that are ended with /clear

ASSUME TransparencyConstants ==
    /\ Kinds \subseteq {"claude", "codex", "cursor", "acp", "opencode", "hooks",
                        "claude-native", "cursor-native"}
    /\ {MaxTurns, MaxSaid, MaxTools, MaxClears} \subseteq Nat
    /\ History \in 0 .. MaxSaid

VARIABLES
    kind,
    turn,      \* turns the agent began
    active,    \* it works on the last of them
    said,      \* piece of prose -> its turn, 0 for the history
    calls,     \* tool call -> how much had been said before it
    running,   \* the tool call that runs, or None
    broken,    \* turns that failed or were interrupted
    calm,      \* turns that began, in this conversation, with no timer of another one
    saved,     \* pieces that are on disk (claude-native, cursor-native)
    midLine,   \* claude-native: part of the next one is
    starts,    \* claude-native: transcript -> what had been said before it began
    fresh,     \* claude-native: the last of them has not been announced
    path,      \* claude-native: _transcript.path, or None
    offset,    \* claude-native: _transcript.offset, as pieces consumed
    held,      \* acp: _buffer; opencode: state.order
    reported,  \* opencode: state.tools
    due,       \* claude-native: Stop and SessionEnd hooks whose timer runs
    sweeps,    \* claude-native: those whose second flush waits for its timer
    feed       \* the events the room got

agent   == <<kind, turn, active, said, calls, running, broken, calm>>
disk    == <<saved, midLine, starts, fresh>>
adapter == <<path, offset, held, reported, due, sweeps>>
vars    == <<agent, disk, adapter, feed>>

None == 0

Tool == 1 .. MaxTools

Message(pieces) == [type |-> "agent_message", of |-> pieces]
ToolUse(t)      == [type |-> "tool_use", of |-> <<t>>]
ToolResult(t)   == [type |-> "tool_result", of |-> <<t>>]
Result(k)       == [type |-> "result", of |-> <<k>>]
Failure(k)      == [type |-> "error", of |-> <<k>>]

Pieces(first, last) == [k \in 1 .. last + 1 - first |-> first + k - 1]

\* Prose goes out as one message, if there is any.
Prose(pieces) == IF pieces = <<>> THEN <<>> ELSE <<Message(pieces)>>

Emit(events) == feed' = feed \o events

-----------------------------------------------------------------------------
(* The translators, by what the agent does: "prompt" (a turn begins), "say",   *)
(* "tool" (a call begins), "done" (it returned), "end", "fail".  n is the      *)
(* number of the turn, the piece or the call.                                  *)

\* normalizeClaudeMessage: one event for each block, a result for the end of a turn
\* however it ended.
ClaudeEvents(does, n) ==
    CASE does = "say"  -> Prose(<<n>>)
      [] does = "tool" -> <<ToolUse(n)>>
      [] does = "done" -> <<ToolResult(n)>>
      [] does \in {"end", "fail"} -> <<Result(n)>>
      [] OTHER -> <<>>

\* translateAppServerEvent: items as they are completed, tool calls also when they
\* start; a turn that failed is reported as such.
CodexEvents(does, n) ==
    IF does = "fail" THEN <<Failure(n), Result(n)>> ELSE ClaudeEvents(does, n)

\* normalizeCursorEvent, and the exit without a result.
CursorEvents(does, n) ==
    IF does = "fail" THEN <<Failure(n), Result(n)>> ELSE ClaudeEvents(does, n)

\* translateAcpUpdate and turnEnd: chunks are joined until a tool call or the end.
\* A turn that fails leaves its chunks behind.
AcpUpdate(does, n) ==
    /\ UNCHANGED <<path, offset, reported, due, sweeps>>
    /\ held' = IF does = "say" THEN Append(held, n)
               ELSE IF does \in {"tool", "end"} THEN <<>> ELSE held
    /\ CASE does = "tool" -> Emit(Prose(held) \o <<ToolUse(n)>>)
         [] does = "done" -> Emit(<<ToolResult(n)>>)
         [] does = "end"  -> Emit(Prose(held) \o <<Result(n)>>)
         [] does = "fail" -> Emit(<<Failure(n)>>)
         [] OTHER -> UNCHANGED feed

\* A text part: an update replaces what the part held.
OpencodeText(n) ==
    held' = IF \E k \in 1 .. Len(held) : held[k] = n THEN held ELSE Append(held, n)

\* Mutant: what was reported of a tool is not remembered.
OpencodeToolForgotten(t, status) ==
    /\ Emit(IF status = "running" THEN <<ToolUse(t)>> ELSE <<ToolUse(t), ToolResult(t)>>)
    /\ UNCHANGED reported

\* A tool part: its first update announces it, unless it has completed already.
OpencodeTool(t, status) ==
    CASE status = "running" /\ reported[t] = "none" ->
            /\ Emit(<<ToolUse(t)>>)
            /\ reported' = [reported EXCEPT ![t] = "started"]
      [] status = "completed" /\ reported[t] # "done" ->
            /\ Emit((IF reported[t] = "none" THEN <<ToolUse(t)>> ELSE <<>>) \o <<ToolResult(t)>>)
            /\ reported' = [reported EXCEPT ![t] = "done"]
      [] OTHER -> UNCHANGED <<feed, reported>>

\* translateOpencodeEvent; a call may complete before its first update.
OpencodeEvent(does, n) ==
    /\ UNCHANGED <<path, offset, due, sweeps>>
    /\ \/ does = "say"  /\ OpencodeText(n) /\ UNCHANGED <<feed, reported>>
       \/ does = "tool" /\ OpencodeTool(n, "running") /\ UNCHANGED held
       \/ does = "done" /\ OpencodeTool(n, "completed") /\ UNCHANGED held
       \/ /\ does = "end"
          /\ held' = <<>>
          /\ Emit(Prose(held) \o <<Result(n)>>)
          /\ UNCHANGED reported
       \/ does = "fail" /\ Emit(<<Failure(n)>>) /\ UNCHANGED <<held, reported>>
       \/ does \in {"prompt", "tool"} /\ UNCHANGED <<feed, held, reported>>

\* The reply that AfterAgent, or Stop, carries: the last piece of the turn.
Reply(k) == IF said # <<>> /\ said[Len(said)] = k THEN <<Len(said)>> ELSE <<>>

\* Stop in the codex and goose translators, AfterAgent in gemini's.
StopEvents(k) == Prose(Reply(k)) \o <<Result(k)>>

\* translateGeminiHookEvent and its likes; an interrupted turn has no last hook.
HookEvents(does, n) ==
    CASE does = "tool" -> <<ToolUse(n)>>
      [] does = "done" -> <<ToolResult(n)>>
      [] does = "end"  -> StopEvents(n)
      [] OTHER -> <<>>

\* extractBlobEvents: a record holds the prose and the calls of one step; prose
\* without a call ends the turn, a step without either leaves no record.
CursorRecord(does, n) ==
    LET prose == Pieces(saved + 1, Len(said)) IN
    CASE does = "tool" -> Prose(prose) \o <<ToolUse(n)>>
      [] does = "done" -> <<ToolResult(n)>>
      [] does = "end" /\ prose # <<>> -> Prose(prose) \o <<Result(n)>>
      [] OTHER -> <<>>

\* Claude Code writes a transcript for each conversation.
Current == Len(starts)

Last(c) == IF c = Current THEN Len(said) ELSE starts[c + 1]

\* Up to which piece transcript c is on disk: all its lines, and all there is of it.
Lines(c) == IF saved < starts[c] THEN starts[c] ELSE IF saved > Last(c) THEN Last(c) ELSE saved

Size(c) == IF midLine /\ starts[c] <= saved /\ saved < Last(c) THEN saved + 1 ELSE Lines(c)

\* extractTranscriptUpdates: the prose of the lines read, a message for each.
Transcribed == [k \in 1 .. offset' - offset |-> Message(<<offset + k>>)]

\* Mutant: a transcript that is new to the adapter is read, not skipped.
FlushTranscriptFromStart(c, after) ==
    /\ path' = c
    /\ offset' = Lines(c)
    /\ Emit([k \in 1 .. Lines(c) - (IF path = c THEN offset ELSE starts[c]) |->
                Message(<<(IF path = c THEN offset ELSE starts[c]) + k>>)] \o after)

\* _flushTranscript: a path other than the last counts as seen as far as it goes, one
\* that is known has each complete line consumed once.
FlushTranscript(c, after) ==
    \/ /\ path # c
       /\ path' = c
       /\ offset' = Size(c)
       /\ Emit(after)
    \/ /\ path = c
       /\ path' = path
       /\ offset' = IF Lines(c) > offset THEN Lines(c) ELSE offset
       /\ Emit(Transcribed \o after)

\* A timer for turn k, or for the end of the conversation.
Timer(k) == [turn |-> k, path |-> Current]

\* _onHook with translateHookEvent: the end of a turn is held back for 600 ms.
ClaudeHook(does, n) ==
    /\ UNCHANGED <<held, reported, sweeps>>
    /\ due' = IF does = "end" THEN Append(due, Timer(n)) ELSE due
    /\ CASE does = "prompt" -> FlushTranscript(Current, <<>>)
         [] does = "tool"   -> FlushTranscript(Current, <<ToolUse(n)>>)
         [] does = "done"   -> FlushTranscript(Current, <<ToolResult(n)>>)
         [] OTHER -> UNCHANGED <<feed, path, offset>>

\* The adapter hears of what the agent does.
Hear(does, n) ==
    \/ kind = "claude" /\ Emit(ClaudeEvents(does, n)) /\ UNCHANGED adapter
    \/ kind = "codex"  /\ Emit(CodexEvents(does, n)) /\ UNCHANGED adapter
    \/ kind = "cursor" /\ Emit(CursorEvents(does, n)) /\ UNCHANGED adapter
    \/ kind = "hooks"  /\ Emit(HookEvents(does, n)) /\ UNCHANGED adapter
    \/ kind = "cursor-native" /\ Emit(CursorRecord(does, n)) /\ UNCHANGED adapter
    \/ kind = "acp"      /\ AcpUpdate(does, n)
    \/ kind = "opencode" /\ OpencodeEvent(does, n)
    \/ kind = "claude-native" /\ ClaudeHook(does, n)

-----------------------------------------------------------------------------
(* The agent. *)

\* No timer runs for a transcript that is no longer written.
Calm ==
    /\ \A k \in 1 .. Len(due) : due[k].path = Current
    /\ \A k \in 1 .. Len(sweeps) : sweeps[k].path = Current

BeginTurn ==
    /\ ~active
    /\ ~fresh
    /\ turn < MaxTurns
    /\ turn' = turn + 1
    /\ active' = TRUE
    /\ calm' = IF Calm THEN calm \cup {turn'} ELSE calm
    /\ Hear("prompt", turn')
    /\ UNCHANGED <<kind, said, calls, running, broken, disk>>

Say ==
    /\ active
    /\ running = None
    /\ Len(said) < MaxSaid
    /\ said' = Append(said, turn)
    /\ Hear("say", Len(said'))
    /\ UNCHANGED <<kind, turn, active, calls, running, broken, calm, disk>>

\* cursor-native: a record is complete, and stored, when its step is.
Recorded == IF kind = "cursor-native" THEN Len(said) ELSE saved

CallTool ==
    /\ active
    /\ running = None
    /\ Len(calls) < MaxTools
    /\ calls' = Append(calls, Len(said))
    /\ running' = Len(calls')
    /\ saved' = Recorded
    /\ Hear("tool", running')
    /\ UNCHANGED <<kind, turn, active, said, broken, calm, midLine, starts, fresh>>

ToolReturns ==
    /\ running # None
    /\ running' = None
    /\ Hear("done", running)
    /\ UNCHANGED <<kind, turn, active, said, calls, broken, calm, disk>>

EndTurn ==
    /\ active
    /\ running = None
    /\ active' = FALSE
    /\ saved' = Recorded
    /\ Hear("end", turn)
    /\ UNCHANGED <<kind, turn, said, calls, running, broken, calm, midLine, starts, fresh>>

\* The turn fails or the host interrupts it; opencode goes on to report its end, and
\* cursor-native has no record of a step that was not completed.
FailTurn ==
    /\ active
    /\ turn \notin broken
    /\ broken' = broken \cup {turn}
    /\ active' = (kind = "opencode")
    /\ running' = None
    /\ saved' = Recorded
    /\ Hear("fail", turn)
    /\ UNCHANGED <<kind, turn, said, calls, calm, midLine, starts, fresh>>

\* opencode reports a part again.
RepeatPart ==
    /\ kind = "opencode"
    /\ active
    /\ \/ \E k \in 1 .. Len(held) : OpencodeText(held[k]) /\ UNCHANGED <<feed, reported>>
       \/ running # None /\ OpencodeTool(running, "running") /\ UNCHANGED held
       \/ \E t \in 1 .. Len(calls) :
             t # running /\ OpencodeTool(t, "completed") /\ UNCHANGED held
    /\ UNCHANGED <<agent, disk, path, offset, due, sweeps>>

\* acp: in answer to session/load the agent repeats the conversation as updates, which
\* are translated as any others.
LoadSession ==
    /\ kind = "acp"
    /\ turn = 0 /\ held = <<>> /\ feed = <<>>
    /\ held' = Pieces(1, History)
    /\ UNCHANGED <<agent, disk, path, offset, reported, due, sweeps, feed>>

\* Claude Code writes a line, in its own time: those of one transcript before those of
\* the next.
WriteTranscript ==
    /\ kind = "claude-native"
    /\ saved < Len(said)
    /\ midLine' = ~midLine
    /\ saved' = IF midLine THEN saved + 1 ELSE saved
    /\ UNCHANGED <<agent, starts, fresh, adapter, feed>>

\* The host enters /clear: the conversation ends, with a hook of its own, and another
\* begins in a transcript of its own.
ClearConversation ==
    /\ kind = "claude-native"
    /\ ~active
    /\ ~fresh
    /\ Current <= MaxClears
    /\ due' = Append(due, Timer(None))
    /\ starts' = Append(starts, Len(said))
    /\ fresh' = TRUE
    /\ calm' = {}
    /\ UNCHANGED <<kind, turn, active, said, calls, running, broken, saved, midLine>>
    /\ UNCHANGED <<path, offset, held, reported, sweeps, feed>>

\* The hook of a conversation that begins, or is resumed.
SessionStart ==
    /\ fresh
    /\ fresh' = FALSE
    /\ FlushTranscript(Current, <<>>)
    /\ UNCHANGED <<agent, saved, midLine, starts, held, reported, due, sweeps>>

-----------------------------------------------------------------------------
(* The timers of claude-native. *)

\* What translateHookEvent makes of the hook: SessionEnd only tells a status.
Closed(timer) == IF timer.turn = None THEN <<>> ELSE <<Result(timer.turn)>>

\* Mutant: the result goes out without a look at the transcript.
HeldResultAlone ==
    /\ due # <<>>
    /\ due' = Tail(due)
    /\ sweeps' = Append(sweeps, Head(due))
    /\ Emit(Closed(Head(due)))
    /\ UNCHANGED <<agent, disk, path, offset, held, reported>>

\* 600 ms after the end of a turn, or of a conversation.
HeldResult ==
    /\ due # <<>>
    /\ due' = Tail(due)
    /\ sweeps' = Append(sweeps, Head(due))
    /\ FlushTranscript(Head(due).path, Closed(Head(due)))
    /\ UNCHANGED <<agent, disk, held, reported>>

\* Mutant: the second flush is forgotten.
SweepNothing ==
    /\ sweeps # <<>>
    /\ sweeps' = Tail(sweeps)
    /\ UNCHANGED <<agent, disk, path, offset, held, reported, due, feed>>

\* 2 s later.  The lines of the turn are assumed to be written by then.
Sweep ==
    /\ sweeps # <<>>
    /\ \A n \in 1 .. Len(said) : said[n] = Head(sweeps).turn => n <= saved
    /\ sweeps' = Tail(sweeps)
    /\ FlushTranscript(Head(sweeps).path, <<>>)
    /\ UNCHANGED <<agent, disk, held, reported, due>>

-----------------------------------------------------------------------------
Init ==
    /\ kind \in Kinds
    /\ turn = 0
    /\ active = FALSE
    /\ said = [k \in 1 .. History |-> 0]
    /\ calls = <<>>
    /\ running = None
    /\ broken = {}
    /\ calm = {}
    /\ saved = History
    /\ midLine = FALSE
    /\ starts = <<0>>
    /\ fresh = (kind = "claude-native")
    /\ path = None
    /\ offset = 0
    /\ held = <<>>
    /\ reported = [t \in Tool |-> "none"]
    /\ due = <<>>
    /\ sweeps = <<>>
    /\ feed = <<>>

Next ==
    \/ BeginTurn
    \/ Say
    \/ CallTool
    \/ ToolReturns
    \/ EndTurn
    \/ FailTurn
    \/ RepeatPart
    \/ LoadSession
    \/ WriteTranscript
    \/ ClearConversation
    \/ SessionStart
    \/ HeldResult
    \/ Sweep

Spec == Init /\ [][Next]_vars

\* Timers fire, and the transcript gets written.
FairSpec ==
    Spec /\ WF_vars(WriteTranscript) /\ WF_vars(HeldResult) /\ WF_vars(Sweep)

-----------------------------------------------------------------------------
(* Properties. *)

\* What one event says.
Told(event) ==
    IF event.type = "agent_message" THEN {event.of[k] : k \in 1 .. Len(event.of)} ELSE {}

Mirrored(events) == UNION {Told(events[k]) : k \in 1 .. Len(events)}

Increasing(s) == \A j, k \in 1 .. Len(s) : j < k => s[j] < s[k]

\* The agent's prose appears in the room once and in the order in which it was
\* said, across chunks, flushes, repeated updates, overlapping timers and changes of
\* transcript.  Nothing that was said before the room saw the conversation is repeated
\* in it, except by an ACP agent that repeats it on its own.
ProseInOrder ==
    \A j, k \in {i \in 1 .. Len(feed) : feed[i].type = "agent_message"} :
        /\ Increasing(feed[j].of)
        /\ kind = "acp" \/ \A n \in Told(feed[j]) : n > History
        /\ j < k => \A m \in Told(feed[j]), n \in Told(feed[k]) : m < n

\* A tool call is announced once and answered once at most, in that order, and
\* where prose is not held back on purpose the room reads what the agent said
\* before a call before it sees the call.
ToolsInPlace ==
    /\ \A t \in Tool :
          LET of(type) == {k \in 1 .. Len(feed) : feed[k].type = type /\ feed[k].of = <<t>>}
          IN  /\ \A j, k \in of("tool_use") : j = k
              /\ \A j, k \in of("tool_result") : j = k
              /\ \A k \in of("tool_result") : \E j \in of("tool_use") : j < k
    /\ kind \in {"claude", "codex", "cursor", "acp", "cursor-native"} =>
          \A k \in 1 .. Len(feed) :
              feed[k].type = "tool_use" =>
                  {n \in History + 1 .. calls[feed[k].of[1]] : kind # "cursor-native" \/ said[n] \notin broken}
                      \subseteq Mirrored(SubSeq(feed, 1, k))

\* The prose of a turn an adapter means to mirror: hooks expose its last piece only.
Mirrorable(k) ==
    {n \in 1 .. Len(said) : said[n] = k /\ (kind = "hooks" => n = Len(said) \/ said[n + 1] # k)}

\* When a turn is closed the room has all of its reply that its runtime had made
\* available.  claude-native keeps the promise for the turns of the conversation that no
\* timer of an earlier one disturbs.
ReplyBeforeResult ==
    [][ \A k \in Len(feed) + 1 .. Len(feed') :
            feed'[k].type = "result" =>
                \A n \in Mirrorable(feed'[k].of[1]) :
                    \/ kind = "claude-native" /\ (n > saved \/ feed'[k].of[1] \notin calm)
                    \/ n \in Mirrored(SubSeq(feed', 1, k)) ]_vars

\* The same without the proviso of what is on disk: what was said in a turn that came to
\* its end is mirrored in the end, also if it was written after the result had gone out.
\* Again and again there comes a time at which nothing of it is missing.
ReplyMirrored ==
    []<>(\A k \in 1 .. turn :
            \/ k = turn /\ active
            \/ k \in broken
            \/ kind = "claude-native" /\ k \notin calm
            \/ Mirrorable(k) \subseteq Mirrored(feed))
=============================================================================
