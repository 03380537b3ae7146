----------------------------- MODULE NativeAdapter -----------------------------
(***************************************************************************)
(* The adapters that run an agent's own terminal interface and type remote *)
(* instructions into its composer.  kind "pty" is the code shared by       *)
(* claude, codex, gemini, goose and cursor (adapters/*/native.js): a paste *)
(* into the PTY and, 150 ms later, Enter.  kind "opencode" is              *)
(* adapters/opencode/native.js: two requests to the interface's own        *)
(* server, one that appends to the composer and one that submits it.       *)
(*                                                                         *)
(* The interface is external.  It shows startup screens, which swallow     *)
(* what is typed, then its composer; it reports its start and every prompt *)
(* that is submitted, in order; the host types into it as well.            *)
(***************************************************************************)
EXTENDS Naturals, Sequences, FiniteSets

CONSTANTS
    Kinds,             \* the kinds considered
    MaxInstructions,   \* bound: instructions one run may receive
    RecentLimit,       \* _recentInjections.length (20)
    MaxHostKeys        \* bound: times the host types something

ASSUME NativeConstants ==
    /\ Kinds \subseteq {"pty", "opencode"}
    /\ MaxInstructions \in Nat
    /\ RecentLimit \in Nat \ {0}
    /\ MaxHostKeys \in Nat

VARIABLES
    kind,
    received,   \* instructions received so far
    paused,
    queue,
    started,    \* sessionStarted
    settling,   \* taken from the queue, typed when the settle delay is over
    next,       \* opencode: what resume() types once n has been submitted
    posting,    \* opencode: instruction -> the request that is under way for it
    enters,     \* pty: timers that will send Enter
    recent,     \* _recentInjections
    injected,   \* history: every injection recorded so far, in order
    old,        \* how many of them were 30 s old when a prompt was last heard
    shown,      \* prompts the room was shown as typed by the host
    failed,     \* opencode: instructions an error was emitted for
    stopping,
    screen,     \* of the interface: off, startup, composer, gone
    composer,   \* what the composer holds
    prompts,    \* every prompt submitted
    reports,    \* what the interface reported and the adapter has not heard yet
    swallowed,  \* instructions typed when there was no composer
    hostKeys

memory    == <<recent, injected, old>>
adapter   == <<received, paused, queue, started, settling, next, posting, enters, memory, failed, stopping>>
interface == <<screen, composer, prompts, swallowed, hostKeys>>
vars      == <<kind, adapter, shown, interface, reports>>

None == 0

Instruction == 1 .. MaxInstructions

Host == MaxInstructions + 1

Members(s) == {s[k] : k \in 1 .. Len(s)}

StartReport == <<>>

-----------------------------------------------------------------------------
(* Typing. *)

\* Mutant: what does not fit is forgotten as a whole.
RecordedAnew(batch) == IF Len(recent \o batch) > RecentLimit THEN batch ELSE recent \o batch

\* The injections remembered, the oldest of too many forgotten.
Recorded(batch) ==
    LET all == recent \o batch
    IN  IF Len(all) > RecentLimit THEN SubSeq(all, Len(all) - RecentLimit + 1, Len(all)) ELSE all

\* Mutant: no Enter follows the paste.
PtyInjectOnly(batch) ==
    /\ composer' = IF screen = "composer" THEN composer \o batch ELSE composer
    /\ swallowed' = IF screen = "composer" THEN swallowed ELSE swallowed \cup Members(batch)
    /\ UNCHANGED <<next, posting, enters>>

\* _inject for each of the batch in one go, the Enter of each to follow.
PtyInject(batch) ==
    /\ composer' = IF screen = "composer" THEN composer \o batch ELSE composer
    /\ swallowed' = IF screen = "composer" THEN swallowed ELSE swallowed \cup Members(batch)
    /\ enters' = IF stopping THEN enters ELSE enters + Len(batch)
    /\ UNCHANGED <<next, posting>>

\* opencode's _inject as far as its first await.
OpencodeInject(S) ==
    /\ posting' = [n \in Instruction |-> IF n \in S THEN "append" ELSE posting[n]]
    /\ UNCHANGED <<composer, swallowed, enters>>

Record(batch) ==
    /\ recent' = Recorded(batch)
    /\ injected' = injected \o batch
    /\ UNCHANGED old

Inject(batch) ==
    /\ Record(batch)
    /\ \/ kind = "pty" /\ PtyInject(batch)
       \/ kind = "opencode" /\ OpencodeInject(Members(batch)) /\ UNCHANGED next

Untouched == UNCHANGED <<next, posting, enters, memory, composer, swallowed>>

-----------------------------------------------------------------------------
(* The host and its adapter. *)

\* createSession: the interface is spawned.
CreateSession ==
    /\ screen = "off"
    /\ ~stopping
    /\ screen' = "startup"
    /\ UNCHANGED <<kind, adapter, shown, composer, prompts, swallowed, hostKeys, reports>>

ReceiveInstruction ==
    /\ received < MaxInstructions
    /\ ~stopping
    /\ received' = received + 1
    /\ IF paused \/ ~started THEN queue' = Append(queue, received') /\ Untouched
       ELSE Inject(<<received'>>) /\ UNCHANGED queue
    /\ UNCHANGED <<kind, paused, started, settling, failed, stopping, shown, screen, prompts,
                   hostKeys, reports>>

Pause ==
    /\ ~stopping
    /\ paused' = TRUE
    /\ UNCHANGED <<kind, received, queue, started, settling, next, posting, enters, memory, failed,
                   stopping, shown, interface, reports>>

\* opencode's loop awaits each injection before the next.
OpencodeResumeQueue ==
    /\ Record(<<Head(queue)>>)
    /\ OpencodeInject({Head(queue)})
    /\ next' = [n \in Instruction |->
           IF \E k \in 1 .. Len(queue) - 1 : queue[k] = n
           THEN queue[CHOOSE k \in 2 .. Len(queue) : queue[k - 1] = n] ELSE next[n]]

Resume ==
    /\ ~stopping
    /\ paused' = FALSE
    /\ queue' = IF started THEN <<>> ELSE queue
    /\ IF ~started \/ queue = <<>> THEN Untouched
       ELSE IF kind = "pty" THEN Inject(queue) ELSE OpencodeResumeQueue
    /\ UNCHANGED <<kind, received, started, settling, failed, stopping, shown, screen, prompts,
                   hostKeys, reports>>

\* Mutant: what was held is typed at once, and again on the next resume.
MarkSessionStartedKeeping ==
    /\ started' = TRUE
    /\ settling' = IF ~started /\ ~paused THEN queue ELSE settling
    /\ UNCHANGED <<kind, received, paused, queue, next, posting, enters, memory, failed, stopping,
                   interface>>

\* _markSessionStarted: what is held is taken, unless paused, and typed after the
\* settle delay.
MarkSessionStarted ==
    /\ started' = TRUE
    /\ settling' = IF ~started /\ ~paused THEN queue ELSE settling
    /\ queue' = IF ~started /\ ~paused THEN <<>> ELSE queue
    /\ UNCHANGED <<kind, received, paused, next, posting, enters, memory, failed, stopping, interface>>

\* The settle delay is over.  A pause or a disconnect does not stop it.
Settle ==
    /\ settling # <<>>
    /\ settling' = <<>>
    /\ Inject(settling)
    /\ UNCHANGED <<kind, received, paused, queue, started, failed, stopping, shown, screen, prompts,
                   hostKeys, reports>>

\* _startupFallback, or the hundredth health poll: no start was reported in time.
StartupFallback ==
    /\ screen # "off"
    /\ ~started
    /\ ~stopping
    /\ MarkSessionStarted
    /\ UNCHANGED <<shown, reports>>

\* _onHook, _onStoreEvent or the event stream: the session started.
HearStart ==
    /\ reports # <<>>
    /\ Head(reports) = StartReport
    /\ reports' = Tail(reports)
    /\ MarkSessionStarted
    /\ UNCHANGED shown

\* What is 30 s old is forgotten: the first so many injections, if any of those still
\* remembered.
Aged(k) ==
    LET before == Len(injected) - Len(recent)
    IN  \/ k = old /\ recent' = recent
        \/ k \in before + 1 .. Len(injected) /\ recent' = SubSeq(recent, k - before + 1, Len(recent))

\* A prompt was submitted: it is the host's unless it is the text of an injection.
WasInjected(prompt, known) == Len(prompt) = 1 /\ prompt[1] \in Members(known)

HearPrompt ==
    /\ reports # <<>>
    /\ Head(reports) # StartReport
    /\ reports' = Tail(reports)
    /\ \E k \in 0 .. Len(injected) : old' = k /\ Aged(k)
    /\ shown' = IF WasInjected(Head(reports), recent') THEN shown ELSE shown \cup {Head(reports)}
    /\ UNCHANGED <<kind, received, paused, queue, started, settling, next, posting, enters, injected,
                   failed, stopping, interface>>

\* disconnect: nothing is heard any more; timers that are running go on.
Disconnect ==
    /\ screen # "off"
    /\ ~stopping
    /\ stopping' = TRUE
    /\ screen' = "gone"
    /\ reports' = <<>>
    /\ UNCHANGED <<kind, received, paused, queue, started, settling, next, posting, enters, memory,
                   failed, shown, composer, prompts, swallowed, hostKeys>>

-----------------------------------------------------------------------------
(* The interface. *)

\* The startup screens are over; whether that is reported depends on the host's
\* settings.
ShowComposer ==
    /\ screen = "startup"
    /\ screen' = "composer"
    /\ reports' \in {reports, Append(reports, StartReport)}
    /\ UNCHANGED <<kind, adapter, shown, composer, prompts, swallowed, hostKeys>>

Submit ==
    IF screen = "composer" /\ composer # <<>>
    THEN /\ prompts' = Append(prompts, composer)
         /\ reports' = Append(reports, composer)
         /\ composer' = <<>>
    ELSE UNCHANGED <<prompts, reports, composer>>

\* The 150 ms after a paste are over.
PressEnter ==
    /\ enters > 0
    /\ enters' = enters - 1
    /\ Submit
    /\ UNCHANGED <<kind, received, paused, queue, started, settling, next, posting, memory, failed,
                   stopping, shown, screen, swallowed, hostKeys>>

HostTypes ==
    /\ screen = "composer"
    /\ hostKeys < MaxHostKeys
    /\ hostKeys' = hostKeys + 1
    /\ composer' = Append(composer, Host)
    /\ UNCHANGED <<kind, adapter, shown, screen, prompts, swallowed, reports>>

HostSubmits ==
    /\ screen = "composer"
    /\ Host \in Members(composer)
    /\ Submit
    /\ UNCHANGED <<kind, adapter, shown, screen, swallowed, hostKeys>>

InterfaceExits ==
    /\ screen \in {"startup", "composer"}
    /\ screen' = "gone"
    /\ UNCHANGED <<kind, adapter, shown, composer, prompts, swallowed, hostKeys, reports>>

-----------------------------------------------------------------------------
(* opencode's requests. *)

\* /tui/append-prompt is answered, and /tui/submit-prompt sent.
PostAppend(n) ==
    /\ posting[n] = "append"
    /\ screen = "composer"
    /\ posting' = [posting EXCEPT ![n] = "submit"]
    /\ composer' = Append(composer, n)
    /\ UNCHANGED <<kind, received, paused, queue, started, settling, next, enters, memory, failed,
                   stopping, shown, screen, prompts, swallowed, hostKeys, reports>>

\* The injection of n is over; resume()'s loop goes on with the next.
Posted(n) ==
    /\ posting' = [m \in Instruction |->
           IF m = n THEN "no" ELSE IF m = next[n] THEN "append" ELSE posting[m]]
    /\ next' = [next EXCEPT ![n] = None]
    /\ IF next[n] = None THEN UNCHANGED memory ELSE Record(<<next[n]>>)

PostSubmit(n) ==
    /\ posting[n] = "submit"
    /\ screen = "composer"
    /\ Submit
    /\ Posted(n)
    /\ UNCHANGED <<kind, received, paused, queue, started, settling, enters, failed, stopping, shown,
                   screen, swallowed, hostKeys>>

\* Either request fails or takes too long; text that was appended stays.
PostFails(n) ==
    /\ posting[n] # "no"
    /\ failed' = failed \cup {n}
    /\ Posted(n)
    /\ UNCHANGED <<kind, received, paused, queue, started, settling, enters, stopping, shown,
                   interface, reports>>

-----------------------------------------------------------------------------
Init ==
    /\ kind \in Kinds
    /\ received = 0
    /\ paused = FALSE
    /\ queue = <<>>
    /\ started = FALSE
    /\ settling = <<>>
    /\ next = [n \in Instruction |-> None]
    /\ posting = [n \in Instruction |-> "no"]
    /\ enters = 0
    /\ recent = <<>>
    /\ injected = <<>>
    /\ old = 0
    /\ shown = {}
    /\ failed = {}
    /\ stopping = FALSE
    /\ screen = "off"
    /\ composer = <<>>
    /\ prompts = <<>>
    /\ reports = <<>>
    /\ swallowed = {}
    /\ hostKeys = 0

Next ==
    \/ CreateSession
    \/ ReceiveInstruction
    \/ Pause
    \/ Resume
    \/ Settle
    \/ StartupFallback
    \/ HearStart
    \/ HearPrompt
    \/ Disconnect
    \/ ShowComposer
    \/ PressEnter
    \/ HostTypes
    \/ HostSubmits
    \/ InterfaceExits
    \/ \E n \in Instruction : PostAppend(n) \/ PostSubmit(n) \/ PostFails(n)

Spec == Init /\ [][Next]_vars

\* Timers fire and requests are answered or time out; createSession is called.
FairSpec ==
    /\ Spec
    /\ WF_vars(CreateSession)
    /\ WF_vars(StartupFallback)
    /\ WF_vars(Settle)
    /\ WF_vars(PressEnter)
    /\ \A n \in Instruction : WF_vars(PostAppend(n) \/ PostSubmit(n) \/ PostFails(n))

-----------------------------------------------------------------------------
(* Properties. *)

Submitted == UNION {Members(p) : p \in Members(prompts)}

Typed == Members(composer) \cup Submitted

\* Every instruction is in one place: held for a resume or the start, or waiting
\* for the settle delay or for an earlier one of its batch, or typed, once, or
\* gone: with an error, or into a startup screen, which only the fallback, that
\* fires without knowing, may cause.
EachTypedOnce ==
    LET held   == Members(queue) \cup Members(settling) \cup (Members(next) \ {None})
        posted == {n \in Instruction : posting[n] = "append"}
        gone   == swallowed \cup failed
    IN  /\ Instruction \cap (held \cup posted \cup Typed \cup gone) = 1 .. received
        /\ held \cap (posted \cup Typed \cup gone) = {}
        /\ posted \cap (Typed \cup gone) = {}
        /\ Members(queue) \cap Members(settling) = {}
        /\ \A j, k \in 1 .. Len(prompts) :
              j # k => Members(prompts[j]) \cap Members(prompts[k]) \subseteq {Host}
        /\ swallowed # {} => started

\* README: the echo of an injected instruction is not shown a second time.  It is
\* recognised however many are typed in one go, after failing requests, and in
\* whatever order the reports come, unless the injection is 30 s old by then, or
\* RecentLimit others were recorded after it.
EchoNotRepeated ==
    [][ \A n \in Instruction :
            <<n>> \in shown' \ shown =>
                \E k \in 1 .. Len(injected) :
                    injected[k] = n /\ (k <= old' \/ k + RecentLimit <= Len(injected)) ]_vars

\* Every instruction that is not held back by a pause gets into a prompt, unless its
\* interface is gone, it was typed into a startup screen, or its request failed: again
\* and again there comes a time at which none is left behind.
InstructionsReachThePrompt ==
    []<>(paused \/ screen = "gone" \/ 1 .. received \subseteq Submitted \cup swallowed \cup failed)
=============================================================================
