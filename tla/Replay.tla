------------------------------- MODULE Replay -------------------------------
(***************************************************************************)
(* The event stream of one room and the clients that follow it: EventLog   *)
(* with its memory cap (core/event-log.js, Session._maybeTrim), the store  *)
(* behind it, Session.eventsSince, and the cursor of CollagentClient.      *)
(*                                                                         *)
(* Events are their seq numbers.  Appends number them consecutively and    *)
(* trimming drops the oldest, so the log in memory is floor .. seq.  What  *)
(* the server sends on one connection arrives in order, and a connection   *)
(* may break at any point of it.                                           *)
(***************************************************************************)
EXTENDS Naturals, Sequences, FiniteSets

CONSTANTS
    Client,
    MaxSeq,          \* bound: events one run may append
    EventCache,      \* COLLAGENT_EVENT_CACHE (5000)
    ReadLimit,       \* the store's cap on one read (1000)
    BacklogLimit,    \* eventsSince's own cap (10_000)
    Stores,          \* the stores considered: "sqlite", "pg"
    FailingStores,   \* those whose writes may fail, which they swallow
    MaxDrops         \* bound: connections one run may lose

ASSUME ReplayConstants ==
    /\ MaxSeq \in Nat
    /\ EventCache \in Nat \ {0}
    /\ ReadLimit \in Nat \ {0}
    /\ BacklogLimit \in Nat \ {0}
    /\ Stores \subseteq {"sqlite", "pg"}
    /\ FailingStores \subseteq Stores
    /\ MaxDrops \in Nat

VARIABLES
    store,      \* the store behind the room
    seq,        \* EventLog.seq
    floor,      \* EventLog.floorSeq
    stored,     \* events the store would return
    unwritten,  \* PgStore._chain: events whose write has not run yet, in order
    up,         \* client -> it has a connection the server knows
    wire,       \* client -> frames sent and not yet received
    reading,    \* client -> the eventsSince that awaits the store for it, if any
    shake,      \* client -> what it received on this connection: nothing, only
                \*           events, or its welcome
    cursor,     \* client -> lastSeq
    view,       \* client -> every event it was given
    split,      \* clients that lost a connection between the event of their
                \* return and the welcome
    drops

log     == <<store, seq, floor, stored, unwritten>>
clients == <<up, wire, reading, shake, cursor, view, split>>
vars    == <<log, clients, drops>>

\* PgStore's writes wait in a queue and its reads in a pool; SqliteStore's are calls.
AsyncStore == store = "pg"

Min2(a, b) == IF a <= b THEN a ELSE b
Max2(a, b) == IF a >= b THEN a ELSE b

Idle == [since |-> 0, floor |-> 0, rows |-> {}, state |-> "none"]

Event(n)   == [type |-> "event", seqs |-> {n}]
Welcome(S) == [type |-> "welcome", seqs |-> S]

-----------------------------------------------------------------------------
(* Appending: EventLog.append, the store's appendEvent, then _maybeTrim. *)

\* _maybeTrim: the first event that stays in memory once n is appended.
Trimmed(n) == IF n - floor + 1 > EventCache THEN n - EventCache + 1 ELSE floor

\* What the store may hold once it was asked to write n: a failure is swallowed.
Written(n) == {stored \cup {n}} \cup IF store \in FailingStores THEN {stored} ELSE {}

AppendToLog ==
    LET n == seq + 1 IN
    /\ seq < MaxSeq
    /\ seq' = n
    /\ UNCHANGED store
    /\ floor' = Trimmed(n)
    /\ IF AsyncStore
       THEN unwritten' = Append(unwritten, n) /\ UNCHANGED stored
       ELSE stored' \in Written(n) /\ UNCHANGED unwritten

\* Mutant: a connection is told of events once its client has its welcome.
AppendEventToWelcomed ==
    /\ AppendToLog
    /\ wire' = [c \in Client |->
           IF shake[c] = "welcome" THEN Append(wire[c], Event(seq + 1)) ELSE wire[c]]
    /\ UNCHANGED <<up, reading, shake, cursor, view, split, drops>>

\* Any handler's append and broadcastEvent.
AppendEvent ==
    /\ AppendToLog
    /\ wire' = [c \in Client |-> IF up[c] THEN Append(wire[c], Event(seq + 1)) ELSE wire[c]]
    /\ UNCHANGED <<up, reading, shake, cursor, view, split, drops>>

\* The ordered write queue of PgStore runs its head.
StoreWrite ==
    /\ unwritten # <<>>
    /\ unwritten' = Tail(unwritten)
    /\ stored' \in Written(Head(unwritten))
    /\ UNCHANGED <<store, seq, floor, clients, drops>>

-----------------------------------------------------------------------------
(* eventsSince. *)

\* readEvents(since, limit): the oldest rows after since, at most ReadLimit.
ReadEvents(rows, since, limit) ==
    LET after == {n \in rows : n > since}
    IN  {n \in after : Cardinality({m \in after : m < n}) < Min2(limit, ReadLimit)}

\* What eventsSince asks of the store when the log in memory starts at low.
Backlog(rows, since, low) == ReadEvents(rows, since, Min2(low - 1 - since, BacklogLimit))

\* Mutant: off by one at the floor.
MissedBelowFloor(rows, since, low, first, last) ==
    {n \in rows : n < low - 1} \cup {n \in first .. last : n > since}

\* The answer: the rows older than low, and the log in memory from first to last.
Missed(rows, since, low, first, last) ==
    {n \in rows : n < low} \cup {n \in first .. last : n > since}

\* onRejoin (or onJoin, with since = 0): the event of the return is appended and
\* broadcast to everybody, the returning client included; then eventsSince runs,
\* to its end if nothing older than the log in memory was missed or the store
\* answers in the same call.
Reconnect(c) ==
    LET since == cursor[c]
        told  == [d \in Client |->
                     IF up[d] \/ d = c THEN Append(wire[d], Event(seq + 1)) ELSE wire[d]]
        Answer(rows) == wire' = [told EXCEPT ![c] =
                            Append(@, Welcome(Missed(rows, since, floor', floor', seq')))]
    IN  /\ ~up[c]
        /\ AppendToLog
        /\ up' = [up EXCEPT ![c] = TRUE]
        /\ \/ since >= floor' - 1 /\ Answer({}) /\ UNCHANGED reading
           \/ /\ since < floor' - 1
              /\ ~AsyncStore
              /\ Answer(Backlog(stored', since, floor'))
              /\ UNCHANGED reading
           \/ /\ since < floor' - 1
              /\ AsyncStore
              /\ wire' = told
              /\ reading' = [reading EXCEPT ![c] =
                     [since |-> since, floor |-> floor', rows |-> {}, state |-> "sent"]]
        /\ UNCHANGED <<shake, cursor, view, split, drops>>

\* The pool runs the query, whatever is still waiting in the write queue.
StoreRead(c) ==
    /\ reading[c].state = "sent"
    /\ reading' = [reading EXCEPT ![c].state = "read",
                                  ![c].rows = Backlog(stored, reading[c].since, reading[c].floor)]
    /\ UNCHANGED <<log, up, wire, shake, cursor, view, split, drops>>

\* Mutant: an answer that the trimming overtook is thrown away.
ReadAnsweredUntrimmed(c) ==
    /\ reading[c].state = "read"
    /\ floor = reading[c].floor
    /\ wire' = [wire EXCEPT ![c] = Append(@, Welcome(
           Missed(reading[c].rows, reading[c].since, reading[c].floor, floor, seq)))]
    /\ reading' = [reading EXCEPT ![c] = Idle]
    /\ UNCHANGED <<log, up, shake, cursor, view, split, drops>>

\* eventsSince goes on: the rows below the floor it saw before the await, and the
\* log as it is now.
ReadAnswered(c) ==
    /\ reading[c].state = "read"
    /\ wire' = [wire EXCEPT ![c] = Append(@, Welcome(
           Missed(reading[c].rows, reading[c].since, reading[c].floor, floor, seq)))]
    /\ reading' = [reading EXCEPT ![c] = Idle]
    /\ UNCHANGED <<log, up, shake, cursor, view, split, drops>>

-----------------------------------------------------------------------------
(* The client. *)

Newest(S, default) == IF S = {} THEN default ELSE CHOOSE n \in S : \A m \in S : m <= n

\* CollagentClient._onMessage: an event or a welcome moves the cursor up.
Receive(c) ==
    LET frame == Head(wire[c]) IN
    /\ wire[c] # <<>>
    /\ wire' = [wire EXCEPT ![c] = Tail(@)]
    /\ cursor' = [cursor EXCEPT ![c] = Max2(@, Newest(frame.seqs, 0))]
    /\ view' = [view EXCEPT ![c] = @ \cup frame.seqs]
    /\ shake' = [shake EXCEPT ![c] =
           IF frame.type = "welcome" THEN "welcome" ELSE IF @ = "none" THEN "events" ELSE @]
    /\ UNCHANGED <<log, up, reading, split, drops>>

\* The connection breaks; what was on its way is lost, and so is the welcome of
\* an eventsSince that is still waiting.
Drop(c) ==
    /\ up[c]
    /\ drops < MaxDrops
    /\ drops' = drops + 1
    /\ up' = [up EXCEPT ![c] = FALSE]
    /\ wire' = [wire EXCEPT ![c] = <<>>]
    /\ reading' = [reading EXCEPT ![c] = Idle]
    /\ shake' = [shake EXCEPT ![c] = "none"]
    /\ split' = IF shake[c] = "events" THEN split \cup {c} ELSE split
    /\ UNCHANGED <<log, cursor, view>>

-----------------------------------------------------------------------------
Init ==
    /\ store \in Stores
    /\ seq = 0
    /\ floor = 1
    /\ stored = {}
    /\ unwritten = <<>>
    /\ up = [c \in Client |-> FALSE]
    /\ wire = [c \in Client |-> <<>>]
    /\ reading = [c \in Client |-> Idle]
    /\ shake = [c \in Client |-> "none"]
    /\ cursor = [c \in Client |-> 0]
    /\ view = [c \in Client |-> {}]
    /\ split = {}
    /\ drops = 0

Next ==
    \/ AppendEvent
    \/ StoreWrite
    \/ \E c \in Client :
          Reconnect(c) \/ StoreRead(c) \/ ReadAnswered(c) \/ Receive(c) \/ Drop(c)

Spec == Init /\ [][Next]_vars

\* The event loop, the database and the network make progress.
FairSpec ==
    /\ Spec
    /\ WF_vars(StoreWrite)
    /\ \A c \in Client : WF_vars(StoreRead(c) \/ ReadAnswered(c)) /\ WF_vars(Receive(c))

-----------------------------------------------------------------------------
(* Properties. *)

TypeOK ==
    /\ store \in Stores
    /\ seq \in 0 .. MaxSeq
    /\ floor \in 1 .. MaxSeq + 1
    /\ stored \subseteq 1 .. seq
    /\ unwritten \in Seq(1 .. MaxSeq)
    /\ up \in [Client -> BOOLEAN]
    /\ wire \in [Client -> Seq([type: {"event", "welcome"}, seqs: SUBSET (1 .. MaxSeq)])]
    /\ reading \in [Client -> [since: 0 .. MaxSeq, floor: 0 .. MaxSeq + 1,
                               rows: SUBSET (1 .. MaxSeq), state: {"none", "sent", "read"}]]
    /\ shake \in [Client -> {"none", "events", "welcome"}]
    /\ cursor \in [Client -> 0 .. MaxSeq]
    /\ view \in [Client -> SUBSET (1 .. MaxSeq)]
    /\ split \subseteq Client
    /\ drops \in 0 .. MaxDrops

\* Between handshakes a client has every event up to its cursor: the log's tail,
\* the stored prefix and the live frames leave no hole.  Over PostgreSQL a trim
\* during the read of the store may leave one; so does a break in the middle of a
\* handshake, over either.
NoGapBelowCursor ==
    \A c \in Client : shake[c] # "events" /\ c \notin split /\ ~AsyncStore
                          => view[c] = 1 .. cursor[c]

\* All clients follow one ordered stream: after the welcome of a connection each
\* event that arrives is the next one, never a later or an older one.
LiveEventsAreNext ==
    [][ \A c \in Client :
            shake[c] = "welcome" /\ shake'[c] = "welcome" /\ wire[c] # <<>>
                /\ wire'[c] = Tail(wire[c])
            => cursor'[c] = cursor[c] + 1 ]_vars

\* A client that connects gets its welcome, unless its connection breaks first.
WelcomeComes ==
    \A c \in Client : up[c] ~> shake[c] = "welcome" \/ ~up[c]
=============================================================================
