------------------------------- MODULE Readers -------------------------------
(***************************************************************************)
(* What people get to see of the event stream of module Replay: the feed   *)
(* of `collagent join` (cli/index.js, ui/tui.js) with the read position it *)
(* keeps on disk, and the timeline of the dashboard (server/web), which    *)
(* watches the room without being in it.                                   *)
(***************************************************************************)
EXTENDS Replay

CONSTANTS
    Kinds,       \* the readers considered: "terminal", "dashboard"
    MaxFeeds     \* bound: times a terminal joins

ASSUME ReadersConstants ==
    /\ Kinds \subseteq {"terminal", "dashboard"}
    /\ MaxFeeds \in Nat

VARIABLES
    kind,       \* client -> what it is
    feed,       \* client -> off, joining (its welcome is awaited), entering (the
                \*           welcome is there, enterRoomFeed has not run), live
    feeds,      \* client -> feeds started so far
    saved,      \* client -> lastSeenSeq of ~/.collagent/rooms.json
    saving,     \* client -> saveTimer runs
    welcome,    \* client -> the events of the welcome that cmdJoin awaits
    unheard,    \* client -> what its client was told while nobody listened, after
                \*           the welcome and before enterRoomFeed
    broken,     \* client -> the connection of its feed broke once the feed was live
    seen,       \* client -> what its terminal has shown, in this feed or before
    timeline    \* client -> roomEvents of its dashboard

screens == <<kind, feed, feeds, saved, saving, welcome, unheard, broken, seen, timeline>>
readers == <<vars, screens>>

\* The seqs of a frame, in its order.
InOrder(S) ==
    [k \in 1 .. Cardinality(S) |-> CHOOSE n \in S : Cardinality({m \in S : m < n}) = k - 1]

-----------------------------------------------------------------------------
(* The terminal. *)

\* cmdJoin: a new process, whose client has seen nothing.
StartFeed(c) ==
    /\ kind[c] = "terminal" /\ feed[c] = "off"
    /\ feeds[c] < MaxFeeds
    /\ feeds' = [feeds EXCEPT ![c] = @ + 1]
    /\ feed' = [feed EXCEPT ![c] = "joining"]
    /\ UNCHANGED <<vars, kind, saved, saving, welcome, unheard, broken, seen, timeline>>

\* rejoinOrJoin asks for everything; the client's own reconnects ask for what
\* came after lastSeq.
Connect(c) ==
    /\ feed[c] # "off"
    /\ Reconnect(c)
    /\ UNCHANGED screens

\* Of what arrives before enterRoomFeed the process hears the welcome that its
\* promise waits for; everything moves lastSeq.  cmdJoin goes on in a microtask,
\* after all frames of the welcome's segment: those that follow it have no listener.
AwaitWelcome(c, frame) ==
    \/ /\ feed[c] = "joining" /\ frame.type = "event"
       /\ UNCHANGED <<feed, welcome, unheard>>
    \/ /\ feed[c] = "joining" /\ frame.type = "welcome"
       /\ feed' = [feed EXCEPT ![c] = "entering"]
       /\ welcome' = [welcome EXCEPT ![c] = frame.seqs]
       /\ UNCHANGED unheard
    \/ /\ feed[c] = "entering"
       /\ unheard' = [unheard EXCEPT ![c] = @ \cup frame.seqs]
       /\ UNCHANGED <<feed, welcome>>

\* enterRoomFeed: of the welcome what is after the read position, in full or as a
\* digest; then the listeners.
EnterRoomFeed(c) ==
    /\ feed[c] = "entering"
    /\ feed' = [feed EXCEPT ![c] = "live"]
    /\ seen' = [seen EXCEPT ![c] = @ \cup {n \in welcome[c] : n > saved[c]}]
    /\ UNCHANGED <<vars, kind, feeds, saved, saving, welcome, unheard, broken, timeline>>

\* The listeners of startTui and enterRoomFeed: an event is printed and starts
\* the timer; of the welcome of a reconnect it prints that there was one.
FollowRoom(c, frame) ==
    /\ feed[c] = "live"
    /\ IF frame.type = "event"
       THEN /\ seen' = [seen EXCEPT ![c] = @ \cup frame.seqs]
            /\ saving' = [saving EXCEPT ![c] = TRUE]
       ELSE UNCHANGED <<seen, saving>>
    /\ UNCHANGED <<feed, welcome, unheard>>

\* Mutant: the read position is kept from the first event on.
HearSaving(c) ==
    LET frame == Head(wire[c])
    IN  /\ kind[c] = "terminal"
        /\ Receive(c)
        /\ \/ /\ AwaitWelcome(c, frame)
              /\ saving' = [saving EXCEPT ![c] = @ \/ frame.type = "event"]
              /\ UNCHANGED seen
           \/ FollowRoom(c, frame)
        /\ UNCHANGED <<kind, feeds, saved, broken, timeline>>

\* A frame reaches the terminal.
Hear(c) ==
    LET frame == Head(wire[c])
    IN  /\ kind[c] = "terminal"
        /\ Receive(c)
        /\ \/ AwaitWelcome(c, frame) /\ UNCHANGED <<seen, saving>>
           \/ FollowRoom(c, frame)
        /\ UNCHANGED <<kind, feeds, saved, broken, timeline>>

\* The timer of 2 s after an event.
SavePosition(c) ==
    /\ saving[c]
    /\ saving' = [saving EXCEPT ![c] = FALSE]
    /\ saved' = [saved EXCEPT ![c] = cursor[c]]
    /\ UNCHANGED <<vars, kind, feed, feeds, welcome, unheard, broken, seen, timeline>>

\* The process is over, and its connection and its client with it.
EndFeed(c) ==
    /\ feed' = [feed EXCEPT ![c] = "off"]
    /\ saving' = [saving EXCEPT ![c] = FALSE]
    /\ broken' = [broken EXCEPT ![c] = FALSE]
    /\ welcome' = [welcome EXCEPT ![c] = {}]
    /\ unheard' = [unheard EXCEPT ![c] = {}]
    /\ up' = [up EXCEPT ![c] = FALSE]
    /\ wire' = [wire EXCEPT ![c] = <<>>]
    /\ reading' = [reading EXCEPT ![c] = Idle]
    /\ shake' = [shake EXCEPT ![c] = "none"]
    /\ cursor' = [cursor EXCEPT ![c] = 0]
    /\ view' = [view EXCEPT ![c] = {}]
    /\ split' = split \ {c}
    /\ UNCHANGED <<log, drops, kind, feeds, seen, timeline>>

\* /quit or Ctrl-C: onQuit.
Quit(c) ==
    /\ feed[c] = "live"
    /\ EndFeed(c)
    /\ saved' = [saved EXCEPT ![c] = cursor[c]]

\* The terminal is closed, its process killed, or its connection broken before it
\* has a seat to reconnect to: cmdJoin fails.
KillFeed(c) ==
    /\ feed[c] # "off"
    /\ EndFeed(c)
    /\ UNCHANGED saved

\* The connection of a live feed breaks: the client reconnects.
LoseTerminal(c) ==
    /\ feed[c] = "live"
    /\ Drop(c)
    /\ broken' = [broken EXCEPT ![c] = TRUE]
    /\ UNCHANGED <<kind, feed, feeds, saved, saving, welcome, unheard, seen, timeline>>

-----------------------------------------------------------------------------
(* The dashboard. *)

\* Mutant: the browser asks for the whole room again when it reconnects.
WatchRoomAgain(c) ==
    /\ kind[c] = "dashboard"
    /\ ~up[c]
    /\ seq > 0
    /\ ~AsyncStore
    /\ up' = [up EXCEPT ![c] = TRUE]
    /\ wire' = [wire EXCEPT ![c] =
           Append(@, Welcome(Missed(Backlog(stored, 0, floor), 0, floor, floor, seq)))]
    /\ UNCHANGED <<log, reading, shake, cursor, view, split, drops, screens>>

\* onWatchRoom, at the opening of a room and on every new connection: nothing is
\* appended, the socket is registered, then eventsSince runs.
WatchRoom(c) ==
    LET since == cursor[c]
        Answer(rows) == wire' = [wire EXCEPT ![c] =
                            Append(@, Welcome(Missed(rows, since, floor, floor, seq)))]
    IN  /\ kind[c] = "dashboard"
        /\ ~up[c]
        /\ seq > 0
        /\ up' = [up EXCEPT ![c] = TRUE]
        /\ \/ since >= floor - 1 /\ Answer({}) /\ UNCHANGED reading
           \/ /\ since < floor - 1
              /\ ~AsyncStore
              /\ Answer(Backlog(stored, since, floor))
              /\ UNCHANGED reading
           \/ /\ since < floor - 1
              /\ AsyncStore
              /\ reading' = [reading EXCEPT ![c] =
                     [since |-> since, floor |-> floor, rows |-> {}, state |-> "sent"]]
              /\ UNCHANGED wire
        /\ UNCHANGED <<log, shake, cursor, view, split, drops, screens>>

\* pushRoomEvent, for an event or for each one of a room_snapshot.
ShowInTimeline(c) ==
    /\ kind[c] = "dashboard"
    /\ Receive(c)
    /\ timeline' = [timeline EXCEPT ![c] = @ \o InOrder(Head(wire[c]).seqs)]
    /\ UNCHANGED <<kind, feed, feeds, saved, saving, welcome, unheard, broken, seen>>

\* The socket of the dashboard breaks, and handleClose takes it off roomWatchers.
LoseDashboard(c) ==
    /\ kind[c] = "dashboard"
    /\ Drop(c)
    /\ UNCHANGED screens

-----------------------------------------------------------------------------
ReadersInit ==
    /\ Init
    /\ kind \in [Client -> Kinds]
    /\ feed = [c \in Client |-> "off"]
    /\ feeds = [c \in Client |-> 0]
    /\ saved = [c \in Client |-> 0]
    /\ saving = [c \in Client |-> FALSE]
    /\ welcome = [c \in Client |-> {}]
    /\ unheard = [c \in Client |-> {}]
    /\ broken = [c \in Client |-> FALSE]
    /\ seen = [c \in Client |-> {}]
    /\ timeline = [c \in Client |-> <<>>]

Reads(c) == (StoreRead(c) \/ ReadAnswered(c)) /\ UNCHANGED screens

ReadersNext ==
    \/ (AppendEvent \/ StoreWrite) /\ UNCHANGED screens
    \/ \E c \in Client :
          \/ Reads(c)
          \/ StartFeed(c) \/ Connect(c) \/ Hear(c) \/ EnterRoomFeed(c) \/ SavePosition(c)
          \/ Quit(c) \/ KillFeed(c) \/ LoseTerminal(c)
          \/ WatchRoom(c) \/ ShowInTimeline(c) \/ LoseDashboard(c)

ReadersSpec == ReadersInit /\ [][ReadersNext]_readers

\* As in Replay: the event loop, the database and the network make progress.
FairReaders ==
    /\ ReadersSpec
    /\ WF_readers(StoreWrite /\ UNCHANGED screens)
    /\ \A c \in Client : /\ WF_readers(Reads(c))
                         /\ WF_readers(Hear(c) \/ EnterRoomFeed(c) \/ ShowInTimeline(c))

-----------------------------------------------------------------------------
(* Properties. *)

\* What the read position moves past was on the screen, through throttled saves,
\* kills and failed joins (SQLite).  Two things only may have been left out: what a
\* feed missed whose connection broke, and what the client was told before the feed
\* listened.
ReadPositionIsTrue ==
    [][ \A c \in Client :
            saved'[c] # saved[c] /\ ~broken[c] /\ ~AsyncStore
            => \A n \in 1 .. saved'[c] :
                   n > saved[c] => n \in seen[c] \/ n \in unheard[c] ]_readers

\* The timeline of a dashboard is the history of the room: every event up to the
\* last one, in order and once, whenever it connected and reconnected (SQLite).
TimelineIsHistory ==
    \A c \in Client :
        kind[c] = "dashboard" /\ ~AsyncStore => timeline[c] = [n \in 1 .. cursor[c] |-> n]

\* "If your connection drops, Collagent reconnects automatically and replays only
\* what you missed": once a live feed has its welcome on the connection it has, it
\* has shown everything between the read position and what its client was told of.
FeedShowsEverything ==
    \A c \in Client : feed[c] = "live" /\ shake[c] = "welcome" =>
        \A n \in 1 .. cursor[c] : n > saved[c] => n \in seen[c] \/ n \in unheard[c]
=============================================================================
