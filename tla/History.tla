------------------------------- MODULE History -------------------------------
(***************************************************************************)
(* The durable history of one room: what the server's handlers write to    *)
(* the room's JSONL file, the database and the room's meta, in which order,*)
(* and what SessionManager.restore makes of it when the server starts      *)
(* again, after a shutdown, after being killed between any two writes, or  *)
(* while another server still runs on the same data.                       *)
(*                                                                         *)
(* An event has the seq the log gave it and an id of its own, which tells  *)
(* two events of one seq apart; its payload is its id.                     *)
(***************************************************************************)
EXTENDS Naturals, SequencesExt

CONSTANTS
    Server,       \* server processes; a name is used again after its process is gone
    Backends,     \* subset of {"jsonl", "sqlite", "postgres"}
    Overlaps,     \* bound: the backends on which a server may start beside another
    EventCache,   \* COLLAGENT_EVENT_CACHE (5000)
    PageSize,     \* events read at a time by _restoreFromStore (1000)
    MaxEvents,    \* bound: events one run may append
    MaxBoots,     \* bound: servers one run may start
    MaxKills      \* bound: servers one run may kill

ASSUME HistoryConstants ==
    /\ Backends \subseteq {"jsonl", "sqlite", "postgres"}
    /\ Overlaps \subseteq Backends
    /\ EventCache \in Nat \ {0}
    /\ PageSize \in Nat \ {0}
    /\ MaxEvents \in Nat
    /\ MaxBoots \in Nat
    /\ MaxKills \in Nat

VARIABLES
    backend,
    disk,      \* what survives a process: file, db, meta
    chain,     \* server -> PgStore._chain: writes not yet run, in order
    phase,     \* server -> gone, ready (restored, the port is taken), serving,
               \*           closing (shutdown, first part), draining (second)
    room,      \* server -> its Session of the room, or NoRoom
    minted,    \* events appended so far
    boots, kills,
    \* The rest only records what happened.
    history,   \* server -> all events of its room, trimmed or not
    told,      \* the events that clients were told of and a crash did not undo
    seated,    \* of those, the joins whose handler ran to its end
    intact,    \* nothing that was still to be written was lost since the last start
    crossed    \* some server started beside another one's writes

servers == <<chain, phase, room, history>>
record  == <<told, seated, intact, crossed>>
vars    == <<backend, disk, servers, minted, boots, kills, record>>

None == 0

Trims == backend \in {"sqlite", "postgres"}   \* _wire: the store can serve what is trimmed

-----------------------------------------------------------------------------
(* buildRoomSummary. *)

NoFacts == [count |-> 0, people |-> {}, first |-> None, last |-> None,
            title |-> None, activity |-> None, ended |-> FALSE]

\* One event of the loop.
Fold(facts, e) ==
    [count    |-> facts.count + 1,
     people   |-> IF e.kind = "joined" THEN facts.people \cup {e.id} ELSE facts.people,
     first    |-> IF e.kind = "instruction" /\ facts.first = None THEN e.id ELSE facts.first,
     last     |-> IF e.kind = "instruction" THEN e.id ELSE facts.last,
     title    |-> IF e.kind = "title" THEN e.id ELSE facts.title,
     activity |-> e.id,
     ended    |-> facts.ended \/ e.kind = "ended"]

\* The first instruction stands in for a title.
BuildRoomSummary(events, seed) ==
    LET facts == FoldLeft(Fold, seed, events)
    IN  [facts EXCEPT !.title = IF @ = None THEN facts.first ELSE @]

-----------------------------------------------------------------------------
(* The Session: log in memory, seed of the summary, and what meta() saves. *)

NoRoom == [live |-> FALSE, log |-> <<>>, seq |-> 0, seed |-> NoFacts,
           mode |-> "open", seats |-> {}]

NoMeta == [mode |-> "open", seats |-> {}, lifecycle |-> "none"]

Meta(r, lifecycle) == [mode |-> r.mode, seats |-> r.seats, lifecycle |-> lifecycle]

\* Mutant: the facts of what was trimmed before are not carried on.
TrimForgetting(r) ==
    LET over == Len(r.log) - EventCache
    IN  IF ~Trims \/ Len(r.log) <= EventCache THEN r
        ELSE [r EXCEPT !.log = SubSeq(@, over + 1, Len(@)),
                       !.seed = BuildRoomSummary(SubSeq(r.log, 1, over), NoFacts)]

\* _maybeTrim: the oldest events beyond the cap go into the seed.
MaybeTrim(r) ==
    LET over == Len(r.log) - EventCache
    IN  IF ~Trims \/ Len(r.log) <= EventCache THEN r
        ELSE [r EXCEPT !.log = SubSeq(@, over + 1, Len(@)),
                       !.seed = BuildRoomSummary(SubSeq(r.log, 1, over), @)]

\* Session.append, with what the handler does to the room besides.
Extended(r, e) ==
    MaybeTrim([r EXCEPT
        !.live  = TRUE,
        !.log   = Append(@, e),
        !.seq   = e.seq,
        !.seats = IF e.kind = "joined" THEN @ \cup {e.id} ELSE @,
        !.mode  = IF e.kind \in {"open", "driver"} THEN e.kind ELSE @])

-----------------------------------------------------------------------------
(* The handlers, by what they append; the rest of them is in module Room.  *)
(* Of the events of a creation the one of the agent session is left out.   *)

Appends == [create |-> <<"created", "joined">>, join |-> <<"joined">>,
            instruct |-> <<"instruction">>, retitle |-> <<"title">>, away |-> <<"away">>,
            open |-> <<"open">>, driver |-> <<"driver">>,
            end |-> <<"ended">>, delete |-> <<"ended">>]

Request   == DOMAIN Appends
\* Mutant: a join is not saved.
SavesMetaUnjoined == {"create", "open", "driver", "end", "delete"}

SavesMeta == {"create", "join", "open", "driver", "end", "delete"}
Ends      == {"end", "delete"}

NewEvents(r, request) ==
    [i \in DOMAIN Appends[request] |->
        [seq |-> r.seq + i, id |-> minted + i, kind |-> Appends[request][i]]]

\* EventLog.append: the line of the file, then the row of the store.
WritesOfEvent(e) ==
    CASE backend = "jsonl"    -> <<[do |-> "line", of |-> e]>>
      [] backend = "sqlite"   -> <<[do |-> "line", of |-> e], [do |-> "row", of |-> e]>>
      [] backend = "postgres" -> <<[do |-> "row", of |-> e]>>

Erase(part) == [do |-> "erase", of |-> part]

\* saveMeta.  JsonlMetaStore writes its file anew: it is empty in between.
WritesOfMeta(meta) ==
    (IF backend = "jsonl" THEN <<Erase("meta")>> ELSE <<>>)
        \o <<[do |-> "meta", of |-> meta]>>

\* deleteHistory.
WritesOfDelete ==
    CASE backend = "jsonl"    -> <<Erase("meta"), Erase("file")>>
      [] backend = "sqlite"   -> <<Erase("meta"), Erase("db"), Erase("file")>>
      [] backend = "postgres" -> <<Erase("db"), Erase("meta")>>

\* Everything a handler has written when it returns, in order.
Writes(r, request) ==
    LET events == NewEvents(r, request)
        after  == FoldLeft(Extended, r, events)
    IN  FlattenSeq([i \in DOMAIN events |-> WritesOfEvent(events[i])])
        \o (IF request \in SavesMeta
            THEN WritesOfMeta(Meta(after, IF request \in Ends THEN "ended" ELSE "active"))
            ELSE <<>>)
        \o (IF request = "delete" THEN WritesOfDelete ELSE <<>>)

\* INSERT OR IGNORE, ON CONFLICT DO NOTHING.
Insert(db, e) == IF \E other \in db : other.seq = e.seq THEN db ELSE db \cup {e}

\* One write on what survives.
Write(d, w) ==
    CASE w.do = "line" -> [d EXCEPT !.file = Append(@, w.of)]
      [] w.do = "row"  -> [d EXCEPT !.db = Insert(@, w.of)]
      [] w.do = "meta" -> [d EXCEPT !.meta = w.of]
      [] w.do = "erase" /\ w.of = "file" -> [d EXCEPT !.file = <<>>]
      [] w.do = "erase" /\ w.of = "db"   -> [d EXCEPT !.db = {}]
      [] w.do = "erase" /\ w.of = "meta" -> [d EXCEPT !.meta = NoMeta]

Persist(s, writes) ==
    IF backend = "postgres"
    THEN chain' = [chain EXCEPT ![s] = @ \o writes] /\ UNCHANGED disk
    ELSE disk' = FoldLeft(Write, disk, writes) /\ UNCHANGED chain

Serves(s) == phase[s] \in {"serving", "closing"}   \* it holds the port and its sockets

\* A room is created once; anything else needs it to be there.
Accepts(s, request) ==
    /\ Serves(s)
    /\ IF request = "create" THEN minted = 0 ELSE room[s].live
    /\ minted + Len(Appends[request]) <= MaxEvents

Joins(events) == {e.id : e \in {x \in ToSet(events) : x.kind = "joined"}}

\* A handler runs to its end.
Handle(s, request) ==
    LET events == NewEvents(room[s], request) IN
    /\ Accepts(s, request)
    /\ minted' = minted + Len(events)
    /\ Persist(s, Writes(room[s], request))
    /\ room' = [room EXCEPT ![s] =
           IF request \in Ends THEN NoRoom ELSE FoldLeft(Extended, @, events)]
    /\ history' = [history EXCEPT ![s] = @ \o events]
    /\ told' = told \o events
    /\ seated' = seated \cup Joins(events)
    /\ UNCHANGED <<backend, phase, boots, kills, intact, crossed>>

\* DELETE of a room that is not live (once, as long as its writes are queued).
DeleteStored(s) ==
    /\ Serves(s)
    /\ ~room[s].live
    /\ disk.file # <<>> \/ disk.db # {}
    /\ Erase("db") \notin ToSet(chain[s])
    /\ Persist(s, WritesOfDelete)
    /\ UNCHANGED <<backend, phase, room, history, minted, boots, kills, record>>

\* Mutant: the writes of the queue run in any order.
StoreWriteUnordered(s) ==
    \E i \in DOMAIN chain[s] :
        /\ chain' = [chain EXCEPT ![s] = RemoveAt(@, i)]
        /\ disk' = Write(disk, chain[s][i])
        /\ UNCHANGED <<backend, phase, room, history, minted, boots, kills, record>>

\* The ordered write queue of PgStore runs its head.
StoreWrite(s) ==
    /\ chain[s] # <<>>
    /\ chain' = [chain EXCEPT ![s] = Tail(@)]
    /\ disk' = Write(disk, Head(chain[s]))
    /\ UNCHANGED <<backend, phase, room, history, minted, boots, kills, record>>

-----------------------------------------------------------------------------
(* SessionManager.restore. *)

HasEnded(events) == \E e \in ToSet(events) : e.kind = "ended"

\* applyMeta.
ApplyMeta(r, meta) == [r EXCEPT !.mode = meta.mode, !.seats = meta.seats]

\* Mutant: the meta's mode is believed.
FinishRestoreFromMeta(r) == r

\* _finishRestore: the last change of mode in memory overrides the meta's.
FinishRestore(r) ==
    LET at == SelectLastInSeq(r.log, LAMBDA e : e.kind \in {"open", "driver"})
    IN  IF at = 0 THEN r ELSE [r EXCEPT !.mode = r.log[at].kind]

\* EventLog.seed.
Seeded(events, seed) ==
    [NoRoom EXCEPT !.live = TRUE,
                   !.log  = events,
                   !.seed = seed,
                   !.seq  = FoldLeft(LAMBDA m, e : IF e.seq > m THEN e.seq ELSE m, 0, events)]

\* Mutant: a table with any row is taken for complete.
ImportOnce(db, events) == IF db # {} THEN db ELSE FoldLeft(Insert, db, events)

\* importEvents: unless the table has as many rows as the file has lines.
Import(db, events) ==
    IF Cardinality(db) >= Len(events) THEN db ELSE FoldLeft(Insert, db, events)

\* _restoreFromFiles: a room is a file without a session_ended.
RestoreFromFiles ==
    IF disk.file = <<>> \/ HasEnded(disk.file) \/ disk.meta.lifecycle = "ended"
    THEN [room |-> NoRoom, history |-> <<>>, disk |-> disk]
    ELSE LET r == MaybeTrim(FinishRestore(ApplyMeta(Seeded(disk.file, NoFacts), disk.meta)))
         IN  [room    |-> r,
              history |-> disk.file,
              disk    |-> [disk EXCEPT !.meta = Meta(r, "active"),
                                       !.db = IF backend = "sqlite"
                                              THEN Import(@, disk.file) ELSE @]]

\* ORDER BY seq.
Rows ==
    LET Row(n) == {e \in disk.db : e.seq = n}
    IN  FoldLeft(LAMBDA rows, n : IF Row(n) = {} THEN rows
                                  ELSE Append(rows, CHOOSE e \in Row(n) : TRUE),
                 <<>>, [n \in 1 .. MaxEvents |-> n])

\* What readEvents returns, page after page.
Pages(rows) == [i \in 1 .. (Len(rows) + PageSize - 1) \div PageSize |->
                  SubSeq(rows, (i - 1) * PageSize + 1,
                         IF i * PageSize < Len(rows) THEN i * PageSize ELSE Len(rows))]

\* One page: what exceeds the cache is folded into the seed.
FoldPage(read, page) ==
    LET all  == read.tail \o page
        over == Len(all) - EventCache
    IN  IF over <= 0 THEN [read EXCEPT !.tail = all]
        ELSE [tail |-> SubSeq(all, over + 1, Len(all)),
              seed |-> BuildRoomSummary(SubSeq(all, 1, over), read.seed)]

\* _restoreFromStore: a room is a meta that did not end.
RestoreFromStore ==
    LET rows == Rows
        read == FoldLeft(FoldPage, [tail |-> <<>>, seed |-> NoFacts], Pages(rows))
        r    == MaybeTrim(FinishRestore(ApplyMeta(Seeded(read.tail, read.seed), disk.meta)))
    IN  IF disk.meta.lifecycle \in {"none", "ended"} \/ HasEnded(rows)
        THEN [room |-> NoRoom, history |-> <<>>, disk |-> disk]
        ELSE [room |-> r, history |-> rows, disk |-> disk]

Restored == IF backend = "postgres" THEN RestoreFromStore ELSE RestoreFromFiles

-----------------------------------------------------------------------------
(* Servers come and go. *)

PortTaken(s) == \E other \in Server \ {s} : Serves(other)
Alone(s) == \A other \in Server \ {s} : phase[other] = "gone"

\* A server is started by a person (serve, dev), a supervisor, or a CLI whose
\* ensureServer found none, or an older one and stopped it: beside another one
\* that still answers, or that still writes, as it comes.
Starts(s) ==
    /\ phase[s] = "gone"
    /\ Alone(s) \/ backend \in Overlaps
    /\ boots < MaxBoots
    /\ boots' = boots + 1

\* cmdServe: ensureRestored, then listen.  If the port is taken listenTakingOver
\* stops its owner (Shutdown) and listens again, without a second restore.
Boot(s) ==
    LET restored == Restored IN
    /\ Starts(s)
    /\ phase' = [phase EXCEPT ![s] = IF PortTaken(s) THEN "ready" ELSE "serving"]
    /\ room' = [room EXCEPT ![s] = restored.room]
    /\ history' = [history EXCEPT ![s] = restored.history]
    /\ disk' = restored.disk
    /\ chain' = IF backend = "postgres" /\ restored.room.live
                THEN [chain EXCEPT ![s] = WritesOfMeta(Meta(restored.room, "active"))]
                ELSE chain
    /\ crossed' = (crossed \/ ~Alone(s))
    /\ told' = IF Alone(s) /\ (restored.room.live \/ ~HasEnded(told))
               THEN restored.history ELSE told
    /\ seated' = seated \cap restored.room.seats
    /\ intact' = TRUE
    /\ UNCHANGED <<backend, minted, kills>>

\* The second listen of listenTakingOver.
Listen(s) ==
    /\ phase[s] = "ready"
    /\ ~PortTaken(s)
    /\ phase' = [phase EXCEPT ![s] = "serving"]
    /\ UNCHANGED <<backend, disk, chain, room, history, minted, boots, kills, record>>

\* SIGTERM or SIGINT: shutdown() closes the sockets, whose close handlers still
\* append to the room.
Shutdown(s) ==
    /\ phase[s] = "serving"
    /\ phase' = [phase EXCEPT ![s] = "closing"]
    /\ UNCHANGED <<backend, disk, chain, room, history, minted, boots, kills, record>>

\* httpServer.close: the port is free, manager.close() waits for the queue.
StopListening(s) ==
    /\ phase[s] = "closing"
    /\ phase' = [phase EXCEPT ![s] = "draining"]
    /\ room' = [room EXCEPT ![s] = NoRoom]
    /\ UNCHANGED <<backend, disk, chain, history, minted, boots, kills, record>>

\* The queue is empty; process.exit.
Exit(s) ==
    /\ phase[s] = "draining"
    /\ chain[s] = <<>>
    /\ phase' = [phase EXCEPT ![s] = "gone"]
    /\ history' = [history EXCEPT ![s] = <<>>]
    /\ UNCHANGED <<backend, disk, chain, room, minted, boots, kills, record>>

Gone(s) ==
    /\ phase[s] # "gone"
    /\ kills < MaxKills
    /\ kills' = kills + 1
    /\ phase' = [phase EXCEPT ![s] = "gone"]
    /\ room' = [room EXCEPT ![s] = NoRoom]
    /\ history' = [history EXCEPT ![s] = <<>>]
    /\ chain' = [chain EXCEPT ![s] = <<>>]

\* The process is killed between two handlers.
Kill(s) ==
    /\ Gone(s)
    /\ intact' = (intact /\ chain[s] = <<>>)
    /\ UNCHANGED <<backend, disk, minted, boots, told, seated, crossed>>

\* The process is killed inside a handler, after n of its writes.
KillInHandler(s, request) ==
    LET events == NewEvents(room[s], request)
        writes == Writes(room[s], request)
    IN  /\ backend # "postgres"
        /\ Accepts(s, request)
        /\ Gone(s)
        /\ minted' = minted + Len(events)
        /\ \E n \in 1 .. Len(writes) - 1 :
              LET done  == SubSeq(writes, 1, n)
                  lines == SelectSeq(done, LAMBDA w : w.do = "line")
              IN  /\ disk' = FoldLeft(Write, disk, done)
                  /\ told' = told \o [i \in DOMAIN lines |-> lines[i].of]
                  /\ intact' = (intact /\ (backend = "jsonl" => writes[n] # Erase("meta")))
        /\ UNCHANGED <<backend, boots, seated, crossed>>

-----------------------------------------------------------------------------
Init ==
    /\ backend \in Backends
    /\ disk = [file |-> <<>>, db |-> {}, meta |-> NoMeta]
    /\ chain = [s \in Server |-> <<>>]
    /\ phase = [s \in Server |-> "gone"]
    /\ room = [s \in Server |-> NoRoom]
    /\ minted = 0
    /\ boots = 0
    /\ kills = 0
    /\ history = [s \in Server |-> <<>>]
    /\ told = <<>>
    /\ seated = {}
    /\ intact = TRUE
    /\ crossed = FALSE

Next ==
    \E s \in Server :
        \/ \E request \in Request : Handle(s, request) \/ KillInHandler(s, request)
        \/ DeleteStored(s) \/ StoreWrite(s)
        \/ Boot(s) \/ Listen(s) \/ Shutdown(s) \/ StopListening(s) \/ Exit(s) \/ Kill(s)

Spec == Init /\ [][Next]_vars

-----------------------------------------------------------------------------
(* Properties. *)

\* What a client may read off a whole history, without any folding.
Facts(events) ==
    LET Ids(kinds) == {events[i].id : i \in {j \in DOMAIN events : events[j].kind \in kinds}}
        Least(S) == IF S = {} THEN None ELSE CHOOSE n \in S : \A m \in S : n <= m
        Most(S)  == IF S = {} THEN None ELSE CHOOSE n \in S : \A m \in S : n >= m
    IN  [count    |-> Len(events),
         people   |-> Ids({"joined"}),
         first    |-> Least(Ids({"instruction"})),
         last     |-> Most(Ids({"instruction"})),
         title    |-> IF Ids({"title"}) = {} THEN Least(Ids({"instruction"}))
                      ELSE Most(Ids({"title"})),
         activity |-> IF events = <<>> THEN None ELSE Last(events).id,
         ended    |-> Ids({"ended"}) # {}]

\* The list of rooms shows the facts of the whole history of a room, however
\* often its log was trimmed, read back in pages and trimmed again.
SummaryOfWholeHistory ==
    \A s \in Server :
        room[s].live => BuildRoomSummary(room[s].log, room[s].seed) = Facts(history[s])

\* A server that starts alone has every event that clients were told of, in
\* order and once, and no room that they were told has ended; over PostgreSQL a
\* kill may cost the events that were still queued, but only a last part.
RestartKeepsHistory ==
    [][ \A s \in Server :
            boots' # boots /\ phase[s] = "gone" /\ phase'[s] # "gone" /\ ~crossed' =>
                \/ ~room'[s].live /\ told = <<>>
                \/ ~room'[s].live /\ HasEnded(told)
                \/ ~HasEnded(told) /\ history'[s] = told
                \/ backend = "postgres" /\ ~intact /\ IsPrefix(history'[s], told) ]_vars

\* The mode of a room is the one its history says, also when the server was
\* killed between the event and the meta.  (A history without its first event is
\* left where a kill cut the deletion of a room from PostgreSQL short.)
ModeOfHistory ==
    \A s \in Server : (room[s].live /\ ~crossed /\ \E e \in ToSet(history[s]) : e.kind = "created") =>
        LET at == SelectLastInSeq(history[s], LAMBDA e : e.kind \in {"open", "driver"})
        IN  room[s].mode = IF at = 0 THEN "open" ELSE history[s][at].kind

\* Who was let in keeps the seat through restarts, unless a write was lost.
SeatsAreKept ==
    [][ \A s \in Server :
            boots' # boots /\ phase[s] = "gone" /\ phase'[s] # "gone"
                /\ ~crossed' /\ intact /\ room'[s].live
            => seated \subseteq room'[s].seats ]_vars

\* The store can serve every event that was trimmed: it has it or will have it
\* by the time its queue is written.
TrimmedIsStored ==
    \A s \in Server : room[s].live /\ ~crossed =>
        \A e \in ToSet(history[s]) \ ToSet(room[s].log) :
            e \in disk.db \/ [do |-> "row", of |-> e] \in ToSet(chain[s])

\* "rooms restore from disk on boot, so a restart loses nothing": a room that is
\* served has every event that clients were told of.
RestartLosesNothing ==
    \A s \in Server : phase[s] = "serving" /\ room[s].live /\ PortTaken(s) = FALSE
                        => IsPrefix(told, history[s])
=============================================================================
