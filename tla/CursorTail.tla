------------------------------- MODULE CursorTail -------------------------------
(***************************************************************************)
(* CursorChatTail (adapters/cursor/store.js): the adapter of the           *)
(* interactive Cursor CLI sees what the agent does by polling the chat     *)
(* store, one SQLite file per chat.  It attaches to the chat the CLI       *)
(* creates, or to the one that is resumed, and follows the host into a new *)
(* chat.                                                                   *)
(*                                                                         *)
(* Chats are numbered by their birth; rows of a chat by their rowid.  The  *)
(* CLI is external: it creates chats and appends rows at any time, between *)
(* any two polls.                                                          *)
(***************************************************************************)
EXTENDS Naturals, Sequences, FiniteSets

CONSTANTS
    MaxChats,     \* bound: chats of the directory
    MaxRows,      \* bound: rows of one chat
    OlderChats,   \* chats that were there 10 s before the tail started (the clock slack)
    ResumeOlder,  \* TRUE: a chat is resumed although there is a newer one
    MaxFailures   \* bound: polls that find the file mid-write, gone or not there yet

ASSUME TailConstants ==
    /\ MaxChats \in Nat /\ MaxRows \in Nat
    /\ OlderChats \in 0 .. MaxChats
    /\ ResumeOlder \in BOOLEAN
    /\ MaxFailures \in Nat

VARIABLES
    rows,      \* the rows of each chat that exists
    past,      \* how many rows each had when the tail started
    session,   \* the chat to resume (sessionId, with resume set), or None
    using,     \* the chat the CLI works in, or None
    db,        \* the chat whose file is open, or None
    dir,       \* the last chat attached to, or None
    dirBirth,  \* its birth as far as the tail knows
    lastRowid,
    emitted,   \* rows whose events went to the adapter, in order
    failures,
    stopped

tail == <<db, dir, dirBirth, lastRowid>>
cli  == <<rows, past, session, using>>
vars == <<cli, tail, emitted, failures, stopped>>

None == 0

Chat == 1 .. MaxChats

Chats == 1 .. Len(rows)

Row == [chat : Chat, id : 1 .. MaxRows]

-----------------------------------------------------------------------------
(* The CLI. *)

\* It is launched with or without a chat to resume; a new chat is its first act,
\* and later the host's choice.
StartChat ==
    /\ Len(rows) < MaxChats
    /\ rows' = Append(rows, 0)
    /\ past' = Append(past, 0)
    /\ using' = Len(rows) + 1
    /\ UNCHANGED <<session, tail, emitted, failures, stopped>>

AppendRow ==
    /\ using # None
    /\ rows[using] < MaxRows
    /\ rows' = [rows EXCEPT ![using] = @ + 1]
    /\ UNCHANGED <<past, session, using, tail, emitted, failures, stopped>>

-----------------------------------------------------------------------------
(* The tail. *)

\* _open: what is in the chat that is resumed is in the room's log already.
Open(chat, birth, fresh) ==
    [db |-> chat, dir |-> chat, birth |-> birth,
     last |-> IF session # None /\ ~fresh THEN rows[chat] ELSE 0]

Attached == [db |-> db, dir |-> dir, birth |-> dirBirth, last |-> lastRowid]

\* Mutant: a chat that was there before the tail started will do.
AttachToAny ==
    IF session # None THEN Open(session, 0, FALSE)
    ELSE IF rows = <<>> THEN Attached ELSE Open(Len(rows), Len(rows), FALSE)

\* _attach: the chat to resume, else the newest the launched CLI created.
Attach ==
    IF session # None THEN Open(session, 0, FALSE)
    ELSE IF Len(rows) <= OlderChats THEN Attached
    ELSE Open(Len(rows), Len(rows), FALSE)

\* Mutant: the host is not followed.
StayInChat == Attached

\* _switchIfNewerChat: the newest chat of the directory, from its first row.
SwitchIfNewerChat ==
    IF Len(rows) # dir /\ Len(rows) > dirBirth THEN Open(Len(rows), Len(rows), TRUE) ELSE Attached

\* Mutant: the last row is read again.
UnreadFromLast(t) ==
    LET first == IF t.last = 0 THEN 1 ELSE t.last
    IN  [k \in 1 .. rows[t.db] - first + 1 |-> [chat |-> t.db, id |-> first + k - 1]]

\* SELECT ... WHERE rowid > lastRowid ORDER BY rowid.
Unread(t) == [k \in 1 .. rows[t.db] - t.last |-> [chat |-> t.db, id |-> t.last + k]]

\* _poll.
Poll ==
    LET t == IF db = None THEN Attach ELSE SwitchIfNewerChat IN
    /\ ~stopped
    /\ t.db # None
    /\ db' = t.db /\ dir' = t.dir /\ dirBirth' = t.birth
    /\ lastRowid' = rows[t.db]
    /\ emitted' = emitted \o Unread(t)
    /\ UNCHANGED <<cli, failures, stopped>>

\* The query throws, or the chat that is about to be opened has no file yet: none is
\* open then, and a later poll attaches anew.
PollFails ==
    LET t == IF db = None THEN Attach ELSE SwitchIfNewerChat IN
    /\ ~stopped
    /\ failures < MaxFailures
    /\ t.db # None
    /\ failures' = failures + 1
    /\ db' = None
    /\ \/ dir' = t.dir /\ dirBirth' = t.birth /\ lastRowid' = t.last
       \/ t.db # db /\ UNCHANGED <<dir, dirBirth, lastRowid>>
    /\ UNCHANGED <<cli, emitted, stopped>>

Stop ==
    /\ ~stopped
    /\ stopped' = TRUE
    /\ db' = None
    /\ UNCHANGED <<cli, dir, dirBirth, lastRowid, emitted, failures>>

-----------------------------------------------------------------------------
Init ==
    /\ rows \in [1 .. OlderChats -> 1 .. MaxRows - 1]
    /\ past = rows
    /\ session \in {None} \cup IF ResumeOlder THEN 1 .. OlderChats ELSE {OlderChats}
    /\ using = session
    /\ db = None
    /\ dir = None
    /\ dirBirth = 0
    /\ lastRowid = 0
    /\ emitted = <<>>
    /\ failures = 0
    /\ stopped = FALSE

Next == StartChat \/ AppendRow \/ Poll \/ PollFails \/ Stop

Spec == Init /\ [][Next]_vars

\* The timer of the tail.
FairSpec == Spec /\ WF_vars(Poll)

-----------------------------------------------------------------------------
(* Properties. *)

TypeOK ==
    /\ rows \in Seq(0 .. MaxRows)
    /\ past \in Seq(0 .. MaxRows)
    /\ session \in 0 .. OlderChats
    /\ using \in 0 .. Len(rows)
    /\ db \in 0 .. Len(rows)
    /\ dir \in Nat
    /\ dirBirth \in Nat
    /\ lastRowid \in 0 .. MaxRows
    /\ emitted \in Seq(Row)
    /\ failures \in Nat
    /\ stopped \in BOOLEAN

\* As long as no poll fails the room sees the rows of a chat once, in order and
\* without a hole, from the first that was not there when the tail started or
\* attached.
RowsInOrder ==
    failures = 0 =>
        \A j, k \in 1 .. Len(emitted) :
            j < k /\ emitted[j].chat = emitted[k].chat
                => /\ emitted[j].id < emitted[k].id
                   /\ k = j + 1 => emitted[k].id = emitted[j].id + 1

\* store.js: "resuming replays nothing", and a new room starts with a new chat:
\* what was there when the tail started stays out of the room.
NothingFromThePast ==
    \A k \in 1 .. Len(emitted) : emitted[k].id > past[emitted[k].chat]

\* store.js: the tail follows the newest chat: what the CLI appends to the chat it
\* created last is seen.
NewestChatSeen ==
    \A c \in Chat, r \in 1 .. MaxRows :
        c = using /\ c = Len(rows) /\ c > OlderChats /\ rows[c] >= r
            ~> \/ \E k \in 1 .. Len(emitted) : emitted[k] = [chat |-> c, id |-> r]
               \/ c # Len(rows)
               \/ stopped
=============================================================================
