------------------------------ MODULE CursorProofs ------------------------------
(***************************************************************************)
(* What the tail of a Cursor chat shows the room: every row once and in    *)
(* order as long as no poll fails, and nothing of what was there before.   *)
(*                                                                         *)
(* The tail only ever moves to a younger chat.  Everything it emitted is   *)
(* therefore of the chat it is in, up to lastRowid, or of an older one.    *)
(***************************************************************************)
EXTENDS CursorTail, SequenceTheorems, TLAPS

USE TailConstants

-----------------------------------------------------------------------------
(* The chats. *)

\* What there was when the tail started is still there; a chat that is created
\* later has no past.
Chronicle ==
    /\ Len(past) = Len(rows)
    /\ OlderChats <= Len(rows)
    /\ Len(rows) <= MaxChats
    /\ \A c \in Chats : past[c] <= rows[c]
    /\ \A c \in Chats : c > OlderChats => past[c] = 0

\* The tail is in a chat that exists, and has read no further than its end.
Position ==
    db # None => dir = db /\ lastRowid <= rows[db]

ChatInv == TypeOK /\ Chronicle /\ Position

(* How a poll moves on. *)

\* A poll has chosen chat c, of which it has read l rows.
Chosen(t) ==
    /\ t.db \in 1 .. Len(rows)
    /\ t.dir = t.db
    /\ t.birth \in Nat
    /\ t.last \in 0 .. rows[t.db]

\* The chat a poll works in.
Target == IF db = None THEN Attach ELSE SwitchIfNewerChat

LEMMA TargetChosen ==
    ASSUME ChatInv, Target.db # None
    PROVE  Chosen(Target)
<1> USE DEF ChatInv, TypeOK, Chronicle, Position, Chosen, Target, None
<1>0. \A c \in 1 .. Len(rows) : rows[c] \in 0 .. MaxRows
  BY ElementOfSeq
<1>1. CASE db = None /\ session # None
  <2>1. Target = [db |-> session, dir |-> session, birth |-> 0, last |-> rows[session]]
    BY <1>1 DEF Attach, Open
  <2>2. session \in 1 .. Len(rows)
    BY <1>1
  <2>3. rows[session] \in 0 .. MaxRows
    BY <2>2, ElementOfSeq
  <2>4. /\ Target.db = session
        /\ Target.dir = session
        /\ Target.birth = 0
        /\ Target.last = rows[session]
    BY <2>1
  <2> HIDE DEF Target
  <2> QED BY <2>2, <2>3, <2>4
<1>2. CASE db = None /\ session = None /\ Len(rows) > OlderChats
  <2>1. Target = [db |-> Len(rows), dir |-> Len(rows), birth |-> Len(rows), last |-> 0]
    BY <1>2 DEF Attach, Open
  <2>2. Len(rows) \in 1 .. Len(rows)
    BY <1>2
  <2>3. rows[Len(rows)] \in 0 .. MaxRows
    BY <1>0, <2>2
  <2>4. /\ Target.db = Len(rows)
        /\ Target.dir = Len(rows)
        /\ Target.birth = Len(rows)
        /\ Target.last = 0
    BY <2>1
  <2> HIDE DEF Target
  <2> QED BY <2>2, <2>3, <2>4
<1>3. CASE db = None /\ session = None /\ Len(rows) <= OlderChats
  <2>1. Target.db = db
    BY <1>3 DEF Attach, Attached
  <2> QED BY <1>3, <2>1
<1>4. CASE db # None /\ Len(rows) # dir /\ Len(rows) > dirBirth
  <2>1. Target = [db |-> Len(rows), dir |-> Len(rows), birth |-> Len(rows), last |-> 0]
    BY <1>4 DEF SwitchIfNewerChat, Open
  <2>2. Len(rows) \in 1 .. Len(rows)
    BY <1>4
  <2>3. rows[Len(rows)] \in 0 .. MaxRows
    BY <1>0, <2>2
  <2>4. /\ Target.db = Len(rows)
        /\ Target.dir = Len(rows)
        /\ Target.birth = Len(rows)
        /\ Target.last = 0
    BY <2>1
  <2> HIDE DEF Target
  <2> QED BY <2>2, <2>3, <2>4
<1>5. CASE db # None /\ ~(Len(rows) # dir /\ Len(rows) > dirBirth)
  <2>1. Target = [db |-> db, dir |-> dir, birth |-> dirBirth, last |-> lastRowid]
    BY <1>5 DEF SwitchIfNewerChat, Attached
  <2> QED BY <1>0, <1>5, <2>1
<1> QED BY <1>1, <1>2, <1>3, <1>4, <1>5

LEMMA RowsTyped ==
    ASSUME ChatInv, NEW c \in 1 .. Len(rows)
    PROVE  /\ rows[c] \in 0 .. MaxRows /\ past[c] \in 0 .. MaxRows
           /\ past[c] <= rows[c]
           /\ c > OlderChats => past[c] = 0
<1>1. rows \in Seq(0 .. MaxRows) /\ past \in Seq(0 .. MaxRows) /\ c \in 1 .. Len(past)
  BY DEF ChatInv, TypeOK, Chronicle
<1>2. rows[c] \in 0 .. MaxRows
  BY <1>1, ElementOfSeq
<1>3. past[c] \in 0 .. MaxRows
  BY <1>1, ElementOfSeq
<1> QED BY <1>2, <1>3 DEF ChatInv, Chronicle, Chats

\* The rows a poll finds are the next ones of its chat, in order.
LEMMA UnreadRows ==
    ASSUME ChatInv, NEW t, Chosen(t)
    PROVE  /\ Unread(t) \in Seq(Row)
           /\ Len(Unread(t)) = rows[t.db] - t.last
           /\ \A k \in 1 .. Len(Unread(t)) :
                  Unread(t)[k] = [chat |-> t.db, id |-> t.last + k]
<1>0. rows[t.db] \in 0 .. MaxRows
  BY RowsTyped DEF Chosen
<1> DEFINE n == rows[t.db] - t.last
<1>1. n \in Nat
  BY <1>0 DEF Chosen
<1>2. Unread(t) = [k \in 1 .. n |-> [chat |-> t.db, id |-> t.last + k]]
  BY DEF Unread
<1>3. \A k \in 1 .. n : [chat |-> t.db, id |-> t.last + k] \in Row
  <2> SUFFICES ASSUME NEW k \in 1 .. n PROVE [chat |-> t.db, id |-> t.last + k] \in Row
    OBVIOUS
  <2> DEFINE last == t.last
             id == last + k
             read == rows[t.db]
  <2>1. t.db \in Chat
    BY DEF Chat, Chosen, ChatInv, Chronicle, TypeOK
  <2>2. last \in Nat /\ read \in 0 .. MaxRows /\ k \in 1 .. read - last
    BY <1>0 DEF Chosen
  <2> HIDE DEF last, read
  <2>3. id \in 1 .. MaxRows
    BY <2>2
  <2> HIDE DEF id
  <2>4. [chat |-> t.db, id |-> id] \in Row
    BY <2>1, <2>3 DEF Row
  <2> QED BY <2>4 DEF id, last
<1> HIDE DEF n
<1>4. Unread(t) \in [1 .. n -> Row]
  BY <1>2, <1>3
<1>5. Unread(t) \in Seq(Row) /\ Len(Unread(t)) = n
  BY <1>1, <1>4, LenProperties, SeqDef
<1> QED BY <1>2, <1>5 DEF n

\* TypeOK is an invariant, with what the tail knows of the chats.
LEMMA ChatInvInit == Init => ChatInv
<1> SUFFICES ASSUME Init PROVE ChatInv
  OBVIOUS
<1> USE DEF Init, None
<1>1. rows \in Seq(0 .. MaxRows) /\ Len(rows) = OlderChats
  <2>1. rows \in [1 .. OlderChats -> 0 .. MaxRows]
    OBVIOUS
  <2> QED BY <2>1, SeqDef, LenProperties
<1>2. emitted \in Seq(Row)
  BY EmptySeq
<1>3. session \in 0 .. OlderChats
  OBVIOUS
<1>4. \A c \in 1 .. OlderChats : rows[c] \in Nat
  OBVIOUS
<1>5. /\ past = rows /\ using = session /\ db = 0 /\ dir = 0 /\ dirBirth = 0
      /\ lastRowid = 0 /\ failures = 0 /\ stopped = FALSE
  OBVIOUS
<1>6. OlderChats \in Nat /\ OlderChats <= MaxChats
  OBVIOUS
<1> HIDE DEF Init
<1> USE DEF ChatInv, TypeOK, Chronicle, Position, None, Chats
<1>7. TypeOK
  <2>1. past \in Seq(0 .. MaxRows)
    BY <1>1, <1>5
  <2>2. using \in 0 .. Len(rows) /\ db \in 0 .. Len(rows)
    BY <1>1, <1>3, <1>5, <1>6
  <2>3. dir \in Nat /\ dirBirth \in Nat /\ failures \in Nat /\ stopped \in BOOLEAN
    BY <1>5
  <2>4. lastRowid \in 0 .. MaxRows
    BY <1>5
  <2> QED BY <1>1, <1>2, <1>3, <2>1, <2>2, <2>3, <2>4
<1>8. Chronicle
  BY <1>1, <1>4, <1>5, <1>6
<1>9. Position
  BY <1>5
<1> HIDE DEF ChatInv, TypeOK, Chronicle, Position
<1> QED BY <1>7, <1>8, <1>9 DEF ChatInv

LEMMA StartChatKeeps ==
    ASSUME ChatInv, StartChat
    PROVE  ChatInv'
<1>1. /\ rows' \in Seq(0 .. MaxRows) /\ past' \in Seq(0 .. MaxRows)
      /\ Len(rows') = Len(rows) + 1 /\ Len(past') = Len(rows) + 1
      /\ \A c \in 1 .. Len(rows) : rows'[c] = rows[c] /\ past'[c] = past[c]
      /\ rows'[Len(rows) + 1] = 0 /\ past'[Len(rows) + 1] = 0
  <2>1. rows' = Append(rows, 0) /\ past' = Append(past, 0)
    BY DEF StartChat
  <2>2. /\ rows \in Seq(0 .. MaxRows) /\ past \in Seq(0 .. MaxRows)
        /\ Len(past) = Len(rows) /\ 0 \in 0 .. MaxRows
    BY DEF ChatInv, TypeOK, Chronicle
  <2>3. /\ rows' \in Seq(0 .. MaxRows) /\ Len(rows') = Len(rows) + 1
        /\ \A c \in 1 .. Len(rows) : rows'[c] = rows[c]
        /\ rows'[Len(rows) + 1] = 0
    BY <2>1, <2>2, AppendProperties
  <2>4. /\ past' \in Seq(0 .. MaxRows) /\ Len(past') = Len(past) + 1
        /\ \A c \in 1 .. Len(past) : past'[c] = past[c]
        /\ past'[Len(past) + 1] = 0
    BY <2>1, <2>2, AppendProperties
  <2> QED BY <2>2, <2>3, <2>4
<1> USE DEF ChatInv, TypeOK, Chronicle, Position, None, Chats
<1>2. /\ Len(rows) + 1 <= MaxChats
      /\ using' = Len(rows) + 1
      /\ UNCHANGED <<session, db, dir, dirBirth, lastRowid, emitted, failures, stopped>>
  BY DEF StartChat, tail
<1>3. TypeOK'
  BY <1>1, <1>2
<1>4. Chronicle'
  <2> SUFFICES ASSUME NEW c \in 1 .. Len(rows) + 1
               PROVE  past'[c] <= rows'[c] /\ (c > OlderChats => past'[c] = 0)
    BY <1>1, <1>2
  <2>1. CASE c \in 1 .. Len(rows)
    BY <1>1, <2>1
  <2>2. CASE c = Len(rows) + 1
    BY <1>1, <2>2
  <2> DEFINE n == Len(rows)
  <2>3. n \in Nat /\ c \in 1 .. n + 1
    BY LenProperties
  <2> HIDE DEF n
  <2>4. c \in 1 .. n \/ c = n + 1
    BY <2>3
  <2> QED BY <2>1, <2>2, <2>4 DEF n
<1>5. Position'
  BY <1>1, <1>2
<1> QED BY <1>3, <1>4, <1>5

LEMMA AppendRowKeeps ==
    ASSUME ChatInv, AppendRow
    PROVE  ChatInv'
<1> DEFINE more == rows[using] + 1
<1>1. /\ using \in 1 .. Len(rows) /\ rows[using] < MaxRows
      /\ rows' = [rows EXCEPT ![using] = more]
      /\ UNCHANGED <<past, session, using, db, dir, dirBirth, lastRowid, emitted, failures, stopped>>
  BY DEF AppendRow, tail, None, ChatInv, TypeOK
<1>2. rows[using] \in 0 .. MaxRows
  BY <1>1, RowsTyped
<1>3. more \in 0 .. MaxRows /\ rows[using] <= more
  BY <1>1, <1>2
<1>4. rows \in Seq(0 .. MaxRows)
  BY DEF ChatInv, TypeOK
<1> HIDE DEF more
<1>5. /\ rows' \in Seq(0 .. MaxRows)
      /\ Len(rows') = Len(rows)
      /\ \A c \in 1 .. Len(rows) : rows'[c] = IF c = using THEN more ELSE rows[c]
  BY <1>1, <1>3, <1>4, ExceptSeq
<1>6. \A c \in 1 .. Len(rows) : past[c] <= rows'[c] /\ rows[c] <= rows'[c] /\ rows'[c] \in Nat
  <2> TAKE c \in 1 .. Len(rows)
  <2>1. rows[c] \in 0 .. MaxRows /\ past[c] \in 0 .. MaxRows /\ past[c] <= rows[c]
    BY RowsTyped
  <2>2. CASE c = using
    BY <1>3, <1>5, <2>1, <2>2
  <2>3. CASE c # using
    BY <1>5, <2>1, <2>3
  <2> QED BY <2>2, <2>3
<1>7. TypeOK'
  BY <1>1, <1>5 DEF ChatInv, TypeOK
<1>8. Chronicle'
  BY <1>1, <1>5, <1>6 DEF ChatInv, Chronicle, Chats
<1>9. Position'
  <2> SUFFICES ASSUME db # None PROVE dir = db /\ lastRowid <= rows'[db]
    BY <1>1 DEF Position
  <2>1. /\ db \in 1 .. Len(rows) /\ dir = db /\ lastRowid <= rows[db]
        /\ lastRowid \in Nat
    BY DEF ChatInv, TypeOK, Position, None
  <2>2. rows[db] \in 0 .. MaxRows /\ rows[db] <= rows'[db] /\ rows'[db] \in Nat
    BY <1>6, <2>1, RowsTyped
  <2> QED BY <2>1, <2>2
<1> QED BY <1>7, <1>8, <1>9 DEF ChatInv

\* A poll that works reads its chat to the end.
LEMMA PollDoes ==
    ASSUME ChatInv, Poll
    PROVE  /\ Chosen(Target) /\ ~stopped
           /\ db' = Target.db /\ dir' = Target.db
           /\ lastRowid' = rows[Target.db]
           /\ emitted' = emitted \o Unread(Target)
           /\ dirBirth' \in Nat
           /\ UNCHANGED <<rows, past, session, using, failures, stopped>>
<1>1. /\ Target.db # None /\ ~stopped
      /\ db' = Target.db /\ dir' = Target.dir /\ dirBirth' = Target.birth
      /\ lastRowid' = rows[Target.db]
      /\ emitted' = emitted \o Unread(Target)
      /\ UNCHANGED <<rows, past, session, using, failures, stopped>>
  BY DEF Poll, Target, cli
<1>2. Chosen(Target)
  BY <1>1, TargetChosen
<1> QED BY <1>1, <1>2 DEF Chosen

LEMMA PollKeeps ==
    ASSUME ChatInv, Poll
    PROVE  ChatInv'
<1> DEFINE c == Target.db
<1>1. /\ Chosen(Target)
      /\ db' = c /\ dir' = c
      /\ lastRowid' = rows[c]
      /\ emitted' = emitted \o Unread(Target)
      /\ dirBirth' \in Nat
      /\ UNCHANGED <<rows, past, session, using, failures, stopped>>
  BY PollDoes
<1>2. c \in 1 .. Len(rows)
  BY <1>1 DEF Chosen
<1>3. Unread(Target) \in Seq(Row)
  BY <1>1, UnreadRows
<1> HIDE DEF c
<1>4. rows[c] \in 0 .. MaxRows
  BY <1>2, RowsTyped
<1>5. emitted' \in Seq(Row)
  <2>1. emitted \in Seq(Row)
    BY DEF ChatInv, TypeOK
  <2> QED BY <1>1, <1>3, <2>1, ConcatProperties
<1>6. TypeOK'
  BY <1>1, <1>2, <1>4, <1>5 DEF ChatInv, TypeOK
<1>7. Chronicle'
  BY <1>1 DEF ChatInv, Chronicle, Chats
<1>8. Position'
  BY <1>1, <1>4 DEF Position
<1> QED BY <1>6, <1>7, <1>8 DEF ChatInv

LEMMA PollFailsKeeps ==
    ASSUME ChatInv, PollFails
    PROVE  ChatInv'
<1>1. /\ Target.db # None /\ db' = None /\ failures' = failures + 1
      /\ \/ dir' = Target.dir /\ dirBirth' = Target.birth /\ lastRowid' = Target.last
         \/ UNCHANGED <<dir, dirBirth, lastRowid>>
      /\ UNCHANGED <<rows, past, session, using, emitted, stopped>>
  BY DEF PollFails, Target, cli
<1>2. Chosen(Target)
  BY <1>1, TargetChosen
<1> DEFINE d == Target.dir
           b == Target.birth
           l == Target.last
<1>3. d \in Nat /\ b \in Nat /\ l \in 0 .. MaxRows
  <2>1. rows[Target.db] \in 0 .. MaxRows
    BY <1>2, ElementOfSeq DEF Chosen, ChatInv, TypeOK
  <2> QED BY <1>2, <2>1 DEF Chosen, ChatInv, TypeOK
<1>4. \/ dir' = d /\ dirBirth' = b /\ lastRowid' = l
      \/ UNCHANGED <<dir, dirBirth, lastRowid>>
  BY <1>1
<1> HIDE DEF d, b, l
<1>5. TypeOK'
  BY <1>1, <1>3, <1>4 DEF ChatInv, TypeOK, None
<1>6. Chronicle'
  BY <1>1 DEF ChatInv, Chronicle, Chats
<1>7. Position'
  BY <1>1 DEF Position
<1> QED BY <1>5, <1>6, <1>7 DEF ChatInv

LEMMA StopKeeps ==
    ASSUME ChatInv, Stop
    PROVE  ChatInv'
BY DEF Stop, cli, ChatInv, TypeOK, Chronicle, Position, None, Chats

LEMMA ChatStep == ChatInv /\ [Next]_vars => ChatInv'
<1> SUFFICES ASSUME ChatInv, [Next]_vars PROVE ChatInv'
  OBVIOUS
<1>1. CASE UNCHANGED vars
  BY <1>1 DEF vars, cli, tail, ChatInv, TypeOK, Chronicle, Position, Chats
<1>2. CASE Next
  BY <1>2, StartChatKeeps, AppendRowKeeps, PollKeeps, PollFailsKeeps, StopKeeps DEF Next
<1> QED BY <1>1, <1>2

LEMMA ChatAlways == Spec => []ChatInv
BY ChatInvInit, ChatStep, PTL DEF Spec

\* The state of the tail, the chats and what was emitted keep their types.
THEOREM TailTypeCorrect == Spec => []TypeOK
<1>1. ChatInv => TypeOK
  BY DEF ChatInv
<1> QED BY <1>1, ChatAlways, PTL

-----------------------------------------------------------------------------
(* Where a poll reads on. *)

\* A poll stays in its chat and reads on where it was, or it moves to a younger one
\* (from the first row), or it opens one anew: the chat to resume from its end, or a
\* young one.
LEMMA TargetIs ==
    ASSUME ChatInv, Target.db # None
    PROVE  \/ db # None /\ Target.db = db /\ Target.last = lastRowid
           \/ db # None /\ Target.db > db /\ Target.db = Len(rows) /\ Target.last = 0
           \/ db = None /\ Target.db = session /\ Target.last = rows[session]
           \/ db = None /\ Target.db = Len(rows) /\ Len(rows) > OlderChats /\ Target.last = 0
<1> USE DEF ChatInv, TypeOK, Chronicle, Position, Target, None
<1>1. CASE db = None /\ session # None
  BY <1>1 DEF Attach, Open
<1>2. CASE db = None /\ session = None /\ Len(rows) > OlderChats
  <2>1. Target = [db |-> Len(rows), dir |-> Len(rows), birth |-> Len(rows), last |-> 0]
    BY <1>2 DEF Attach, Open
  <2> QED BY <1>2, <2>1
<1>3. CASE db = None /\ session = None /\ Len(rows) <= OlderChats
  <2>1. Target.db = db
    BY <1>3 DEF Attach, Attached
  <2> QED BY <1>3, <2>1
<1>4. CASE db # None /\ Len(rows) # dir /\ Len(rows) > dirBirth
  <2>1. Target = [db |-> Len(rows), dir |-> Len(rows), birth |-> Len(rows), last |-> 0]
    BY <1>4 DEF SwitchIfNewerChat, Open
  <2>2. Len(rows) > db
    BY <1>4, LenProperties
  <2> QED BY <1>4, <2>1, <2>2
<1>5. CASE db # None /\ ~(Len(rows) # dir /\ Len(rows) > dirBirth)
  <2>1. Target = [db |-> db, dir |-> dir, birth |-> dirBirth, last |-> lastRowid]
    BY <1>5 DEF SwitchIfNewerChat, Attached
  <2> QED BY <1>5, <2>1
<1> QED BY <1>1, <1>2, <1>3, <1>4, <1>5

\* What a poll emits: rows old .. old + new of emitted are those of chat c after row
\* last, up to the last one.
Reads(c, last) ==
    /\ emitted \in Seq(Row) /\ emitted' \in Seq(Row)
    /\ c \in Nat /\ last \in Nat /\ rows[c] \in Nat /\ last <= rows[c]
    /\ Len(emitted') = Len(emitted) + (rows[c] - last)
    /\ \A k \in 1 .. Len(emitted) : emitted'[k] = emitted[k]
    /\ \A k \in Len(emitted) + 1 .. Len(emitted') :
           emitted'[k].chat = c /\ emitted'[k].id = last + (k - Len(emitted))

LEMMA PollReads ==
    ASSUME ChatInv, Poll
    PROVE  Reads(Target.db, Target.last)
<1> DEFINE u == Unread(Target)
           c == Target.db
           l == Target.last
<1>1. Chosen(Target) /\ emitted' = emitted \o u
  BY PollDoes
<1>2. /\ c \in 1 .. Len(rows) /\ l \in 0 .. rows[c]
      /\ u \in Seq(Row)
      /\ Len(u) = rows[c] - l
      /\ \A k \in 1 .. Len(u) : u[k] = [chat |-> c, id |-> l + k]
  <2>1. c \in 1 .. Len(rows) /\ l \in 0 .. rows[c]
    BY <1>1 DEF Chosen
  <2> QED BY <1>1, <2>1, UnreadRows
<1>3. emitted \in Seq(Row) /\ rows \in Seq(0 .. MaxRows) /\ Len(rows) \in Nat
  BY LenProperties DEF ChatInv, TypeOK
<1>4. rows[c] \in 0 .. MaxRows
  BY <1>2, <1>3, ElementOfSeq
<1> HIDE DEF u, c, l
<1>5. /\ emitted' \in Seq(Row)
      /\ Len(emitted') = Len(emitted) + Len(u)
      /\ \A k \in 1 .. Len(emitted) + Len(u) :
             emitted'[k] = IF k <= Len(emitted) THEN emitted[k] ELSE u[k - Len(emitted)]
  BY <1>1, <1>2, <1>3, ConcatProperties
<1>6. Len(emitted) \in Nat /\ Len(u) \in Nat
  BY <1>2, <1>3, LenProperties
<1>7. \A k \in 1 .. Len(emitted) : emitted'[k] = emitted[k]
  BY <1>5, <1>6
<1>8. \A k \in Len(emitted) + 1 .. Len(emitted') :
          emitted'[k].chat = c /\ emitted'[k].id = l + (k - Len(emitted))
  <2> TAKE k \in Len(emitted) + 1 .. Len(emitted')
  <2> DEFINE i == k - Len(emitted)
  <2>1. i \in 1 .. Len(u) /\ emitted'[k] = u[i]
    BY <1>5, <1>6
  <2> HIDE DEF i
  <2>2. emitted'[k] = [chat |-> c, id |-> l + i]
    BY <1>2, <2>1
  <2>3. emitted'[k].chat = c /\ emitted'[k].id = l + i
    BY <2>2
  <2> QED BY <2>3 DEF i
<1>9. Reads(c, l)
  <2>1. emitted \in Seq(Row) /\ emitted' \in Seq(Row)
    BY <1>3, <1>5
  <2>2. c \in Nat /\ l \in Nat /\ rows[c] \in Nat /\ l <= rows[c]
    BY <1>2, <1>3, <1>4
  <2>3. Len(emitted') = Len(emitted) + (rows[c] - l)
    BY <1>2, <1>5
  <2> QED BY <1>7, <1>8, <2>1, <2>2, <2>3 DEF Reads
<1> QED BY <1>9 DEF c, l

\* The steps that leave the tail where it is emit nothing.
LEMMA OtherSteps ==
    ASSUME ChatInv, StartChat \/ AppendRow
    PROVE  UNCHANGED <<db, lastRowid, emitted, failures, stopped, session>>
BY DEF StartChat, AppendRow, tail

-----------------------------------------------------------------------------
(* In order. *)

\* Of the chat it is in the tail emitted the rows up to lastRowid, and that one
\* last; of younger chats none.
Behind ==
    IF db = None THEN emitted = <<>>
    ELSE /\ \A k \in 1 .. Len(emitted) :
                /\ emitted[k].chat <= db
                /\ emitted[k].chat = db => emitted[k].id <= lastRowid
         /\ emitted # <<>> /\ emitted[Len(emitted)].chat = db
                => emitted[Len(emitted)].id = lastRowid

OrderInv == RowsInOrder /\ (failures = 0 /\ ~stopped => Behind)

\* What was emitted relates to the chat a poll reads as it does to the one it was in.
Follows(c, last) ==
    /\ \A k \in 1 .. Len(emitted) :
           /\ emitted[k].chat <= c
           /\ emitted[k].chat = c => emitted[k].id <= last
    /\ emitted # <<>> /\ emitted[Len(emitted)].chat = c => emitted[Len(emitted)].id = last

LEMMA TargetFollows ==
    ASSUME ChatInv, Target.db # None, Behind
    PROVE  Follows(Target.db, Target.last)
<1>0. /\ emitted \in Seq(Row) /\ Len(emitted) \in Nat /\ db \in Nat
      /\ \A k \in 1 .. Len(emitted) : emitted[k].chat \in Nat /\ emitted[k].id \in Nat
      /\ emitted # <<>> => Len(emitted) \in 1 .. Len(emitted)
  <2>1. emitted \in Seq(Row) /\ Len(emitted) \in Nat /\ db \in Nat
    BY LenProperties DEF ChatInv, TypeOK
  <2>2. \A k \in 1 .. Len(emitted) : emitted[k] \in Row
    BY <2>1, ElementOfSeq
  <2>3. emitted # <<>> => Len(emitted) \in 1 .. Len(emitted)
    BY <2>1, EmptySeq
  <2> QED BY <2>1, <2>2, <2>3 DEF Row, Chat
<1>1. CASE db # None /\ Target.db = db /\ Target.last = lastRowid
  BY <1>1 DEF Behind, Follows
<1>2. CASE db # None /\ Target.db > db
  <2> DEFINE c == Target.db
  <2>1. c \in Nat /\ c > db
    BY <1>2, TargetChosen, LenProperties DEF Chosen, ChatInv, TypeOK
  <2> HIDE DEF c
  <2>2. \A k \in 1 .. Len(emitted) : emitted[k].chat < c
    BY <1>0, <1>2, <2>1 DEF Behind
  <2>3. Follows(c, Target.last)
    BY <1>0, <2>1, <2>2 DEF Follows
  <2> QED BY <2>3 DEF c
<1>3. CASE db = None
  <2>1. emitted = <<>> /\ Len(emitted) = 0
    BY <1>3, EmptySeq DEF Behind
  <2> QED BY <2>1 DEF Follows
<1> QED BY <1>1, <1>2, <1>3, TargetIs

\* The rows j and k of what was emitted are in order.
Ordered(j, k) ==
    j < k /\ emitted[j].chat = emitted[k].chat
        => /\ emitted[j].id < emitted[k].id
           /\ k = j + 1 => emitted[k].id = emitted[j].id + 1

LEMMA PollOrders ==
    ASSUME NEW c, NEW last,
           Reads(c, last), Follows(c, last),
           \A j, k \in 1 .. Len(emitted) : Ordered(j, k)
    PROVE  \A j, k \in 1 .. Len(emitted') : Ordered(j, k)'
<1> SUFFICES ASSUME NEW j \in 1 .. Len(emitted'), NEW k \in 1 .. Len(emitted'),
                    j < k, emitted'[j].chat = emitted'[k].chat
             PROVE  /\ emitted'[j].id < emitted'[k].id
                    /\ k = j + 1 => emitted'[k].id = emitted'[j].id + 1
  BY DEF Ordered
<1> DEFINE n == Len(emitted)
           m == Len(emitted')
<1>1. n \in Nat /\ m \in Nat /\ n <= m /\ last \in Nat
  BY LenProperties DEF Reads
<1>2. \A i \in 1 .. n : emitted'[i] = emitted[i] /\ emitted[i].id \in Nat /\ emitted[i].chat \in Nat
  <2>1. \A i \in 1 .. n : emitted[i] \in Row
    BY ElementOfSeq DEF Reads
  <2>2. \A i \in 1 .. n : emitted[i].id \in Nat /\ emitted[i].chat \in Nat
    BY <2>1 DEF Row, Chat
  <2> QED BY <2>2 DEF Reads
<1>3. \A i \in n + 1 .. m : emitted'[i].chat = c /\ emitted'[i].id = last + (i - n)
  BY DEF Reads
<1>4. \A i \in 1 .. n : emitted[i].chat = c => emitted[i].id <= last
  BY DEF Follows
<1>5. n # 0 /\ emitted[n].chat = c => emitted[n].id = last
  BY EmptySeq DEF Reads, Follows
<1>6. \A a, b \in 1 .. n : Ordered(a, b)
  OBVIOUS
<1> HIDE DEF n, m
<1>7. j \in 1 .. m /\ k \in 1 .. m
  BY DEF m
<1>8. CASE k <= n
  <2>1. j \in 1 .. n /\ k \in 1 .. n
    BY <1>1, <1>7, <1>8
  <2>2. Ordered(j, k) /\ emitted'[j] = emitted[j] /\ emitted'[k] = emitted[k]
    BY <1>2, <1>6, <2>1
  <2> QED BY <2>2 DEF Ordered
<1>9. CASE j <= n /\ k > n
  <2>1. j \in 1 .. n /\ k \in n + 1 .. m
    BY <1>1, <1>7, <1>9
  <2>2. emitted'[k].chat = c /\ emitted'[k].id = last + (k - n)
    BY <1>3, <2>1
  <2>3. emitted'[j] = emitted[j] /\ emitted[j].id \in Nat /\ emitted[j].chat = c
    BY <1>2, <2>1, <2>2
  <2>4. emitted[j].id <= last
    BY <1>4, <2>1, <2>3
  <2>5. k = j + 1 => j = n /\ k - n = 1
    BY <1>1, <2>1
  <2>6. k = j + 1 => emitted[j].id = last
    BY <1>1, <1>5, <2>1, <2>3, <2>5
  <2> QED BY <1>1, <2>1, <2>2, <2>3, <2>4, <2>5, <2>6
<1>10. CASE j > n
  <2>1. j \in n + 1 .. m /\ k \in n + 1 .. m
    BY <1>1, <1>7, <1>10
  <2>2. emitted'[j].id = last + (j - n) /\ emitted'[k].id = last + (k - n)
    BY <1>3, <2>1
  <2> QED BY <1>1, <2>1, <2>2
<1> QED BY <1>1, <1>7, <1>8, <1>9, <1>10

LEMMA PollStaysBehind ==
    ASSUME NEW c, NEW last,
           Reads(c, last), Follows(c, last),
           c # None, db' = c, lastRowid' = rows[c]
    PROVE  Behind'
<1> DEFINE n == Len(emitted)
           m == Len(emitted')
           r == rows[c]
<1>1. /\ n \in Nat /\ m \in Nat /\ r \in Nat /\ last \in Nat /\ last <= r /\ m = n + (r - last)
      /\ c \in Nat
  BY LenProperties DEF Reads
<1>2. \A i \in 1 .. n : /\ emitted'[i] = emitted[i] /\ emitted[i].id \in Nat
                        /\ emitted[i].chat \in Nat
                        /\ emitted[i].chat <= c
                        /\ emitted[i].chat = c => emitted[i].id <= last
  <2>1. \A i \in 1 .. n : emitted[i] \in Row
    BY ElementOfSeq DEF Reads
  <2>2. \A i \in 1 .. n : emitted[i].id \in Nat /\ emitted[i].chat \in Nat
    BY <2>1 DEF Row, Chat
  <2> QED BY <2>2 DEF Reads, Follows
<1>3. \A i \in n + 1 .. m : emitted'[i].chat = c /\ emitted'[i].id = last + (i - n)
  BY DEF Reads
<1>4. n # 0 /\ emitted[n].chat = c => emitted[n].id = last
  BY EmptySeq DEF Reads, Follows
<1>5. emitted' # <<>> => m # 0
  BY EmptySeq DEF Reads
<1> HIDE DEF n, m, r
<1>6. \A i \in 1 .. m : /\ emitted'[i].chat <= c
                        /\ emitted'[i].chat = c => emitted'[i].id <= r
  <2> TAKE i \in 1 .. m
  <2>1. CASE i <= n
    BY <1>1, <1>2, <2>1
  <2>2. CASE i > n
    <3>1. i \in n + 1 .. m
      BY <1>1, <2>2
    <3>2. emitted'[i].chat = c /\ emitted'[i].id = last + (i - n)
      BY <1>3, <3>1
    <3> QED BY <1>1, <3>1, <3>2
  <2> QED BY <1>1, <2>1, <2>2
<1>7. m # 0 /\ emitted'[m].chat = c => emitted'[m].id = r
  <2> SUFFICES ASSUME m # 0, emitted'[m].chat = c PROVE emitted'[m].id = r
    OBVIOUS
  <2>1. CASE m = n
    BY <1>1, <1>2, <1>4, <2>1
  <2>2. CASE m # n
    <3>1. m \in n + 1 .. m
      BY <1>1, <2>2
    <3> QED BY <1>1, <1>3, <3>1
  <2> QED BY <2>1, <2>2
<1> QED BY <1>5, <1>6, <1>7 DEF Behind, m, r, None

LEMMA OrderInit == Init => OrderInv
<1> SUFFICES ASSUME Init PROVE OrderInv
  OBVIOUS
<1>1. emitted = <<>> /\ Len(emitted) = 0 /\ db = None
  BY EmptySeq DEF Init
<1> QED BY <1>1 DEF OrderInv, RowsInOrder, Behind

LEMMA OrderStep == ChatInv /\ OrderInv /\ [Next]_vars => OrderInv'
<1> SUFFICES ASSUME ChatInv, OrderInv, [Next]_vars PROVE OrderInv'
  OBVIOUS
<1>1. CASE StartChat \/ AppendRow
  BY <1>1, OtherSteps DEF OrderInv, RowsInOrder, Behind
<1>2. CASE Poll
  <2>1. /\ Target.db # None /\ ~stopped
        /\ db' = Target.db /\ lastRowid' = rows[Target.db]
        /\ failures' = failures /\ stopped' = stopped
    BY <1>2, PollDoes DEF Chosen, None
  <2>2. CASE failures = 0
    <3>1. Behind /\ RowsInOrder
      BY <2>1, <2>2 DEF OrderInv
    <3>2. Reads(Target.db, Target.last) /\ Follows(Target.db, Target.last)
      BY <1>2, <2>1, <3>1, PollReads, TargetFollows
    <3>3. Behind'
      BY <2>1, <3>2, PollStaysBehind
    <3>4. \A j, k \in 1 .. Len(emitted) : Ordered(j, k)
      BY <2>2, <3>1 DEF RowsInOrder, Ordered
    <3>5. \A j, k \in 1 .. Len(emitted') : Ordered(j, k)'
      BY <3>2, <3>4, PollOrders
    <3>6. RowsInOrder'
      BY <3>5 DEF RowsInOrder, Ordered
    <3> QED BY <3>3, <3>6 DEF OrderInv
  <2>3. CASE failures # 0
    BY <2>1, <2>3 DEF OrderInv, RowsInOrder
  <2> QED BY <2>2, <2>3
<1>3. CASE PollFails
  <2>1. failures' # 0
    BY <1>3 DEF PollFails, ChatInv, TypeOK
  <2> QED BY <2>1 DEF OrderInv, RowsInOrder
<1>4. CASE Stop
  BY <1>4 DEF Stop, OrderInv, RowsInOrder
<1>5. CASE UNCHANGED vars
  BY <1>5 DEF vars, tail, OrderInv, RowsInOrder, Behind
<1> QED BY <1>1, <1>2, <1>3, <1>4, <1>5 DEF Next

\* As long as no poll fails the room sees the rows of every chat once, in order and
\* without a hole, however often the host moves on to a new chat.
THEOREM EveryRowInOrder == Spec => []RowsInOrder
<1>1. OrderInv => RowsInOrder
  BY DEF OrderInv
<1> QED BY <1>1, ChatAlways, OrderInit, OrderStep, PTL DEF Spec

-----------------------------------------------------------------------------
(* Nothing from the past. *)

\* The tail is in a young chat, or in the old one it resumed, past its past.
PastRead ==
    db # None => /\ db > OlderChats \/ db = session
                 /\ lastRowid >= past[db]

\* What was emitted is of chats that exist.
Seen == \A k \in 1 .. Len(emitted) : emitted[k].chat \in Chats

PastInv ==
    /\ Seen
    /\ session \in {None, OlderChats}
    /\ NothingFromThePast
    /\ PastRead

LEMMA PastInit ==
    ASSUME ~ResumeOlder, Init
    PROVE  PastInv
<1>1. emitted = <<>> /\ Len(emitted) = 0 /\ db = None
  BY EmptySeq DEF Init
<1>2. session \in {None, OlderChats}
  BY DEF Init
<1> QED BY <1>1, <1>2 DEF PastInv, Seen, NothingFromThePast, PastRead

\* A poll never reads what was there before.
LEMMA TargetIsNew ==
    ASSUME ChatInv, PastInv, Target.db # None
    PROVE  /\ Target.db > OlderChats \/ Target.db = session
           /\ Target.last >= past[Target.db]
<1> DEFINE c == Target.db
           l == Target.last
<1>1. c \in 1 .. Len(rows) /\ l \in 0 .. rows[c]
  BY TargetChosen DEF Chosen
<1>2. /\ rows[c] \in Nat /\ past[c] \in Nat /\ past[c] <= rows[c]
      /\ c > OlderChats => past[c] = 0
  <2>1. Len(past) = Len(rows)
    BY DEF ChatInv, Chronicle
  <2>2. rows[c] \in 0 .. MaxRows /\ past[c] \in 0 .. MaxRows
    BY <1>1, <2>1, ElementOfSeq DEF ChatInv, TypeOK
  <2> QED BY <1>1, <2>2 DEF ChatInv, Chronicle, Chats
<1>3. \/ db # None /\ c = db /\ l = lastRowid
      \/ db # None /\ c > db /\ l = 0
      \/ db = None /\ c = session /\ l = rows[session]
      \/ c > OlderChats /\ l = 0
  BY TargetIs
<1> HIDE DEF c, l
<1>4. db \in Nat /\ session \in Nat /\ c \in Nat
  BY <1>1, LenProperties DEF ChatInv, TypeOK
<1>5. CASE db # None /\ c = db /\ l = lastRowid
  BY <1>5 DEF PastInv, PastRead, c, l
<1>6. CASE db # None /\ c > db /\ l = 0
  <2>1. c > OlderChats
    BY <1>4, <1>6 DEF PastInv, PastRead, None
  <2> QED BY <1>2, <1>6, <2>1 DEF c, l
<1>7. CASE c = session /\ l = rows[session]
  BY <1>2, <1>7 DEF c, l
<1>8. CASE c > OlderChats /\ l = 0
  BY <1>2, <1>8 DEF c, l
<1> QED BY <1>3, <1>5, <1>6, <1>7, <1>8

LEMMA PollReadsNew ==
    ASSUME ChatInv, PastInv, Poll
    PROVE  PastInv'
<1> DEFINE c == Target.db
           l == Target.last
<1>1. /\ Target.db # None
      /\ db' = c /\ lastRowid' = rows[c]
      /\ rows' = rows /\ past' = past /\ session' = session
  BY PollDoes DEF Chosen, None
<1>2. Reads(c, l)
  BY PollReads
<1>3. (c > OlderChats \/ c = session) /\ l >= past[c]
  BY <1>1, TargetIsNew
<1>4. past[c] \in Nat
  <2>1. c \in 1 .. Len(past)
    BY <1>1, TargetChosen DEF Chosen, ChatInv, Chronicle
  <2>2. past[c] \in 0 .. MaxRows
    BY <2>1, ElementOfSeq DEF ChatInv, TypeOK
  <2> QED BY <2>2
<1>0. c \in 1 .. Len(rows)
  BY <1>1, TargetChosen DEF Chosen
<1> HIDE DEF c, l
<1>5. PastRead'
  BY <1>1, <1>2, <1>3, <1>4 DEF PastRead, Reads
<1>6. NothingFromThePast'
  <2> SUFFICES ASSUME NEW k \in 1 .. Len(emitted')
               PROVE  emitted'[k].id > past[emitted'[k].chat]
    BY <1>1 DEF NothingFromThePast
  <2>0. Len(emitted) \in Nat /\ Len(emitted') \in Nat
    BY <1>2, LenProperties DEF Reads
  <2>1. CASE k <= Len(emitted)
    <3>1. k \in 1 .. Len(emitted)
      BY <2>0, <2>1
    <3>2. emitted'[k] = emitted[k] /\ emitted[k].id > past[emitted[k].chat]
      BY <1>2, <3>1 DEF Reads, PastInv, NothingFromThePast
    <3> QED BY <3>2
  <2>2. CASE k > Len(emitted)
    <3>1. k \in Len(emitted) + 1 .. Len(emitted')
      BY <2>0, <2>2
    <3>2. emitted'[k].chat = c /\ emitted'[k].id = l + (k - Len(emitted)) /\ l \in Nat
      BY <1>2, <3>1 DEF Reads
    <3>3. l + (k - Len(emitted)) > past[c]
      BY <1>3, <1>4, <2>0, <3>1, <3>2
    <3> QED BY <3>2, <3>3
  <2> QED BY <2>0, <2>1, <2>2
<1>7. session' \in {None, OlderChats}
  BY <1>1 DEF PastInv
<1>8. Seen'
  <2> SUFFICES ASSUME NEW k \in 1 .. Len(emitted')
               PROVE  emitted'[k].chat \in 1 .. Len(rows)
    BY <1>1 DEF Seen, Chats
  <2>0. Len(emitted) \in Nat /\ Len(emitted') \in Nat
    BY <1>2, LenProperties DEF Reads
  <2>1. CASE k <= Len(emitted)
    <3>1. k \in 1 .. Len(emitted)
      BY <2>0, <2>1
    <3> QED BY <1>2, <3>1 DEF Reads, PastInv, Seen, Chats
  <2>2. CASE k > Len(emitted)
    <3>1. k \in Len(emitted) + 1 .. Len(emitted')
      BY <2>0, <2>2
    <3> QED BY <1>0, <1>2, <3>1 DEF Reads
  <2> QED BY <2>0, <2>1, <2>2
<1> QED BY <1>5, <1>6, <1>7, <1>8 DEF PastInv

\* A new chat has no past, and the others keep theirs.
LEMMA StartChatKeepsPast ==
    ASSUME ChatInv, PastInv, StartChat
    PROVE  PastInv'
<1>1. UNCHANGED <<db, lastRowid, emitted, session>>
  BY OtherSteps
<1>2. \A c \in 1 .. Len(past) : past'[c] = past[c]
  BY AppendProperties DEF ChatInv, TypeOK, StartChat
<1>3. \A k \in 1 .. Len(emitted) : past'[emitted[k].chat] = past[emitted[k].chat]
  BY <1>2 DEF ChatInv, Chronicle, PastInv, Seen, Chats
<1>4. db # None => past'[db] = past[db]
  BY <1>2 DEF ChatInv, TypeOK, Chronicle, None
<1>5. Len(rows') = Len(rows) + 1 /\ Len(rows) \in Nat
  BY AppendProperties, LenProperties DEF ChatInv, TypeOK, StartChat
<1>6. Seen'
  BY <1>1, <1>5 DEF PastInv, Seen, Chats
<1> QED BY <1>1, <1>3, <1>4, <1>6 DEF PastInv, Seen, Chats, NothingFromThePast, PastRead

LEMMA PastStep == ChatInv /\ PastInv /\ [Next]_vars => PastInv'
<1> SUFFICES ASSUME ChatInv, PastInv, [Next]_vars PROVE PastInv'
  OBVIOUS
<1>1. CASE AppendRow
  <2>1. past' = past /\ Len(rows') = Len(rows)
    BY <1>1, ExceptSeq DEF AppendRow
  <2> QED BY <1>1, <2>1, OtherSteps DEF PastInv, Seen, Chats, NothingFromThePast, PastRead
<1>2. CASE PollFails
  <2>1. db' = None /\ UNCHANGED <<rows, past, session, emitted>>
    BY <1>2 DEF PollFails, cli
  <2> QED BY <2>1 DEF PastInv, Seen, Chats, NothingFromThePast, PastRead
<1>3. CASE Stop
  <2>1. db' = None /\ UNCHANGED <<rows, past, session, emitted>>
    BY <1>3 DEF Stop, cli
  <2> QED BY <2>1 DEF PastInv, Seen, Chats, NothingFromThePast, PastRead
<1>4. CASE UNCHANGED vars
  BY <1>4 DEF vars, cli, tail, PastInv, Seen, Chats, NothingFromThePast, PastRead
<1> QED BY <1>1, <1>2, <1>3, <1>4, StartChatKeepsPast, PollReadsNew DEF Next

\* Unless an old chat is resumed although there is a newer one, no row that was there
\* when the tail started reaches the room: not through a failing poll and not when
\* the host moves on.
THEOREM PastStaysOut ==
    ASSUME ~ResumeOlder
    PROVE  Spec => []NothingFromThePast
<1>1. Init => PastInv
  BY PastInit
<1>2. PastInv => NothingFromThePast
  BY DEF PastInv
<1> QED BY <1>1, <1>2, ChatAlways, PastStep, PTL DEF Spec

=============================================================================
