----------------------------- MODULE ReadersProofs -----------------------------
(***************************************************************************)
(* Proofs about the event stream of a room and the people who follow it,   *)
(* for every number of clients and events, every size of the memory cap,   *)
(* with connections that break and feeds that end at any time.             *)
(***************************************************************************)
EXTENDS Readers, SequenceTheorems, FiniteSetTheorems, TLAPS

LEMMA StreamNumbers ==
    /\ MaxSeq \in Nat
    /\ EventCache \in Nat \ {0}
    /\ ReadLimit \in Nat \ {0}
    /\ BacklogLimit \in Nat \ {0}
    /\ MaxDrops \in Nat
    /\ Stores \subseteq {"sqlite", "pg"}
    /\ Kinds \subseteq {"terminal", "dashboard"}
BY ReplayConstants, ReadersConstants

Frame == [type: {"event", "welcome"}, seqs: SUBSET (1 .. MaxSeq)]

ReadRecord == [since: 0 .. MaxSeq, floor: 0 .. MaxSeq + 1, rows: SUBSET (1 .. MaxSeq),
               state: {"none", "sent", "read"}]

-----------------------------------------------------------------------------
(* The frames on one connection. *)

IsNewest(n, S) == n \in S /\ \A m \in S : m <= n

LEMMA NewestIs ==
    ASSUME NEW S \in SUBSET Nat, NEW n, IsNewest(n, S)
    PROVE  Newest(S, 0) = n
<1>1. n \in S /\ \A m \in S : m <= n
  BY DEF IsNewest
<1>2. \A x \in S : (\A m \in S : m <= x) => x = n
  BY <1>1
<1>3. (CHOOSE x \in S : \A m \in S : m <= x) = n
  BY <1>1, <1>2
<1> QED
  BY <1>1, <1>3 DEF Newest

Welcomes(w) == {k \in 1 .. Len(w) : w[k].type = "welcome"}

\* The last event before those on the connection, when the newest is s.
Behind(w, s) == s - Len(w) + (IF Welcomes(w) = {} THEN 0 ELSE 1)

\* The event in position k: the welcome is none.
Nth(w, s, k) == Behind(w, s) + k - (IF \E p \in Welcomes(w) : p < k THEN 1 ELSE 0)

\* Consecutive events up to the newest, and one welcome at most, which brings its
\* client (whose lastSeq is at) up to the event before it.
Stream(w, s, at) ==
    /\ \A p, q \in Welcomes(w) : p = q
    /\ \A k \in 1 .. Len(w) : w[k].type = "event" => w[k].seqs = {Nth(w, s, k)}
    /\ \A p \in Welcomes(w) :
          \/ IsNewest(Behind(w, s) + p - 1, w[p].seqs)
          \/ w[p].seqs = {} /\ p = 1 /\ at = Behind(w, s)

SeqNumber == 0 .. MaxSeq

\* One more frame is sent.
Sent(v, w, frame) == v = Append(w, frame)

\* A welcome is sent: it brings the newest event, or nothing if its client has that.
Welcomed(v, w, S, s, at) ==
    /\ s \in SeqNumber /\ w \in Seq(Frame) /\ Stream(w, s, at) /\ Welcomes(w) = {}
    /\ S \in SUBSET (1 .. MaxSeq)
    /\ IsNewest(s, S) \/ (S = {} /\ w = <<>> /\ at = s)
    /\ v = Append(w, Welcome(S))

LEMMA EmptyStream ==
    ASSUME NEW s \in Nat, NEW at
    PROVE  Stream(<<>>, s, at) /\ Behind(<<>>, s) = s /\ Welcomes(<<>>) = {}
BY DEF Stream, Behind, Welcomes

LEMMA EventAppended ==
    ASSUME NEW s \in SeqNumber, s < MaxSeq, NEW w \in Seq(Frame), NEW at, Stream(w, s, at),
           NEW v, Sent(v, w, Event(s + 1))
    PROVE  /\ v \in Seq(Frame)
           /\ Welcomes(v) = Welcomes(w)
           /\ Behind(v, s + 1) = Behind(w, s)
           /\ Len(w) \in Nat /\ Len(v) = Len(w) + 1
           /\ \A k \in 1 .. Len(w) : v[k] = w[k]
           /\ Stream(v, s + 1, at)
<1> DEFINE e == Event(s + 1)
<1>b. s \in Nat /\ s <= MaxSeq
  BY StreamNumbers DEF SeqNumber
<1>1. e \in Frame /\ e.type = "event" /\ e.seqs = {s + 1}
  BY <1>b, StreamNumbers DEF Event, Frame
<1>a. v = Append(w, e)
  BY DEF Sent
<1> HIDE DEF e
<1>2. /\ v \in Seq(Frame)
      /\ Len(w) \in Nat
      /\ Len(v) = Len(w) + 1
      /\ \A k \in 1 .. Len(w) : v[k] = w[k]
      /\ v[Len(w) + 1] = e
  BY <1>1, <1>a, AppendProperties, LenProperties
<1>3. Welcomes(v) = Welcomes(w)
  BY <1>1, <1>2 DEF Welcomes
<1>4. Behind(v, s + 1) = Behind(w, s) /\ Behind(w, s) \in Int
  BY <1>2, <1>3, <1>b DEF Behind
<1>5. ASSUME NEW k \in 1 .. Len(v), v[k].type = "event" PROVE v[k].seqs = {Nth(v, s + 1, k)}
  <2>1. Nth(v, s + 1, k) = Nth(w, s, k)
    BY <1>3, <1>4, <1>b DEF Nth
  <2>2. CASE k \in 1 .. Len(w)
    BY <1>2, <1>5, <2>1, <2>2 DEF Stream
  <2>3. CASE k = Len(w) + 1
    <3>1. \A p \in Welcomes(w) : p < k
      BY <1>2, <2>3 DEF Welcomes
    <3>2. Nth(w, s, k) = s + 1
      BY <1>2, <2>3, <3>1, <1>b DEF Nth, Behind
    <3> QED
      BY <1>1, <1>2, <2>1, <2>3, <3>2
  <2> QED
    BY <1>2, <2>2, <2>3
<1>6. ASSUME NEW p \in Welcomes(v)
      PROVE  \/ IsNewest(Behind(v, s + 1) + p - 1, v[p].seqs)
             \/ v[p].seqs = {} /\ p = 1 /\ at = Behind(v, s + 1)
  <2>1. p \in Welcomes(w) /\ v[p] = w[p]
    BY <1>2, <1>3 DEF Welcomes
  <2> QED
    BY <1>4, <2>1 DEF Stream
<1>7. Stream(v, s + 1, at)
  BY <1>3, <1>5, <1>6 DEF Stream
<1> QED
  BY <1>2, <1>3, <1>4, <1>7

LEMMA WelcomeAppended ==
    ASSUME NEW v, NEW w, NEW S, NEW s, NEW at, Welcomed(v, w, S, s, at)
    PROVE  /\ v \in Seq(Frame)
           /\ Welcomes(v) = {Len(w) + 1}
           /\ Behind(v, s) = Behind(w, s)
           /\ Len(w) \in Nat /\ Len(v) = Len(w) + 1
           /\ Stream(v, s, at)
<1> DEFINE e == Welcome(S)
<1>c. /\ Welcomes(w) = {}
      /\ S \in SUBSET (1 .. MaxSeq)
      /\ IsNewest(s, S) \/ (S = {} /\ w = <<>> /\ at = s)
      /\ w \in Seq(Frame) /\ Stream(w, s, at)
  BY DEF Welcomed
<1>1. e \in Frame /\ e.type = "welcome" /\ e.seqs = S
  BY <1>c DEF Welcome, Frame
<1>a. v = Append(w, e)
  BY DEF Welcomed
<1>b. s \in Nat /\ s <= MaxSeq
  BY StreamNumbers DEF SeqNumber, Welcomed
<1> HIDE DEF e
<1>2. /\ v \in Seq(Frame)
      /\ Len(w) \in Nat
      /\ Len(v) = Len(w) + 1
      /\ \A k \in 1 .. Len(w) : v[k] = w[k]
      /\ v[Len(w) + 1] = e
  BY <1>1, <1>a, <1>c, AppendProperties, LenProperties
<1>3. Welcomes(v) = {Len(w) + 1}
  <2>1. Len(w) + 1 \in Welcomes(v)
    BY <1>1, <1>2 DEF Welcomes
  <2>2. ASSUME NEW k \in Welcomes(v), k # Len(w) + 1 PROVE FALSE
    <3>1. k \in 1 .. Len(w) /\ v[k].type = "welcome"
      BY <1>2, <2>2 DEF Welcomes
    <3> QED
      BY <1>2, <1>c, <3>1 DEF Welcomes
  <2> QED
    BY <2>1, <2>2
<1>4. Behind(v, s) = Behind(w, s) /\ Behind(w, s) = s - Len(w)
  BY <1>2, <1>3, <1>b, <1>c DEF Behind
<1>5. ASSUME NEW k \in 1 .. Len(v), v[k].type = "event" PROVE v[k].seqs = {Nth(v, s, k)}
  <2>1. k \in 1 .. Len(w)
    BY <1>1, <1>2, <1>5
  <2>2. Nth(v, s, k) = Nth(w, s, k)
    BY <1>2, <1>3, <1>4, <2>1, <1>b, <1>c DEF Nth
  <2> QED
    BY <1>2, <1>5, <1>c, <2>1, <2>2 DEF Stream
<1>6. ASSUME NEW p \in Welcomes(v)
      PROVE  \/ IsNewest(Behind(v, s) + p - 1, v[p].seqs)
             \/ v[p].seqs = {} /\ p = 1 /\ at = Behind(v, s)
  <2>1. p = Len(w) + 1 /\ v[p].seqs = S
    BY <1>1, <1>2, <1>3
  <2>2. Behind(v, s) + p - 1 = s
    BY <1>2, <1>4, <1>b, <2>1
  <2>3. CASE IsNewest(s, S)
    BY <2>1, <2>2, <2>3
  <2>4. CASE S = {} /\ w = <<>> /\ at = s
    <3>1. Len(w) = 0
      BY <2>4
    <3>2. Behind(v, s) = s /\ p = 1
      BY <1>4, <1>b, <2>1, <3>1
    <3> QED
      BY <2>1, <2>4, <3>2
  <2> QED
    BY <1>c, <2>3, <2>4
<1>7. Stream(v, s, at)
  BY <1>3, <1>5, <1>6 DEF Stream
<1> QED
  BY <1>2, <1>3, <1>4, <1>7

LEMMA SentLast ==
    ASSUME NEW w \in Seq(Frame), NEW e, NEW v, Sent(v, w, e)
    PROVE  v[Len(w) + 1] = e
BY LenProperties DEF Sent

\* A frame arrives: an event is the next one; the welcome leaves its client at the
\* last event before those on the connection.
LEMMA FrameArrives ==
    ASSUME NEW s \in 0 .. MaxSeq, NEW w \in Seq(Frame), w # <<>>, NEW at \in Nat,
           Stream(w, s, at), at <= Behind(w, s)
    PROVE  LET v     == Tail(w)
               to    == Max2(at, Newest(Head(w).seqs, 0))
           IN  /\ v \in Seq(Frame)
               /\ Len(v) = Len(w) - 1
               /\ \A k \in 1 .. Len(v) : v[k] = w[k + 1]
               /\ Head(w) = w[1]
               /\ Head(w) \in Frame
               /\ 1 \in 1 .. Len(w)
               /\ to = Behind(v, s)
               /\ Stream(v, s, to)
               /\ Head(w).type = "event" =>
                     /\ Head(w).seqs = {Behind(w, s) + 1}
                     /\ Behind(v, s) = Behind(w, s) + 1
                     /\ Welcomes(v) = {p - 1 : p \in Welcomes(w)}
                     /\ 1 \notin Welcomes(w)
               /\ Head(w).type = "welcome" =>
                     /\ Welcomes(w) = {1}
                     /\ Welcomes(v) = {}
                     /\ Behind(v, s) = Behind(w, s)
<1> DEFINE v  == Tail(w)
           to == Max2(at, Newest(Head(w).seqs, 0))
<1>1. /\ v \in Seq(Frame)
      /\ Len(w) \in Nat /\ Len(w) >= 1
      /\ Len(v) = Len(w) - 1
      /\ \A k \in 1 .. Len(v) : v[k] = w[k + 1]
      /\ Head(w) = w[1]
      /\ 1 \in 1 .. Len(w)
      /\ Head(w) \in Frame
      /\ Head(w).seqs \in SUBSET Nat
      /\ Behind(w, s) \in Int
  <2>1. /\ v \in Seq(Frame)
        /\ Len(w) \in Nat /\ Len(w) >= 1
        /\ Len(v) = Len(w) - 1
        /\ \A k \in 1 .. Len(v) : v[k] = w[k + 1]
        /\ Head(w) = w[1]
    BY HeadTailProperties, EmptySeq, LenProperties
  <2>2. 1 \in 1 .. Len(w)
    BY <2>1
  <2>3. Head(w) \in Frame
    BY <2>1, <2>2, ElementOfSeq
  <2>4. Head(w).seqs \in SUBSET Nat
    BY <2>3, StreamNumbers DEF Frame
  <2>5. Behind(w, s) \in Int
    BY <2>1, StreamNumbers DEF Behind
  <2> QED
    BY <2>1, <2>2, <2>3, <2>4, <2>5
<1> HIDE DEF v
<1>2. Welcomes(v) = {p - 1 : p \in Welcomes(w) \ {1}}
  <2>1. ASSUME NEW k \in Welcomes(v) PROVE k \in {p - 1 : p \in Welcomes(w) \ {1}}
    <3>1. k + 1 \in Welcomes(w) /\ k + 1 # 1 /\ k = (k + 1) - 1
      BY <1>1 DEF Welcomes
    <3> QED
      BY <3>1
  <2>2. ASSUME NEW p \in Welcomes(w), p # 1 PROVE p - 1 \in Welcomes(v)
    <3>1. p - 1 \in 1 .. Len(v) /\ (p - 1) + 1 = p
      BY <1>1, <2>2 DEF Welcomes
    <3> QED
      BY <1>1, <3>1 DEF Welcomes
  <2> QED
    BY <2>1, <2>2
<1>3. \A p, q \in Welcomes(w) : p = q
  BY DEF Stream
<1>4. \A p \in Welcomes(w) : p \in Int /\ p >= 1
  BY <1>1 DEF Welcomes
<1>5. CASE Head(w).type = "event"
  <2>1. 1 \notin Welcomes(w)
    BY <1>1, <1>5 DEF Welcomes
  <2>2. Welcomes(v) = {p - 1 : p \in Welcomes(w)}
    BY <1>2, <2>1
  <2>3. Behind(v, s) = Behind(w, s) + 1
    BY <1>1, <2>2 DEF Behind
  <2>4. Head(w).seqs = {Behind(w, s) + 1}
    <3>1. w[1].seqs = {Nth(w, s, 1)}
      BY <1>1, <1>5 DEF Stream
    <3>2. ~ \E p \in Welcomes(w) : p < 1
      BY <1>4
    <3>3. Nth(w, s, 1) = Behind(w, s) + 1
      BY <1>1, <3>2 DEF Nth
    <3> QED
      BY <1>1, <3>1, <3>3
  <2>5. Newest(Head(w).seqs, 0) = Behind(w, s) + 1
    <3>1. IsNewest(Behind(w, s) + 1, Head(w).seqs)
      BY <1>1, <2>4 DEF IsNewest
    <3> QED
      BY <1>1, <3>1, NewestIs
  <2>6. to = Behind(v, s)
    BY <1>1, <2>3, <2>5 DEF Max2
  <2>7. \A p, q \in Welcomes(v) : p = q
    BY <1>3, <2>2
  <2>8. ASSUME NEW k \in 1 .. Len(v), v[k].type = "event" PROVE v[k].seqs = {Nth(v, s, k)}
    <3>1. k + 1 \in 1 .. Len(w) /\ v[k] = w[k + 1] /\ k \in Int
      BY <1>1
    <3>2. (\E p \in Welcomes(v) : p < k) <=> (\E p \in Welcomes(w) : p < k + 1)
      <4>1. ASSUME NEW p \in Welcomes(v), p < k PROVE \E q \in Welcomes(w) : q < k + 1
        <5>1. PICK q \in Welcomes(w) : p = q - 1
          BY <2>2, <4>1
        <5>2. q \in Int /\ q < k + 1
          BY <1>4, <3>1, <4>1, <5>1
        <5> QED
          BY <5>1, <5>2
      <4>2. ASSUME NEW p \in Welcomes(w), p < k + 1 PROVE \E q \in Welcomes(v) : q < k
        <5>1. p - 1 \in Welcomes(v) /\ p - 1 < k
          BY <1>4, <2>2, <3>1, <4>2
        <5> QED
          BY <5>1
      <4> QED
        BY <4>1, <4>2
    <3>3. Nth(v, s, k) = Nth(w, s, k + 1)
      <4>1. CASE \E p \in Welcomes(v) : p < k
        <5>1. Nth(v, s, k) = Behind(v, s) + k - 1
          BY <4>1 DEF Nth
        <5>2. Nth(w, s, k + 1) = Behind(w, s) + (k + 1) - 1
          BY <3>2, <4>1 DEF Nth
        <5> QED
          BY <1>1, <2>3, <3>1, <5>1, <5>2
      <4>2. CASE ~ \E p \in Welcomes(v) : p < k
        <5>1. Nth(v, s, k) = Behind(v, s) + k - 0
          BY <4>2 DEF Nth
        <5>2. Nth(w, s, k + 1) = Behind(w, s) + (k + 1) - 0
          BY <3>2, <4>2 DEF Nth
        <5> QED
          BY <1>1, <2>3, <3>1, <5>1, <5>2
      <4> QED
        BY <4>1, <4>2
    <3> QED
      BY <2>8, <3>1, <3>3 DEF Stream
  <2>9. ASSUME NEW q \in Welcomes(v) PROVE IsNewest(Behind(v, s) + q - 1, v[q].seqs)
    <3>1. PICK p \in Welcomes(w) : q = p - 1
      BY <2>2
    <3>2. p # 1 /\ p \in Int /\ p \in 1 .. Len(w)
      BY <1>4, <2>1 DEF Welcomes
    <3>3. v[q] = w[p]
      <4>1. q \in 1 .. Len(v) /\ q + 1 = p
        BY <3>1, <3>2 DEF Welcomes
      <4> QED
        BY <1>1, <4>1
    <3>4. Behind(w, s) + p - 1 = Behind(v, s) + q - 1
      BY <1>1, <2>3, <3>1, <3>2
    <3> QED
      BY <3>2, <3>3, <3>4 DEF Stream
  <2>10. Stream(v, s, to)
    BY <2>7, <2>8, <2>9 DEF Stream
  <2> QED
    BY <1>1, <1>5, <2>1, <2>2, <2>3, <2>4, <2>6, <2>10 DEF v
<1>6. CASE Head(w).type = "welcome"
  <2>1. 1 \in Welcomes(w)
    BY <1>1, <1>6 DEF Welcomes
  <2>2. Welcomes(w) = {1} /\ Welcomes(v) = {}
    BY <1>2, <1>3, <2>1
  <2>3. Behind(v, s) = Behind(w, s)
    BY <1>1, <2>2 DEF Behind
  <2>4. to = Behind(v, s)
    <3>1. CASE IsNewest(Behind(w, s) + 1 - 1, w[1].seqs)
      <4>1. IsNewest(Behind(w, s), w[1].seqs)
        BY <1>1, <3>1
      <4>2. Newest(Head(w).seqs, 0) = Behind(w, s)
        BY <1>1, <4>1, NewestIs
      <4> QED
        BY <1>1, <2>3, <4>2 DEF Max2
    <3>2. CASE w[1].seqs = {} /\ at = Behind(w, s)
      <4>1. Newest(Head(w).seqs, 0) = 0
        BY <1>1, <3>2 DEF Newest
      <4> QED
        BY <2>3, <3>2, <4>1 DEF Max2
    <3> QED
      BY <2>1, <3>1, <3>2 DEF Stream
  <2>5. ASSUME NEW k \in 1 .. Len(v), v[k].type = "event" PROVE v[k].seqs = {Nth(v, s, k)}
    <3>1. k + 1 \in 1 .. Len(w) /\ v[k] = w[k + 1] /\ k \in Int /\ 1 < k + 1
      BY <1>1
    <3>2. Nth(v, s, k) = Behind(w, s) + k
      BY <1>1, <2>2, <2>3, <3>1 DEF Nth
    <3>3. Nth(w, s, k + 1) = Behind(w, s) + k
      BY <1>1, <2>1, <3>1 DEF Nth
    <3> QED
      BY <2>5, <3>1, <3>2, <3>3 DEF Stream
  <2>6. Stream(v, s, to)
    BY <2>2, <2>5 DEF Stream
  <2> QED
    BY <1>1, <1>6, <2>2, <2>3, <2>4, <2>6 DEF v
<1> QED
  BY <1>1, <1>5, <1>6 DEF Frame

-----------------------------------------------------------------------------
(* The log. *)

LogInv ==
    /\ store \in Stores
    /\ seq \in 0 .. MaxSeq
    /\ floor \in 1 .. MaxSeq + 1
    /\ floor <= seq + 1
    /\ seq > 0 => floor <= seq
    /\ seq - floor + 1 <= EventCache
    /\ stored \subseteq 1 .. seq
    /\ unwritten \in Seq(1 .. MaxSeq)
    /\ \A k \in 1 .. Len(unwritten) : unwritten[k] <= seq

LogKept == UNCHANGED <<store, seq, floor>>

LogGrows ==
    /\ store' = store
    /\ seq < MaxSeq
    /\ seq' = seq + 1
    /\ floor <= floor' /\ floor' <= floor + 1 /\ floor' <= seq'

LEMMA Appending ==
    ASSUME LogInv, AppendToLog
    PROVE  LogInv' /\ LogGrows
<1>1. /\ seq' = seq + 1 /\ seq < MaxSeq /\ store' = store
      /\ floor' = Trimmed(seq + 1)
      /\ seq \in Nat /\ floor \in Nat
  BY StreamNumbers DEF AppendToLog, LogInv
<1>2. /\ floor' \in Nat /\ floor <= floor' /\ floor' <= floor + 1 /\ floor' <= seq'
      /\ seq' - floor' + 1 <= EventCache
  BY <1>1, StreamNumbers DEF LogInv, Trimmed
<1>3. stored' \subseteq 1 .. seq'
  <2>1. stored' = stored \/ stored' \in Written(seq + 1)
    BY DEF AppendToLog
  <2>2. stored' = stored \/ stored' = stored \cup {seq + 1}
    BY <2>1 DEF Written
  <2>3. stored \subseteq 1 .. seq /\ 1 .. seq \subseteq 1 .. seq + 1 /\ seq + 1 \in 1 .. seq + 1
    BY <1>1 DEF LogInv
  <2> QED
    BY <1>1, <2>2, <2>3
<1>4. unwritten' \in Seq(1 .. MaxSeq) /\ \A k \in 1 .. Len(unwritten') : unwritten'[k] <= seq'
  <2>1. CASE AsyncStore
    <3>1. unwritten' = Append(unwritten, seq + 1) /\ seq + 1 \in 1 .. MaxSeq
      BY <1>1, <2>1, StreamNumbers DEF AppendToLog
    <3>2. unwritten \in Seq(1 .. MaxSeq) /\ \A k \in 1 .. Len(unwritten) : unwritten[k] <= seq
      BY DEF LogInv
    <3>3. /\ unwritten' \in Seq(1 .. MaxSeq)
          /\ Len(unwritten) \in Nat
          /\ Len(unwritten') = Len(unwritten) + 1
          /\ \A k \in 1 .. Len(unwritten) : unwritten'[k] = unwritten[k]
          /\ unwritten'[Len(unwritten) + 1] = seq + 1
      BY <3>1, <3>2, AppendProperties, LenProperties
    <3>4. ASSUME NEW k \in 1 .. Len(unwritten') PROVE unwritten'[k] <= seq'
      <4>1. CASE k \in 1 .. Len(unwritten)
        <5>1. unwritten[k] <= seq /\ unwritten[k] \in 1 .. MaxSeq
          BY <3>2, <4>1, ElementOfSeq
        <5> QED
          BY <1>1, <3>3, <4>1, <5>1
      <4>2. CASE k = Len(unwritten) + 1
        BY <1>1, <3>3, <4>2
      <4> QED
        BY <3>3, <4>1, <4>2
    <3> QED
      BY <3>3, <3>4
  <2>2. CASE ~AsyncStore
    <3>1. unwritten' = unwritten
      BY <2>2 DEF AppendToLog
    <3>2. ASSUME NEW k \in 1 .. Len(unwritten) PROVE unwritten[k] <= seq'
      <4>1. unwritten[k] <= seq /\ unwritten[k] \in 1 .. MaxSeq
        BY ElementOfSeq DEF LogInv
      <4> QED
        BY <1>1, <4>1
    <3> QED
      BY <3>1, <3>2 DEF LogInv
  <2> QED
    BY <2>1, <2>2
<1> QED
  <2>1. floor' \in 1 .. MaxSeq + 1 /\ seq' \in 0 .. MaxSeq
    BY <1>1, <1>2, StreamNumbers DEF LogInv
  <2>2. LogInv'
    BY <1>1, <1>2, <1>3, <1>4, <2>1 DEF LogInv
  <2> QED
    BY <1>1, <1>2, <2>2 DEF LogGrows

LEMMA Writing ==
    ASSUME LogInv, StoreWrite
    PROVE  LogInv' /\ LogKept
<1>1. /\ unwritten \in Seq(1 .. MaxSeq) /\ unwritten # <<>>
      /\ unwritten' = Tail(unwritten)
      /\ LogKept
      /\ seq \in Nat
  BY StreamNumbers DEF StoreWrite, LogInv, LogKept
<1>2. /\ unwritten' \in Seq(1 .. MaxSeq)
      /\ Len(unwritten) \in Nat /\ Len(unwritten) >= 1
      /\ Len(unwritten') = Len(unwritten) - 1
      /\ \A k \in 1 .. Len(unwritten') : unwritten'[k] = unwritten[k + 1]
      /\ Head(unwritten) = unwritten[1]
  BY <1>1, HeadTailProperties, EmptySeq, LenProperties
<1>3. \A k \in 1 .. Len(unwritten') : unwritten'[k] <= seq
  BY <1>2 DEF LogInv
<1>4. Head(unwritten) \in 1 .. seq
  <2>1. 1 \in 1 .. Len(unwritten)
    BY <1>2
  <2>2. unwritten[1] \in 1 .. MaxSeq /\ unwritten[1] <= seq
    BY <1>1, <2>1, ElementOfSeq DEF LogInv
  <2> QED
    BY <1>1, <1>2, <2>2, StreamNumbers
<1>5. stored' \subseteq 1 .. seq
  BY <1>4 DEF StoreWrite, Written, LogInv
<1> QED
  BY <1>1, <1>2, <1>3, <1>5 DEF LogInv, LogKept

-----------------------------------------------------------------------------
(* What a step of the room is to one of its clients. *)

OverClients(f) == f = [c \in Client |-> f[c]]

Shapes ==
    /\ OverClients(up) /\ OverClients(wire) /\ OverClients(reading)
    /\ OverClients(shake) /\ OverClients(cursor) /\ OverClients(view)

SameClient(c) ==
    /\ shake'[c] = shake[c] /\ cursor'[c] = cursor[c] /\ view'[c] = view[c]
    /\ c \in split' <=> c \in split

\* Nothing reaches it.
Untouched(c) ==
    /\ SameClient(c) /\ up'[c] = up[c] /\ reading'[c] = reading[c] /\ wire'[c] = wire[c]
    /\ LogKept \/ (LogGrows /\ ~up[c])

\* It is sent the event of the step.
Told(c) ==
    /\ SameClient(c) /\ up'[c] = up[c] /\ reading'[c] = reading[c]
    /\ up[c] /\ LogGrows
    /\ wire'[c] = Append(wire[c], Event(seq + 1))

\* Its connection opens: what it is sent before eventsSince runs, then the welcome
\* or the read of the store.
Greeting(c) == IF seq' = seq THEN wire[c] ELSE Append(wire[c], Event(seq + 1))

MayConnect(c) == feed[c] # "off" \/ kind[c] = "dashboard"

Greeted(c, rows) ==
    /\ wire'[c] = Append(Greeting(c), Welcome(Missed(rows, cursor[c], floor', floor', seq')))
    /\ reading'[c] = reading[c]

Connected(c) ==
    /\ SameClient(c) /\ MayConnect(c) /\ ~up[c] /\ up'[c] = TRUE
    /\ LogGrows \/ (LogKept /\ seq > 0)
    /\ \/ cursor[c] >= floor' - 1 /\ Greeted(c, {})
       \/ /\ cursor[c] < floor' - 1 /\ ~AsyncStore
          /\ Greeted(c, Backlog(stored', cursor[c], floor'))
       \/ /\ cursor[c] < floor' - 1 /\ AsyncStore
          /\ wire'[c] = Greeting(c)
          /\ reading'[c] = [since |-> cursor[c], floor |-> floor', rows |-> {}, state |-> "sent"]

Asked(c) ==
    /\ SameClient(c) /\ up'[c] = up[c] /\ wire'[c] = wire[c]
    /\ LogKept
    /\ reading[c].state = "sent"
    /\ reading'[c] = [reading[c] EXCEPT
           !.state = "read", !.rows = Backlog(stored, reading[c].since, reading[c].floor)]

Answered(c) ==
    /\ SameClient(c) /\ up'[c] = up[c]
    /\ LogKept
    /\ reading[c].state = "read"
    /\ reading'[c] = Idle
    /\ wire'[c] = Append(wire[c], Welcome(
           Missed(reading[c].rows, reading[c].since, reading[c].floor, floor, seq)))

Received(c) ==
    /\ up'[c] = up[c] /\ reading'[c] = reading[c]
    /\ c \in split' <=> c \in split
    /\ LogKept
    /\ wire[c] # <<>>
    /\ wire'[c] = Tail(wire[c])
    /\ cursor'[c] = Max2(cursor[c], Newest(Head(wire[c]).seqs, 0))
    /\ view'[c] = view[c] \cup Head(wire[c]).seqs
    /\ shake'[c] = IF Head(wire[c]).type = "welcome" THEN "welcome"
                   ELSE IF shake[c] = "none" THEN "events" ELSE shake[c]

\* Its connection is gone, and its client with it if its process is.
Closed(c) ==
    /\ up'[c] = FALSE /\ wire'[c] = <<>> /\ reading'[c] = Idle /\ shake'[c] = "none"
    /\ LogKept
    /\ \/ /\ cursor'[c] = cursor[c] /\ view'[c] = view[c]
          /\ c \in split' <=> (c \in split \/ shake[c] = "events")
       \/ cursor'[c] = 0 /\ view'[c] = {} /\ c \notin split'

ClientStep(c) ==
    \/ Untouched(c) \/ Told(c) \/ Connected(c) \/ Asked(c) \/ Answered(c)
    \/ Received(c) \/ Closed(c)

LEMMA AppendReaches ==
    ASSUME LogInv, Shapes, AppendEvent
    PROVE  /\ LogInv' /\ Shapes'
           /\ \A d \in Client : Untouched(d) \/ Told(d)
<1>1. LogInv' /\ LogGrows
  BY Appending DEF AppendEvent
<1>2. Shapes'
  BY DEF Shapes, OverClients, AppendEvent
<1>3. ASSUME NEW d \in Client PROVE Untouched(d) \/ Told(d)
  <2>1. wire'[d] = IF up[d] THEN Append(wire[d], Event(seq + 1)) ELSE wire[d]
    BY DEF AppendEvent
  <2> QED
    BY <1>1, <2>1 DEF AppendEvent, Untouched, Told, SameClient
<1> QED
  BY <1>1, <1>2, <1>3

LEMMA WriteReaches ==
    ASSUME LogInv, Shapes, StoreWrite
    PROVE  LogInv' /\ Shapes' /\ \A d \in Client : Untouched(d)
<1>1. LogInv' /\ LogKept
  BY Writing
<1> QED
  BY <1>1 DEF StoreWrite, clients, Shapes, OverClients, Untouched, SameClient

LEMMA LogUnchanged ==
    ASSUME LogInv, UNCHANGED log
    PROVE  LogInv' /\ LogKept
BY DEF LogInv, LogKept, log

LEMMA ReconnectReaches ==
    ASSUME LogInv, Shapes, NEW c \in Client, Connect(c)
    PROVE  /\ LogInv' /\ Shapes'
           /\ Connected(c) /\ LogGrows
           /\ \A d \in Client \ {c} : Untouched(d) \/ Told(d)
<1> DEFINE told == [d \in Client |->
                       IF up[d] \/ d = c THEN Append(wire[d], Event(seq + 1)) ELSE wire[d]]
           with(rows) == [told EXCEPT ![c] =
                       Append(@, Welcome(Missed(rows, cursor[c], floor', floor', seq')))]
<1>1. LogInv' /\ LogGrows
  BY Appending DEF Connect, Reconnect
<1>2. /\ ~up[c] /\ up' = [up EXCEPT ![c] = TRUE]
      /\ UNCHANGED <<shake, cursor, view, split>>
      /\ \/ cursor[c] >= floor' - 1 /\ wire' = with({}) /\ reading' = reading
         \/ /\ cursor[c] < floor' - 1 /\ ~AsyncStore
            /\ wire' = with(Backlog(stored', cursor[c], floor')) /\ reading' = reading
         \/ /\ cursor[c] < floor' - 1 /\ AsyncStore
            /\ wire' = told
            /\ reading' = [reading EXCEPT ![c] =
                   [since |-> cursor[c], floor |-> floor', rows |-> {}, state |-> "sent"]]
  BY DEF Connect, Reconnect
<1>3. OverClients(told) /\ told[c] = Append(wire[c], Event(seq + 1))
  BY DEF OverClients
<1>4. \A d \in Client : told[d] = IF up[d] \/ d = c THEN Append(wire[d], Event(seq + 1)) ELSE wire[d]
  OBVIOUS
<1>5. seq' # seq
  BY <1>1, StreamNumbers DEF LogGrows, LogInv
<1>6. Greeting(c) = told[c]
  BY <1>3, <1>5 DEF Greeting
<1>7. ASSUME NEW rows
      PROVE  /\ OverClients(with(rows))
             /\ with(rows)[c] = Append(told[c], Welcome(Missed(rows, cursor[c], floor', floor', seq')))
             /\ \A d \in Client : d # c => with(rows)[d] = told[d]
  <2> HIDE DEF told
  <2> QED
    BY <1>3 DEF OverClients
<1> HIDE DEF told, with
<1>8. /\ OverClients(wire') /\ OverClients(reading')
      /\ \A d \in Client \ {c} : wire'[d] = told[d] /\ reading'[d] = reading[d]
  BY <1>2, <1>3, <1>7 DEF Shapes, OverClients
<1>9. OverClients(up') /\ up'[c] = TRUE /\ \A d \in Client \ {c} : up'[d] = up[d]
  BY <1>2 DEF Shapes, OverClients
<1>10. Shapes'
  BY <1>2, <1>8, <1>9 DEF Shapes, OverClients
<1>11. \/ cursor[c] >= floor' - 1 /\ Greeted(c, {})
       \/ /\ cursor[c] < floor' - 1 /\ ~AsyncStore
          /\ Greeted(c, Backlog(stored', cursor[c], floor'))
       \/ /\ cursor[c] < floor' - 1 /\ AsyncStore
          /\ wire'[c] = Greeting(c)
          /\ reading'[c] = [since |-> cursor[c], floor |-> floor', rows |-> {}, state |-> "sent"]
  BY <1>2, <1>6, <1>7 DEF Greeted, Shapes, OverClients
<1>12. Connected(c)
  BY <1>1, <1>2, <1>9, <1>11 DEF Connected, SameClient, MayConnect, Connect
<1>13. ASSUME NEW d \in Client \ {c} PROVE Untouched(d) \/ Told(d)
  BY <1>1, <1>2, <1>4, <1>8, <1>9 DEF Untouched, Told, SameClient
<1> QED
  BY <1>1, <1>10, <1>12, <1>13

LEMMA StoreReadReaches ==
    ASSUME LogInv, Shapes, NEW c \in Client, StoreRead(c)
    PROVE  LogInv' /\ Shapes' /\ Asked(c) /\ \A d \in Client \ {c} : Untouched(d)
<1>1. LogInv' /\ LogKept
  BY LogUnchanged DEF StoreRead
<1> DEFINE rows == Backlog(stored, reading[c].since, reading[c].floor)
<1>2. /\ reading[c].state = "sent"
      /\ reading' = [reading EXCEPT ![c].state = "read", ![c].rows = rows]
      /\ UNCHANGED <<up, wire, shake, cursor, view, split>>
  BY DEF StoreRead
<1> HIDE DEF rows
<1>3. /\ OverClients(reading')
      /\ reading'[c] = [reading[c] EXCEPT !.state = "read", !.rows = rows]
      /\ \A d \in Client : d # c => reading'[d] = reading[d]
  BY <1>2 DEF Shapes, OverClients
<1> QED
  BY <1>1, <1>2, <1>3 DEF Shapes, Asked, Untouched, SameClient, rows

LEMMA AnswerReaches ==
    ASSUME LogInv, Shapes, NEW c \in Client, ReadAnswered(c)
    PROVE  LogInv' /\ Shapes' /\ Answered(c) /\ \A d \in Client \ {c} : Untouched(d)
<1>1. LogInv' /\ LogKept
  BY LogUnchanged DEF ReadAnswered
<1> DEFINE sent == Append(wire[c], Welcome(
               Missed(reading[c].rows, reading[c].since, reading[c].floor, floor, seq)))
<1>2. /\ reading[c].state = "read"
      /\ wire' = [wire EXCEPT ![c] = sent]
      /\ reading' = [reading EXCEPT ![c] = Idle]
      /\ UNCHANGED <<up, shake, cursor, view, split>>
  BY DEF ReadAnswered
<1> HIDE DEF sent
<1>3. /\ OverClients(reading') /\ reading'[c] = Idle
      /\ \A d \in Client : d # c => reading'[d] = reading[d]
      /\ OverClients(wire') /\ wire'[c] = sent
      /\ \A d \in Client : d # c => wire'[d] = wire[d]
  BY <1>2 DEF Shapes, OverClients
<1> QED
  BY <1>1, <1>2, <1>3 DEF Shapes, Answered, Untouched, SameClient, sent

LEMMA ReceiveReaches ==
    ASSUME LogInv, Shapes, NEW c \in Client, Receive(c)
    PROVE  LogInv' /\ Shapes' /\ Received(c) /\ \A d \in Client \ {c} : Untouched(d)
<1>1. LogInv' /\ LogKept
  BY LogUnchanged DEF Receive
<1> DEFINE to == Max2(cursor[c], Newest(Head(wire[c]).seqs, 0))
           has == view[c] \cup Head(wire[c]).seqs
           hand == IF Head(wire[c]).type = "welcome" THEN "welcome"
                   ELSE IF shake[c] = "none" THEN "events" ELSE shake[c]
<1>2. /\ wire[c] # <<>>
      /\ wire' = [wire EXCEPT ![c] = Tail(wire[c])]
      /\ cursor' = [cursor EXCEPT ![c] = to]
      /\ view' = [view EXCEPT ![c] = has]
      /\ shake' = [shake EXCEPT ![c] = hand]
      /\ UNCHANGED <<up, reading, split>>
  BY DEF Receive
<1> HIDE DEF to, has, hand
<1>3. /\ OverClients(wire') /\ wire'[c] = Tail(wire[c])
      /\ \A d \in Client : d # c => wire'[d] = wire[d]
      /\ OverClients(cursor') /\ cursor'[c] = to
      /\ \A d \in Client : d # c => cursor'[d] = cursor[d]
  BY <1>2 DEF Shapes, OverClients
<1>4. /\ OverClients(view') /\ view'[c] = has
      /\ \A d \in Client : d # c => view'[d] = view[d]
      /\ OverClients(shake') /\ shake'[c] = hand
      /\ \A d \in Client : d # c => shake'[d] = shake[d]
  BY <1>2 DEF Shapes, OverClients
<1> QED
  BY <1>1, <1>2, <1>3, <1>4 DEF Shapes, Received, Untouched, SameClient, to, has, hand

LEMMA DropReaches ==
    ASSUME LogInv, Shapes, NEW c \in Client, Drop(c)
    PROVE  LogInv' /\ Shapes' /\ Closed(c) /\ \A d \in Client \ {c} : Untouched(d)
<1>1. LogInv' /\ LogKept
  BY LogUnchanged DEF Drop
<1>2. /\ up' = [up EXCEPT ![c] = FALSE]
      /\ wire' = [wire EXCEPT ![c] = <<>>]
      /\ reading' = [reading EXCEPT ![c] = Idle]
      /\ shake' = [shake EXCEPT ![c] = "none"]
      /\ split' = IF shake[c] = "events" THEN split \cup {c} ELSE split
      /\ UNCHANGED <<cursor, view>>
  BY DEF Drop
<1>3. /\ OverClients(up') /\ up'[c] = FALSE
      /\ \A d \in Client : d # c => up'[d] = up[d]
      /\ OverClients(wire') /\ wire'[c] = <<>>
      /\ \A d \in Client : d # c => wire'[d] = wire[d]
  BY <1>2 DEF Shapes, OverClients
<1>4. /\ OverClients(reading') /\ reading'[c] = Idle
      /\ \A d \in Client : d # c => reading'[d] = reading[d]
      /\ OverClients(shake') /\ shake'[c] = "none"
      /\ \A d \in Client : d # c => shake'[d] = shake[d]
  BY <1>2 DEF Shapes, OverClients
<1> QED
  BY <1>1, <1>2, <1>3, <1>4 DEF Shapes, Closed, Untouched, SameClient

LEMMA EndReaches ==
    ASSUME LogInv, Shapes, NEW c \in Client, EndFeed(c)
    PROVE  /\ LogInv' /\ Shapes' /\ Closed(c) /\ \A d \in Client \ {c} : Untouched(d)
           /\ cursor'[c] = 0 /\ view'[c] = {} /\ c \notin split'
<1>1. LogInv' /\ LogKept
  BY LogUnchanged DEF EndFeed
<1>2. /\ up' = [up EXCEPT ![c] = FALSE]
      /\ wire' = [wire EXCEPT ![c] = <<>>]
      /\ reading' = [reading EXCEPT ![c] = Idle]
      /\ shake' = [shake EXCEPT ![c] = "none"]
      /\ cursor' = [cursor EXCEPT ![c] = 0]
      /\ view' = [view EXCEPT ![c] = {}]
      /\ split' = split \ {c}
  BY DEF EndFeed
<1>3. /\ OverClients(up') /\ up'[c] = FALSE
      /\ \A d \in Client : d # c => up'[d] = up[d]
      /\ OverClients(wire') /\ wire'[c] = <<>>
      /\ \A d \in Client : d # c => wire'[d] = wire[d]
  BY <1>2 DEF Shapes, OverClients
<1>4. /\ OverClients(reading') /\ reading'[c] = Idle
      /\ \A d \in Client : d # c => reading'[d] = reading[d]
      /\ OverClients(shake') /\ shake'[c] = "none"
      /\ \A d \in Client : d # c => shake'[d] = shake[d]
  BY <1>2 DEF Shapes, OverClients
<1>5. /\ OverClients(cursor') /\ cursor'[c] = 0
      /\ \A d \in Client : d # c => cursor'[d] = cursor[d]
      /\ OverClients(view') /\ view'[c] = {}
      /\ \A d \in Client : d # c => view'[d] = view[d]
  BY <1>2 DEF Shapes, OverClients
<1> QED
  BY <1>1, <1>2, <1>3, <1>4, <1>5 DEF Shapes, Closed, Untouched, SameClient

LEMMA WatchReaches ==
    ASSUME LogInv, Shapes, NEW c \in Client, WatchRoom(c)
    PROVE  LogInv' /\ Shapes' /\ Connected(c) /\ LogKept /\ \A d \in Client \ {c} : Untouched(d)
<1> DEFINE with(rows) == [wire EXCEPT ![c] =
                       Append(wire[c], Welcome(Missed(rows, cursor[c], floor, floor, seq)))]
<1>1. LogInv' /\ LogKept /\ stored' = stored /\ seq' = seq /\ floor' = floor
  BY LogUnchanged DEF WatchRoom, log
<1>2. /\ ~up[c] /\ seq > 0 /\ up' = [up EXCEPT ![c] = TRUE]
      /\ UNCHANGED <<shake, cursor, view, split>>
      /\ \/ cursor[c] >= floor - 1 /\ wire' = with({}) /\ reading' = reading
         \/ /\ cursor[c] < floor - 1 /\ ~AsyncStore
            /\ wire' = with(Backlog(stored, cursor[c], floor)) /\ reading' = reading
         \/ /\ cursor[c] < floor - 1 /\ AsyncStore
            /\ wire' = wire
            /\ reading' = [reading EXCEPT ![c] =
                   [since |-> cursor[c], floor |-> floor, rows |-> {}, state |-> "sent"]]
  BY DEF WatchRoom
<1>3. Greeting(c) = wire[c]
  BY <1>1 DEF Greeting
<1>4. ASSUME NEW rows
      PROVE  /\ OverClients(with(rows))
             /\ with(rows)[c] = Append(wire[c], Welcome(Missed(rows, cursor[c], floor, floor, seq)))
             /\ \A d \in Client : d # c => with(rows)[d] = wire[d]
  BY DEF OverClients, Shapes
<1> HIDE DEF with
<1>5. /\ OverClients(wire') /\ OverClients(reading')
      /\ \A d \in Client \ {c} : wire'[d] = wire[d] /\ reading'[d] = reading[d]
  BY <1>2, <1>4 DEF Shapes, OverClients
<1>6. OverClients(up') /\ up'[c] = TRUE /\ \A d \in Client \ {c} : up'[d] = up[d]
  BY <1>2 DEF Shapes, OverClients
<1>7. Shapes'
  BY <1>2, <1>5, <1>6 DEF Shapes, OverClients
<1>8. \/ cursor[c] >= floor' - 1 /\ Greeted(c, {})
      \/ /\ cursor[c] < floor' - 1 /\ ~AsyncStore
         /\ Greeted(c, Backlog(stored', cursor[c], floor'))
      \/ /\ cursor[c] < floor' - 1 /\ AsyncStore
         /\ wire'[c] = Greeting(c)
         /\ reading'[c] = [since |-> cursor[c], floor |-> floor', rows |-> {}, state |-> "sent"]
  BY <1>1, <1>2, <1>3, <1>4 DEF Greeted, Shapes, OverClients
<1>9. Connected(c)
  BY <1>1, <1>2, <1>6, <1>8 DEF Connected, SameClient, MayConnect, WatchRoom
<1>10. ASSUME NEW d \in Client \ {c} PROVE Untouched(d)
  BY <1>1, <1>2, <1>5, <1>6 DEF Untouched, SameClient
<1> QED
  BY <1>1, <1>7, <1>9, <1>10

LEMMA NothingReaches ==
    ASSUME LogInv, Shapes, UNCHANGED vars
    PROVE  LogInv' /\ Shapes' /\ \A d \in Client : Untouched(d)
<1>1. LogInv' /\ LogKept
  BY LogUnchanged DEF vars, log
<1> QED
  BY <1>1 DEF vars, clients, Shapes, OverClients, Untouched, SameClient

LEMMA StepsReach ==
    ASSUME LogInv, Shapes, [ReadersNext]_readers
    PROVE  LogInv' /\ Shapes' /\ \A d \in Client : ClientStep(d)
<1>1. CASE AppendEvent
  BY <1>1, AppendReaches DEF ClientStep
<1>2. CASE StoreWrite
  BY <1>2, WriteReaches DEF ClientStep
<1>3. ASSUME NEW c \in Client, Reads(c) PROVE LogInv' /\ Shapes' /\ \A d \in Client : ClientStep(d)
  BY <1>3, StoreReadReaches, AnswerReaches DEF ClientStep, Reads
<1>4. CASE UNCHANGED vars
  BY <1>4, NothingReaches DEF ClientStep
<1>5. ASSUME NEW c \in Client, StartFeed(c) \/ EnterRoomFeed(c) \/ SavePosition(c)
      PROVE  UNCHANGED vars
  BY <1>5 DEF StartFeed, EnterRoomFeed, SavePosition
<1>6. ASSUME NEW c \in Client, Connect(c)
      PROVE  LogInv' /\ Shapes' /\ \A d \in Client : ClientStep(d)
  BY <1>6, ReconnectReaches DEF ClientStep
<1>7. ASSUME NEW c \in Client, Hear(c) \/ ShowInTimeline(c)
      PROVE  LogInv' /\ Shapes' /\ \A d \in Client : ClientStep(d)
  BY <1>7, ReceiveReaches DEF ClientStep, Hear, ShowInTimeline
<1>8. ASSUME NEW c \in Client, Quit(c) \/ KillFeed(c)
      PROVE  LogInv' /\ Shapes' /\ \A d \in Client : ClientStep(d)
  BY <1>8, EndReaches DEF ClientStep, Quit, KillFeed
<1>9. ASSUME NEW c \in Client, LoseTerminal(c) \/ LoseDashboard(c)
      PROVE  LogInv' /\ Shapes' /\ \A d \in Client : ClientStep(d)
  BY <1>9, DropReaches DEF ClientStep, LoseTerminal, LoseDashboard
<1>10. ASSUME NEW c \in Client, WatchRoom(c)
       PROVE  LogInv' /\ Shapes' /\ \A d \in Client : ClientStep(d)
  BY <1>10, WatchReaches DEF ClientStep
<1>11. CASE UNCHANGED readers
  BY <1>4, <1>11 DEF readers
<1> QED
  BY <1>1, <1>2, <1>3, <1>4, <1>5, <1>6, <1>7, <1>8, <1>9, <1>10, <1>11 DEF ReadersNext

-----------------------------------------------------------------------------
(* One connection. *)

ConnTypes(c) ==
    /\ up[c] \in BOOLEAN
    /\ wire[c] \in Seq(Frame)
    /\ reading[c] \in ReadRecord
    /\ shake[c] \in {"none", "events", "welcome"}
    /\ cursor[c] \in 0 .. MaxSeq
    /\ view[c] \in SUBSET (1 .. MaxSeq)

\* What is on the connection and how far its client is: the welcome is on its way,
\* or awaits the store, or has arrived.
ConnStream(c) ==
    /\ Stream(wire[c], seq, cursor[c])
    /\ cursor[c] <= Behind(wire[c], seq)
    /\ shake[c] # "none" => cursor[c] = Behind(wire[c], seq)
    /\ ~up[c] => wire[c] = <<>> /\ reading[c].state = "none" /\ shake[c] = "none"
    /\ shake[c] = "welcome" => Welcomes(wire[c]) = {} /\ reading[c].state = "none"
    /\ up[c] /\ shake[c] # "welcome" => Welcomes(wire[c]) # {} \/ reading[c].state # "none"

\* The read of the store that the welcome awaits.
ConnRead(c) ==
    reading[c].state # "none" =>
        /\ Welcomes(wire[c]) = {}
        /\ reading[c].since < seq
        /\ reading[c].floor <= seq

Conn(c) == ConnTypes(c) /\ ConnStream(c) /\ ConnRead(c)

LEMMA IdleTyped == Idle \in ReadRecord /\ Idle.state = "none"
BY StreamNumbers DEF Idle, ReadRecord

LEMMA BehindBounded ==
    ASSUME NEW s \in Nat, NEW w \in Seq(Frame)
    PROVE  Behind(w, s) \in Int /\ Behind(w, s) <= s
<1>1. Len(w) \in Nat
  BY LenProperties
<1>2. Welcomes(w) # {} => Len(w) >= 1
  BY <1>1 DEF Welcomes
<1> QED
  BY <1>1, <1>2 DEF Behind

LEMMA ReadTyped ==
    ASSUME NEW rows \in SUBSET (1 .. MaxSeq), NEW a, NEW b
    PROVE  Backlog(rows, a, b) \in SUBSET rows
BY DEF Backlog, ReadEvents

LEMMA ConnUntouched ==
    ASSUME LogInv, LogInv', NEW c \in Client, Conn(c), Untouched(c)
    PROVE  Conn(c)'
<1>1. /\ shake'[c] = shake[c] /\ cursor'[c] = cursor[c] /\ view'[c] = view[c]
      /\ up'[c] = up[c] /\ reading'[c] = reading[c] /\ wire'[c] = wire[c]
  BY DEF Untouched, SameClient
<1>2. ConnTypes(c)'
  BY <1>1 DEF Conn, ConnTypes
<1>3. CASE LogKept
  BY <1>1, <1>2, <1>3 DEF Conn, ConnStream, ConnRead, LogKept
<1>4. CASE LogGrows /\ ~up[c]
  <2>1. wire[c] = <<>> /\ reading[c].state = "none" /\ shake[c] = "none"
    BY <1>4 DEF Conn, ConnStream
  <2>2. seq \in Nat /\ seq' \in Nat /\ seq' = seq + 1
    BY <1>4, StreamNumbers DEF LogInv, LogGrows
  <2>3. /\ Stream(<<>>, seq', cursor[c])
        /\ Behind(<<>>, seq') = seq' /\ Behind(<<>>, seq) = seq /\ Welcomes(<<>>) = {}
    BY <2>2, EmptyStream
  <2>4. cursor[c] <= seq /\ cursor[c] \in Nat
    BY <2>1, <2>3, StreamNumbers DEF Conn, ConnTypes, ConnStream
  <2>5. cursor[c] <= seq'
    BY <2>2, <2>4
  <2> QED
    BY <1>1, <1>2, <1>4, <2>1, <2>3, <2>5 DEF Conn, ConnStream, ConnRead
<1> QED
  BY <1>3, <1>4 DEF Untouched

LEMMA ConnTold ==
    ASSUME LogInv, LogInv', NEW c \in Client, Conn(c), Told(c)
    PROVE  Conn(c)'
<1>1. /\ shake'[c] = shake[c] /\ cursor'[c] = cursor[c] /\ view'[c] = view[c]
      /\ up'[c] = up[c] /\ reading'[c] = reading[c] /\ up[c]
      /\ wire'[c] = Append(wire[c], Event(seq + 1))
      /\ seq' = seq + 1 /\ seq < MaxSeq /\ seq \in 0 .. MaxSeq
  BY DEF Told, SameClient, LogGrows, LogInv
<1>2. Stream(wire[c], seq, cursor[c]) /\ wire[c] \in Seq(Frame)
  BY DEF Conn, ConnTypes, ConnStream
<1>3. /\ wire'[c] \in Seq(Frame)
      /\ Welcomes(wire'[c]) = Welcomes(wire[c])
      /\ Behind(wire'[c], seq') = Behind(wire[c], seq)
      /\ Stream(wire'[c], seq', cursor[c])
  BY <1>1, <1>2, EventAppended DEF Sent, SeqNumber
<1>4. ConnTypes(c)'
  BY <1>1, <1>3 DEF Conn, ConnTypes
<1>5. ConnStream(c)'
  BY <1>1, <1>3 DEF Conn, ConnStream
<1>6. reading[c].state # "none" => reading[c].since < seq' /\ reading[c].floor <= seq'
  BY <1>1, StreamNumbers DEF Conn, ConnTypes, ConnRead, ReadRecord
<1>7. ConnRead(c)'
  BY <1>1, <1>3, <1>6 DEF Conn, ConnRead
<1> QED
  BY <1>4, <1>5, <1>7 DEF Conn

LEMMA ConnClosed ==
    ASSUME LogInv, LogInv', NEW c \in Client, Conn(c), Closed(c)
    PROVE  Conn(c)'
<1>1. /\ up'[c] = FALSE /\ wire'[c] = <<>> /\ reading'[c] = Idle /\ shake'[c] = "none"
      /\ cursor'[c] \in {0, cursor[c]} /\ view'[c] \in {{}, view[c]}
      /\ seq' = seq /\ seq \in Nat
  BY StreamNumbers DEF Closed, LogKept, LogInv
<1>2. <<>> \in Seq(Frame)
  BY EmptySeq
<1>3. ConnTypes(c)'
  <2>1. cursor'[c] \in 0 .. MaxSeq /\ view'[c] \in SUBSET (1 .. MaxSeq)
    BY <1>1, StreamNumbers DEF Conn, ConnTypes
  <2> QED
    BY <1>1, <1>2, <2>1, IdleTyped DEF ConnTypes
<1>4. cursor[c] <= seq /\ cursor[c] \in Nat
  <2>1. /\ cursor[c] \in Nat /\ cursor[c] <= Behind(wire[c], seq)
        /\ Behind(wire[c], seq) \in Int /\ Behind(wire[c], seq) <= seq
    BY <1>1, BehindBounded, StreamNumbers DEF Conn, ConnTypes, ConnStream
  <2> QED
    BY <1>1, <2>1
<1>5. /\ Stream(<<>>, seq, cursor'[c])
      /\ Behind(<<>>, seq) = seq /\ Welcomes(<<>>) = {}
  BY <1>1, EmptyStream
<1>6. cursor'[c] <= seq
  BY <1>1, <1>4
<1> QED
  BY <1>1, <1>3, <1>5, <1>6, IdleTyped DEF Conn, ConnStream, ConnRead

LEMMA ConnAsked ==
    ASSUME LogInv, LogInv', NEW c \in Client, Conn(c), Asked(c)
    PROVE  Conn(c)'
<1> DEFINE rows == Backlog(stored, reading[c].since, reading[c].floor)
<1>1. /\ shake'[c] = shake[c] /\ cursor'[c] = cursor[c] /\ view'[c] = view[c]
      /\ up'[c] = up[c] /\ wire'[c] = wire[c] /\ seq' = seq
      /\ reading[c].state = "sent"
      /\ reading'[c] = [reading[c] EXCEPT !.state = "read", !.rows = rows]
  BY DEF Asked, SameClient, LogKept
<1>2. rows \in SUBSET (1 .. MaxSeq)
  <2>1. stored \in SUBSET (1 .. MaxSeq)
    BY StreamNumbers DEF LogInv
  <2> QED
    BY <2>1, ReadTyped
<1> HIDE DEF rows
<1>3. /\ reading'[c] \in ReadRecord
      /\ reading'[c].state = "read" /\ reading'[c].since = reading[c].since
      /\ reading'[c].floor = reading[c].floor
  BY <1>1, <1>2 DEF Conn, ConnTypes, ReadRecord
<1> QED
  BY <1>1, <1>3 DEF Conn, ConnTypes, ConnStream, ConnRead

\* A welcome always brings its client to the newest event, unless nothing was left
\* to bring.
LEMMA MissedIsNewest ==
    ASSUME LogInv, NEW rows \in SUBSET (1 .. MaxSeq), NEW since \in 0 .. MaxSeq,
           NEW low \in 0 .. MaxSeq + 1, low <= seq, since < seq
    PROVE  LET S == Missed(rows, since, low, floor, seq)
           IN  S \in SUBSET (1 .. MaxSeq) /\ IsNewest(seq, S)
<1>1. seq \in Nat /\ floor \in Nat /\ 1 <= floor /\ floor <= seq /\ seq <= MaxSeq
  BY StreamNumbers DEF LogInv
<1>2. since \in Nat /\ low \in Nat
  BY StreamNumbers
<1> DEFINE S == Missed(rows, since, low, floor, seq)
<1>3. \A n \in S : n \in 1 .. MaxSeq /\ n <= seq
  BY <1>1, <1>2, StreamNumbers DEF Missed
<1>4. seq \in S
  BY <1>1, <1>2 DEF Missed
<1> QED
  BY <1>3, <1>4 DEF IsNewest

LEMMA ConnAnswered ==
    ASSUME LogInv, LogInv', NEW c \in Client, Conn(c), Answered(c)
    PROVE  Conn(c)'
<1> DEFINE S == Missed(reading[c].rows, reading[c].since, reading[c].floor, floor, seq)
<1>1. /\ shake'[c] = shake[c] /\ cursor'[c] = cursor[c] /\ view'[c] = view[c]
      /\ up'[c] = up[c] /\ seq' = seq
      /\ reading[c].state = "read" /\ reading'[c] = Idle
      /\ wire'[c] = Append(wire[c], Welcome(S))
  BY DEF Answered, SameClient, LogKept
<1>2. /\ Welcomes(wire[c]) = {} /\ reading[c].since < seq /\ reading[c].floor <= seq
      /\ reading[c].rows \in SUBSET (1 .. MaxSeq) /\ reading[c].since \in 0 .. MaxSeq
      /\ reading[c].floor \in 0 .. MaxSeq + 1
      /\ seq \in 0 .. MaxSeq /\ wire[c] \in Seq(Frame)
      /\ Stream(wire[c], seq, cursor[c])
  BY <1>1 DEF Conn, ConnTypes, ConnStream, ConnRead, ReadRecord, LogInv
<1>3. S \in SUBSET (1 .. MaxSeq) /\ IsNewest(seq, S)
  BY <1>2, MissedIsNewest
<1> HIDE DEF S
<1>4. /\ wire'[c] \in Seq(Frame)
      /\ Welcomes(wire'[c]) = {Len(wire[c]) + 1}
      /\ Behind(wire'[c], seq) = Behind(wire[c], seq)
      /\ Stream(wire'[c], seq, cursor[c])
  <2> DEFINE w == wire[c]  v == wire'[c]  at == cursor[c]
  <2>1. Welcomed(v, w, S, seq, at)
    BY <1>1, <1>2, <1>3 DEF Welcomed, SeqNumber
  <2> HIDE DEF w, v, at
  <2>2. /\ v \in Seq(Frame)
        /\ Welcomes(v) = {Len(w) + 1}
        /\ Behind(v, seq) = Behind(w, seq)
        /\ Stream(v, seq, at)
    BY <2>1, WelcomeAppended
  <2> QED
    BY <2>2 DEF w, v, at
<1>5. up[c] /\ shake[c] # "welcome"
  BY <1>1 DEF Conn, ConnStream
<1>6. ConnTypes(c)'
  BY <1>1, <1>4, IdleTyped DEF Conn, ConnTypes
<1>7. ConnStream(c)'
  BY <1>1, <1>4, <1>5 DEF Conn, ConnStream
<1> QED
  BY <1>1, <1>6, <1>7, IdleTyped DEF Conn, ConnRead

LEMMA Greetings ==
    ASSUME LogInv, LogInv', NEW c \in Client, Conn(c), Connected(c)
    PROVE  /\ Greeting(c) \in Seq(Frame)
           /\ Welcomes(Greeting(c)) = {}
           /\ Stream(Greeting(c), seq', cursor[c])
           /\ Behind(Greeting(c), seq') = seq
           /\ LogKept => Greeting(c) = <<>> /\ seq' = seq /\ seq > 0
           /\ LogGrows => cursor[c] < seq' /\ seq' = seq + 1 /\ Len(Greeting(c)) = 1
           /\ cursor[c] <= seq
           /\ cursor[c] \in Nat /\ seq \in Nat /\ seq' \in 0 .. MaxSeq
           /\ reading[c].state = "none" /\ shake[c] = "none" /\ wire[c] = <<>>
<1>1. wire[c] = <<>> /\ reading[c].state = "none" /\ shake[c] = "none"
  BY DEF Conn, ConnStream, Connected
<1>2. seq \in 0 .. MaxSeq /\ seq' \in 0 .. MaxSeq /\ seq \in Nat /\ seq' \in Nat
  BY StreamNumbers DEF LogInv
<1>3. /\ Stream(<<>>, seq, cursor[c]) /\ Behind(<<>>, seq) = seq /\ Welcomes(<<>>) = {}
  BY <1>2, EmptyStream
<1>4. cursor[c] <= seq /\ cursor[c] \in Nat
  BY <1>1, <1>3, StreamNumbers DEF Conn, ConnTypes, ConnStream
<1>5. <<>> \in Seq(Frame)
  BY EmptySeq
<1>6. CASE LogKept
  <2>1. seq' = seq /\ seq # seq + 1
    BY <1>2, <1>6 DEF LogKept
  <2>2. Greeting(c) = <<>> /\ seq > 0
    BY <1>1, <2>1 DEF Greeting, Connected, LogGrows
  <2> QED
    BY <1>1, <1>2, <1>3, <1>4, <1>5, <2>1, <2>2 DEF LogGrows
<1>7. CASE LogGrows
  <2>1. seq' = seq + 1 /\ seq < MaxSeq /\ seq' # seq
    BY <1>2, <1>7 DEF LogGrows
  <2>2. Greeting(c) = Append(<<>>, Event(seq + 1))
    BY <1>1, <2>1 DEF Greeting
  <2> DEFINE none == <<>>
  <2>3. seq \in SeqNumber /\ none \in Seq(Frame) /\ Stream(none, seq, cursor[c]) /\ Len(none) = 0
    BY <1>2, <1>3, <1>5 DEF SeqNumber
  <2>4. Welcomes(none) = {} /\ Behind(none, seq) = seq /\ Sent(Greeting(c), none, Event(seq + 1))
    BY <1>3, <2>2 DEF Sent
  <2> HIDE DEF none
  <2> DEFINE g == Greeting(c)
             at == cursor[c]
             s == seq
  <2>a. /\ s \in SeqNumber /\ s < MaxSeq
        /\ none \in Seq(Frame)
        /\ Stream(none, s, at)
        /\ Sent(g, none, Event(s + 1))
    BY <2>1, <2>3, <2>4
  <2> HIDE DEF g, at, s
  <2>b. /\ g \in Seq(Frame)
        /\ Welcomes(g) = Welcomes(none)
        /\ Behind(g, s + 1) = Behind(none, s)
        /\ Len(g) = Len(none) + 1
        /\ Stream(g, s + 1, at)
    BY <2>a, EventAppended
  <2>5. /\ Greeting(c) \in Seq(Frame)
        /\ Welcomes(Greeting(c)) = Welcomes(none)
        /\ Behind(Greeting(c), seq + 1) = Behind(none, seq)
        /\ Len(Greeting(c)) = Len(none) + 1
        /\ Stream(Greeting(c), seq + 1, cursor[c])
    BY <2>b DEF g, at, s
  <2>6. cursor[c] < seq' /\ Len(Greeting(c)) = 1
    BY <1>2, <1>4, <2>1, <2>3, <2>5
  <2>7. ~LogKept
    BY <2>1 DEF LogKept
  <2> QED
    BY <1>1, <1>2, <1>4, <2>1, <2>4, <2>5, <2>6, <2>7
<1> QED
  BY <1>6, <1>7 DEF Connected

LEMMA ConnConnected ==
    ASSUME LogInv, LogInv', NEW c \in Client, Conn(c), Connected(c)
    PROVE  Conn(c)'
<1>1. /\ shake'[c] = shake[c] /\ cursor'[c] = cursor[c] /\ view'[c] = view[c]
      /\ up'[c] = TRUE
      /\ LogGrows \/ LogKept
      /\ floor' \in 1 .. MaxSeq + 1 /\ seq' \in 0 .. MaxSeq /\ floor' <= seq' + 1
  BY DEF Connected, SameClient, LogInv
<1>2. /\ Greeting(c) \in Seq(Frame)
      /\ Welcomes(Greeting(c)) = {}
      /\ Stream(Greeting(c), seq', cursor[c])
      /\ Behind(Greeting(c), seq') = seq
      /\ LogKept => Greeting(c) = <<>> /\ seq' = seq /\ seq > 0
      /\ LogGrows => cursor[c] < seq' /\ seq' = seq + 1 /\ Len(Greeting(c)) = 1
      /\ cursor[c] <= seq
      /\ cursor[c] \in Nat /\ seq \in Nat
      /\ reading[c].state = "none" /\ shake[c] = "none"
  BY Greetings
<1>3. floor' \in Nat /\ seq' \in Nat /\ floor' <= seq'
  BY <1>1, <1>2, StreamNumbers DEF LogInv
<1>4. cursor[c] \in 0 .. MaxSeq /\ view[c] \in SUBSET (1 .. MaxSeq) /\ reading[c] \in ReadRecord
  BY DEF Conn, ConnTypes
<1>5. ASSUME NEW rows \in SUBSET (1 .. MaxSeq), Greeted(c, rows),
             cursor[c] < floor' - 1 \/ rows = {}
      PROVE  Conn(c)'
  <2> DEFINE S == Missed(rows, cursor[c], floor', floor', seq')
  <2>1. S \in SUBSET (1 .. MaxSeq)
    <3>1. 1 <= floor' /\ seq' <= MaxSeq
      BY <1>1, <1>3, StreamNumbers
    <3>2. \A n \in floor' .. seq' : n \in 1 .. MaxSeq
      BY <1>3, <3>1, StreamNumbers
    <3> QED
      BY <3>2 DEF Missed
  <2>2. IsNewest(seq', S) \/ (S = {} /\ Greeting(c) = <<>> /\ cursor[c] = seq')
    <3>1. CASE cursor[c] < seq'
      <4>1. \A n \in S : n <= seq'
        BY <1>3, StreamNumbers DEF Missed
      <4>2. seq' \in S
        BY <1>3, <3>1 DEF Missed
      <4> QED
        BY <4>1, <4>2 DEF IsNewest
    <3>2. CASE ~(cursor[c] < seq')
      <4>1. cursor[c] = seq' /\ Greeting(c) = <<>>
        BY <1>1, <1>2, <1>3, <3>2
      <4>2. rows = {}
        BY <1>2, <1>3, <1>5, <4>1
      <4>3. S = {}
        BY <1>3, <4>1, <4>2 DEF Missed
      <4> QED
        BY <4>1, <4>3
    <3> QED
      BY <3>1, <3>2
  <2>3. wire'[c] = Append(Greeting(c), Welcome(S)) /\ reading'[c] = reading[c]
    BY <1>5 DEF Greeted
  <2> HIDE DEF S
  <2>4. /\ wire'[c] \in Seq(Frame)
        /\ Welcomes(wire'[c]) = {Len(Greeting(c)) + 1}
        /\ Behind(wire'[c], seq') = Behind(Greeting(c), seq')
        /\ Stream(wire'[c], seq', cursor[c])
    <3> DEFINE w == Greeting(c)  v == wire'[c]  at == cursor[c]
    <3>1. Welcomed(v, w, S, seq', at)
      BY <1>1, <1>2, <2>1, <2>2, <2>3 DEF Welcomed, SeqNumber
    <3> HIDE DEF w, v, at
    <3>2. /\ v \in Seq(Frame)
          /\ Welcomes(v) = {Len(w) + 1}
          /\ Behind(v, seq') = Behind(w, seq')
          /\ Stream(v, seq', at)
      BY <3>1, WelcomeAppended
    <3> QED
      BY <3>2 DEF w, v, at
  <2>5. ConnTypes(c)'
    BY <1>1, <1>2, <1>4, <2>3, <2>4 DEF ConnTypes
  <2>6. ConnStream(c)'
    BY <1>1, <1>2, <2>4 DEF ConnStream
  <2> QED
    BY <1>2, <2>3, <2>5, <2>6 DEF Conn, ConnRead
<1>6. CASE /\ cursor[c] < floor' - 1
           /\ wire'[c] = Greeting(c)
           /\ reading'[c] = [since |-> cursor[c], floor |-> floor', rows |-> {}, state |-> "sent"]
  <2>1. /\ reading'[c] \in ReadRecord /\ reading'[c].state = "sent"
        /\ reading'[c].since = cursor[c] /\ reading'[c].floor = floor'
    BY <1>1, <1>4, <1>6, StreamNumbers DEF ReadRecord
  <2>2. cursor[c] < seq'
    BY <1>2, <1>3, <1>6
  <2>3. ConnTypes(c)'
    BY <1>1, <1>2, <1>4, <1>6, <2>1 DEF ConnTypes
  <2>4. ConnStream(c)'
    BY <1>1, <1>2, <1>6, <2>1 DEF ConnStream
  <2> QED
    BY <1>2, <1>3, <1>6, <2>1, <2>2, <2>3, <2>4 DEF Conn, ConnRead
<1>7. stored' \in SUBSET (1 .. MaxSeq)
  BY StreamNumbers DEF LogInv
<1>8. Backlog(stored', cursor[c], floor') \in SUBSET (1 .. MaxSeq)
  BY <1>7, ReadTyped
<1>9. {} \in SUBSET (1 .. MaxSeq)
  OBVIOUS
<1> QED
  BY <1>5, <1>6, <1>8, <1>9 DEF Connected

LEMMA ConnReceived ==
    ASSUME LogInv, LogInv', NEW c \in Client, Conn(c), Received(c)
    PROVE  /\ Conn(c)'
           /\ cursor'[c] = Behind(wire'[c], seq)
           /\ Head(wire[c]).type = "event" =>
                 /\ Head(wire[c]).seqs = {Behind(wire[c], seq) + 1}
                 /\ cursor'[c] = Behind(wire[c], seq) + 1
           /\ Head(wire[c]).type = "welcome" => cursor'[c] = Behind(wire[c], seq)
<1> DEFINE w == wire[c]
           v == Tail(w)
           to == Max2(cursor[c], Newest(Head(w).seqs, 0))
<1>1. /\ up'[c] = up[c] /\ reading'[c] = reading[c] /\ seq' = seq /\ seq \in 0 .. MaxSeq
      /\ seq \in Nat
      /\ wire'[c] = v /\ cursor'[c] = to
      /\ view'[c] = view[c] \cup Head(w).seqs
      /\ w # <<>>
  BY StreamNumbers DEF Received, LogKept, LogInv
<1>2. shake'[c] = IF Head(w).type = "welcome" THEN "welcome"
                  ELSE IF shake[c] = "none" THEN "events" ELSE shake[c]
  BY DEF Received
<1>3. /\ w \in Seq(Frame) /\ cursor[c] \in Nat /\ Stream(w, seq, cursor[c])
      /\ cursor[c] <= Behind(w, seq)
  BY StreamNumbers DEF Conn, ConnTypes, ConnStream
<1> HIDE DEF w
<1>4. /\ v \in Seq(Frame)
      /\ Head(w) \in Frame
      /\ to = Behind(v, seq)
      /\ Stream(v, seq, to)
      /\ Head(w).type = "event" =>
            /\ Head(w).seqs = {Behind(w, seq) + 1}
            /\ Behind(v, seq) = Behind(w, seq) + 1
            /\ Welcomes(v) = {p - 1 : p \in Welcomes(w)}
            /\ 1 \notin Welcomes(w)
      /\ Head(w).type = "welcome" =>
            /\ Welcomes(w) = {1}
            /\ Welcomes(v) = {}
            /\ Behind(v, seq) = Behind(w, seq)
  BY <1>1, <1>3, FrameArrives
<1> HIDE DEF v, to
<1>5. Head(w).type \in {"event", "welcome"} /\ Head(w).seqs \in SUBSET (1 .. MaxSeq)
  BY <1>4 DEF Frame
<1>6. to <= seq /\ to \in Nat
  <2>1. Behind(v, seq) <= seq /\ Behind(v, seq) \in Int
    BY <1>1, <1>4, BehindBounded
  <2>2. to >= cursor[c]
    <3>1. Behind(w, seq) \in Int
      BY <1>1, <1>3, BehindBounded
    <3> QED
      BY <1>3, <1>4, <1>5, <2>1, <3>1
  <2> QED
    BY <1>3, <1>4, <2>1, <2>2
<1>7. ConnTypes(c)'
  <2>1. cursor'[c] \in 0 .. MaxSeq
    BY <1>1, <1>6, StreamNumbers
  <2>2. view'[c] \in SUBSET (1 .. MaxSeq)
    BY <1>1, <1>5 DEF Conn, ConnTypes
  <2> QED
    BY <1>1, <1>2, <1>4, <2>1, <2>2 DEF Conn, ConnTypes
<1>8. up[c]
  BY <1>1 DEF Conn, ConnStream, w
<1>9. shake[c] = "welcome" => Welcomes(w) = {} /\ reading[c].state = "none"
  BY DEF Conn, ConnStream, w
<1>10. reading[c].state # "none" => Welcomes(w) = {}
  BY DEF Conn, ConnRead, w
<1>11. shake[c] # "welcome" => Welcomes(w) # {} \/ reading[c].state # "none"
  BY <1>8 DEF Conn, ConnStream, w
<1>12. shake[c] \in {"none", "events", "welcome"}
  BY DEF Conn, ConnTypes
<1>13. CASE Head(w).type = "event"
  <2>1. Welcomes(v) = {} <=> Welcomes(w) = {}
    BY <1>4, <1>13
  <2>2. shake'[c] = "welcome" <=> shake[c] = "welcome"
    BY <1>2, <1>12, <1>13
  <2>3. ConnStream(c)'
    BY <1>1, <1>4, <1>8, <1>9, <1>11, <1>6, <2>1, <2>2 DEF ConnStream
  <2>4. ConnRead(c)'
    BY <1>1, <1>10, <2>1 DEF Conn, ConnRead
  <2> QED
    BY <1>1, <1>4, <1>7, <1>13, <2>3, <2>4 DEF Conn, w
<1>14. CASE Head(w).type = "welcome"
  <2>1. shake'[c] = "welcome" /\ Welcomes(v) = {} /\ Welcomes(w) # {}
    BY <1>2, <1>4, <1>14
  <2>2. reading[c].state = "none"
    BY <1>10, <2>1
  <2>3. ConnStream(c)'
    BY <1>1, <1>4, <1>6, <1>8, <2>1, <2>2 DEF ConnStream
  <2>4. ConnRead(c)'
    BY <1>1, <2>2 DEF ConnRead
  <2> QED
    BY <1>1, <1>4, <1>7, <1>14, <2>3, <2>4 DEF Conn, w
<1> QED
  BY <1>5, <1>13, <1>14

StreamInv == LogInv /\ Shapes /\ \A c \in Client : Conn(c)

LEMMA ConnStep ==
    ASSUME LogInv, LogInv', NEW c \in Client, Conn(c), ClientStep(c)
    PROVE  Conn(c)'
BY ConnUntouched, ConnTold, ConnClosed, ConnAsked, ConnAnswered, ConnConnected, ConnReceived
   DEF ClientStep

LEMMA StreamStarts == ReadersInit => StreamInv
<1> SUFFICES ASSUME ReadersInit PROVE StreamInv
  OBVIOUS
<1>1. /\ store \in Stores /\ seq = 0 /\ floor = 1 /\ stored = {} /\ unwritten = <<>>
  BY DEF ReadersInit, Init
<1>2. <<>> \in Seq(1 .. MaxSeq) /\ Len(<<>>) = 0
  BY EmptySeq
<1>3. LogInv
  BY <1>1, <1>2, StreamNumbers DEF LogInv
<1>4. Shapes
  BY DEF ReadersInit, Init, Shapes, OverClients
<1>5. ASSUME NEW c \in Client PROVE Conn(c)
  <2>1. /\ up[c] = FALSE /\ wire[c] = <<>> /\ reading[c] = Idle /\ shake[c] = "none"
        /\ cursor[c] = 0 /\ view[c] = {}
    BY DEF ReadersInit, Init
  <2>2. Stream(<<>>, 0, 0) /\ Behind(<<>>, 0) = 0
    BY EmptyStream
  <2>3. <<>> \in Seq(Frame)
    BY EmptySeq
  <2>4. ConnTypes(c)
    <3>1. wire[c] \in Seq(Frame)
      BY <2>1, <2>3, Zenon
    <3>2. reading[c] \in ReadRecord
      BY <2>1, IdleTyped
    <3>3. cursor[c] \in 0 .. MaxSeq
      BY <2>1, StreamNumbers
    <3> QED
      BY <2>1, <3>1, <3>2, <3>3 DEF ConnTypes
  <2>5. ConnStream(c)
    <3>1. Stream(wire[c], seq, cursor[c]) /\ Behind(wire[c], seq) = 0
      BY <1>1, <2>1, <2>2, Zenon
    <3> QED
      BY <2>1, <3>1, IdleTyped DEF ConnStream
  <2> QED
    BY <2>1, <2>4, <2>5, IdleTyped DEF Conn, ConnRead
<1> QED
  BY <1>3, <1>4, <1>5 DEF StreamInv

LEMMA StreamGoesOn == StreamInv /\ [ReadersNext]_readers => StreamInv'
<1> SUFFICES ASSUME StreamInv, [ReadersNext]_readers PROVE StreamInv'
  OBVIOUS
<1>1. LogInv' /\ Shapes' /\ \A c \in Client : ClientStep(c)
  BY StepsReach DEF StreamInv
<1>2. ASSUME NEW c \in Client PROVE Conn(c)'
  BY <1>1, <1>2, ConnStep DEF StreamInv
<1> QED
  BY <1>1, <1>2 DEF StreamInv

LEMMA StreamAlways == ReadersSpec => []StreamInv
BY StreamStarts, StreamGoesOn, PTL DEF ReadersSpec

\* Whatever breaks, restarts or is trimmed, once a connection has had its welcome
\* the next thing it delivers is the next event of the room, over either store.
THEOREM TheNextEvent == ReadersSpec => LiveEventsAreNext
<1>1. ASSUME StreamInv, [ReadersNext]_readers, NEW c \in Client,
             shake[c] = "welcome", shake'[c] = "welcome", wire[c] # <<>>, wire'[c] = Tail(wire[c])
      PROVE  cursor'[c] = cursor[c] + 1
  <2>1. LogInv /\ LogInv' /\ Conn(c) /\ ClientStep(c)
    BY <1>1, StepsReach DEF StreamInv
  <2>2. /\ wire[c] \in Seq(Frame) /\ Welcomes(wire[c]) = {} /\ reading[c].state = "none"
        /\ up[c] /\ cursor[c] = Behind(wire[c], seq)
    BY <1>1, <2>1 DEF Conn, ConnTypes, ConnStream
  <2>3. Len(wire[c]) \in Nat /\ Len(wire[c]) >= 1 /\ Len(Tail(wire[c])) = Len(wire[c]) - 1
    BY <1>1, <2>2, HeadTailProperties, EmptySeq, LenProperties
  <2>4. wire'[c] # wire[c]
    <3>1. Len(Tail(wire[c])) # Len(wire[c])
      BY <2>3
    <3> QED
      BY <1>1, <3>1, Zenon
  <2>5. ~Told(c)
    <3>1. SUFFICES ASSUME Told(c) PROVE FALSE
      OBVIOUS
    <3>2. wire'[c] = Append(wire[c], Event(seq + 1)) /\ seq < MaxSeq /\ seq \in 0 .. MaxSeq
      BY <2>1, <3>1 DEF Told, LogGrows, LogInv
    <3>3. Len(wire'[c]) = Len(wire[c]) + 1
      <4>1. Stream(wire[c], seq, cursor[c])
        BY <2>1 DEF Conn, ConnStream
      <4> QED
        BY <2>2, <3>2, <4>1, EventAppended DEF Sent, SeqNumber
    <3> QED
      BY <1>1, <2>3, <3>3
  <2>6. Received(c)
    BY <1>1, <2>1, <2>2, <2>4, <2>5 DEF ClientStep, Untouched, Connected, Asked, Answered, Closed
  <2>7. Head(wire[c]).type = "event"
    <3>1. Head(wire[c]) = wire[c][1] /\ 1 \in 1 .. Len(wire[c])
      BY <2>2, <2>3, HeadTailProperties
    <3>2. Head(wire[c]) \in Frame
      BY <2>2, <3>1, ElementOfSeq
    <3> QED
      BY <2>2, <3>1, <3>2 DEF Frame, Welcomes
  <2> QED
    BY <2>1, <2>2, <2>6, <2>7, ConnReceived
<1>2. StreamInv /\ [ReadersNext]_readers
         => [ \A c \in Client :
                 shake[c] = "welcome" /\ shake'[c] = "welcome" /\ wire[c] # <<>>
                     /\ wire'[c] = Tail(wire[c])
                 => cursor'[c] = cursor[c] + 1 ]_vars
  BY <1>1
<1> QED
  BY <1>2, StreamAlways, PTL DEF ReadersSpec, LiveEventsAreNext

-----------------------------------------------------------------------------
(* What the clients were given, over a store that answers in the same call and *)
(* whose writes do not fail.                                                   *)

\* Whoever may connect has missed no more of what is out of memory than one read
\* of the store returns.
WithinOneRead ==
    \A c \in Client :
        ~up[c] /\ MayConnect(c) => floor - cursor[c] <= Min2(ReadLimit, BacklogLimit)

StoredAll == ~AsyncStore => stored = 1 .. seq

\* What a client was given, and what its welcome will bring.
Whole(c) ==
    ~AsyncStore =>
        /\ reading[c].state = "none"
        /\ c \notin split /\ shake[c] # "events" => view[c] = 1 .. cursor[c]
        /\ c \notin split =>
              \A p \in Welcomes(wire[c]) :
                  view[c] \cup wire[c][p].seqs = 1 .. Behind(wire[c], seq) + p - 1
        /\ shake[c] = "none" =>
              \A p \in Welcomes(wire[c]) :
                  wire[c][p].seqs = cursor[c] + 1 .. Behind(wire[c], seq) + p - 1

WholeInv == StoredAll /\ \A c \in Client : Whole(c)

LEMMA StoredStep ==
    ASSUME "sqlite" \notin FailingStores, LogInv, StoredAll, [ReadersNext]_readers
    PROVE  StoredAll'
<1>1. ASSUME AppendToLog PROVE StoredAll'
  <2>1. SUFFICES ASSUME ~AsyncStore' PROVE stored' = 1 .. seq'
    BY DEF StoredAll
  <2>2. store' = store /\ seq' = seq + 1 /\ seq \in Nat
    BY <1>1, StreamNumbers DEF AppendToLog, LogInv
  <2>3. ~AsyncStore /\ store \notin FailingStores
    BY <2>1, <2>2, StreamNumbers DEF AsyncStore, LogInv
  <2>4. stored' \in Written(seq + 1) /\ stored = 1 .. seq
    BY <1>1, <2>3 DEF AppendToLog, StoredAll
  <2>5. stored' = (1 .. seq) \cup {seq + 1}
    BY <2>3, <2>4 DEF Written
  <2> QED
    BY <2>2, <2>5
<1>2. ASSUME StoreWrite PROVE StoredAll'
  <2>1. SUFFICES ASSUME ~AsyncStore' PROVE stored' = 1 .. seq'
    BY DEF StoredAll
  <2>2. store' = store /\ seq' = seq /\ seq \in Nat
    BY <1>2, StreamNumbers DEF StoreWrite, LogInv
  <2>3. ~AsyncStore /\ store \notin FailingStores
    BY <2>1, <2>2, StreamNumbers DEF AsyncStore, LogInv
  <2>4. stored' = stored \cup {Head(unwritten)} /\ stored = 1 .. seq
    BY <1>2, <2>3 DEF StoreWrite, Written, StoredAll
  <2>5. Head(unwritten) \in 1 .. seq
    <3>1. unwritten \in Seq(1 .. MaxSeq) /\ unwritten # <<>>
      BY <1>2 DEF StoreWrite, LogInv
    <3>2. Head(unwritten) = unwritten[1] /\ 1 \in 1 .. Len(unwritten)
      BY <3>1, HeadTailProperties, EmptySeq, LenProperties
    <3>3. unwritten[1] \in 1 .. MaxSeq /\ unwritten[1] <= seq
      BY <3>1, <3>2, ElementOfSeq DEF LogInv
    <3> QED
      BY <2>2, <3>2, <3>3, StreamNumbers
  <2> QED
    BY <2>2, <2>4, <2>5
<1>3. ASSUME UNCHANGED log PROVE StoredAll'
  BY <1>3 DEF log, StoredAll, AsyncStore
<1>4. ASSUME NEW c \in Client, Reads(c) PROVE StoredAll'
  BY <1>3, <1>4 DEF Reads, StoreRead, ReadAnswered
<1>5. ASSUME NEW c \in Client, StartFeed(c) \/ EnterRoomFeed(c) \/ SavePosition(c)
      PROVE  StoredAll'
  BY <1>3, <1>5 DEF StartFeed, EnterRoomFeed, SavePosition, vars
<1>6. ASSUME NEW c \in Client, Connect(c) PROVE StoredAll'
  BY <1>1, <1>6 DEF Connect, Reconnect
<1>7. ASSUME NEW c \in Client, Hear(c) \/ ShowInTimeline(c) PROVE StoredAll'
  BY <1>3, <1>7 DEF Hear, ShowInTimeline, Receive
<1>8. ASSUME NEW c \in Client, Quit(c) \/ KillFeed(c) PROVE StoredAll'
  BY <1>3, <1>8 DEF Quit, KillFeed, EndFeed
<1>9. ASSUME NEW c \in Client, LoseTerminal(c) \/ LoseDashboard(c) PROVE StoredAll'
  BY <1>3, <1>9 DEF LoseTerminal, LoseDashboard, Drop
<1>10. ASSUME NEW c \in Client, WatchRoom(c) PROVE StoredAll'
  BY <1>3, <1>10 DEF WatchRoom
<1> QED
  BY <1>1, <1>2, <1>3, <1>4, <1>5, <1>6, <1>7, <1>8, <1>9, <1>10
     DEF ReadersNext, readers, vars, AppendEvent

\* eventsSince: the rows below the log in memory, read in one go, and that log are
\* everything after since.
LEMMA MissedAll ==
    ASSUME NEW last \in Nat, NEW low \in Nat, 1 <= low, low <= last + 1,
           NEW since \in Nat,
           low - 1 - since <= Min2(ReadLimit, BacklogLimit)
    PROVE  /\ since < low - 1 => Missed(Backlog(1 .. last, since, low), since, low, low, last)
                                    = since + 1 .. last
           /\ since >= low - 1 => Missed({}, since, low, low, last) = since + 1 .. last
<1>1. since >= low - 1 => Missed({}, since, low, low, last) = since + 1 .. last
  BY DEF Missed
<1>2. CASE since < low - 1
  <2> DEFINE rows  == Backlog(1 .. last, since, low)
             after == {n \in 1 .. last : n > since}
             limit == Min2(Min2(low - 1 - since, BacklogLimit), ReadLimit)
  <2>1. limit = low - 1 - since
    BY <1>2, StreamNumbers DEF Min2
  <2>2. rows = {n \in after : Cardinality({m \in after : m < n}) < limit}
    BY DEF Backlog, ReadEvents
  <2>3. ASSUME NEW n \in after PROVE Cardinality({m \in after : m < n}) = n - 1 - since
    <3>1. {m \in after : m < n} = since + 1 .. n - 1
      OBVIOUS
    <3>2. n \in Int /\ n > since
      OBVIOUS
    <3> HIDE DEF after
    <3>3. Cardinality(since + 1 .. n - 1)
             = IF since + 1 > n - 1 THEN 0 ELSE (n - 1) - (since + 1) + 1
      BY <3>2, FS_Interval
    <3>4. Cardinality({m \in after : m < n}) = Cardinality(since + 1 .. n - 1)
      BY <3>1, Zenon
    <3> QED
      BY <3>2, <3>3, <3>4
  <2> HIDE DEF limit
  <2>4. \A n \in after : n \in rows <=> n < low
    <3>1. SUFFICES ASSUME NEW n \in after PROVE n \in rows <=> n < low
      OBVIOUS
    <3>2. n \in rows <=> n - 1 - since < low - 1 - since
      BY <2>1, <2>2, <2>3, <3>1
    <3>3. n \in Nat
      OBVIOUS
    <3> QED
      BY <3>2, <3>3
  <2>5. rows \subseteq after
    BY <2>2
  <2> HIDE DEF rows
  <2>6. Missed(rows, since, low, low, last) = since + 1 .. last
    <3>1. \A n : n \in after <=> n \in since + 1 .. last
      OBVIOUS
    <3> HIDE DEF after
    <3>2. \A n : n \in rows /\ n < low <=> n \in since + 1 .. last /\ n < low
      BY <2>4, <2>5, <3>1
    <3>3. \A n : n \in low .. last /\ n > since <=> n \in since + 1 .. last /\ ~(n < low)
      BY <1>2
    <3>4. \A n : n \in Missed(rows, since, low, low, last) <=> n \in since + 1 .. last
      BY <3>2, <3>3 DEF Missed
    <3> QED
      BY <3>4
  <2> QED
    BY <1>2, <2>6 DEF rows
<1> QED
  BY <1>1, <1>2

LEMMA WholeUntouched ==
    ASSUME LogInv, LogInv', NEW c \in Client, Conn(c), Whole(c), Untouched(c)
    PROVE  Whole(c)'
<1>1. /\ shake'[c] = shake[c] /\ cursor'[c] = cursor[c] /\ view'[c] = view[c]
      /\ reading'[c] = reading[c] /\ wire'[c] = wire[c]
      /\ c \in split' <=> c \in split
      /\ store' = store
      /\ seq' = seq \/ ~up[c]
  BY DEF Untouched, SameClient, LogKept, LogGrows
<1>2. AsyncStore' <=> AsyncStore
  BY <1>1 DEF AsyncStore
<1>3. CASE seq' = seq
  BY <1>1, <1>2, <1>3 DEF Whole
<1>4. CASE ~up[c]
  <2>1. Welcomes(wire[c]) = {}
    <3>1. wire[c] = <<>>
      BY <1>4 DEF Conn, ConnStream
    <3> QED
      BY <3>1 DEF Welcomes
  <2> QED
    BY <1>1, <1>2, <2>1 DEF Whole
<1> QED
  BY <1>1, <1>3, <1>4

LEMMA WholeTold ==
    ASSUME LogInv, LogInv', NEW c \in Client, Conn(c), Whole(c), Told(c)
    PROVE  Whole(c)'
<1>1. /\ shake'[c] = shake[c] /\ cursor'[c] = cursor[c] /\ view'[c] = view[c]
      /\ reading'[c] = reading[c]
      /\ c \in split' <=> c \in split
      /\ store' = store
      /\ wire'[c] = Append(wire[c], Event(seq + 1))
      /\ seq' = seq + 1 /\ seq < MaxSeq /\ seq \in 0 .. MaxSeq
  BY DEF Told, SameClient, LogGrows, LogInv
<1>2. AsyncStore' <=> AsyncStore
  BY <1>1 DEF AsyncStore
<1>3. Stream(wire[c], seq, cursor[c]) /\ wire[c] \in Seq(Frame)
  BY DEF Conn, ConnTypes, ConnStream
<1>4. /\ Welcomes(wire'[c]) = Welcomes(wire[c])
      /\ Behind(wire'[c], seq') = Behind(wire[c], seq)
      /\ \A k \in 1 .. Len(wire[c]) : wire'[c][k] = wire[c][k]
  BY <1>1, <1>3, EventAppended DEF Sent, SeqNumber
<1>5. \A p \in Welcomes(wire[c]) : wire'[c][p] = wire[c][p]
  BY <1>4 DEF Welcomes
<1> QED
  BY <1>1, <1>2, <1>4, <1>5 DEF Whole

LEMMA WholeClosed ==
    ASSUME LogInv, LogInv', NEW c \in Client, Conn(c), Whole(c), Closed(c)
    PROVE  Whole(c)'
<1>1. /\ reading'[c].state = "none" /\ shake'[c] = "none" /\ Welcomes(wire'[c]) = {}
      /\ store' = store
  BY IdleTyped DEF Closed, LogKept, Welcomes
<1>2. AsyncStore' <=> AsyncStore
  BY <1>1 DEF AsyncStore
<1>3. ~AsyncStore /\ c \notin split' => view'[c] = 1 .. cursor'[c]
  <2>1. CASE /\ cursor'[c] = cursor[c] /\ view'[c] = view[c]
             /\ c \in split' <=> (c \in split \/ shake[c] = "events")
    BY <2>1 DEF Whole
  <2>2. CASE cursor'[c] = 0 /\ view'[c] = {}
    BY <2>2
  <2> QED
    BY <2>1, <2>2 DEF Closed
<1> QED
  BY <1>1, <1>2, <1>3 DEF Whole

LEMMA WholeReceived ==
    ASSUME LogInv, LogInv', NEW c \in Client, Conn(c), Whole(c), Received(c)
    PROVE  Whole(c)'
<1> DEFINE w == wire[c]
<1>1. /\ reading'[c] = reading[c]
      /\ c \in split' <=> c \in split
      /\ store' = store /\ seq' = seq /\ seq \in 0 .. MaxSeq /\ seq \in Nat
      /\ view'[c] = view[c] \cup Head(w).seqs
      /\ wire'[c] = Tail(w) /\ w # <<>>
  BY StreamNumbers DEF Received, LogKept, LogInv
<1>2. shake'[c] = IF Head(w).type = "welcome" THEN "welcome"
                  ELSE IF shake[c] = "none" THEN "events" ELSE shake[c]
  BY DEF Received
<1>3. AsyncStore' <=> AsyncStore
  BY <1>1 DEF AsyncStore
<1>4. /\ w \in Seq(Frame) /\ cursor[c] \in Nat /\ Stream(w, seq, cursor[c])
      /\ cursor[c] <= Behind(w, seq)
      /\ shake[c] \in {"none", "events", "welcome"}
      /\ shake[c] # "none" => cursor[c] = Behind(w, seq)
      /\ shake[c] = "welcome" => Welcomes(w) = {}
  BY StreamNumbers DEF Conn, ConnTypes, ConnStream
<1>5. /\ cursor'[c] = Behind(Tail(w), seq)
      /\ Head(w).type = "event" =>
            /\ Head(w).seqs = {Behind(w, seq) + 1}
            /\ cursor'[c] = Behind(w, seq) + 1
      /\ Head(w).type = "welcome" => cursor'[c] = Behind(w, seq)
  BY <1>1, ConnReceived
<1>6. ~AsyncStore =>
        /\ reading[c].state = "none"
        /\ c \notin split /\ shake[c] # "events" => view[c] = 1 .. cursor[c]
        /\ c \notin split =>
              \A p \in Welcomes(w) : view[c] \cup w[p].seqs = 1 .. Behind(w, seq) + p - 1
        /\ shake[c] = "none" =>
              \A p \in Welcomes(w) : w[p].seqs = cursor[c] + 1 .. Behind(w, seq) + p - 1
  BY DEF Whole
<1> HIDE DEF w
<1>7. /\ \A k \in 1 .. Len(Tail(w)) : Tail(w)[k] = w[k + 1]
      /\ Head(w) = w[1]
      /\ Head(w) \in Frame
      /\ Head(w).type = "event" =>
            /\ Behind(Tail(w), seq) = Behind(w, seq) + 1
            /\ Welcomes(Tail(w)) = {p - 1 : p \in Welcomes(w)}
      /\ Head(w).type = "welcome" =>
            /\ Welcomes(w) = {1}
            /\ Welcomes(Tail(w)) = {}
  BY <1>1, <1>4, FrameArrives
<1>8. Behind(w, seq) \in Int /\ Len(w) \in Nat
  BY <1>1, <1>4, BehindBounded, LenProperties
<1>9. CASE Head(w).type = "event"
  <2>1. shake'[c] # "none" /\ (shake'[c] # "events" => shake[c] = "welcome")
    BY <1>2, <1>4, <1>9
  <2>2. ~AsyncStore /\ c \notin split /\ shake[c] = "welcome" => view'[c] = 1 .. cursor'[c]
    BY <1>1, <1>4, <1>5, <1>6, <1>9
  <2>3. ASSUME ~AsyncStore, c \notin split, NEW q \in Welcomes(Tail(w))
        PROVE  view'[c] \cup Tail(w)[q].seqs = 1 .. Behind(Tail(w), seq) + q - 1
    <3>1. PICK p \in Welcomes(w) : q = p - 1
      BY <1>7, <1>9, <2>3
    <3>2. Tail(w)[q] = w[p] /\ p \in Int /\ p >= 2
      <4>1. q \in 1 .. Len(Tail(w)) /\ q \in Nat /\ p \in 1 .. Len(w) /\ p = q + 1
        BY <1>8, <2>3, <3>1 DEF Welcomes
      <4> QED
        BY <1>7, <4>1
    <3>3. view[c] \cup w[p].seqs = 1 .. Behind(w, seq) + p - 1
      BY <1>6, <2>3, <3>1
    <3>4. Behind(w, seq) >= 0 /\ Behind(w, seq) + 1 \in 1 .. Behind(w, seq) + p - 1
      BY <1>4, <1>8, <3>2
    <3>5. view'[c] \cup w[p].seqs = 1 .. Behind(w, seq) + p - 1
      BY <1>1, <1>5, <1>9, <3>3, <3>4
    <3>6. Behind(Tail(w), seq) + q - 1 = Behind(w, seq) + p - 1
      BY <1>7, <1>8, <1>9, <3>1, <3>2
    <3> QED
      BY <3>2, <3>5, <3>6
  <2> QED
    BY <1>1, <1>3, <1>6, <2>1, <2>2, <2>3 DEF Whole
<1>10. CASE Head(w).type = "welcome"
  <2>1. shake'[c] = "welcome" /\ Welcomes(wire'[c]) = {} /\ 1 \in Welcomes(w)
    BY <1>1, <1>2, <1>7, <1>10
  <2>2. ASSUME ~AsyncStore, c \notin split PROVE view'[c] = 1 .. cursor'[c]
    <3>1. view[c] \cup w[1].seqs = 1 .. Behind(w, seq) + 1 - 1
      BY <1>6, <2>1, <2>2
    <3>2. Behind(w, seq) + 1 - 1 = cursor'[c]
      BY <1>5, <1>8, <1>10
    <3> QED
      BY <1>1, <1>7, <3>1, <3>2
  <2> QED
    BY <1>1, <1>3, <1>6, <2>1, <2>2 DEF Whole
<1> QED
  BY <1>7, <1>9, <1>10 DEF Frame

LEMMA WholeConnected ==
    ASSUME LogInv, LogInv', StoredAll', NEW c \in Client, Conn(c), Whole(c), Connected(c),
           WithinOneRead
    PROVE  Whole(c)'
<1>1. SUFFICES ASSUME ~AsyncStore' PROVE Whole(c)'
  BY DEF Whole
<1>2. /\ shake'[c] = shake[c] /\ cursor'[c] = cursor[c] /\ view'[c] = view[c]
      /\ c \in split' <=> c \in split
      /\ LogGrows \/ LogKept
      /\ ~up[c] /\ MayConnect(c)
  BY DEF Connected, SameClient
<1>3. store' = store /\ floor' <= floor + 1 /\ floor \in Nat
  <2>1. floor \in Nat
    BY StreamNumbers DEF LogInv
  <2>2. CASE LogKept
    BY <2>1, <2>2 DEF LogKept
  <2>3. CASE LogGrows
    BY <2>1, <2>3, StreamNumbers DEF LogGrows
  <2> QED
    BY <1>2, <2>1, <2>2, <2>3
<1>4. ~AsyncStore /\ stored' = 1 .. seq'
  BY <1>1, <1>3 DEF AsyncStore, StoredAll
<1>5. /\ Greeting(c) \in Seq(Frame)
      /\ Welcomes(Greeting(c)) = {}
      /\ Stream(Greeting(c), seq', cursor[c])
      /\ Behind(Greeting(c), seq') = seq
      /\ LogKept => Greeting(c) = <<>> /\ seq' = seq /\ seq > 0
      /\ LogGrows => cursor[c] < seq' /\ seq' = seq + 1 /\ Len(Greeting(c)) = 1
      /\ cursor[c] <= seq
      /\ cursor[c] \in Nat /\ seq \in Nat /\ seq' \in 0 .. MaxSeq
      /\ reading[c].state = "none" /\ shake[c] = "none"
  BY Greetings
<1>6. floor' \in Nat /\ 1 <= floor' /\ seq' \in Nat /\ floor' <= seq' + 1 /\ floor' <= seq'
  <2>1. seq' \in Nat /\ seq' > 0
    BY <1>2, <1>5, StreamNumbers
  <2>2. floor' \in 1 .. MaxSeq + 1 /\ floor' <= seq' + 1 /\ (seq' > 0 => floor' <= seq')
    BY DEF LogInv
  <2>3. floor' \in Nat /\ 1 <= floor'
    BY <2>2, StreamNumbers
  <2> QED
    BY <2>1, <2>2, <2>3
<1>7. floor' - 1 - cursor[c] <= Min2(ReadLimit, BacklogLimit)
  <2>1. floor - cursor[c] <= Min2(ReadLimit, BacklogLimit)
    BY <1>2 DEF WithinOneRead
  <2>2. Min2(ReadLimit, BacklogLimit) \in Nat
    BY StreamNumbers DEF Min2
  <2> QED
    BY <1>3, <1>5, <1>6, <2>1, <2>2
<1>8. PICK rows : /\ Greeted(c, rows)
                  /\ Missed(rows, cursor[c], floor', floor', seq') = cursor[c] + 1 .. seq'
  <2>1. /\ cursor[c] < floor' - 1 =>
              Missed(Backlog(1 .. seq', cursor[c], floor'), cursor[c], floor', floor', seq')
                 = cursor[c] + 1 .. seq'
        /\ cursor[c] >= floor' - 1 =>
              Missed({}, cursor[c], floor', floor', seq') = cursor[c] + 1 .. seq'
    BY <1>5, <1>6, <1>7, MissedAll
  <2> QED
    BY <1>4, <2>1 DEF Connected
<1> DEFINE S == cursor[c] + 1 .. seq'
<1>9. Sent(wire'[c], Greeting(c), Welcome(S)) /\ reading'[c] = reading[c]
  BY <1>8 DEF Greeted, Sent
<1>10. S \in SUBSET (1 .. MaxSeq)
  BY <1>5, <1>6, StreamNumbers
<1>11. IsNewest(seq', S) \/ (S = {} /\ Greeting(c) = <<>> /\ cursor[c] = seq')
  <2>1. CASE cursor[c] < seq'
    BY <1>5, <1>6, <2>1 DEF IsNewest
  <2>2. CASE ~(cursor[c] < seq')
    <3>1. cursor[c] = seq' /\ Greeting(c) = <<>>
      BY <1>2, <1>5, <1>6, <2>2
    <3>2. S = cursor[c] + 1 .. cursor[c] /\ cursor[c] \in Nat
      BY <1>5, <3>1
    <3> HIDE DEF S
    <3>3. S = {}
      <4>1. \A n \in Nat : n + 1 .. n = {}
        OBVIOUS
      <4> QED
        BY <3>2, <4>1
    <3> QED
      BY <3>1, <3>3
  <2> QED
    BY <2>1, <2>2
<1> HIDE DEF S
<1>12. /\ Welcomes(wire'[c]) = {Len(Greeting(c)) + 1}
       /\ Behind(wire'[c], seq') = Behind(Greeting(c), seq')
  <2> DEFINE w == Greeting(c)  v == wire'[c]  at == cursor[c]
  <2>1. Welcomed(v, w, S, seq', at)
    BY <1>5, <1>9, <1>10, <1>11 DEF Welcomed, SeqNumber, Sent
  <2> HIDE DEF w, v, at
  <2>2. Welcomes(v) = {Len(w) + 1} /\ Behind(v, seq') = Behind(w, seq')
    BY <2>1, WelcomeAppended
  <2> QED
    BY <2>2 DEF w, v
<1>13. seq + (Len(Greeting(c)) + 1) - 1 = seq' /\ cursor[c] <= seq'
  <2>1. CASE LogKept
    <3>1. Len(Greeting(c)) = 0 /\ seq' = seq /\ cursor[c] <= seq /\ seq \in Nat
      BY <1>5, <2>1
    <3> QED
      BY <3>1
  <2>2. CASE LogGrows
    <3>1. /\ Len(Greeting(c)) = 1 /\ seq' = seq + 1 /\ cursor[c] < seq' /\ seq \in Nat
          /\ cursor[c] \in Nat
      BY <1>5, <2>2
    <3> QED
      BY <3>1
  <2> QED
    BY <1>2, <2>1, <2>2
<1>14. \A p \in Welcomes(wire'[c]) :
          wire'[c][p].seqs = S /\ Behind(wire'[c], seq') + p - 1 = seq'
  <2>1. Welcome(S).seqs = S
    BY DEF Welcome
  <2>2. wire'[c][Len(Greeting(c)) + 1] = Welcome(S)
    BY <1>5, <1>9, SentLast
  <2>3. SUFFICES ASSUME NEW p \in Welcomes(wire'[c])
                 PROVE  wire'[c][p].seqs = S /\ Behind(wire'[c], seq') + p - 1 = seq'
    OBVIOUS
  <2>4. p = Len(Greeting(c)) + 1
    BY <1>12, <2>3
  <2>5. Behind(wire'[c], seq') = seq
    BY <1>5, <1>12
  <2>6. wire'[c][p].seqs = S
    BY <2>1, <2>2, <2>4, Zenon
  <2> QED
    BY <1>13, <2>4, <2>5, <2>6
<1>15. c \notin split => view[c] = 1 .. cursor[c] /\ view[c] \cup S = 1 .. seq'
  <2>1. c \notin split => view[c] = 1 .. cursor[c]
    BY <1>4, <1>5 DEF Whole
  <2>2. (1 .. cursor[c]) \cup S = 1 .. seq'
    BY <1>5, <1>6, <1>13 DEF S
  <2> QED
    BY <2>1, <2>2
<1> QED
  BY <1>2, <1>5, <1>9, <1>14, <1>15 DEF Whole, S

LEMMA WholeStep ==
    ASSUME LogInv, LogInv', StoredAll', WithinOneRead,
           NEW c \in Client, Conn(c), Whole(c), ClientStep(c)
    PROVE  Whole(c)'
<1>1. CASE Untouched(c)
  BY <1>1, WholeUntouched
<1>2. CASE Told(c)
  BY <1>2, WholeTold
<1>3. CASE Connected(c)
  BY <1>3, WholeConnected
<1>4. CASE Asked(c) \/ Answered(c)
  BY <1>4 DEF Asked, Answered, Whole, LogKept, AsyncStore
<1>5. CASE Received(c)
  BY <1>5, WholeReceived
<1>6. CASE Closed(c)
  BY <1>6, WholeClosed
<1> QED
  BY <1>1, <1>2, <1>3, <1>4, <1>5, <1>6 DEF ClientStep

LEMMA WholeStarts == ReadersInit => WholeInv
<1> SUFFICES ASSUME ReadersInit PROVE WholeInv
  OBVIOUS
<1>1. ASSUME NEW c \in Client PROVE Whole(c)
  <2>1. wire[c] = <<>> /\ reading[c] = Idle /\ cursor[c] = 0 /\ view[c] = {}
    BY DEF ReadersInit, Init
  <2>2. Welcomes(wire[c]) = {}
    BY <2>1 DEF Welcomes
  <2> QED
    BY <2>1, <2>2, IdleTyped DEF Whole
<1> QED
  BY <1>1 DEF WholeInv, StoredAll, ReadersInit, Init

LEMMA WholeGoesOn ==
    ASSUME "sqlite" \notin FailingStores
    PROVE  StreamInv /\ WholeInv /\ WithinOneRead /\ [ReadersNext]_readers => WholeInv'
<1> SUFFICES ASSUME StreamInv, WholeInv, WithinOneRead, [ReadersNext]_readers PROVE WholeInv'
  OBVIOUS
<1>1. LogInv' /\ \A c \in Client : ClientStep(c)
  BY StepsReach DEF StreamInv
<1>2. StoredAll'
  BY StoredStep DEF StreamInv, WholeInv
<1>3. ASSUME NEW c \in Client PROVE Whole(c)'
  BY <1>1, <1>2, <1>3, WholeStep DEF StreamInv, WholeInv
<1> QED
  BY <1>2, <1>3 DEF WholeInv

LEMMA WholeAlways ==
    ASSUME "sqlite" \notin FailingStores
    PROVE  ReadersSpec /\ []WithinOneRead => []WholeInv
<1>1. StreamInv /\ WholeInv /\ WithinOneRead /\ [ReadersNext]_readers => WholeInv'
  BY WholeGoesOn
<1> QED
  BY <1>1, WholeStarts, StreamAlways, PTL DEF ReadersSpec

\* While nobody misses more of what was trimmed than one read of the store
\* returns, a client has every event up to its cursor, through any number of
\* reconnections (SQLite).
THEOREM NothingSkipped ==
    ASSUME "sqlite" \notin FailingStores
    PROVE  ReadersSpec /\ []WithinOneRead => []NoGapBelowCursor
<1>1. WholeInv => NoGapBelowCursor
  BY DEF WholeInv, Whole, NoGapBelowCursor
<1> QED
  BY <1>1, WholeAlways, PTL

-----------------------------------------------------------------------------
(* What is on the screens. *)

LEMMA InOrderInterval ==
    ASSUME NEW a \in Nat, NEW b \in Nat, a <= b
    PROVE  InOrder(a + 1 .. b) = [k \in 1 .. b - a |-> a + k]
<1> DEFINE S == a + 1 .. b
<1>1. Cardinality(S) = b - a
  <2>1. Cardinality(S) = IF a + 1 > b THEN 0 ELSE b - (a + 1) + 1
    BY FS_Interval
  <2> QED
    BY <2>1
<1>2. ASSUME NEW n \in S PROVE Cardinality({m \in S : m < n}) = n - a - 1
  <2>1. {m \in S : m < n} = a + 1 .. n - 1
    OBVIOUS
  <2>2. n \in Int /\ n >= a + 1
    OBVIOUS
  <2> HIDE DEF S
  <2>3. Cardinality(a + 1 .. n - 1) = IF a + 1 > n - 1 THEN 0 ELSE (n - 1) - (a + 1) + 1
    BY <2>2, FS_Interval
  <2>4. Cardinality({m \in S : m < n}) = Cardinality(a + 1 .. n - 1)
    BY <2>1, Zenon
  <2> QED
    BY <2>2, <2>3, <2>4
<1>3. ASSUME NEW k \in 1 .. b - a
      PROVE  (CHOOSE n \in S : Cardinality({m \in S : m < n}) = k - 1) = a + k
  <2>1. a + k \in S
    OBVIOUS
  <2>2. \A n \in S : n \in Int
    OBVIOUS
  <2> HIDE DEF S
  <2>3. Cardinality({m \in S : m < a + k}) = k - 1
    <3>1. Cardinality({m \in S : m < a + k}) = (a + k) - a - 1
      BY <1>2, <2>1
    <3> QED
      BY <3>1
  <2>4. \A n \in S : Cardinality({m \in S : m < n}) = k - 1 => n = a + k
    <3>1. SUFFICES ASSUME NEW n \in S, Cardinality({m \in S : m < n}) = k - 1
                   PROVE  n = a + k
      OBVIOUS
    <3>2. n - a - 1 = k - 1
      BY <1>2, <3>1
    <3> QED
      BY <2>2, <3>2
  <2> QED
    BY <2>1, <2>3, <2>4
<1> HIDE DEF S
<1>4. InOrder(S) = [k \in 1 .. b - a |-> a + k]
  BY <1>1, <1>3 DEF InOrder
<1> QED
  BY <1>4 DEF S

LEMMA TimelineGrows ==
    ASSUME NEW a \in Nat, NEW b \in Nat, a <= b
    PROVE  [n \in 1 .. a |-> n] \o InOrder(a + 1 .. b) = [n \in 1 .. b |-> n]
<1> DEFINE f == [n \in 1 .. a |-> n]
           g == [k \in 1 .. b - a |-> a + k]
           h == [n \in 1 .. b |-> n]
<1>1. f \in Seq(Nat) /\ Len(f) = a
  OBVIOUS
<1>2. g \in Seq(Nat) /\ Len(g) = b - a
  <2>1. b - a \in Nat /\ \A k \in 1 .. b - a : a + k \in Nat
    OBVIOUS
  <2> QED
    BY <2>1
<1>3. h \in Seq(Nat) /\ Len(h) = b
  OBVIOUS
<1>4. \A n \in 1 .. a : f[n] = n
  OBVIOUS
<1>5. \A k \in 1 .. b - a : g[k] = a + k
  OBVIOUS
<1>6. \A n \in 1 .. b : h[n] = n
  OBVIOUS
<1> HIDE DEF f, g, h
<1>7. /\ f \o g \in Seq(Nat)
      /\ Len(f \o g) = b
      /\ \A i \in 1 .. b : (f \o g)[i] = IF i <= a THEN f[i] ELSE g[i - a]
  <2>1. /\ f \o g \in Seq(Nat)
        /\ Len(f \o g) = Len(f) + Len(g)
        /\ \A i \in 1 .. Len(f) + Len(g) :
               (f \o g)[i] = IF i <= Len(f) THEN f[i] ELSE g[i - Len(f)]
    BY <1>1, <1>2, ConcatProperties
  <2>2. Len(f) + Len(g) = b
    BY <1>1, <1>2
  <2> QED
    BY <1>1, <2>1, <2>2
<1>8. ASSUME NEW i \in 1 .. b PROVE (f \o g)[i] = h[i]
  <2>1. CASE i <= a
    BY <1>4, <1>6, <1>7, <2>1
  <2>2. CASE ~(i <= a)
    <3>1. i - a \in 1 .. b - a /\ a + (i - a) = i
      BY <2>2
    <3> QED
      BY <1>5, <1>6, <1>7, <2>2, <3>1
  <2> QED
    BY <2>1, <2>2
<1>9. f \o g = h
  BY <1>3, <1>7, <1>8, SeqEqual
<1>10. g = InOrder(a + 1 .. b)
  BY InOrderInterval DEF g
<1> QED
  BY <1>9, <1>10, Zenon DEF f, h

ScreenShapes ==
    /\ OverClients(feed) /\ OverClients(saved) /\ OverClients(saving)
    /\ OverClients(broken) /\ OverClients(seen) /\ OverClients(timeline)
    /\ OverClients(welcome) /\ OverClients(unheard)

ScreenKept(c) ==
    /\ kind'[c] = kind[c] /\ feed'[c] = feed[c] /\ saved'[c] = saved[c]
    /\ saving'[c] = saving[c] /\ broken'[c] = broken[c] /\ seen'[c] = seen[c]
    /\ timeline'[c] = timeline[c] /\ welcome'[c] = welcome[c] /\ unheard'[c] = unheard[c]

\* A terminal has a connection only while its process runs, and a cursor only once
\* it had one.
Process(c) ==
    /\ kind[c] \in {"terminal", "dashboard"}
    /\ feed[c] \in {"off", "joining", "entering", "live"}
    /\ feed[c] # "off" => kind[c] = "terminal"
    /\ saving[c] => feed[c] = "live"
    /\ saved[c] \in Nat
    /\ kind[c] = "terminal" /\ feed[c] = "off" => ~up[c] /\ cursor[c] = 0
    /\ feed[c] = "joining" /\ ~up[c] => cursor[c] = 0

\* The dashboard is sent its snapshot before anything else.
Dashboard(c) ==
    kind[c] = "dashboard" /\ ~AsyncStore =>
        /\ shake[c] # "events"
        /\ Welcomes(wire[c]) \subseteq {1}
        /\ timeline[c] = [n \in 1 .. cursor[c] |-> n]

\* What a terminal whose connection held was told of, up to the cursor: awaited and
\* not yet printed, or printed, or unheard.
Awaited(c) == \A n \in 1 .. cursor[c] : n \in welcome[c] \/ n \in unheard[c]

Printed(c) == \A n \in 1 .. cursor[c] : n > saved[c] => n \in seen[c] \/ n \in unheard[c]

\* A joining feed will be told everything.
Terminal(c) ==
    kind[c] = "terminal" /\ ~AsyncStore =>
        /\ feed[c] = "joining" =>
              \A p \in Welcomes(wire[c]) : wire[c][p].seqs = 1 .. Behind(wire[c], seq) + p - 1
        /\ feed[c] = "entering" => shake[c] = "welcome" /\ Awaited(c)
        /\ feed[c] = "live" /\ ~broken[c] => shake[c] = "welcome" /\ Printed(c)

Screen(c) == Process(c) /\ Dashboard(c) /\ Terminal(c)

ScreenInv == ScreenShapes /\ \A c \in Client : Screen(c)

LEMMA ScreenAside ==
    ASSUME LogInv, NEW c \in Client, Conn(c), Screen(c), ScreenKept(c),
           Untouched(c) \/ Told(c)
    PROVE  Screen(c)'
<1>1. /\ kind'[c] = kind[c] /\ feed'[c] = feed[c] /\ saved'[c] = saved[c]
      /\ saving'[c] = saving[c] /\ broken'[c] = broken[c] /\ seen'[c] = seen[c]
      /\ timeline'[c] = timeline[c] /\ welcome'[c] = welcome[c] /\ unheard'[c] = unheard[c]
  BY DEF ScreenKept
<1>2. /\ up'[c] = up[c] /\ shake'[c] = shake[c] /\ cursor'[c] = cursor[c]
      /\ store' = store
  BY DEF Untouched, Told, SameClient, LogKept, LogGrows
<1>3. AsyncStore' <=> AsyncStore
  BY <1>2 DEF AsyncStore
<1>4. /\ Welcomes(wire'[c]) = Welcomes(wire[c])
      /\ \A p \in Welcomes(wire[c]) :
            wire'[c][p] = wire[c][p] /\ Behind(wire'[c], seq') = Behind(wire[c], seq)
  <2>1. CASE Untouched(c) /\ seq' = seq
    BY <2>1 DEF Untouched
  <2>2. CASE Untouched(c) /\ ~up[c]
    <3>1. wire'[c] = wire[c] /\ wire[c] = <<>>
      BY <2>2 DEF Untouched, Conn, ConnStream
    <3>2. Welcomes(wire[c]) = {}
      BY <3>1 DEF Welcomes
    <3> QED
      BY <3>1, <3>2
  <2>3. CASE Told(c)
    <3>1. /\ wire'[c] = Append(wire[c], Event(seq + 1))
          /\ seq' = seq + 1 /\ seq < MaxSeq /\ seq \in 0 .. MaxSeq
          /\ Stream(wire[c], seq, cursor[c]) /\ wire[c] \in Seq(Frame)
      BY <2>3 DEF Told, LogGrows, LogInv, Conn, ConnTypes, ConnStream
    <3> DEFINE w == wire[c]  v == wire'[c]  at == cursor[c]
    <3>2. /\ Sent(v, w, Event(seq + 1)) /\ seq \in SeqNumber /\ seq < MaxSeq
          /\ Stream(w, seq, at) /\ w \in Seq(Frame)
      BY <3>1 DEF Sent, SeqNumber
    <3> HIDE DEF v, w, at
    <3>3. /\ Welcomes(v) = Welcomes(w)
          /\ Behind(v, seq + 1) = Behind(w, seq)
          /\ \A k \in 1 .. Len(w) : v[k] = w[k]
      BY <3>2, EventAppended
    <3>4. \A p \in Welcomes(w) : v[p] = w[p]
      BY <3>3 DEF Welcomes
    <3> QED
      BY <3>1, <3>3, <3>4 DEF v, w
  <2> QED
    BY <2>1, <2>2, <2>3 DEF Untouched, LogKept
<1>5. Process(c)'
  BY <1>1, <1>2 DEF Screen, Process
<1>6. Dashboard(c)'
  BY <1>1, <1>2, <1>3, <1>4 DEF Screen, Dashboard
<1>7. Terminal(c)'
  BY <1>1, <1>2, <1>3, <1>4 DEF Screen, Terminal, Awaited, Printed
<1> QED
  BY <1>5, <1>6, <1>7 DEF Screen

\* What is known of client c around one of its own steps.
Around(c) ==
    LogInv /\ LogInv' /\ Conn(c) /\ Conn(c)' /\ Whole(c) /\ Whole(c)' /\ Screen(c)

LEMMA ScreenReads ==
    ASSUME NEW c \in Client, Around(c), ScreenKept(c), Asked(c) \/ Answered(c)
    PROVE  Screen(c)'
<1>1. /\ up'[c] = up[c] /\ cursor'[c] = cursor[c] /\ store' = store
  BY DEF Asked, Answered, SameClient, LogKept
<1>2. AsyncStore /\ AsyncStore'
  BY <1>1 DEF Asked, Answered, Around, Whole, AsyncStore
<1> QED
  BY <1>1, <1>2 DEF Around, Screen, Process, Dashboard, Terminal, ScreenKept

LEMMA ScreenStarts ==
    ASSUME NEW c \in Client, Around(c), ScreenShapes, StartFeed(c)
    PROVE  Screen(c)'
<1>1. /\ kind[c] = "terminal" /\ feed[c] = "off" /\ feed'[c] = "joining"
      /\ UNCHANGED <<vars, kind, saved, saving, welcome, unheard, broken, seen, timeline>>
  BY DEF StartFeed, ScreenShapes, OverClients
<1>2. ~up[c] /\ cursor[c] = 0 /\ ~saving[c]
  BY <1>1 DEF Around, Screen, Process
<1>3. Welcomes(wire[c]) = {}
  <2>1. wire[c] = <<>>
    BY <1>2 DEF Around, Conn, ConnStream
  <2> QED
    BY <2>1 DEF Welcomes
<1>4. UNCHANGED <<up, wire, cursor, shake, seq, store>>
  BY <1>1 DEF vars, log, clients
<1>5. Process(c)'
  BY <1>1, <1>2, <1>4 DEF Around, Screen, Process
<1>6. Dashboard(c)' /\ Terminal(c)'
  BY <1>1, <1>3, <1>4 DEF Dashboard, Terminal
<1> QED
  BY <1>5, <1>6 DEF Screen

LEMMA ScreenConnects ==
    ASSUME NEW c \in Client, Around(c), ScreenKept(c), Connected(c), feed[c] # "off"
    PROVE  Screen(c)'
<1>1. /\ ~up[c] /\ up'[c] = TRUE /\ shake'[c] = shake[c] /\ cursor'[c] = cursor[c]
      /\ store' = store
  BY DEF Connected, SameClient, LogGrows, LogKept
<1>2. kind[c] = "terminal" /\ shake[c] = "none"
  BY <1>1 DEF Around, Screen, Process, Conn, ConnStream
<1>3. AsyncStore' <=> AsyncStore
  BY <1>1 DEF AsyncStore
<1>4. Process(c)'
  BY <1>1, <1>2 DEF Around, Screen, Process, ScreenKept
<1>5. Dashboard(c)'
  BY <1>2 DEF Dashboard, ScreenKept
<1>6. Terminal(c)'
  <2>1. SUFFICES ASSUME ~AsyncStore'
                 PROVE /\ feed'[c] = "joining" =>
                            \A p \in Welcomes(wire'[c]) :
                                wire'[c][p].seqs = 1 .. Behind(wire'[c], seq') + p - 1
                       /\ ~(feed'[c] = "live" /\ ~broken'[c]) /\ feed'[c] # "entering"
    BY DEF Terminal
  <2>2. ~(feed[c] = "live" /\ ~broken[c]) /\ feed[c] # "entering"
    BY <1>2, <1>3, <2>1 DEF Around, Screen, Terminal
  <2>3. ASSUME feed[c] = "joining", NEW p \in Welcomes(wire'[c])
        PROVE  wire'[c][p].seqs = 1 .. Behind(wire'[c], seq') + p - 1
    <3>1. cursor'[c] = 0
      BY <1>1, <2>3 DEF Around, Screen, Process
    <3>2. wire'[c][p].seqs = cursor'[c] + 1 .. Behind(wire'[c], seq') + p - 1
      BY <1>1, <1>2, <2>1, <2>3 DEF Around, Whole
    <3>3. cursor'[c] + 1 = 1
      BY <3>1
    <3> QED
      BY <3>2, <3>3
  <2> QED
    BY <2>2, <2>3 DEF ScreenKept
<1> QED
  BY <1>4, <1>5, <1>6 DEF Screen

\* How a frame that arrives lies to what its client has.
LEMMA FrameRead ==
    ASSUME LogInv, LogInv', NEW c \in Client, Conn(c), Whole(c), Received(c)
    PROVE  /\ up[c] /\ up'[c] = TRUE /\ store' = store
           /\ cursor[c] \in Nat /\ cursor'[c] \in Nat /\ cursor[c] <= cursor'[c]
           /\ cursor'[c] = Behind(wire'[c], seq')
           /\ Head(wire[c]).type \in {"event", "welcome"}
           /\ Head(wire[c]).type = "event" =>
                 /\ Head(wire[c]).seqs = {cursor'[c]}
                 /\ shake[c] = "welcome" => cursor'[c] = cursor[c] + 1
                 /\ shake'[c] # "none" /\ (shake[c] = "welcome" => shake'[c] = "welcome")
                 /\ 1 \notin Welcomes(wire[c])
                 /\ \A q \in Welcomes(wire'[c]) :
                       /\ q + 1 \in Welcomes(wire[c])
                       /\ wire'[c][q] = wire[c][q + 1]
                       /\ Behind(wire'[c], seq') + q - 1 = Behind(wire[c], seq) + (q + 1) - 1
           /\ Head(wire[c]).type = "welcome" =>
                 /\ shake'[c] = "welcome" /\ shake[c] # "welcome"
                 /\ Welcomes(wire'[c]) = {}
                 /\ 1 \in Welcomes(wire[c]) /\ Head(wire[c]) = wire[c][1]
                 /\ cursor'[c] = Behind(wire[c], seq) + 1 - 1
<1> DEFINE w == wire[c]
<1>1. /\ store' = store /\ seq' = seq /\ seq \in 0 .. MaxSeq /\ seq \in Nat
      /\ up'[c] = up[c] /\ wire'[c] = Tail(w) /\ w # <<>>
  BY StreamNumbers DEF Received, LogKept, LogInv
<1>2. shake'[c] = IF Head(w).type = "welcome" THEN "welcome"
                  ELSE IF shake[c] = "none" THEN "events" ELSE shake[c]
  BY DEF Received
<1>3. /\ w \in Seq(Frame) /\ cursor[c] \in Nat /\ Stream(w, seq, cursor[c])
      /\ cursor[c] <= Behind(w, seq)
      /\ shake[c] \in {"none", "events", "welcome"}
      /\ shake[c] # "none" => cursor[c] = Behind(w, seq)
      /\ shake[c] = "welcome" => Welcomes(w) = {}
      /\ up[c] /\ up[c] \in BOOLEAN
  BY <1>1, StreamNumbers DEF Conn, ConnTypes, ConnStream
<1>4. /\ cursor'[c] = Behind(Tail(w), seq)
      /\ Head(w).type = "event" =>
            /\ Head(w).seqs = {Behind(w, seq) + 1}
            /\ cursor'[c] = Behind(w, seq) + 1
      /\ Head(w).type = "welcome" => cursor'[c] = Behind(w, seq)
  BY <1>1, ConnReceived
<1> HIDE DEF w
<1>5. /\ Len(w) \in Nat /\ Len(Tail(w)) = Len(w) - 1
      /\ \A k \in 1 .. Len(Tail(w)) : Tail(w)[k] = w[k + 1]
      /\ Head(w) = w[1]
      /\ Head(w) \in Frame
      /\ Head(w).type = "event" =>
            /\ Behind(Tail(w), seq) = Behind(w, seq) + 1
            /\ Welcomes(Tail(w)) = {p - 1 : p \in Welcomes(w)}
            /\ 1 \notin Welcomes(w)
      /\ Head(w).type = "welcome" =>
            /\ Welcomes(w) = {1}
            /\ Welcomes(Tail(w)) = {}
  <2>1. Len(w) \in Nat
    BY <1>3, LenProperties
  <2> QED
    BY <1>1, <1>3, <2>1, FrameArrives
<1>6. Behind(w, seq) \in Int
  BY <1>1, <1>3, BehindBounded
<1>7. Head(w).type \in {"event", "welcome"}
  BY <1>5 DEF Frame
<1>8. cursor'[c] \in Nat /\ cursor[c] <= cursor'[c]
  BY <1>3, <1>4, <1>6, <1>7
<1>9. CASE Head(w).type = "event"
  <2>1. ASSUME NEW q \in Welcomes(Tail(w))
        PROVE  /\ q + 1 \in Welcomes(w)
               /\ Tail(w)[q] = w[q + 1]
               /\ Behind(Tail(w), seq) + q - 1 = Behind(w, seq) + (q + 1) - 1
    <3>1. q \in 1 .. Len(Tail(w)) /\ q \in Nat
      BY <1>5 DEF Welcomes
    <3>2. PICK p \in Welcomes(w) : q = p - 1
      BY <1>5, <1>9, <2>1
    <3>3. p \in Int
      BY <1>5 DEF Welcomes
    <3>4. p = q + 1
      BY <3>1, <3>2, <3>3
    <3> QED
      BY <1>5, <1>6, <1>9, <3>1, <3>2, <3>4
  <2> QED
    BY <1>1, <1>2, <1>3, <1>4, <1>5, <1>7, <1>8, <1>9, <2>1 DEF w
<1>10. CASE Head(w).type = "welcome"
  <2>1. cursor'[c] = Behind(w, seq) + 1 - 1
    BY <1>4, <1>6, <1>10
  <2> QED
    BY <1>1, <1>2, <1>3, <1>4, <1>5, <1>7, <1>8, <1>10, <2>1 DEF w
<1> QED
  BY <1>7, <1>9, <1>10

LEMMA ScreenHears ==
    ASSUME NEW c \in Client, Around(c), ScreenShapes, Received(c), Hear(c)
    PROVE  Screen(c)'
<1> DEFINE frame == Head(wire[c])
<1>1. /\ kind[c] = "terminal" /\ UNCHANGED <<kind, feeds, saved, broken, timeline>>
      /\ \/ AwaitWelcome(c, frame) /\ UNCHANGED <<seen, saving>>
         \/ FollowRoom(c, frame)
  BY DEF Hear
<1>2. /\ up[c] /\ up'[c] = TRUE /\ store' = store
      /\ cursor[c] \in Nat /\ cursor'[c] \in Nat /\ cursor[c] <= cursor'[c]
      /\ frame.type \in {"event", "welcome"}
      /\ frame.type = "event" =>
            /\ frame.seqs = {cursor'[c]}
            /\ shake[c] = "welcome" => cursor'[c] = cursor[c] + 1
            /\ shake'[c] # "none" /\ (shake[c] = "welcome" => shake'[c] = "welcome")
            /\ \A q \in Welcomes(wire'[c]) :
                  /\ q + 1 \in Welcomes(wire[c])
                  /\ wire'[c][q] = wire[c][q + 1]
                  /\ Behind(wire'[c], seq') + q - 1 = Behind(wire[c], seq) + (q + 1) - 1
      /\ frame.type = "welcome" =>
            /\ shake'[c] = "welcome" /\ shake[c] # "welcome"
            /\ 1 \in Welcomes(wire[c]) /\ frame = wire[c][1]
            /\ cursor'[c] = Behind(wire[c], seq) + 1 - 1
  BY FrameRead DEF Around
<1> HIDE DEF frame
<1>3. AsyncStore' <=> AsyncStore
  BY <1>2 DEF AsyncStore
<1>4. Dashboard(c)'
  BY <1>1 DEF Dashboard
<1>5. CASE /\ feed[c] = "joining" /\ frame.type = "event"
           /\ UNCHANGED <<feed, welcome, unheard, seen, saving>>
  <2>1. Process(c)'
    BY <1>1, <1>2, <1>5 DEF Around, Screen, Process
  <2>2. Terminal(c)'
    BY <1>1, <1>2, <1>3, <1>5 DEF Around, Screen, Terminal
  <2> QED
    BY <1>4, <2>1, <2>2 DEF Screen
<1>6. CASE /\ feed[c] = "joining" /\ frame.type = "welcome"
           /\ AwaitWelcome(c, frame) /\ UNCHANGED <<seen, saving>>
  <2>1. feed'[c] = "entering" /\ welcome'[c] = frame.seqs
    BY <1>6 DEF AwaitWelcome, ScreenShapes, OverClients
  <2>2. Process(c)'
    BY <1>1, <1>2, <1>6, <2>1 DEF Around, Screen, Process
  <2>3. ~AsyncStore => frame.seqs = 1 .. cursor'[c]
    BY <1>1, <1>2, <1>6 DEF Around, Screen, Terminal
  <2>4. ~AsyncStore => Awaited(c)'
    BY <2>1, <2>3 DEF Awaited
  <2>5. Terminal(c)'
    BY <1>1, <1>2, <1>3, <1>6, <2>1, <2>4 DEF Terminal
  <2> QED
    BY <1>4, <2>2, <2>5 DEF Screen
<1>7. CASE /\ feed[c] = "entering"
           /\ AwaitWelcome(c, frame) /\ UNCHANGED <<seen, saving>>
  <2>1. /\ UNCHANGED <<feed, welcome>>
        /\ unheard'[c] = unheard[c] \cup frame.seqs
    BY <1>7 DEF AwaitWelcome, ScreenShapes, OverClients
  <2>2. Process(c)'
    BY <1>1, <1>2, <1>7, <2>1 DEF Around, Screen, Process
  <2>3. ASSUME ~AsyncStore PROVE shake'[c] = "welcome" /\ Awaited(c)'
    <3>1. shake[c] = "welcome" /\ \A n \in 1 .. cursor[c] : n \in welcome[c] \/ n \in unheard[c]
      BY <1>1, <1>7, <2>3 DEF Around, Screen, Terminal, Awaited
    <3>2. shake'[c] = "welcome" /\ cursor'[c] = cursor[c] + 1 /\ frame.seqs = {cursor'[c]}
      BY <1>2, <3>1
    <3>3. \A n \in 1 .. cursor'[c] : n \in 1 .. cursor[c] \/ n = cursor'[c]
      BY <1>2, <3>2
    <3>4. \A n \in 1 .. cursor'[c] : n \in welcome'[c] \/ n \in unheard'[c]
      BY <2>1, <3>1, <3>2, <3>3
    <3> QED
      BY <3>2, <3>4 DEF Awaited
  <2>4. Terminal(c)'
    BY <1>1, <1>3, <1>7, <2>1, <2>3 DEF Terminal
  <2> QED
    BY <1>4, <2>2, <2>4 DEF Screen
<1>8. CASE FollowRoom(c, frame)
  <2>1. /\ feed[c] = "live" /\ UNCHANGED <<feed, welcome, unheard>>
        /\ frame.type = "event" => seen'[c] = seen[c] \cup frame.seqs
        /\ frame.type # "event" => UNCHANGED <<seen, saving>>
    BY <1>8 DEF FollowRoom, ScreenShapes, OverClients
  <2>2. Process(c)'
    BY <1>1, <1>2, <2>1 DEF Around, Screen, Process
  <2>3. ASSUME ~AsyncStore, ~broken[c]
        PROVE  shake'[c] = "welcome" /\ Printed(c)'
    <3>1. /\ shake[c] = "welcome"
          /\ \A n \in 1 .. cursor[c] : n > saved[c] => n \in seen[c] \/ n \in unheard[c]
      BY <1>1, <2>1, <2>3 DEF Around, Screen, Terminal, Printed
    <3>2. frame.type = "event" /\ shake'[c] = "welcome" /\ cursor'[c] = cursor[c] + 1
      BY <1>2, <3>1
    <3>3. seen'[c] = seen[c] \cup {cursor'[c]}
      BY <1>2, <2>1, <3>2
    <3>4. \A n \in 1 .. cursor'[c] : n \in 1 .. cursor[c] \/ n = cursor'[c]
      BY <1>2, <3>2
    <3>5. \A n \in 1 .. cursor'[c] : n > saved'[c] => n \in seen'[c] \/ n \in unheard'[c]
      BY <1>1, <2>1, <3>1, <3>3, <3>4
    <3> QED
      BY <3>2, <3>5 DEF Printed
  <2>4. Terminal(c)'
    BY <1>1, <1>3, <2>1, <2>3 DEF Terminal
  <2> QED
    BY <1>4, <2>2, <2>4 DEF Screen
<1> QED
  BY <1>1, <1>5, <1>6, <1>8, <1>7 DEF AwaitWelcome

LEMMA ScreenEnters ==
    ASSUME NEW c \in Client, Around(c), ScreenShapes, EnterRoomFeed(c)
    PROVE  Screen(c)'
<1>1. /\ feed[c] = "entering" /\ feed'[c] = "live"
      /\ seen'[c] = seen[c] \cup {n \in welcome[c] : n > saved[c]}
      /\ UNCHANGED <<vars, kind, saved, saving, welcome, unheard, broken, timeline>>
  BY DEF EnterRoomFeed, ScreenShapes, OverClients
<1>2. UNCHANGED <<up, wire, cursor, shake, seq, store>>
  BY <1>1 DEF vars, log, clients
<1>3. kind[c] = "terminal" /\ Process(c)'
  BY <1>1, <1>2 DEF Around, Screen, Process
<1>4. Dashboard(c)'
  BY <1>1, <1>3 DEF Dashboard
<1>5. ~AsyncStore => shake[c] = "welcome" /\ Awaited(c)
  BY <1>1, <1>3 DEF Around, Screen, Terminal
<1>6. ~AsyncStore => Printed(c)'
  BY <1>1, <1>2, <1>5 DEF Awaited, Printed
<1>7. Terminal(c)'
  BY <1>1, <1>2, <1>5, <1>6 DEF Terminal, AsyncStore
<1> QED
  BY <1>3, <1>4, <1>7 DEF Screen

LEMMA ScreenSaves ==
    ASSUME NEW c \in Client, Around(c), ScreenShapes, SavePosition(c)
    PROVE  Screen(c)'
<1>1. /\ saving[c] /\ saving'[c] = FALSE /\ saved'[c] = cursor[c]
      /\ UNCHANGED <<vars, kind, feed, welcome, unheard, broken, seen, timeline>>
  BY DEF SavePosition, ScreenShapes, OverClients
<1>2. cursor[c] \in Nat
  BY StreamNumbers DEF Around, Conn, ConnTypes
<1>3. UNCHANGED <<up, wire, cursor, shake, seq, store>>
  BY <1>1 DEF vars, log, clients
<1>4. Process(c)'
  BY <1>1, <1>2, <1>3 DEF Around, Screen, Process
<1>5. \A n \in 1 .. cursor[c] : ~(n > cursor[c])
  BY <1>2
<1>6. Terminal(c)' /\ Dashboard(c)'
  BY <1>1, <1>3, <1>5 DEF Around, Screen, Process, Terminal, Printed, Dashboard, AsyncStore
<1> QED
  BY <1>4, <1>6 DEF Screen

LEMMA ScreenEnds ==
    ASSUME NEW c \in Client, Around(c), Shapes, ScreenShapes, EndFeed(c), feed[c] # "off",
           saved'[c] \in {saved[c], cursor[c]}
    PROVE  Screen(c)'
<1>1. /\ feed'[c] = "off" /\ saving'[c] = FALSE /\ kind' = kind
      /\ ~up'[c] /\ cursor'[c] = 0
  BY DEF EndFeed, Shapes, ScreenShapes, OverClients
<1>2. kind[c] = "terminal" /\ saved[c] \in Nat /\ cursor[c] \in Nat
  BY StreamNumbers DEF Around, Screen, Process, Conn, ConnTypes
<1>3. Process(c)'
  BY <1>1, <1>2 DEF Process
<1>4. Dashboard(c)' /\ Terminal(c)'
  BY <1>1, <1>2 DEF Dashboard, Terminal
<1> QED
  BY <1>3, <1>4 DEF Screen

LEMMA ScreenLoses ==
    ASSUME NEW c \in Client, Around(c), ScreenShapes, Closed(c), LoseTerminal(c)
    PROVE  Screen(c)'
<1>1. /\ feed[c] = "live" /\ broken'[c] = TRUE
      /\ UNCHANGED <<kind, feed, saved, saving, welcome, unheard, seen, timeline>>
  BY DEF LoseTerminal, ScreenShapes, OverClients
<1>2. kind[c] = "terminal"
  BY <1>1 DEF Around, Screen, Process
<1>3. Process(c)'
  BY <1>1, <1>2 DEF Around, Screen, Process
<1>4. Dashboard(c)' /\ Terminal(c)'
  BY <1>1, <1>2 DEF Dashboard, Terminal
<1> QED
  BY <1>3, <1>4 DEF Screen

LEMMA ScreenUnplugged ==
    ASSUME NEW c \in Client, Around(c), ScreenKept(c), Drop(c), Closed(c), kind[c] = "dashboard"
    PROVE  Screen(c)'
<1>1. /\ up'[c] = FALSE /\ wire'[c] = <<>> /\ shake'[c] = "none" /\ cursor'[c] = cursor[c]
      /\ store' = store
  BY DEF Closed, Drop, LogKept
<1>2. Welcomes(wire'[c]) = {}
  BY <1>1 DEF Welcomes
<1>3. Process(c)'
  BY <1>1 DEF Around, Screen, Process, ScreenKept
<1>4. Dashboard(c)'
  BY <1>1, <1>2 DEF Around, Screen, Dashboard, ScreenKept, AsyncStore
<1>5. Terminal(c)'
  BY DEF Terminal, ScreenKept
<1> QED
  BY <1>3, <1>4, <1>5 DEF Screen

LEMMA ScreenWatches ==
    ASSUME NEW c \in Client, Around(c), ScreenKept(c), Connected(c), LogKept,
           kind[c] = "dashboard"
    PROVE  Screen(c)'
<1>1. /\ ~up[c] /\ up'[c] = TRUE /\ shake'[c] = shake[c] /\ cursor'[c] = cursor[c]
      /\ store' = store
  BY DEF Connected, SameClient, LogKept
<1>2. shake[c] = "none" /\ feed[c] = "off"
  BY <1>1 DEF Around, Screen, Process, Conn, ConnStream
<1>3. Process(c)'
  BY <1>1, <1>2 DEF Around, Screen, Process, ScreenKept
<1>4. Terminal(c)'
  BY DEF Terminal, ScreenKept
<1>5. ASSUME ~AsyncStore PROVE Welcomes(wire'[c]) \subseteq {1}
  <2>1. Greeting(c) = <<>>
    BY Greetings DEF Around
  <2>2. PICK S : wire'[c] = Append(<<>>, Welcome(S))
    BY <1>5, <2>1 DEF Connected, Greeted
  <2>3. Len(wire'[c]) = 1
    BY <2>2
  <2> QED
    BY <2>3 DEF Welcomes
<1>6. Dashboard(c)'
  BY <1>1, <1>2, <1>5 DEF Around, Screen, Dashboard, ScreenKept, AsyncStore
<1> QED
  BY <1>3, <1>4, <1>6 DEF Screen

LEMMA ScreenShows ==
    ASSUME NEW c \in Client, Around(c), ScreenShapes, Received(c), ShowInTimeline(c)
    PROVE  Screen(c)'
<1> DEFINE frame == Head(wire[c])
<1>1. /\ kind[c] = "dashboard" /\ UNCHANGED <<kind, feed, saved, saving, broken, seen>>
      /\ timeline'[c] = timeline[c] \o InOrder(frame.seqs)
  BY DEF ShowInTimeline, ScreenShapes, OverClients
<1>2. /\ up[c] /\ up'[c] = TRUE /\ store' = store
      /\ cursor[c] \in Nat /\ cursor'[c] \in Nat /\ cursor[c] <= cursor'[c]
      /\ frame.type \in {"event", "welcome"}
      /\ frame.type = "event" =>
            /\ frame.seqs = {cursor'[c]}
            /\ shake[c] = "welcome" => cursor'[c] = cursor[c] + 1
            /\ shake'[c] # "none" /\ (shake[c] = "welcome" => shake'[c] = "welcome")
            /\ 1 \notin Welcomes(wire[c])
            /\ \A q \in Welcomes(wire'[c]) : q + 1 \in Welcomes(wire[c])
      /\ frame.type = "welcome" =>
            /\ shake'[c] = "welcome" /\ shake[c] # "welcome"
            /\ Welcomes(wire'[c]) = {}
            /\ 1 \in Welcomes(wire[c]) /\ frame = wire[c][1]
            /\ cursor'[c] = Behind(wire[c], seq) + 1 - 1
  BY FrameRead DEF Around
<1> HIDE DEF frame
<1>3. AsyncStore' <=> AsyncStore
  BY <1>2 DEF AsyncStore
<1>4. Process(c)'
  BY <1>1, <1>2 DEF Around, Screen, Process
<1>5. Terminal(c)'
  BY <1>1 DEF Terminal
<1>6. SUFFICES ASSUME ~AsyncStore PROVE Dashboard(c)'
  BY <1>3, <1>4, <1>5 DEF Screen, Dashboard
<1>7. /\ shake[c] # "events" /\ Welcomes(wire[c]) \subseteq {1}
      /\ timeline[c] = [n \in 1 .. cursor[c] |-> n]
      /\ shake[c] \in {"none", "events", "welcome"}
  BY <1>1, <1>6 DEF Around, Screen, Dashboard, Conn, ConnTypes
<1>8. shake'[c] = "welcome" /\ Welcomes(wire'[c]) = {} /\ frame.seqs = cursor[c] + 1 .. cursor'[c]
  <2>1. CASE frame.type = "event"
    <3>1. Welcomes(wire[c]) = {}
      BY <1>2, <1>7, <2>1
    <3>2. shake[c] = "welcome"
      BY <1>2, <1>6, <3>1 DEF Around, Conn, ConnStream, Whole
    <3>3. cursor'[c] = cursor[c] + 1 /\ {cursor'[c]} = cursor'[c] .. cursor'[c]
      BY <1>2, <2>1, <3>2
    <3> QED
      BY <1>2, <2>1, <3>1, <3>2, <3>3
  <2>2. CASE frame.type = "welcome"
    <3>1. shake[c] = "none"
      BY <1>2, <1>7, <2>2
    <3>2. frame.seqs = cursor[c] + 1 .. Behind(wire[c], seq) + 1 - 1
      BY <1>2, <1>6, <2>2, <3>1 DEF Around, Whole
    <3> QED
      BY <1>2, <2>2, <3>2
  <2> QED
    BY <1>2, <2>1, <2>2
<1>9. timeline'[c] = [n \in 1 .. cursor'[c] |-> n]
  <2>1. timeline'[c] = [n \in 1 .. cursor[c] |-> n] \o InOrder(cursor[c] + 1 .. cursor'[c])
    BY <1>1, <1>7, <1>8, Zenon
  <2> QED
    BY <1>2, <2>1, TimelineGrows, Zenon
<1> QED
  BY <1>8, <1>9 DEF Dashboard

\* Every step leaves the screens of the other clients as they are.
LEMMA ScreensStep ==
    ASSUME "sqlite" \notin FailingStores, WithinOneRead,
           StreamInv, WholeInv, ScreenInv, ReadersNext
    PROVE  ScreenInv'
<1> DEFINE Done == ScreenInv'
           Mine(c) == \A d \in Client \ {c} : ScreenKept(d) /\ (Untouched(d) \/ Told(d))
<1>1. /\ LogInv /\ LogInv' /\ Shapes /\ ScreenShapes
      /\ \A c \in Client : Conn(c) /\ Conn(c)' /\ Whole(c) /\ Whole(c)' /\ Screen(c)
  BY StreamGoesOn, WholeGoesOn DEF StreamInv, WholeInv, ScreenInv
<1>2. \A c \in Client : Around(c)
  BY <1>1 DEF Around
<1>3. ASSUME NEW c \in Client, Mine(c), Screen(c)', ScreenShapes' PROVE ScreenInv'
  BY <1>1, <1>3, ScreenAside DEF ScreenInv
<1>4. ASSUME UNCHANGED screens PROVE ScreenShapes' /\ \A d \in Client : ScreenKept(d)
  BY <1>1, <1>4 DEF screens, ScreenShapes, OverClients, ScreenKept
<1>5. CASE AppendEvent /\ UNCHANGED screens
  BY <1>1, <1>4, <1>5, AppendReaches, ScreenAside DEF ScreenInv
<1>6. CASE StoreWrite /\ UNCHANGED screens
  BY <1>1, <1>4, <1>6, WriteReaches, ScreenAside DEF ScreenInv
<1>7. ASSUME NEW c \in Client, Reads(c) PROVE Done
  <2>1. ScreenShapes' /\ (\A d \in Client : ScreenKept(d)) /\ (StoreRead(c) \/ ReadAnswered(c))
    BY <1>4, <1>7 DEF Reads
  <2>2. (Asked(c) \/ Answered(c)) /\ \A d \in Client \ {c} : Untouched(d)
    BY <1>1, <2>1, StoreReadReaches, AnswerReaches
  <2> QED
    BY <1>2, <1>3, <2>1, <2>2, ScreenReads
<1>8. ASSUME NEW c \in Client, StartFeed(c) \/ EnterRoomFeed(c) \/ SavePosition(c) PROVE Done
  <2>1. UNCHANGED vars
    BY <1>8 DEF StartFeed, EnterRoomFeed, SavePosition
  <2>2. \A d \in Client : Untouched(d)
    BY <1>1, <2>1, NothingReaches
  <2>3. ScreenShapes' /\ \A d \in Client \ {c} : ScreenKept(d)
    BY <1>1, <1>8
       DEF StartFeed, EnterRoomFeed, SavePosition, ScreenShapes, OverClients, ScreenKept
  <2> QED
    BY <1>1, <1>2, <1>3, <1>8, <2>2, <2>3, ScreenStarts, ScreenEnters,
       ScreenSaves
<1>9. ASSUME NEW c \in Client, Connect(c) PROVE Done
  <2>1. feed[c] # "off" /\ ScreenShapes' /\ (\A d \in Client : ScreenKept(d))
    BY <1>4, <1>9 DEF Connect
  <2>2. Connected(c) /\ \A d \in Client \ {c} : Untouched(d) \/ Told(d)
    BY <1>1, <1>9, ReconnectReaches
  <2> QED
    BY <1>2, <1>3, <2>1, <2>2, ScreenConnects
<1>10. ASSUME NEW c \in Client, Hear(c) PROVE Done
  <2>1. Received(c) /\ \A d \in Client \ {c} : Untouched(d)
    BY <1>1, <1>10, ReceiveReaches DEF Hear
  <2>2. ScreenShapes' /\ \A d \in Client \ {c} : ScreenKept(d)
    BY <1>1, <1>10 DEF Hear, AwaitWelcome, FollowRoom, ScreenShapes, OverClients, ScreenKept
  <2> QED
    BY <1>1, <1>2, <1>3, <1>10, <2>1, <2>2, ScreenHears
<1>11. ASSUME NEW c \in Client, ShowInTimeline(c) PROVE Done
  <2>1. Received(c) /\ \A d \in Client \ {c} : Untouched(d)
    BY <1>1, <1>11, ReceiveReaches DEF ShowInTimeline
  <2>2. ScreenShapes' /\ \A d \in Client \ {c} : ScreenKept(d)
    BY <1>1, <1>11 DEF ShowInTimeline, ScreenShapes, OverClients, ScreenKept
  <2> QED
    BY <1>1, <1>2, <1>3, <1>11, <2>1, <2>2, ScreenShows
<1>12. ASSUME NEW c \in Client, Quit(c) \/ KillFeed(c) PROVE Done
  <2>1. /\ EndFeed(c) /\ feed[c] # "off"
        /\ saved' = [saved EXCEPT ![c] = cursor[c]] \/ saved' = saved
    BY <1>12 DEF Quit, KillFeed
  <2>2. \A d \in Client \ {c} : Untouched(d)
    BY <1>1, <2>1, EndReaches
  <2>3. ScreenShapes' /\ \A d \in Client \ {c} : ScreenKept(d)
    BY <1>1, <2>1 DEF EndFeed, ScreenShapes, OverClients, ScreenKept
  <2>4. saved'[c] \in {saved[c], cursor[c]}
    BY <1>1, <2>1 DEF ScreenShapes, OverClients
  <2> QED
    BY <1>1, <1>2, <1>3, <2>1, <2>2, <2>3, <2>4, ScreenEnds
<1>13. ASSUME NEW c \in Client, LoseTerminal(c) PROVE Done
  <2>1. Closed(c) /\ \A d \in Client \ {c} : Untouched(d)
    BY <1>1, <1>13, DropReaches DEF LoseTerminal
  <2>2. ScreenShapes' /\ \A d \in Client \ {c} : ScreenKept(d)
    BY <1>1, <1>13 DEF LoseTerminal, ScreenShapes, OverClients, ScreenKept
  <2> QED
    BY <1>1, <1>2, <1>3, <1>13, <2>1, <2>2, ScreenLoses
<1>14. ASSUME NEW c \in Client, WatchRoom(c) PROVE Done
  <2>1. kind[c] = "dashboard" /\ ScreenShapes' /\ (\A d \in Client : ScreenKept(d))
    BY <1>4, <1>14 DEF WatchRoom
  <2>2. Connected(c) /\ LogKept /\ \A d \in Client \ {c} : Untouched(d)
    BY <1>1, <1>14, WatchReaches
  <2> QED
    BY <1>2, <1>3, <2>1, <2>2, ScreenWatches
<1>15. ASSUME NEW c \in Client, LoseDashboard(c) PROVE Done
  <2>1. /\ kind[c] = "dashboard" /\ Drop(c) /\ ScreenShapes'
        /\ (\A d \in Client : ScreenKept(d))
    BY <1>4, <1>15 DEF LoseDashboard
  <2>2. Closed(c) /\ \A d \in Client \ {c} : Untouched(d)
    BY <1>1, <2>1, DropReaches
  <2> QED
    BY <1>2, <1>3, <2>1, <2>2, ScreenUnplugged
<1> QED
  BY <1>5, <1>6, <1>7, <1>8, <1>9, <1>10, <1>11, <1>12, <1>13, <1>14, <1>15 DEF ReadersNext

LEMMA ScreensBegin == ReadersInit => ScreenInv
<1> SUFFICES ASSUME ReadersInit PROVE ScreenInv
  OBVIOUS
<1>1. ScreenShapes
  BY DEF ReadersInit, ScreenShapes, OverClients
<1>2. ASSUME NEW c \in Client PROVE Screen(c)
  <2>1. /\ kind[c] \in {"terminal", "dashboard"} /\ feed[c] = "off" /\ saved[c] = 0
        /\ saving[c] = FALSE /\ timeline[c] = <<>>
        /\ up[c] = FALSE /\ wire[c] = <<>> /\ shake[c] = "none" /\ cursor[c] = 0
    BY StreamNumbers DEF ReadersInit, Init
  <2>2. Welcomes(wire[c]) = {}
    BY <2>1 DEF Welcomes
  <2>3. [n \in 1 .. 0 |-> n] = <<>>
    OBVIOUS
  <2>4. timeline[c] = [n \in 1 .. cursor[c] |-> n]
    BY <2>1, <2>3, Zenon
  <2> QED
    BY <2>1, <2>2, <2>4 DEF Screen, Process, Dashboard, Terminal
<1> QED
  BY <1>1, <1>2 DEF ScreenInv

LEMMA ScreensGoOn ==
    ASSUME "sqlite" \notin FailingStores
    PROVE  StreamInv /\ WholeInv /\ WithinOneRead /\ ScreenInv /\ [ReadersNext]_readers
              => ScreenInv'
<1>1. SUFFICES ASSUME StreamInv, WholeInv, WithinOneRead, ScreenInv, [ReadersNext]_readers
               PROVE ScreenInv'
  OBVIOUS
<1>2. CASE ReadersNext
  BY <1>1, <1>2, ScreensStep
<1>3. CASE UNCHANGED readers
  <2>1. UNCHANGED vars /\ UNCHANGED screens
    BY <1>3 DEF readers
  <2>2. \A d \in Client : Untouched(d)
    BY <1>1, <2>1, NothingReaches DEF StreamInv
  <2>3. ScreenShapes' /\ \A d \in Client : ScreenKept(d)
    BY <1>1, <2>1 DEF ScreenInv, screens, ScreenShapes, OverClients, ScreenKept
  <2> QED
    BY <1>1, <2>2, <2>3, ScreenAside DEF ScreenInv, StreamInv
<1> QED
  BY <1>1, <1>2, <1>3

LEMMA ScreensAlways ==
    ASSUME "sqlite" \notin FailingStores
    PROVE  ReadersSpec /\ []WithinOneRead => []ScreenInv
<1>1. StreamInv /\ WholeInv /\ WithinOneRead /\ ScreenInv /\ [ReadersNext]_readers => ScreenInv'
  BY ScreensGoOn
<1> QED
  BY <1>1, ScreensBegin, StreamAlways, WholeAlways, PTL DEF ReadersSpec

\* Under the same conditions the timeline of a dashboard is the history of the
\* room: every event up to the last one, in order and once.
THEOREM TheWholeTimeline ==
    ASSUME "sqlite" \notin FailingStores
    PROVE  ReadersSpec /\ []WithinOneRead => []TimelineIsHistory
<1>1. ScreenInv => TimelineIsHistory
  BY DEF ScreenInv, Screen, Dashboard, TimelineIsHistory
<1> QED
  BY <1>1, ScreensAlways, PTL

\* And as long as its connection holds, a terminal that saves its read position has
\* shown what this moves past, but for what its client was told before it listened.
THEOREM NothingHidden ==
    ASSUME "sqlite" \notin FailingStores
    PROVE  ReadersSpec /\ []WithinOneRead => ReadPositionIsTrue
<1>1. ASSUME ScreenInv, [ReadersNext]_readers, NEW c \in Client,
             saved'[c] # saved[c], ~broken[c], ~AsyncStore, NEW n \in 1 .. saved'[c],
             n > saved[c]
      PROVE  n \in seen[c] \/ n \in unheard[c]
  <2>1. Terminal(c) /\ Process(c) /\ ScreenShapes
    BY <1>1 DEF ScreenInv, Screen
  <2>2. \/ SavePosition(c) /\ saved'[c] = cursor[c]
        \/ Quit(c) /\ saved'[c] = cursor[c]
    <3>1. saved' # saved
      BY <1>1
    <3>2. PICK d \in Client : SavePosition(d) \/ Quit(d)
      BY <1>1, <3>1
         DEF ReadersNext, readers, screens, Reads, StartFeed, EnterRoomFeed, Connect, Hear, KillFeed,
             LoseTerminal, WatchRoom, ShowInTimeline, LoseDashboard
    <3>3. saved' = [saved EXCEPT ![d] = cursor[d]]
      BY <3>2 DEF SavePosition, Quit
    <3>4. d = c
      BY <1>1, <2>1, <3>3 DEF ScreenShapes, OverClients
    <3> QED
      BY <2>1, <3>2, <3>3, <3>4 DEF ScreenShapes, OverClients
  <2>3. feed[c] = "live"
    BY <2>1, <2>2 DEF SavePosition, Quit, Process
  <2> QED
    BY <1>1, <2>1, <2>2, <2>3 DEF Terminal, Printed, Process
<1>2. ScreenInv /\ [ReadersNext]_readers
         => [ \A c \in Client :
                 saved'[c] # saved[c] /\ ~broken[c] /\ ~AsyncStore
                 => \A n \in 1 .. saved'[c] :
                        n > saved[c] => n \in seen[c] \/ n \in unheard[c] ]_readers
  BY <1>1
<1> QED
  BY <1>2, ScreensAlways, PTL DEF ReadersSpec, ReadPositionIsTrue

-----------------------------------------------------------------------------
(* Types. *)

Bounds == split \subseteq Client /\ drops \in 0 .. MaxDrops

LEMMA BoundsKept == Bounds /\ [ReadersNext]_readers => Bounds'
<1> SUFFICES ASSUME Bounds, [ReadersNext]_readers PROVE Bounds'
  OBVIOUS
<1>1. ASSUME UNCHANGED <<split, drops>> PROVE Bounds'
  BY <1>1 DEF Bounds
<1>2. ASSUME NEW c \in Client, Drop(c) PROVE Bounds'
  BY <1>2, StreamNumbers DEF Bounds, Drop
<1>3. ASSUME NEW c \in Client, EndFeed(c) PROVE Bounds'
  BY <1>3 DEF Bounds, EndFeed
<1>4. CASE UNCHANGED <<split, drops>>
  BY <1>1, <1>4
<1>5. CASE (AppendEvent \/ StoreWrite) /\ UNCHANGED screens
  BY <1>1, <1>5 DEF AppendEvent, StoreWrite, clients
<1>6. ASSUME NEW c \in Client,
             Reads(c) \/ StartFeed(c) \/ EnterRoomFeed(c) \/ SavePosition(c)
      PROVE  Bounds'
  BY <1>1, <1>6
     DEF Reads, StoreRead, ReadAnswered, StartFeed, EnterRoomFeed, SavePosition, vars, clients
<1>7. ASSUME NEW c \in Client, Connect(c) \/ WatchRoom(c) PROVE Bounds'
  BY <1>1, <1>7 DEF Connect, Reconnect, WatchRoom
<1>8. ASSUME NEW c \in Client, Hear(c) \/ ShowInTimeline(c) PROVE Bounds'
  BY <1>1, <1>8 DEF Hear, ShowInTimeline, Receive
<1>9. ASSUME NEW c \in Client, Quit(c) \/ KillFeed(c) PROVE Bounds'
  BY <1>3, <1>9 DEF Quit, KillFeed
<1>10. ASSUME NEW c \in Client, LoseTerminal(c) \/ LoseDashboard(c) PROVE Bounds'
  BY <1>2, <1>10 DEF LoseTerminal, LoseDashboard
<1> QED
  BY <1>4, <1>5, <1>6, <1>7, <1>8, <1>9, <1>10 DEF ReadersNext, readers, vars, clients

\* The types of the stream and of its clients.
THEOREM StreamTypeCorrect == ReadersSpec => []TypeOK
<1>1. ReadersInit => Bounds
  BY StreamNumbers DEF ReadersInit, Init, Bounds
<1>2. StreamInv /\ Bounds => TypeOK
  <2>1. SUFFICES ASSUME StreamInv, Bounds PROVE TypeOK
    OBVIOUS
  <2>2. ASSUME NEW c \in Client PROVE ConnTypes(c)
    BY <2>1 DEF StreamInv, Conn
  <2>3. /\ up \in [Client -> BOOLEAN]
        /\ wire \in [Client -> Seq(Frame)]
        /\ reading \in [Client -> ReadRecord]
        /\ shake \in [Client -> {"none", "events", "welcome"}]
        /\ cursor \in [Client -> 0 .. MaxSeq]
        /\ view \in [Client -> SUBSET (1 .. MaxSeq)]
    BY <2>1, <2>2 DEF StreamInv, Shapes, OverClients, ConnTypes
  <2> QED
    BY <2>1, <2>3 DEF StreamInv, LogInv, Bounds, TypeOK, Frame, ReadRecord
<1> QED
  BY <1>1, <1>2, BoundsKept, StreamAlways, PTL DEF ReadersSpec

=============================================================================
