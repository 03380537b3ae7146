-------------------------- MODULE TransparencyProofs --------------------------
(***************************************************************************)
(* Proofs about what the room gets to see of an agent's turn, for every    *)
(* way of reporting and any number of turns, pieces of prose and calls.    *)
(***************************************************************************)
EXTENDS Transparency, SequenceTheorems, TLAPS

LEMMA RoomNumbers == /\ MaxTurns \in Nat /\ MaxSaid \in Nat /\ MaxTools \in Nat
                     /\ History \in Nat
                     /\ Tool = 1 .. MaxTools
                     /\ None = 0
                     /\ None \notin Tool
                     /\ Kinds \subseteq {"claude", "codex", "cursor", "acp", "opencode", "hooks",
                                         "claude-native", "cursor-native"}
BY TransparencyConstants DEF Tool, None

-----------------------------------------------------------------------------
(* Events, and what a sequence of them tells. *)

Members(s) == {s[k] : k \in 1 .. Len(s)}

Types == {"agent_message", "tool_use", "tool_result", "error", "result"}

EventRecord == [type : Types, of : Seq(Nat)]

\* Prose in order, in any sequence of events: see ProseInOrder, but for the history.
InOrder(f) ==
    \A j, k \in {i \in 1 .. Len(f) : f[i].type = "agent_message"} :
        /\ Increasing(f[j].of)
        /\ j < k => \A m \in Told(f[j]), n \in Told(f[k]) : m < n

IsUse(e, t) == e.type = "tool_use" /\ e.of = <<t>>

IsAnswer(e, t) == e.type = "tool_result" /\ e.of = <<t>>

UsedIn(f) == {t \in Tool : \E k \in 1 .. Len(f) : IsUse(f[k], t)}

AnsweredIn(f) == {t \in Tool : \E k \in 1 .. Len(f) : IsAnswer(f[k], t)}

\* Calls are announced once and answered once at most, in that order.
OnceEach(f) ==
    /\ \A k \in 1 .. Len(f) : f[k].type = "tool_use" => \E t \in Tool : IsUse(f[k], t)
    /\ \A t \in Tool : \A j, k \in 1 .. Len(f) : IsUse(f[j], t) /\ IsUse(f[k], t) => j = k
    /\ \A t \in Tool : \A j, k \in 1 .. Len(f) : IsAnswer(f[j], t) /\ IsAnswer(f[k], t) => j = k
    /\ \A t \in Tool : \A k \in 1 .. Len(f) :
          IsAnswer(f[k], t) => \E j \in 1 .. Len(f) : IsUse(f[j], t) /\ j < k

FeedOK(f) == f \in Seq(EventRecord) /\ InOrder(f) /\ OnceEach(f)

\* g is f with more at its end; the last of it may close a turn or announce a call.
Extends(f, g) ==
    /\ Len(f) <= Len(g)
    /\ \A k \in 1 .. Len(f) : g[k] = f[k]

Quiet(e) == e.type # "result" /\ (e.type = "tool_use" => kind = "opencode")

\* A step adds the pieces in P, the calls in U and the answers in A to the feed.
Adds(f, g, P, U, A) ==
    /\ FeedOK(g)
    /\ Extends(f, g)
    /\ Mirrored(g) = Mirrored(f) \cup P
    /\ UsedIn(g) = UsedIn(f) \cup U
    /\ AnsweredIn(g) = AnsweredIn(f) \cup A

\* The last of it may announce a call, or close one of the turns in R.
AddsLast(f, g, P, U, A, R) ==
    /\ Adds(f, g, P, U, A)
    /\ \A k \in Len(f) + 1 .. Len(g) :
          \/ Quiet(g[k])
          \/ k = Len(g) /\ (g[k].type = "result" => g[k].of[1] \in R)

AddsQuietly(f, g, P, U, A) ==
    /\ Adds(f, g, P, U, A)
    /\ \A k \in Len(f) + 1 .. Len(g) : Quiet(g[k])

LEMMA QuietIsLast ==
    ASSUME NEW f, NEW g, NEW P, NEW U, NEW A, NEW R, AddsQuietly(f, g, P, U, A)
    PROVE  AddsLast(f, g, P, U, A, R)
BY DEF AddsQuietly, AddsLast

LEMMA NothingAdded ==
    ASSUME NEW f, FeedOK(f)
    PROVE  AddsQuietly(f, f, {}, {}, {})
<1>1. Len(f) \in Nat
  BY LenProperties DEF FeedOK
<1> QED
  BY <1>1 DEF AddsQuietly, Adds, Extends

LEMMA ToldOf ==
    ASSUME NEW e \in EventRecord, NEW n
    PROVE  n \in Told(e) <=> e.type = "agent_message" /\ n \in Members(e.of)
BY DEF Told, Members

LEMMA MirroredOf ==
    ASSUME NEW f, NEW n
    PROVE  n \in Mirrored(f) <=> \E k \in 1 .. Len(f) : n \in Told(f[k])
BY DEF Mirrored

\* g is f with one more event.
Longer(f, e, g) ==
    /\ g \in Seq(EventRecord)
    /\ Len(f) \in Nat
    /\ Len(g) = Len(f) + 1
    /\ g[Len(g)] = e
    /\ Len(g) \in 1 .. Len(g)
    /\ \A k \in 1 .. Len(f) : k \in 1 .. Len(g) /\ g[k] = f[k] /\ k # Len(g) /\ k < Len(g)
    /\ \A k \in 1 .. Len(g) : k \in 1 .. Len(f) \/ k = Len(g)
    /\ Mirrored(g) = Mirrored(f) \cup Told(e)

LEMMA OneMore ==
    ASSUME NEW f \in Seq(EventRecord), NEW e \in EventRecord, NEW g, g = Append(f, e)
    PROVE  Longer(f, e, g)
<1>1. /\ g \in Seq(EventRecord)
      /\ Len(f) \in Nat
      /\ Len(g) = Len(f) + 1
      /\ g[Len(g)] = e
      /\ \A k \in 1 .. Len(f) : g[k] = f[k]
  BY AppendProperties, LenProperties
<1>2. /\ Len(g) \in 1 .. Len(g)
      /\ \A k \in 1 .. Len(f) : k \in 1 .. Len(g) /\ k # Len(g) /\ k < Len(g)
      /\ \A k \in 1 .. Len(g) : k \in 1 .. Len(f) \/ k = Len(g)
  BY <1>1
<1>3. Mirrored(g) = Mirrored(f) \cup Told(e)
  <2>1. ASSUME NEW n \in Mirrored(g) PROVE n \in Mirrored(f) \cup Told(e)
    BY <1>1, <1>2, MirroredOf
  <2>2. ASSUME NEW n \in Mirrored(f) PROVE n \in Mirrored(g)
    BY <1>1, <1>2, MirroredOf
  <2>3. ASSUME NEW n \in Told(e) PROVE n \in Mirrored(g)
    BY <1>1, <1>2, MirroredOf
  <2> QED
    BY <2>1, <2>2, <2>3
<1> QED
  BY <1>1, <1>2, <1>3 DEF Longer

\* An event that is no message.
LEMMA Noted ==
    ASSUME NEW f, FeedOK(f), NEW e \in EventRecord, e.type # "agent_message",
           NEW g, g = Append(f, e)
    PROVE  g \in Seq(EventRecord) /\ InOrder(g) /\ Mirrored(g) = Mirrored(f) /\ Extends(f, g)
<1>1. Longer(f, e, g)
  BY OneMore DEF FeedOK
<1>2. Told(e) = {}
  BY DEF Told
<1>3. \A k \in 1 .. Len(g) : g[k].type = "agent_message" => k \in 1 .. Len(f) /\ g[k] = f[k]
  BY <1>1 DEF Longer
<1>4. InOrder(g)
  BY <1>3 DEF InOrder, FeedOK
<1> QED
  BY <1>1, <1>2, <1>4 DEF Longer, Extends

\* An event that ends or fails a turn.
LEMMA ClosingNoted ==
    ASSUME NEW f, FeedOK(f), NEW n \in Nat, NEW e, e \in {Result(n), Failure(n)},
           NEW g, g = Append(f, e)
    PROVE  /\ AddsLast(f, g, {}, {}, {}, {n})
           /\ e = Failure(n) => AddsQuietly(f, g, {}, {}, {})
<1>0. /\ e \in EventRecord /\ e.type \in {"result", "error"} /\ e.of[1] = n
      /\ e = Failure(n) => e.type = "error"
  <2>1. CASE e = Result(n)
    <3>1. e.type = "result" /\ e.of = <<n>>
      BY <2>1 DEF Result
    <3>2. e \in EventRecord
      BY <2>1 DEF Result, EventRecord, Types
    <3>3. e # Failure(n)
      BY <3>1 DEF Failure
    <3> QED
      BY <3>1, <3>2, <3>3
  <2>2. CASE e = Failure(n)
    <3>1. e.type = "error" /\ e.of = <<n>>
      BY <2>2 DEF Failure
    <3>2. e \in EventRecord
      BY <2>2 DEF Failure, EventRecord, Types
    <3> QED
      BY <3>1, <3>2
  <2> QED
    BY <2>1, <2>2
<1>1. Longer(f, e, g)
  BY <1>0, OneMore DEF FeedOK
<1>2. g \in Seq(EventRecord) /\ InOrder(g) /\ Mirrored(g) = Mirrored(f) /\ Extends(f, g)
  BY <1>0, Noted
<1>3. \A t : ~IsUse(e, t) /\ ~IsAnswer(e, t)
  BY <1>0 DEF IsUse, IsAnswer
<1>4. UsedIn(g) = UsedIn(f) /\ AnsweredIn(g) = AnsweredIn(f)
  BY <1>1, <1>3 DEF Longer, UsedIn, AnsweredIn
<1>5. OnceEach(g)
  <2>1. OnceEach(f)
    BY DEF FeedOK
  <2>2. \A k \in 1 .. Len(g) : \/ k \in 1 .. Len(f) /\ g[k] = f[k]
                               \/ g[k] = e
    BY <1>1 DEF Longer
  <2>3. \A k \in 1 .. Len(f) : k \in 1 .. Len(g) /\ g[k] = f[k]
    BY <1>1 DEF Longer
  <2>4. \A k \in 1 .. Len(g) : g[k].type = "tool_use" => \E t \in Tool : IsUse(g[k], t)
    BY <1>0, <2>1, <2>2 DEF OnceEach
  <2>5. \A t \in Tool : \A j, k \in 1 .. Len(g) : IsUse(g[j], t) /\ IsUse(g[k], t) => j = k
    BY <1>3, <2>1, <2>2 DEF OnceEach
  <2>6. \A t \in Tool : \A j, k \in 1 .. Len(g) : IsAnswer(g[j], t) /\ IsAnswer(g[k], t) => j = k
    BY <1>3, <2>1, <2>2 DEF OnceEach
  <2>7. \A t \in Tool : \A k \in 1 .. Len(g) :
           IsAnswer(g[k], t) => \E j \in 1 .. Len(g) : IsUse(g[j], t) /\ j < k
    BY <1>3, <2>1, <2>2, <2>3 DEF OnceEach
  <2> QED
    BY <2>4, <2>5, <2>6, <2>7 DEF OnceEach
<1>6. Adds(f, g, {}, {}, {})
  BY <1>2, <1>4, <1>5 DEF Adds, FeedOK
<1>7. \A k \in Len(f) + 1 .. Len(g) : k = Len(g) /\ g[k] = e
  BY <1>1 DEF Longer
<1> QED
  BY <1>0, <1>6, <1>7 DEF AddsLast, AddsQuietly, Quiet

\* A call is announced.
LEMMA UseNoted ==
    ASSUME NEW f, FeedOK(f), NEW t \in Tool, t \notin UsedIn(f),
           NEW e, e = ToolUse(t), NEW g, g = Append(f, e)
    PROVE  /\ AddsLast(f, g, {}, {t}, {}, {})
           /\ kind = "opencode" => AddsQuietly(f, g, {}, {t}, {})
<1>0. e \in EventRecord /\ e.type = "tool_use" /\ e.of = <<t>>
  <2>1. t \in Nat
    BY RoomNumbers
  <2> QED
    BY <2>1 DEF ToolUse, EventRecord, Types
<1>1. Longer(f, e, g)
  BY <1>0, OneMore DEF FeedOK
<1>2. g \in Seq(EventRecord) /\ InOrder(g) /\ Mirrored(g) = Mirrored(f) /\ Extends(f, g)
  BY <1>0, Noted
<1>3. \A u : ~IsAnswer(e, u) /\ (IsUse(e, u) <=> u = t)
  BY <1>0 DEF IsUse, IsAnswer
<1>a. \A k \in 1 .. Len(g) : \/ k \in 1 .. Len(f) /\ g[k] = f[k]
                             \/ k = Len(g) /\ g[k] = e
  BY <1>1 DEF Longer
<1>b. \A k \in 1 .. Len(f) : k \in 1 .. Len(g) /\ g[k] = f[k]
  BY <1>1 DEF Longer
<1>4. UsedIn(g) = UsedIn(f) \cup {t} /\ AnsweredIn(g) = AnsweredIn(f)
  <2>1. Len(g) \in 1 .. Len(g) /\ IsUse(g[Len(g)], t)
    BY <1>1, <1>3 DEF Longer
  <2> QED
    BY <1>3, <1>a, <1>b, <2>1 DEF UsedIn, AnsweredIn
<1>5. OnceEach(g)
  <2>1. OnceEach(f) /\ \A k \in 1 .. Len(f) : ~IsUse(f[k], t)
    BY DEF FeedOK, UsedIn
  <2>4. \A k \in 1 .. Len(g) : g[k].type = "tool_use" => \E u \in Tool : IsUse(g[k], u)
    BY <1>3, <1>a, <2>1 DEF OnceEach
  <2>5. \A u \in Tool : \A j, k \in 1 .. Len(g) : IsUse(g[j], u) /\ IsUse(g[k], u) => j = k
    BY <1>3, <1>a, <2>1 DEF OnceEach
  <2>6. \A u \in Tool : \A j, k \in 1 .. Len(g) : IsAnswer(g[j], u) /\ IsAnswer(g[k], u) => j = k
    BY <1>3, <1>a, <2>1 DEF OnceEach
  <2>7. \A u \in Tool : \A k \in 1 .. Len(g) :
           IsAnswer(g[k], u) => \E j \in 1 .. Len(g) : IsUse(g[j], u) /\ j < k
    BY <1>3, <1>a, <1>b, <2>1 DEF OnceEach
  <2> QED
    BY <2>4, <2>5, <2>6, <2>7 DEF OnceEach
<1>6. Adds(f, g, {}, {t}, {})
  BY <1>2, <1>4, <1>5 DEF Adds, FeedOK
<1>7. \A k \in Len(f) + 1 .. Len(g) : k = Len(g) /\ g[k] = e
  BY <1>1 DEF Longer
<1> QED
  BY <1>0, <1>6, <1>7 DEF AddsLast, AddsQuietly, Quiet

\* A call is answered.
LEMMA AnswerNoted ==
    ASSUME NEW f, FeedOK(f), NEW t \in Tool, t \in UsedIn(f), t \notin AnsweredIn(f),
           NEW e, e = ToolResult(t), NEW g, g = Append(f, e)
    PROVE  AddsQuietly(f, g, {}, {}, {t})
<1>0. e \in EventRecord /\ e.type = "tool_result" /\ e.of = <<t>>
  <2>1. t \in Nat
    BY RoomNumbers
  <2> QED
    BY <2>1 DEF ToolResult, EventRecord, Types
<1>1. Longer(f, e, g)
  BY <1>0, OneMore DEF FeedOK
<1>2. g \in Seq(EventRecord) /\ InOrder(g) /\ Mirrored(g) = Mirrored(f) /\ Extends(f, g)
  BY <1>0, Noted
<1>3. \A u : ~IsUse(e, u) /\ (IsAnswer(e, u) <=> u = t)
  BY <1>0 DEF IsUse, IsAnswer
<1>a. \A k \in 1 .. Len(g) : \/ k \in 1 .. Len(f) /\ g[k] = f[k]
                             \/ k = Len(g) /\ g[k] = e
  BY <1>1 DEF Longer
<1>b. \A k \in 1 .. Len(f) : k \in 1 .. Len(g) /\ g[k] = f[k] /\ k < Len(g)
  BY <1>1 DEF Longer
<1>4. UsedIn(g) = UsedIn(f) /\ AnsweredIn(g) = AnsweredIn(f) \cup {t}
  <2>1. Len(g) \in 1 .. Len(g) /\ IsAnswer(g[Len(g)], t)
    BY <1>1, <1>3 DEF Longer
  <2> QED
    BY <1>3, <1>a, <1>b, <2>1 DEF UsedIn, AnsweredIn
<1>5. OnceEach(g)
  <2>1. OnceEach(f) /\ \A k \in 1 .. Len(f) : ~IsAnswer(f[k], t)
    BY DEF FeedOK, AnsweredIn
  <2>2. \E j \in 1 .. Len(f) : IsUse(f[j], t)
    BY DEF UsedIn
  <2>4. \A k \in 1 .. Len(g) : g[k].type = "tool_use" => \E u \in Tool : IsUse(g[k], u)
    BY <1>0, <1>a, <2>1 DEF OnceEach
  <2>5. \A u \in Tool : \A j, k \in 1 .. Len(g) : IsUse(g[j], u) /\ IsUse(g[k], u) => j = k
    BY <1>3, <1>a, <2>1 DEF OnceEach
  <2>6. \A u \in Tool : \A j, k \in 1 .. Len(g) : IsAnswer(g[j], u) /\ IsAnswer(g[k], u) => j = k
    BY <1>3, <1>a, <2>1 DEF OnceEach
  <2>7. ASSUME NEW u \in Tool, NEW k \in 1 .. Len(g), IsAnswer(g[k], u)
        PROVE  \E j \in 1 .. Len(g) : IsUse(g[j], u) /\ j < k
    <3>1. CASE k \in 1 .. Len(f) /\ g[k] = f[k]
      BY <1>b, <2>1, <2>7, <3>1 DEF OnceEach
    <3>2. CASE k = Len(g) /\ g[k] = e
      BY <1>3, <1>b, <2>2, <2>7, <3>2
    <3> QED
      BY <1>a, <3>1, <3>2
  <2> QED
    BY <2>4, <2>5, <2>6, <2>7 DEF OnceEach
<1>6. Adds(f, g, {}, {}, {t})
  BY <1>2, <1>4, <1>5 DEF Adds, FeedOK
<1>7. \A k \in Len(f) + 1 .. Len(g) : g[k] = e
  BY <1>1 DEF Longer
<1> QED
  BY <1>0, <1>6, <1>7 DEF AddsQuietly, Quiet

\* One step after another.
LEMMA Then ==
    ASSUME NEW f, NEW g, NEW h, NEW P, NEW U, NEW A, NEW Q, NEW V, NEW B, NEW R,
           Len(f) \in Nat, Len(g) \in Nat, Len(h) \in Nat,
           AddsQuietly(f, g, P, U, A)
    PROVE  /\ AddsLast(g, h, Q, V, B, R) => AddsLast(f, h, P \cup Q, U \cup V, A \cup B, R)
           /\ AddsQuietly(g, h, Q, V, B) => AddsQuietly(f, h, P \cup Q, U \cup V, A \cup B)
<1>1. /\ FeedOK(g) /\ Extends(f, g)
      /\ Mirrored(g) = Mirrored(f) \cup P
      /\ UsedIn(g) = UsedIn(f) \cup U
      /\ AnsweredIn(g) = AnsweredIn(f) \cup A
      /\ \A k \in Len(f) + 1 .. Len(g) : Quiet(g[k])
  BY DEF AddsQuietly, Adds
<1>2. ASSUME Adds(g, h, Q, V, B)
      PROVE  /\ Adds(f, h, P \cup Q, U \cup V, A \cup B)
             /\ \A k \in Len(f) + 1 .. Len(h) : k \in Len(g) + 1 .. Len(h) \/ Quiet(h[k])
  <2>1. /\ FeedOK(h) /\ Extends(g, h)
        /\ Mirrored(h) = Mirrored(f) \cup (P \cup Q)
        /\ UsedIn(h) = UsedIn(f) \cup (U \cup V)
        /\ AnsweredIn(h) = AnsweredIn(f) \cup (A \cup B)
    <3>1. /\ Mirrored(h) = Mirrored(g) \cup Q
          /\ UsedIn(h) = UsedIn(g) \cup V
          /\ AnsweredIn(h) = AnsweredIn(g) \cup B
          /\ FeedOK(h) /\ Extends(g, h)
      BY <1>2 DEF Adds
    <3> QED
      BY <1>1, <3>1, Zenon
  <2>2. Extends(f, h) /\ \A k \in 1 .. Len(g) : h[k] = g[k]
    BY <1>1, <2>1 DEF Extends
  <2>3. ASSUME NEW k \in Len(f) + 1 .. Len(h), k \notin Len(g) + 1 .. Len(h)
        PROVE  k \in 1 .. Len(g) /\ k \in Len(f) + 1 .. Len(g)
    <3>1. k \in Int /\ Len(f) + 1 <= k /\ k <= Len(g)
      BY <2>3
    <3> QED
      BY <3>1
  <2> QED
    BY <1>1, <2>1, <2>2, <2>3 DEF Adds
<1>3. ASSUME AddsLast(g, h, Q, V, B, R)
      PROVE  AddsLast(f, h, P \cup Q, U \cup V, A \cup B, R)
  <2>1. Adds(g, h, Q, V, B)
    BY <1>3 DEF AddsLast
  <2> QED
    BY <1>2, <1>3, <2>1 DEF AddsLast
<1>4. ASSUME AddsQuietly(g, h, Q, V, B)
      PROVE  AddsQuietly(f, h, P \cup Q, U \cup V, A \cup B)
  <2>1. Adds(g, h, Q, V, B)
    BY <1>4 DEF AddsQuietly
  <2> QED
    BY <1>2, <1>4, <2>1 DEF AddsQuietly
<1> QED
  BY <1>3, <1>4

LEMMA Chained ==
    ASSUME NEW f \in Seq(EventRecord), NEW ms \in Seq(EventRecord), NEW e \in EventRecord
    PROVE  /\ f \o <<e>> = Append(f, e)
           /\ f \o (ms \o <<e>>) = Append(f \o ms, e)
           /\ f \o ms \in Seq(EventRecord)
<1> DEFINE one == <<e>>
<1>1. one \in Seq(EventRecord)
  OBVIOUS
<1>2. ASSUME NEW s \in Seq(EventRecord) PROVE s \o one = Append(s, e)
  BY AppendIsConcat
<1> HIDE DEF one
<1>3. f \o ms \in Seq(EventRecord)
  BY ConcatProperties
<1>4. f \o (ms \o one) = (f \o ms) \o one
  <2> DEFINE E == EventRecord
  <2>1. f \in Seq(E) /\ ms \in Seq(E) /\ one \in Seq(E)
    BY <1>1
  <2> HIDE DEF E
  <2>2. (f \o ms) \o one = f \o (ms \o one)
    BY <2>1, ConcatAssociative
  <2> QED
    BY <2>2
<1>5. /\ f \o one = Append(f, e)
      /\ f \o (ms \o one) = Append(f \o ms, e)
      /\ f \o ms \in Seq(EventRecord)
  BY <1>2, <1>3, <1>4
<1> QED
  BY <1>5 DEF one

\* Messages in order, of nothing that was told before.
Fresh(f, ms) ==
    /\ ms \in Seq(EventRecord)
    /\ \A k \in 1 .. Len(ms) : ms[k].type = "agent_message"
    /\ InOrder(ms)
    /\ \A m \in Mirrored(f), n \in Mirrored(ms) : m < n

LEMMA MessagesNoted ==
    ASSUME NEW f, FeedOK(f), NEW ms, Fresh(f, ms), NEW g, g = f \o ms
    PROVE  AddsQuietly(f, g, Mirrored(ms), {}, {})
<1> DEFINE m == Len(f)
           n == Len(ms)
<1>1. f \in Seq(EventRecord) /\ ms \in Seq(EventRecord) /\ InOrder(f) /\ InOrder(ms) /\ OnceEach(f)
  BY DEF FeedOK, Fresh
<1>2. m \in Nat /\ n \in Nat
  BY <1>1, LenProperties
<1>3. /\ g \in Seq(EventRecord)
      /\ Len(g) = m + n
      /\ \A k \in 1 .. m + n : g[k] = IF k <= m THEN f[k] ELSE ms[k - m]
  BY <1>1, ConcatProperties
<1>4. \A k \in 1 .. Len(g) : \/ k \in 1 .. m /\ g[k] = f[k]
                             \/ k > m /\ k - m \in 1 .. n /\ g[k] = ms[k - m]
  BY <1>2, <1>3
<1>5. \A k \in 1 .. m : k \in 1 .. Len(g) /\ g[k] = f[k]
  BY <1>2, <1>3
<1>6. \A k \in 1 .. n : k + m \in 1 .. Len(g) /\ g[k + m] = ms[k]
  <2> SUFFICES ASSUME NEW k \in 1 .. n PROVE k + m \in 1 .. Len(g) /\ g[k + m] = ms[k]
    OBVIOUS
  <2>1. k + m \in 1 .. m + n /\ ~(k + m <= m) /\ (k + m) - m = k
    BY <1>2
  <2> QED
    BY <1>3, <2>1
<1> HIDE DEF m, n
<1>7. Mirrored(g) = Mirrored(f) \cup Mirrored(ms)
  <2>1. ASSUME NEW x \in Mirrored(g) PROVE x \in Mirrored(f) \cup Mirrored(ms)
    <3>1. PICK k \in 1 .. Len(g) : x \in Told(g[k])
      BY MirroredOf
    <3> QED
      BY <1>4, <3>1, MirroredOf DEF m, n
  <2>2. ASSUME NEW x \in Mirrored(f) PROVE x \in Mirrored(g)
    BY <1>5, MirroredOf DEF m
  <2>3. ASSUME NEW x \in Mirrored(ms) PROVE x \in Mirrored(g)
    <3>1. PICK k \in 1 .. n : x \in Told(ms[k])
      BY MirroredOf DEF n
    <3>2. k + m \in 1 .. Len(g) /\ x \in Told(g[k + m])
      BY <1>6, <3>1
    <3> QED
      BY <3>2, MirroredOf
  <2> QED
    BY <2>1, <2>2, <2>3
<1>8. \A k \in 1 .. n : ms[k].type = "agent_message"
  BY DEF Fresh, n
<1>9. \A k \in 1 .. Len(g) : \/ k \in 1 .. m /\ g[k] = f[k]
                             \/ g[k].type = "agent_message"
  BY <1>4, <1>8
<1>10. \A k \in 1 .. Len(g) : \A t : IsUse(g[k], t) \/ IsAnswer(g[k], t)
                                   => k \in 1 .. m /\ g[k] = f[k]
  BY <1>9 DEF IsUse, IsAnswer
<1>11. UsedIn(g) = UsedIn(f) /\ AnsweredIn(g) = AnsweredIn(f)
  BY <1>5, <1>10 DEF UsedIn, AnsweredIn, m
<1>12. OnceEach(g)
  <2>1. \A k \in 1 .. Len(g) : g[k].type = "tool_use" => \E t \in Tool : IsUse(g[k], t)
    BY <1>1, <1>9 DEF OnceEach, m
  <2>2. \A t \in Tool : \A j, k \in 1 .. Len(g) : IsUse(g[j], t) /\ IsUse(g[k], t) => j = k
    BY <1>1, <1>10 DEF OnceEach, m
  <2>3. \A t \in Tool : \A j, k \in 1 .. Len(g) : IsAnswer(g[j], t) /\ IsAnswer(g[k], t) => j = k
    BY <1>1, <1>10 DEF OnceEach, m
  <2>4. \A t \in Tool : \A k \in 1 .. Len(g) :
           IsAnswer(g[k], t) => \E j \in 1 .. Len(g) : IsUse(g[j], t) /\ j < k
    BY <1>1, <1>5, <1>10 DEF OnceEach, m
  <2> QED
    BY <2>1, <2>2, <2>3, <2>4 DEF OnceEach
<1>13. InOrder(g)
  <2>1. \A x \in Mirrored(f), y \in Mirrored(ms) : x < y
    BY DEF Fresh
  <2>2. ASSUME NEW k \in 1 .. Len(g), g[k].type = "agent_message"
        PROVE  Increasing(g[k].of)
    BY <1>1, <1>4, <2>2 DEF InOrder, m, n
  <2>3. ASSUME NEW j \in 1 .. Len(g), NEW k \in 1 .. Len(g), j < k,
               g[j].type = "agent_message", g[k].type = "agent_message",
               NEW x \in Told(g[j]), NEW y \in Told(g[k])
        PROVE  x < y
    <3>1. CASE j \in 1 .. m /\ g[j] = f[j] /\ k \in 1 .. m /\ g[k] = f[k]
      BY <1>1, <2>3, <3>1 DEF InOrder, m
    <3>2. CASE j \in 1 .. m /\ g[j] = f[j] /\ k - m \in 1 .. n /\ g[k] = ms[k - m]
      <4>1. x \in Mirrored(f)
        BY <3>2, MirroredOf DEF m
      <4>2. y \in Mirrored(ms)
        BY <3>2, MirroredOf DEF n
      <4> QED
        BY <2>1, <4>1, <4>2
    <3>3. CASE j - m \in 1 .. n /\ g[j] = ms[j - m] /\ k - m \in 1 .. n /\ g[k] = ms[k - m]
      <4>1. j - m < k - m
        BY <1>2, <2>3
      <4> QED
        BY <1>1, <2>3, <3>3, <4>1 DEF InOrder, n
    <3>4. ~(j > m /\ k \in 1 .. m)
      BY <1>2, <1>3, <2>3
    <3> QED
      BY <1>4, <3>1, <3>2, <3>3, <3>4
  <2> QED
    BY <2>2, <2>3 DEF InOrder
<1>14. Adds(f, g, Mirrored(ms), {}, {})
  <2>1. Extends(f, g)
    BY <1>2, <1>3, <1>5 DEF Extends, m
  <2> QED
    BY <1>3, <1>7, <1>11, <1>12, <1>13, <2>1 DEF Adds, FeedOK
<1>15. \A k \in Len(f) + 1 .. Len(g) : g[k].type = "agent_message"
  <2> SUFFICES ASSUME NEW k \in Len(f) + 1 .. Len(g) PROVE g[k].type = "agent_message"
    OBVIOUS
  <2>1. k \in 1 .. Len(g) /\ k \notin 1 .. m
    BY <1>2, <1>3 DEF m
  <2> QED
    BY <1>9, <2>1
<1> QED
  BY <1>14, <1>15 DEF AddsQuietly, Quiet

LEMMA NoProse ==
    ASSUME NEW f
    PROVE  Fresh(f, <<>>) /\ Mirrored(<<>>) = {} /\ Members(<<>>) = {}
<1> DEFINE e == <<>>
<1>1. e \in Seq(EventRecord) /\ 1 .. Len(e) = {}
  BY EmptySeq
<1> HIDE DEF e
<1>2. Mirrored(e) = {} /\ Members(e) = {}
  BY <1>1 DEF Mirrored, Members
<1>3. Fresh(f, e)
  BY <1>1, <1>2 DEF Fresh, InOrder
<1> QED
  BY <1>2, <1>3 DEF e

\* Pieces that nobody was told of.
Untold(f, p) ==
    /\ p \in Seq(Nat)
    /\ Increasing(p)
    /\ \A m \in Mirrored(f), n \in Members(p) : m < n

LEMMA ProseTells ==
    ASSUME NEW f, NEW p, Untold(f, p)
    PROVE  Fresh(f, Prose(p)) /\ Mirrored(Prose(p)) = Members(p)
<1>1. CASE p = <<>>
  BY <1>1, NoProse DEF Prose
<1>2. CASE p # <<>>
  <2> DEFINE e == Message(p)
             ms == <<e>>
  <2>1. e \in EventRecord /\ e.type = "agent_message" /\ e.of = p
    BY DEF Message, EventRecord, Types, Untold
  <2> HIDE DEF e
  <2>2. ms \in Seq(EventRecord) /\ Len(ms) = 1 /\ ms[1] = e
    BY <2>1
  <2> HIDE DEF ms
  <2>3. \A k \in 1 .. Len(ms) : k = 1 /\ ms[k] = e
    BY <2>2
  <2>4. \A n : n \in Told(e) <=> n \in Members(p)
    BY <2>1, ToldOf
  <2>5. Mirrored(ms) = Members(p)
    <3>1. \A n : n \in Mirrored(ms) <=> n \in Told(e)
      <4>1. 1 \in 1 .. Len(ms)
        BY <2>2
      <4> QED
        BY <2>2, <2>3, <4>1, MirroredOf
    <3> QED
      BY <2>4, <3>1
  <2>6. InOrder(ms)
    <3>1. Increasing(p)
      BY DEF Untold
    <3>2. \A j, k \in 1 .. Len(ms) : ~(j < k)
      BY <2>3
    <3> QED
      BY <2>1, <2>3, <2>4, <3>1, <3>2 DEF InOrder
  <2>7. Fresh(f, ms)
    BY <2>1, <2>2, <2>3, <2>5, <2>6 DEF Fresh, Untold
  <2> QED
    BY <1>2, <2>5, <2>7 DEF Prose, ms, e
<1> QED
  BY <1>1, <1>2

\* Pieces of a transcript, a message for each.
Messages(a, b) == [k \in 1 .. b - a |-> Message(<<a + k>>)]

LEMMA TranscriptTells ==
    ASSUME NEW f, NEW a, NEW b, a \in Nat /\ b \in Nat /\ a <= b,
           a = b \/ \A m \in Mirrored(f) : m \in Nat /\ m <= a
    PROVE  Fresh(f, Messages(a, b)) /\ Mirrored(Messages(a, b)) = a + 1 .. b
<1> DEFINE ms == Messages(a, b)
<1>0. ms = [k \in 1 .. b - a |-> Message(<<a + k>>)]
  BY DEF Messages
<1> HIDE DEF ms
<1>1. b - a \in Nat
  OBVIOUS
<1>2. \A k \in 1 .. b - a : Message(<<a + k>>) \in EventRecord
  BY DEF Message, EventRecord, Types
<1>3. ms \in Seq(EventRecord) /\ Len(ms) = b - a
  <2> DEFINE N == b - a
             M(k) == Message(<<a + k>>)
  <2>1. N \in Nat /\ \A k \in 1 .. N : M(k) \in EventRecord
    BY <1>1, <1>2
  <2>2. ms = [k \in 1 .. N |-> M(k)]
    BY <1>0
  <2> HIDE DEF N, M
  <2>3. ms \in Seq(EventRecord) /\ Len(ms) = N
    BY <2>1, <2>2, SMTT(30)
  <2> QED
    BY <2>3 DEF N
<1>4. \A k \in 1 .. Len(ms) : ms[k].type = "agent_message" /\ ms[k].of = <<a + k>>
  BY <1>0, <1>3 DEF Message
<1>5. ASSUME NEW k \in 1 .. Len(ms) PROVE Told(ms[k]) = {a + k} /\ Increasing(ms[k].of)
  <2> DEFINE p == <<a + k>>
  <2>1. Len(p) = 1 /\ p[1] = a + k
    OBVIOUS
  <2> HIDE DEF p
  <2>2. Members(p) = {a + k} /\ Increasing(p)
    BY <2>1 DEF Members, Increasing
  <2>3. ms[k] \in EventRecord
    BY <1>3, ElementOfSeq
  <2>4. \A n : n \in Told(ms[k]) <=> n = a + k
    BY <1>4, <2>2, <2>3, ToldOf DEF p
  <2> QED
    BY <1>4, <2>2, <2>4 DEF p
<1>6. Mirrored(ms) = a + 1 .. b
  <2>1. ASSUME NEW n \in Mirrored(ms) PROVE n \in a + 1 .. b
    <3>1. PICK k \in 1 .. Len(ms) : n \in Told(ms[k])
      BY MirroredOf
    <3>2. n = a + k
      BY <1>5, <3>1
    <3> QED
      BY <1>3, <3>2
  <2>2. ASSUME NEW n \in a + 1 .. b PROVE n \in Mirrored(ms)
    <3>1. n - a \in 1 .. Len(ms) /\ a + (n - a) = n
      BY <1>3
    <3>2. n \in Told(ms[n - a])
      BY <1>5, <3>1
    <3> QED
      BY <3>1, <3>2, MirroredOf
  <2> QED
    BY <2>1, <2>2
<1>7. InOrder(ms)
  <2>1. Len(ms) \in Nat
    BY <1>3, <1>1
  <2>2. ASSUME NEW j \in 1 .. Len(ms), NEW k \in 1 .. Len(ms), j < k,
               NEW m \in Told(ms[j]), NEW n \in Told(ms[k])
        PROVE  m < n
    <3>1. m = a + j /\ n = a + k
      BY <1>5
    <3> QED
      BY <2>1, <2>2, <3>1
  <2> QED
    BY <1>5, <2>2 DEF InOrder
<1>8. \A m \in Mirrored(f), n \in Mirrored(ms) : m < n
  BY <1>6
<1> QED
  BY <1>3, <1>4, <1>6, <1>7, <1>8 DEF Fresh, ms

LEMMA MessagesEmitted ==
    ASSUME FeedOK(feed), NEW ms, Fresh(feed, ms)
    PROVE  /\ Emit(ms) => AddsQuietly(feed, feed', Mirrored(ms), {}, {})
           /\ \A t \in Tool \ UsedIn(feed) :
                 Emit(ms \o <<ToolUse(t)>>) => AddsLast(feed, feed', Mirrored(ms), {t}, {}, {})
           /\ \A t \in UsedIn(feed) \ AnsweredIn(feed) :
                 Emit(ms \o <<ToolResult(t)>>) => AddsQuietly(feed, feed', Mirrored(ms), {}, {t})
           /\ \A n \in Nat :
                 Emit(ms \o <<Result(n)>>) => AddsLast(feed, feed', Mirrored(ms), {}, {}, {n})
<1> DEFINE g == feed \o ms
<1>1. AddsQuietly(feed, g, Mirrored(ms), {}, {})
  BY MessagesNoted
<1>2. /\ FeedOK(g) /\ UsedIn(g) = UsedIn(feed) /\ AnsweredIn(g) = AnsweredIn(feed)
      /\ feed \in Seq(EventRecord) /\ ms \in Seq(EventRecord) /\ g \in Seq(EventRecord)
      /\ Len(feed) \in Nat /\ Len(g) \in Nat
  <2>1. FeedOK(g) /\ UsedIn(g) = UsedIn(feed) /\ AnsweredIn(g) = AnsweredIn(feed)
    BY <1>1 DEF AddsQuietly, Adds
  <2>2. feed \in Seq(EventRecord) /\ ms \in Seq(EventRecord) /\ g \in Seq(EventRecord)
    BY <2>1 DEF FeedOK, Fresh
  <2> QED
    BY <2>1, <2>2, LenProperties
<1> HIDE DEF g
<1>3. ASSUME NEW e \in EventRecord, Emit(ms \o <<e>>)
      PROVE  feed' = Append(g, e) /\ Len(feed') \in Nat
  <2>1. feed' = Append(g, e)
    BY <1>2, <1>3, Chained DEF Emit, g
  <2> QED
    BY <1>2, <2>1, AppendProperties
<1>4. ASSUME NEW t \in Tool \ UsedIn(feed), Emit(ms \o <<ToolUse(t)>>)
      PROVE  AddsLast(feed, feed', Mirrored(ms), {t}, {}, {})
  <2>1. ToolUse(t) \in EventRecord
    BY RoomNumbers DEF ToolUse, EventRecord, Types
  <2>2. feed' = Append(g, ToolUse(t)) /\ Len(feed') \in Nat
    BY <1>3, <1>4, <2>1
  <2>3. AddsLast(g, feed', {}, {t}, {}, {})
    BY <1>2, <2>2, UseNoted
  <2>4. AddsLast(feed, feed', Mirrored(ms) \cup {}, {} \cup {t}, {} \cup {}, {})
    BY <1>1, <1>2, <2>2, <2>3, Then
  <2> QED
    BY <2>4
<1>5. ASSUME NEW t \in UsedIn(feed) \ AnsweredIn(feed), Emit(ms \o <<ToolResult(t)>>)
      PROVE  AddsQuietly(feed, feed', Mirrored(ms), {}, {t})
  <2>1. ToolResult(t) \in EventRecord /\ t \in Tool
    BY RoomNumbers DEF ToolResult, EventRecord, Types, UsedIn
  <2>2. feed' = Append(g, ToolResult(t)) /\ Len(feed') \in Nat
    BY <1>3, <1>5, <2>1
  <2>3. AddsQuietly(g, feed', {}, {}, {t})
    BY <1>2, <2>1, <2>2, AnswerNoted
  <2>4. AddsQuietly(feed, feed', Mirrored(ms) \cup {}, {} \cup {}, {} \cup {t})
    BY <1>1, <1>2, <2>2, <2>3, Then
  <2> QED
    BY <2>4
<1>6. ASSUME NEW n \in Nat, Emit(ms \o <<Result(n)>>)
      PROVE  AddsLast(feed, feed', Mirrored(ms), {}, {}, {n})
  <2>1. Result(n) \in EventRecord
    BY DEF Result, EventRecord, Types
  <2>2. feed' = Append(g, Result(n)) /\ Len(feed') \in Nat
    BY <1>3, <1>6, <2>1
  <2>3. AddsLast(g, feed', {}, {}, {}, {n})
    BY <1>2, <2>2, ClosingNoted
  <2>4. AddsLast(feed, feed', Mirrored(ms) \cup {}, {} \cup {}, {} \cup {}, {n})
    BY <1>1, <1>2, <2>2, <2>3, Then
  <2> QED
    BY <2>4
<1>7. Emit(ms) => AddsQuietly(feed, feed', Mirrored(ms), {}, {})
  BY <1>1 DEF Emit, g
<1> QED
  BY <1>4, <1>5, <1>6, <1>7

LEMMA NothingEmitted ==
    ASSUME FeedOK(feed), UNCHANGED feed \/ Emit(<<>>)
    PROVE  feed' = feed /\ AddsQuietly(feed, feed', {}, {}, {})
<1>1. feed' = feed
  <2>1. feed \in Seq(EventRecord)
    BY DEF FeedOK
  <2> QED
    BY <2>1 DEF Emit
<1> QED
  BY <1>1, NothingAdded

LEMMA EventEmitted ==
    ASSUME FeedOK(feed)
    PROVE  /\ \A t \in Tool \ UsedIn(feed) :
                 Emit(<<ToolUse(t)>>) => /\ AddsLast(feed, feed', {}, {t}, {}, {})
                                         /\ kind = "opencode" => AddsQuietly(feed, feed', {}, {t}, {})
           /\ \A t \in UsedIn(feed) \ AnsweredIn(feed) :
                 Emit(<<ToolResult(t)>>) => AddsQuietly(feed, feed', {}, {}, {t})
           /\ \A n \in Nat :
                 /\ Emit(<<Result(n)>>) => AddsLast(feed, feed', {}, {}, {}, {n})
                 /\ Emit(<<Failure(n)>>) => AddsQuietly(feed, feed', {}, {}, {})
<1>0. feed \in Seq(EventRecord) /\ <<>> \in Seq(EventRecord)
  BY DEF FeedOK
<1>1. ASSUME NEW e \in EventRecord, Emit(<<e>>) PROVE feed' = Append(feed, e)
  BY <1>0, <1>1, Chained DEF Emit
<1>2. ASSUME NEW t \in Tool \ UsedIn(feed), Emit(<<ToolUse(t)>>)
      PROVE  /\ AddsLast(feed, feed', {}, {t}, {}, {})
             /\ kind = "opencode" => AddsQuietly(feed, feed', {}, {t}, {})
  <2>1. ToolUse(t) \in EventRecord
    BY RoomNumbers DEF ToolUse, EventRecord, Types
  <2> QED
    BY <1>1, <1>2, <2>1, UseNoted
<1>3. ASSUME NEW t \in UsedIn(feed) \ AnsweredIn(feed), Emit(<<ToolResult(t)>>)
      PROVE  AddsQuietly(feed, feed', {}, {}, {t})
  <2>1. ToolResult(t) \in EventRecord /\ t \in Tool
    BY RoomNumbers DEF ToolResult, EventRecord, Types, UsedIn
  <2> QED
    BY <1>1, <1>3, <2>1, AnswerNoted
<1>4. ASSUME NEW n \in Nat
      PROVE  /\ Emit(<<Result(n)>>) => AddsLast(feed, feed', {}, {}, {}, {n})
             /\ Emit(<<Failure(n)>>) => AddsQuietly(feed, feed', {}, {}, {})
  <2>1. Result(n) \in EventRecord /\ Failure(n) \in EventRecord
    BY DEF Result, Failure, EventRecord, Types
  <2> QED
    BY <1>1, <2>1, ClosingNoted
<1> QED
  BY <1>2, <1>3, <1>4

LEMMA TwoEmitted ==
    ASSUME FeedOK(feed)
    PROVE  /\ \A n \in Nat :
                 Emit(<<Failure(n), Result(n)>>) => AddsLast(feed, feed', {}, {}, {}, {n})
           /\ \A t \in Tool \ (UsedIn(feed) \cup AnsweredIn(feed)) :
                 kind = "opencode" /\ Emit(<<ToolUse(t)>> \o <<ToolResult(t)>>)
                    => AddsQuietly(feed, feed', {}, {t}, {t})
<1>0. feed \in Seq(EventRecord)
  BY DEF FeedOK
<1>1. ASSUME NEW d \in EventRecord, NEW e \in EventRecord, Emit(<<d>> \o <<e>>),
             NEW g, g = Append(feed, d)
      PROVE  feed' = Append(g, e) /\ Len(feed) \in Nat /\ Len(g) \in Nat /\ Len(feed') \in Nat
  <2> DEFINE ms == <<d>>
  <2>1. ms \in Seq(EventRecord)
    OBVIOUS
  <2>2. feed \o ms = g
    BY <1>0, <1>1, Chained
  <2> HIDE DEF ms
  <2>3. feed' = Append(feed \o ms, e) /\ feed \o ms \in Seq(EventRecord)
    <3>1. Emit(ms \o <<e>>)
      BY <1>1 DEF ms
    <3> QED
      BY <1>0, <2>1, <3>1, Chained DEF Emit
  <2>4. feed' = Append(g, e) /\ g \in Seq(EventRecord)
    BY <2>2, <2>3
  <2>5. feed' \in Seq(EventRecord)
    BY <2>4, AppendProperties
  <2> QED
    BY <1>0, <2>4, <2>5, LenProperties
<1>2. ASSUME NEW n \in Nat, Emit(<<Failure(n), Result(n)>>)
      PROVE  AddsLast(feed, feed', {}, {}, {}, {n})
  <2> DEFINE d == Failure(n)
             e == Result(n)
             g == Append(feed, d)
  <2>1. d \in EventRecord /\ e \in EventRecord
    BY DEF Result, Failure, EventRecord, Types
  <2>2. <<d, e>> = <<d>> \o <<e>>
    <3> HIDE DEF d, e
    <3>1. <<d, e>> = Append(<<d>>, e) /\ <<d>> \in Seq(EventRecord)
      BY <2>1
    <3> QED
      BY <2>1, <3>1, AppendIsConcat
  <2>3. AddsQuietly(feed, g, {}, {}, {})
    BY <2>1, ClosingNoted
  <2> HIDE DEF g
  <2>4. feed' = Append(g, e) /\ Len(feed) \in Nat /\ Len(g) \in Nat /\ Len(feed') \in Nat
    <3>1. Emit(<<d>> \o <<e>>)
      BY <1>2, <2>2
    <3> QED
      BY <1>1, <2>1, <3>1 DEF g
  <2>5. AddsLast(g, feed', {}, {}, {}, {n})
    <3>1. FeedOK(g)
      BY <2>3 DEF AddsQuietly, Adds
    <3> QED
      BY <2>1, <2>4, <3>1, ClosingNoted
  <2>6. AddsLast(feed, feed', {} \cup {}, {} \cup {}, {} \cup {}, {n})
    BY <2>3, <2>4, <2>5, Then
  <2> QED
    BY <2>6
<1>3. ASSUME NEW t \in Tool \ (UsedIn(feed) \cup AnsweredIn(feed)), kind = "opencode",
             Emit(<<ToolUse(t)>> \o <<ToolResult(t)>>)
      PROVE  AddsQuietly(feed, feed', {}, {t}, {t})
  <2> DEFINE d == ToolUse(t)
             e == ToolResult(t)
             g == Append(feed, d)
  <2>1. d \in EventRecord /\ e \in EventRecord
    BY RoomNumbers DEF ToolUse, ToolResult, EventRecord, Types
  <2>3. AddsQuietly(feed, g, {}, {t}, {})
    BY <1>3, UseNoted
  <2> HIDE DEF g
  <2>4. feed' = Append(g, e) /\ Len(feed) \in Nat /\ Len(g) \in Nat /\ Len(feed') \in Nat
    BY <1>1, <1>3, <2>1 DEF g
  <2>5. AddsQuietly(g, feed', {}, {}, {t})
    <3>1. FeedOK(g) /\ t \in UsedIn(g) /\ t \notin AnsweredIn(g)
      BY <2>3 DEF AddsQuietly, Adds
    <3> QED
      BY <2>1, <2>4, <3>1, AnswerNoted
  <2>6. AddsQuietly(feed, feed', {} \cup {}, {t} \cup {}, {} \cup {t})
    BY <2>3, <2>4, <2>5, Then
  <2> QED
    BY <2>6
<1> QED
  BY <1>2, <1>3

-----------------------------------------------------------------------------
(* The translators, one lemma for each.                                        *)

Doings == {"prompt", "say", "tool", "done", "end", "fail"}

\* A call that begins is new, one that returns was announced and not answered.
Fits(does, n) ==
    /\ does \in Doings
    /\ n \in Nat
    /\ does = "tool" => n \in Tool \ UsedIn(feed)
    /\ does = "done" => n \in UsedIn(feed) \ AnsweredIn(feed)

Live == {"claude", "codex", "cursor"}

\* A turn that failed has a result in some runtimes only.
Closing(does) == does = "end" \/ (does = "fail" /\ kind \in Live)

\* The room hears of a call, of its answer or of an end when that happens, and of
\* the pieces in P.
Tells(does, n, P) ==
    AddsLast(feed, feed', P, IF does = "tool" THEN {n} ELSE {},
                             IF does = "done" THEN {n} ELSE {},
                             IF Closing(does) THEN {n} ELSE {})

LEMMA TellsNothing ==
    ASSUME FeedOK(feed), UNCHANGED feed \/ Emit(<<>>), NEW does, NEW n,
           does \notin {"tool", "done"}
    PROVE  Tells(does, n, {})
<1>1. AddsQuietly(feed, feed', {}, {}, {})
  BY NothingEmitted
<1>2. \A R : AddsLast(feed, feed', {}, {}, {}, R)
  BY <1>1, QuietIsLast
<1> QED
  BY <1>2 DEF Tells

LEMMA TellsCall ==
    ASSUME FeedOK(feed), NEW does, NEW n, Fits(does, n)
    PROVE  /\ does = "tool" /\ Emit(<<ToolUse(n)>>) => Tells(does, n, {})
           /\ does = "done" /\ Emit(<<ToolResult(n)>>) => Tells(does, n, {})
<1>1. ASSUME does = "tool", Emit(<<ToolUse(n)>>) PROVE Tells(does, n, {})
  <2>1. AddsLast(feed, feed', {}, {n}, {}, {})
    BY <1>1, EventEmitted DEF Fits
  <2> QED
    BY <1>1, <2>1 DEF Tells, Closing
<1>2. ASSUME does = "done", Emit(<<ToolResult(n)>>) PROVE Tells(does, n, {})
  <2>1. AddsQuietly(feed, feed', {}, {}, {n})
    BY <1>2, EventEmitted DEF Fits
  <2>2. AddsLast(feed, feed', {}, {}, {n}, {})
    BY <2>1, QuietIsLast
  <2> QED
    BY <1>2, <2>2 DEF Tells, Closing
<1> QED
  BY <1>1, <1>2

LEMMA TellsMessages ==
    ASSUME FeedOK(feed), NEW does, NEW n, Fits(does, n), NEW ms, Fresh(feed, ms)
    PROVE  /\ does \notin {"tool", "done"} /\ Emit(ms) => Tells(does, n, Mirrored(ms))
           /\ does = "tool" /\ Emit(ms \o <<ToolUse(n)>>) => Tells(does, n, Mirrored(ms))
           /\ does = "done" /\ Emit(ms \o <<ToolResult(n)>>) => Tells(does, n, Mirrored(ms))
           /\ does = "end" /\ Emit(ms \o <<Result(n)>>) => Tells(does, n, Mirrored(ms))
<1>1. ASSUME does \notin {"tool", "done"}, Emit(ms) PROVE Tells(does, n, Mirrored(ms))
  <2>1. AddsQuietly(feed, feed', Mirrored(ms), {}, {})
    BY <1>1, MessagesEmitted
  <2>2. \A R : AddsLast(feed, feed', Mirrored(ms), {}, {}, R)
    BY <2>1, QuietIsLast
  <2> QED
    BY <1>1, <2>2 DEF Tells
<1>2. ASSUME does = "tool", Emit(ms \o <<ToolUse(n)>>) PROVE Tells(does, n, Mirrored(ms))
  <2>1. AddsLast(feed, feed', Mirrored(ms), {n}, {}, {})
    BY <1>2, MessagesEmitted DEF Fits
  <2> QED
    BY <1>2, <2>1 DEF Tells, Closing
<1>3. ASSUME does = "done", Emit(ms \o <<ToolResult(n)>>) PROVE Tells(does, n, Mirrored(ms))
  <2>1. AddsQuietly(feed, feed', Mirrored(ms), {}, {n})
    BY <1>3, MessagesEmitted DEF Fits
  <2>2. AddsLast(feed, feed', Mirrored(ms), {}, {n}, {})
    BY <2>1, QuietIsLast
  <2> QED
    BY <1>3, <2>2 DEF Tells, Closing
<1>4. ASSUME does = "end", Emit(ms \o <<Result(n)>>) PROVE Tells(does, n, Mirrored(ms))
  <2>1. AddsLast(feed, feed', Mirrored(ms), {}, {}, {n})
    BY <1>4, MessagesEmitted DEF Fits
  <2> QED
    BY <1>4, <2>1 DEF Tells, Closing
<1> QED
  BY <1>1, <1>2, <1>3, <1>4

LEMMA TellsEnd ==
    ASSUME FeedOK(feed), NEW does, NEW n, Fits(does, n), does \in {"end", "fail"}
    PROVE  /\ Closing(does) /\ Emit(<<Result(n)>>) => Tells(does, n, {})
           /\ Emit(<<Failure(n)>>) => Tells(does, n, {})
           /\ Closing(does) /\ Emit(<<Failure(n), Result(n)>>) => Tells(does, n, {})
<1>1. n \in Nat
  BY DEF Fits
<1>2. /\ Emit(<<Result(n)>>) => AddsLast(feed, feed', {}, {}, {}, {n})
      /\ \A R : Emit(<<Failure(n)>>) => AddsLast(feed, feed', {}, {}, {}, R)
  BY <1>1, EventEmitted, QuietIsLast
<1>3. Emit(<<Failure(n), Result(n)>>) => AddsLast(feed, feed', {}, {}, {}, {n})
  BY <1>1, TwoEmitted
<1>4. Closing(does) /\ AddsLast(feed, feed', {}, {}, {}, {n}) => Tells(does, n, {})
  BY DEF Tells
<1>5. (\A R : AddsLast(feed, feed', {}, {}, {}, R)) => Tells(does, n, {})
  BY DEF Tells
<1> QED
  BY <1>2, <1>3, <1>4, <1>5

LEMMA OnePiece ==
    ASSUME NEW f, NEW n \in Nat, n > History, \A m \in Mirrored(f) : m < n,
           NEW p, p = <<n>>
    PROVE  Untold(f, p) /\ Members(p) = {n}
<1>1. p \in Seq(Nat) /\ Len(p) = 1 /\ p[1] = n
  OBVIOUS
<1>2. Members(p) = {n} /\ Increasing(p)
  BY <1>1 DEF Members, Increasing
<1> QED
  BY <1>1, <1>2 DEF Untold

\* claude, codex and cursor: every piece is told when it is said.
LEMMA LiveTells ==
    ASSUME FeedOK(feed), NEW does, NEW n, Fits(does, n), Hear(does, n),
           kind \in Live,
           does = "say" => n > History /\ \A m \in Mirrored(feed) : m < n
    PROVE  UNCHANGED adapter /\ Tells(does, n, IF does = "say" THEN {n} ELSE {})
<1>0. n \in Nat /\ does \in Doings
  BY DEF Fits
<1>1. /\ UNCHANGED adapter
      /\ \/ Emit(ClaudeEvents(does, n))
         \/ does = "fail" /\ Emit(<<Failure(n), Result(n)>>)
  BY DEF Hear, CodexEvents, CursorEvents, Live
<1>2. CASE does = "say"
  <2> DEFINE p == <<n>>
  <2>1. Emit(Prose(p))
    BY <1>1, <1>2 DEF ClaudeEvents
  <2> HIDE DEF p
  <2>2. Untold(feed, p) /\ Members(p) = {n}
    BY <1>0, <1>2, OnePiece DEF p
  <2>3. Fresh(feed, Prose(p)) /\ Mirrored(Prose(p)) = {n}
    BY <2>2, ProseTells
  <2>4. Tells(does, n, {n})
    BY <1>2, <2>1, <2>3, TellsMessages
  <2> QED
    BY <1>1, <1>2, <2>4
<1>3. CASE does = "tool"
  <2>1. Emit(<<ToolUse(n)>>)
    BY <1>1, <1>3 DEF ClaudeEvents
  <2> QED
    BY <1>1, <1>3, <2>1, TellsCall
<1>4. CASE does = "done"
  <2>1. Emit(<<ToolResult(n)>>)
    BY <1>1, <1>4 DEF ClaudeEvents
  <2> QED
    BY <1>1, <1>4, <2>1, TellsCall
<1>5. CASE does \in {"end", "fail"}
  <2>1. Emit(<<Result(n)>>) \/ Emit(<<Failure(n), Result(n)>>)
    BY <1>1, <1>5 DEF ClaudeEvents
  <2> QED
    BY <1>1, <1>5, <2>1, TellsEnd DEF Closing
<1>6. CASE does = "prompt"
  <2>1. Emit(<<>>)
    BY <1>1, <1>6 DEF ClaudeEvents
  <2> QED
    BY <1>1, <1>6, <2>1, TellsNothing
<1> QED
  BY <1>0, <1>2, <1>3, <1>4, <1>5, <1>6 DEF Doings

\* acp: what was held back is told before a call and at the end.
LEMMA AcpTells ==
    ASSUME FeedOK(feed), NEW does, NEW n, Fits(does, n), AcpUpdate(does, n),
           Untold(feed, held)
    PROVE  /\ UNCHANGED <<path, offset, reported, due, sweeps>>
           /\ does \in {"tool", "end"} => held' = <<>> /\ Tells(does, n, Members(held))
           /\ does \notin {"tool", "end"} => Tells(does, n, {})
           /\ does = "say" => held' = Append(held, n)
           /\ does \notin {"say", "tool", "end"} => held' = held
<1>0. n \in Nat /\ does \in Doings
  BY DEF Fits
<1>1. Fresh(feed, Prose(held)) /\ Mirrored(Prose(held)) = Members(held)
  BY ProseTells
<1>2. /\ UNCHANGED <<path, offset, reported, due, sweeps>>
      /\ does \in {"tool", "end"} => held' = <<>>
      /\ does = "say" => held' = Append(held, n)
      /\ does \notin {"say", "tool", "end"} => held' = held
  BY DEF AcpUpdate
<1>3. does = "tool" => Tells(does, n, Members(held))
  <2> SUFFICES ASSUME does = "tool" PROVE Tells(does, n, Members(held))
    OBVIOUS
  <2>1. Emit(Prose(held) \o <<ToolUse(n)>>)
    BY DEF AcpUpdate
  <2> QED
    BY <1>1, <2>1, TellsMessages
<1>4. does = "end" => Tells(does, n, Members(held))
  <2> SUFFICES ASSUME does = "end" PROVE Tells(does, n, Members(held))
    OBVIOUS
  <2>1. Emit(Prose(held) \o <<Result(n)>>)
    BY DEF AcpUpdate
  <2> QED
    BY <1>1, <2>1, TellsMessages
<1>5. does = "done" => Tells(does, n, {})
  <2> SUFFICES ASSUME does = "done" PROVE Tells(does, n, {})
    OBVIOUS
  <2>1. Emit(<<ToolResult(n)>>)
    BY DEF AcpUpdate
  <2> QED
    BY <2>1, TellsCall
<1>6. does = "fail" => Tells(does, n, {})
  <2> SUFFICES ASSUME does = "fail" PROVE Tells(does, n, {})
    OBVIOUS
  <2>1. Emit(<<Failure(n)>>)
    BY DEF AcpUpdate
  <2> QED
    BY <2>1, TellsEnd
<1>7. does \in {"prompt", "say"} => Tells(does, n, {})
  <2> SUFFICES ASSUME does \in {"prompt", "say"} PROVE Tells(does, n, {})
    OBVIOUS
  <2>1. UNCHANGED feed
    BY DEF AcpUpdate
  <2> QED
    BY <2>1, TellsNothing
<1> QED
  BY <1>0, <1>2, <1>3, <1>4, <1>5, <1>6, <1>7 DEF Doings

\* opencode: what it has reported of a call is what the room has of it.
Matches(f, r) ==
    /\ r \in [Tool -> {"none", "started", "done"}]
    /\ \A t \in Tool : /\ t \in UsedIn(f) <=> r[t] # "none"
                       /\ t \in AnsweredIn(f) <=> r[t] = "done"

LEMMA OpencodeToolTells ==
    ASSUME FeedOK(feed), kind = "opencode", Matches(feed, reported),
           NEW t \in Tool, NEW status \in {"running", "completed"}, OpencodeTool(t, status)
    PROVE  /\ AddsQuietly(feed, feed', {}, UsedIn(feed'), AnsweredIn(feed'))
           /\ Matches(feed', reported')
<1>1. \A U, A : AddsQuietly(feed, feed', {}, U, A)
                   => AddsQuietly(feed, feed', {}, UsedIn(feed'), AnsweredIn(feed'))
  <2> SUFFICES ASSUME NEW U, NEW A, AddsQuietly(feed, feed', {}, U, A)
               PROVE  AddsQuietly(feed, feed', {}, UsedIn(feed'), AnsweredIn(feed'))
    OBVIOUS
  <2>1. UsedIn(feed') = UsedIn(feed) \cup U /\ AnsweredIn(feed') = AnsweredIn(feed) \cup A
    BY DEF AddsQuietly, Adds
  <2>2. /\ UsedIn(feed') = UsedIn(feed) \cup UsedIn(feed')
        /\ AnsweredIn(feed') = AnsweredIn(feed) \cup AnsweredIn(feed')
    BY <2>1, Zenon
  <2> QED
    BY <2>2 DEF AddsQuietly, Adds
<1>2. CASE status = "running" /\ reported[t] = "none"
  <2>1. Emit(<<ToolUse(t)>>) /\ reported' = [reported EXCEPT ![t] = "started"]
    BY <1>2 DEF OpencodeTool
  <2>2. t \notin UsedIn(feed) /\ t \notin AnsweredIn(feed)
    BY <1>2 DEF Matches
  <2>3. AddsQuietly(feed, feed', {}, {t}, {})
    BY <2>1, <2>2, EventEmitted
  <2>4. UsedIn(feed') = UsedIn(feed) \cup {t} /\ AnsweredIn(feed') = AnsweredIn(feed)
    BY <2>3 DEF AddsQuietly, Adds
  <2>5. Matches(feed', reported')
    BY <2>1, <2>2, <2>4 DEF Matches
  <2> QED
    BY <1>1, <2>3, <2>5
<1>3. CASE status = "completed" /\ reported[t] = "started"
  <2>1. reported' = [reported EXCEPT ![t] = "done"]
    BY <1>3 DEF OpencodeTool
  <2>2. Emit(<<ToolResult(t)>>)
    <3>1. Emit(<<>> \o <<ToolResult(t)>>)
      BY <1>3 DEF OpencodeTool
    <3>2. <<>> \o <<ToolResult(t)>> = <<ToolResult(t)>>
      OBVIOUS
    <3> QED
      BY <3>1, <3>2
  <2>3. t \in UsedIn(feed) \ AnsweredIn(feed)
    BY <1>3 DEF Matches
  <2>4. AddsQuietly(feed, feed', {}, {}, {t})
    BY <2>2, <2>3, EventEmitted
  <2>5. UsedIn(feed') = UsedIn(feed) /\ AnsweredIn(feed') = AnsweredIn(feed) \cup {t}
    BY <2>4 DEF AddsQuietly, Adds
  <2>6. Matches(feed', reported')
    BY <2>1, <2>3, <2>5 DEF Matches
  <2> QED
    BY <1>1, <2>4, <2>6
<1>4. CASE status = "completed" /\ reported[t] = "none"
  <2>1. /\ reported' = [reported EXCEPT ![t] = "done"]
        /\ Emit(<<ToolUse(t)>> \o <<ToolResult(t)>>)
    BY <1>4 DEF OpencodeTool
  <2>2. t \in Tool \ (UsedIn(feed) \cup AnsweredIn(feed))
    BY <1>4 DEF Matches
  <2>3. AddsQuietly(feed, feed', {}, {t}, {t})
    BY <2>1, <2>2, TwoEmitted
  <2>4. UsedIn(feed') = UsedIn(feed) \cup {t} /\ AnsweredIn(feed') = AnsweredIn(feed) \cup {t}
    BY <2>3 DEF AddsQuietly, Adds
  <2>5. Matches(feed', reported')
    BY <2>1, <2>2, <2>4 DEF Matches
  <2> QED
    BY <1>1, <2>3, <2>5
<1>5. CASE feed' = feed /\ reported' = reported
  <2>1. AddsQuietly(feed, feed', {}, {}, {})
    BY <1>5, NothingEmitted
  <2> QED
    BY <1>1, <1>5, <2>1
<1>6. reported[t] \in {"none", "started", "done"}
  BY DEF Matches
<1> QED
  BY <1>2, <1>3, <1>4, <1>5, <1>6 DEF OpencodeTool

LEMMA OpencodeTells ==
    ASSUME FeedOK(feed), kind = "opencode", Matches(feed, reported), Untold(feed, held),
           NEW does \in Doings, NEW n \in Nat, does \in {"tool", "done"} => n \in Tool,
           OpencodeEvent(does, n)
    PROVE  /\ AddsLast(feed, feed', IF does = "end" THEN Members(held) ELSE {},
                       UsedIn(feed'), AnsweredIn(feed'), IF does = "end" THEN {n} ELSE {})
           /\ Matches(feed', reported')
           /\ UNCHANGED <<path, offset, due, sweeps>>
           /\ does = "say" => OpencodeText(n)
           /\ does = "end" => held' = <<>>
           /\ does \notin {"say", "end"} => held' = held
<1>1. CASE does = "end" /\ Emit(Prose(held) \o <<Result(n)>>)
           /\ held' = <<>> /\ reported' = reported
  <2>1. Fresh(feed, Prose(held)) /\ Mirrored(Prose(held)) = Members(held)
    BY ProseTells
  <2>2. AddsLast(feed, feed', Members(held), {}, {}, {n})
    BY <1>1, <2>1, MessagesEmitted
  <2>3. UsedIn(feed') = UsedIn(feed) /\ AnsweredIn(feed') = AnsweredIn(feed)
    BY <2>2 DEF AddsLast, Adds
  <2>4. AddsLast(feed, feed', Members(held), UsedIn(feed'), AnsweredIn(feed'), {n})
    BY <2>2, <2>3 DEF AddsLast, Adds
  <2>5. Matches(feed', reported')
    BY <1>1, <2>3 DEF Matches
  <2> QED
    BY <1>1, <2>4, <2>5 DEF OpencodeEvent
<1>2. CASE does # "end" /\ feed' = feed /\ reported' = reported
  <2>1. AddsLast(feed, feed', {}, {}, {}, {})
    BY <1>2, NothingEmitted, QuietIsLast
  <2>2. AddsLast(feed, feed', {}, UsedIn(feed'), AnsweredIn(feed'), {})
    BY <1>2, <2>1 DEF AddsLast, Adds
  <2> QED
    BY <1>2, <2>2 DEF OpencodeEvent
<1>3. CASE does \in {"tool", "done"} /\ \E status \in {"running", "completed"} : OpencodeTool(n, status)
  <2>1. AddsQuietly(feed, feed', {}, UsedIn(feed'), AnsweredIn(feed')) /\ Matches(feed', reported')
    BY <1>3, OpencodeToolTells
  <2>2. AddsLast(feed, feed', {}, UsedIn(feed'), AnsweredIn(feed'), {})
    BY <2>1, QuietIsLast
  <2> QED
    BY <1>3, <2>1, <2>2 DEF OpencodeEvent
<1>4. CASE does = "fail" /\ Emit(<<Failure(n)>>) /\ held' = held /\ reported' = reported
  <2>1. AddsQuietly(feed, feed', {}, {}, {})
    BY <1>4, EventEmitted
  <2>2. AddsLast(feed, feed', {}, {}, {}, {})
    BY <2>1, QuietIsLast
  <2>3. UsedIn(feed') = UsedIn(feed) /\ AnsweredIn(feed') = AnsweredIn(feed)
    BY <2>2 DEF AddsLast, Adds
  <2>4. AddsLast(feed, feed', {}, UsedIn(feed'), AnsweredIn(feed'), {})
    BY <2>2, <2>3 DEF AddsLast, Adds
  <2>5. Matches(feed', reported')
    BY <1>4, <2>3 DEF Matches
  <2> QED
    BY <1>4, <2>4, <2>5 DEF OpencodeEvent
<1> QED
  BY <1>1, <1>2, <1>3, <1>4 DEF OpencodeEvent

\* hooks: the last piece of a turn is told when it ends.
LEMMA HooksTell ==
    ASSUME FeedOK(feed), NEW does, NEW n, Fits(does, n), Emit(HookEvents(does, n)),
           does = "end" => Untold(feed, Reply(n))
    PROVE  /\ does = "end" => Tells(does, n, Members(Reply(n)))
           /\ does # "end" => Tells(does, n, {})
<1>0. does \in Doings
  BY DEF Fits
<1>1. CASE does = "end"
  <2> DEFINE p == Reply(n)
  <2>1. Emit(Prose(p) \o <<Result(n)>>)
    BY <1>1 DEF HookEvents, StopEvents
  <2>2. Untold(feed, p)
    BY <1>1
  <2> HIDE DEF p
  <2>3. Fresh(feed, Prose(p)) /\ Mirrored(Prose(p)) = Members(p)
    BY <2>2, ProseTells
  <2>4. Tells(does, n, Members(p))
    BY <1>1, <2>1, <2>3, TellsMessages
  <2> QED
    BY <1>1, <2>4 DEF p
<1>2. CASE does = "tool"
  <2>1. Emit(<<ToolUse(n)>>)
    BY <1>2 DEF HookEvents
  <2> QED
    BY <1>2, <2>1, TellsCall
<1>3. CASE does = "done"
  <2>1. Emit(<<ToolResult(n)>>)
    BY <1>3 DEF HookEvents
  <2> QED
    BY <1>3, <2>1, TellsCall
<1>4. CASE does \in {"prompt", "say", "fail"}
  <2>1. Emit(<<>>)
    BY <1>4 DEF HookEvents
  <2> QED
    BY <1>4, <2>1, TellsNothing
<1> QED
  BY <1>0, <1>1, <1>2, <1>3, <1>4 DEF Doings

LEMMA PiecesAre ==
    ASSUME NEW a \in Nat, NEW b \in Nat, a <= b, NEW p, p = Pieces(a + 1, b)
    PROVE  p \in Seq(Nat) /\ Increasing(p) /\ Members(p) = a + 1 .. b
<1>1. b + 1 - (a + 1) = b - a /\ b - a \in Nat
  OBVIOUS
<1>2. p = [k \in 1 .. b - a |-> a + 1 + k - 1]
  BY <1>1 DEF Pieces
<1>3. p \in Seq(Nat) /\ Len(p) = b - a
  <2>1. \A k \in 1 .. b - a : a + 1 + k - 1 \in Nat
    OBVIOUS
  <2> QED
    BY <1>1, <1>2, <2>1
<1>4. \A k \in 1 .. Len(p) : p[k] = a + k
  BY <1>2, <1>3
<1>5. Increasing(p)
  BY <1>3, <1>4 DEF Increasing
<1>6. Members(p) = a + 1 .. b
  <2>1. ASSUME NEW n \in Members(p) PROVE n \in a + 1 .. b
    <3>1. PICK k \in 1 .. Len(p) : n = p[k]
      BY DEF Members
    <3> QED
      BY <1>3, <1>4, <3>1
  <2>2. ASSUME NEW n \in a + 1 .. b PROVE n \in Members(p)
    <3>1. n - a \in 1 .. Len(p) /\ a + (n - a) = n
      BY <1>3
    <3> QED
      BY <1>4, <3>1 DEF Members
  <2> QED
    BY <2>1, <2>2
<1> QED
  BY <1>3, <1>5, <1>6

\* cursor-native: a record tells all that was said since the one before it.
LEMMA RecordTells ==
    ASSUME FeedOK(feed), NEW does, NEW n, Fits(does, n), Emit(CursorRecord(does, n)),
           saved \in Nat, Len(said) \in Nat, History <= saved, saved <= Len(said),
           \A m \in Mirrored(feed) : m \in Nat /\ m <= saved
    PROVE  /\ does \in {"tool", "end"} => Tells(does, n, saved + 1 .. Len(said))
           /\ does \notin {"tool", "end"} => Tells(does, n, {})
<1> DEFINE p == Pieces(saved + 1, Len(said))
<1>0. does \in Doings /\ History \in Nat
  BY RoomNumbers DEF Fits
<1>1. p \in Seq(Nat) /\ Increasing(p) /\ Members(p) = saved + 1 .. Len(said)
  BY PiecesAre
<1>2. /\ does = "tool" => Emit(Prose(p) \o <<ToolUse(n)>>)
      /\ does = "done" => Emit(<<ToolResult(n)>>)
      /\ does = "end" => Emit(IF p # <<>> THEN Prose(p) \o <<Result(n)>> ELSE <<>>)
      /\ does \in {"prompt", "say", "fail"} => Emit(<<>>)
  BY DEF CursorRecord
<1> HIDE DEF p
<1>3. Untold(feed, p)
  BY <1>0, <1>1 DEF Untold
<1>4. Fresh(feed, Prose(p)) /\ Mirrored(Prose(p)) = Members(p)
  BY <1>3, ProseTells
<1>5. CASE does = "tool"
  <2>1. Tells(does, n, Members(p))
    BY <1>2, <1>4, <1>5, TellsMessages
  <2> QED
    BY <1>1, <1>5, <2>1
<1>6. CASE does = "end" /\ p # <<>>
  <2>1. Tells(does, n, Members(p))
    BY <1>2, <1>4, <1>6, TellsMessages
  <2> QED
    BY <1>1, <1>6, <2>1
<1>7. CASE does = "end" /\ p = <<>>
  <2>1. Emit(<<>>)
    BY <1>2, <1>7
  <2>2. Tells(does, n, {})
    BY <1>7, <2>1, TellsNothing
  <2>3. Members(p) = {}
    BY <1>7, NoProse
  <2> QED
    BY <1>1, <1>7, <2>2, <2>3
<1>8. CASE does = "done"
  BY <1>2, <1>8, TellsCall
<1>9. CASE does \in {"prompt", "say", "fail"}
  <2>1. Emit(<<>>)
    BY <1>2, <1>9
  <2> QED
    BY <1>9, <2>1, TellsNothing
<1> QED
  BY <1>0, <1>5, <1>6, <1>7, <1>8, <1>9 DEF Doings

\* claude-native: what a flush reads of transcript c.
Read(c) == IF path = c THEN offset + 1 .. Lines(c) ELSE {}

FlushReady(c) ==
    /\ FeedOK(feed)
    /\ offset \in Nat /\ Lines(c) \in Nat
    /\ path = c => Lines(c) <= offset \/ \A m \in Mirrored(feed) : m \in Nat /\ m <= offset

LEMMA FlushReads ==
    ASSUME NEW c, FlushReady(c), NEW after \in Seq(EventRecord), FlushTranscript(c, after)
    PROVE  \E ms : Emit(ms \o after) /\ Fresh(feed, ms) /\ Mirrored(ms) = Read(c)
<1>1. CASE path = c
  <2> DEFINE ms == Messages(offset, offset')
  <2>1. Emit(ms \o after) /\ offset' = IF Lines(c) > offset THEN Lines(c) ELSE offset
    BY <1>1 DEF FlushTranscript, Transcribed, Messages
  <2>2. /\ offset \in Nat /\ offset' \in Nat /\ offset <= offset'
        /\ offset = offset' \/ \A m \in Mirrored(feed) : m \in Nat /\ m <= offset
    BY <1>1, <2>1 DEF FlushReady
  <2>3. Read(c) = offset + 1 .. offset'
    BY <1>1, <2>1, <2>2 DEF FlushReady, Read
  <2>4. Fresh(feed, ms) /\ Mirrored(ms) = offset + 1 .. offset'
    BY <2>2, TranscriptTells, Zenon
  <2> HIDE DEF ms
  <2> QED
    BY <2>1, <2>3, <2>4
<1>2. CASE path # c
  <2> DEFINE e == <<>>
  <2>1. Fresh(feed, e) /\ Mirrored(e) = Read(c)
    BY <1>2, NoProse DEF Read
  <2>2. Emit(after)
    BY <1>2 DEF FlushTranscript
  <2>3. e \o after = after
    BY ConcatEmptySeq
  <2> HIDE DEF e
  <2>4. Emit(e \o after)
    BY <2>2, <2>3
  <2> QED
    BY <2>1, <2>4
<1> QED
  BY <1>1, <1>2

LEMMA FlushTells ==
    ASSUME NEW c, FlushReady(c)
    PROVE  /\ FlushTranscript(c, <<>>) => AddsQuietly(feed, feed', Read(c), {}, {})
           /\ \A t \in Tool \ UsedIn(feed) :
                 FlushTranscript(c, <<ToolUse(t)>>) => AddsLast(feed, feed', Read(c), {t}, {}, {})
           /\ \A t \in UsedIn(feed) \ AnsweredIn(feed) :
                 FlushTranscript(c, <<ToolResult(t)>>) => AddsQuietly(feed, feed', Read(c), {}, {t})
           /\ \A n \in Nat :
                 FlushTranscript(c, <<Result(n)>>) => AddsLast(feed, feed', Read(c), {}, {}, {n})
<1>1. FeedOK(feed)
  BY DEF FlushReady
<1>a. ASSUME NEW e \in EventRecord PROVE <<e>> \in Seq(EventRecord)
  OBVIOUS
<1>b. /\ \A t \in Tool : ToolUse(t) \in EventRecord /\ ToolResult(t) \in EventRecord
      /\ \A n \in Nat : Result(n) \in EventRecord
  <2>1. Tool \subseteq Nat
    BY RoomNumbers
  <2>2. \A n \in Nat : ToolUse(n) \in EventRecord
    BY DEF ToolUse, EventRecord, Types
  <2>3. \A n \in Nat : ToolResult(n) \in EventRecord
    BY DEF ToolResult, EventRecord, Types
  <2>4. \A n \in Nat : Result(n) \in EventRecord
    BY DEF Result, EventRecord, Types
  <2> QED
    BY <2>1, <2>2, <2>3, <2>4
<1>c. ASSUME NEW t \in Tool
      PROVE  <<ToolUse(t)>> \in Seq(EventRecord) /\ <<ToolResult(t)>> \in Seq(EventRecord)
  <2>1. ToolUse(t) \in EventRecord
    BY <1>b
  <2>2. ToolResult(t) \in EventRecord
    BY <1>b
  <2>3. <<ToolUse(t)>> \in Seq(EventRecord)
    BY <1>a, <2>1
  <2>4. <<ToolResult(t)>> \in Seq(EventRecord)
    BY <1>a, <2>2
  <2> QED
    BY <2>3, <2>4
<1>d. \A n \in Nat : <<Result(n)>> \in Seq(EventRecord)
  BY <1>a, <1>b
<1>2. ASSUME FlushTranscript(c, <<>>) PROVE AddsQuietly(feed, feed', Read(c), {}, {})
  <2>1. PICK ms : Emit(ms \o <<>>) /\ Fresh(feed, ms) /\ Mirrored(ms) = Read(c)
    <3>1. <<>> \in Seq(EventRecord)
      BY EmptySeq
    <3> QED
      BY <1>2, <3>1, FlushReads
  <2>2. ms \o <<>> = ms
    BY <2>1 DEF Fresh
  <2>3. Emit(ms)
    BY <2>1, <2>2
  <2> QED
    BY <1>1, <2>1, <2>3, MessagesEmitted
<1>3. ASSUME NEW t \in Tool \ UsedIn(feed), FlushTranscript(c, <<ToolUse(t)>>)
      PROVE  AddsLast(feed, feed', Read(c), {t}, {}, {})
  <2>1. PICK ms : Emit(ms \o <<ToolUse(t)>>) /\ Fresh(feed, ms) /\ Mirrored(ms) = Read(c)
    BY <1>c, <1>3, FlushReads
  <2> QED
    BY <1>1, <2>1, MessagesEmitted
<1>4. ASSUME NEW t \in UsedIn(feed) \ AnsweredIn(feed), FlushTranscript(c, <<ToolResult(t)>>)
      PROVE  AddsQuietly(feed, feed', Read(c), {}, {t})
  <2>1. PICK ms : Emit(ms \o <<ToolResult(t)>>) /\ Fresh(feed, ms) /\ Mirrored(ms) = Read(c)
    <3>1. t \in Tool
      BY <1>4 DEF UsedIn
    <3> QED
      BY <1>c, <1>4, <3>1, FlushReads
  <2> QED
    BY <1>1, <2>1, MessagesEmitted
<1>5. ASSUME NEW n \in Nat, FlushTranscript(c, <<Result(n)>>)
      PROVE  AddsLast(feed, feed', Read(c), {}, {}, {n})
  <2>1. PICK ms : Emit(ms \o <<Result(n)>>) /\ Fresh(feed, ms) /\ Mirrored(ms) = Read(c)
    BY <1>d, <1>5, FlushReads
  <2> QED
    BY <1>1, <2>1, MessagesEmitted
<1> QED
  BY <1>2, <1>3, <1>4, <1>5

LEMMA ClaudeHookTells ==
    ASSUME FlushReady(Current), NEW does, NEW n, Fits(does, n), ClaudeHook(does, n)
    PROVE  /\ does \in {"prompt", "tool", "done"} =>
                 /\ Tells(does, n, Read(Current))
                 /\ \E after : FlushTranscript(Current, after)
           /\ does \in {"say", "end", "fail"} => Tells(does, n, {}) /\ UNCHANGED <<feed, path, offset>>
<1>0. does \in Doings /\ FeedOK(feed)
  BY DEF Fits, FlushReady
<1>1. CASE does = "prompt"
  <2>1. FlushTranscript(Current, <<>>)
    BY <1>1 DEF ClaudeHook
  <2>2. AddsQuietly(feed, feed', Read(Current), {}, {})
    BY <2>1, FlushTells
  <2>3. AddsLast(feed, feed', Read(Current), {}, {}, {})
    BY <2>2, QuietIsLast
  <2> QED
    BY <1>1, <2>1, <2>3 DEF Tells, Closing
<1>2. CASE does = "tool"
  <2>1. FlushTranscript(Current, <<ToolUse(n)>>)
    BY <1>2 DEF ClaudeHook
  <2>2. AddsLast(feed, feed', Read(Current), {n}, {}, {})
    BY <1>2, <2>1, FlushTells DEF Fits
  <2> QED
    BY <1>2, <2>1, <2>2 DEF Tells, Closing
<1>3. CASE does = "done"
  <2>1. FlushTranscript(Current, <<ToolResult(n)>>)
    BY <1>3 DEF ClaudeHook
  <2>2. AddsQuietly(feed, feed', Read(Current), {}, {n})
    BY <1>3, <2>1, FlushTells DEF Fits
  <2>3. AddsLast(feed, feed', Read(Current), {}, {n}, {})
    BY <2>2, QuietIsLast
  <2> QED
    BY <1>3, <2>1, <2>3 DEF Tells, Closing
<1>4. CASE does \in {"say", "end", "fail"}
  <2>1. UNCHANGED <<feed, path, offset>>
    BY <1>4 DEF ClaudeHook
  <2>2. Tells(does, n, {})
    BY <1>0, <1>4, <2>1, TellsNothing
  <2> QED
    BY <1>4, <2>1, <2>2
<1> QED
  BY <1>0, <1>1, <1>2, <1>3, <1>4 DEF Doings

-----------------------------------------------------------------------------
(* The agent. *)

AgentTypes ==
    /\ kind \in Kinds
    /\ turn \in Nat
    /\ active \in BOOLEAN
    /\ said \in Seq(Nat)
    /\ calls \in Seq(Nat)
    /\ running \in Nat
    /\ broken \in SUBSET Nat

\* The history is of no turn; after it prose is of ever later turns, and what was
\* said before a call has been said.
AgentInv ==
    /\ AgentTypes
    /\ Len(calls) <= MaxTools
    /\ History <= Len(said)
    /\ \A n \in 1 .. Len(said) : said[n] <= turn /\ (n > History <=> said[n] # 0)
    /\ \A n \in 1 .. Len(said) : n + 1 <= Len(said) => said[n] <= said[n + 1]
    /\ \A t \in 1 .. Len(calls) : calls[t] <= Len(said)
    /\ running <= Len(calls)
    /\ running # None => active
    /\ active => turn # 0
    /\ \A k \in broken : k <= turn

\* What the agent does, of itself, and that the adapter hears of it.
Turned(does, n) ==
    /\ UNCHANGED kind
    /\ calm' = IF does = "prompt" /\ Calm THEN calm \cup {turn'} ELSE calm
    /\ Hear(does, n)
    /\ does = "prompt" =>
          /\ ~active
          /\ active' = TRUE /\ turn' = turn + 1 /\ n = turn'
          /\ UNCHANGED <<said, calls, running, broken, saved, midLine, starts, fresh>>
    /\ does = "say" =>
          /\ active /\ running = None
          /\ said' = Append(said, turn) /\ n = Len(said')
          /\ UNCHANGED <<turn, active, calls, running, broken, saved, midLine, starts, fresh>>
    /\ does = "tool" =>
          /\ active /\ running = None /\ Len(calls) < MaxTools
          /\ calls' = Append(calls, Len(said)) /\ running' = Len(calls') /\ n = running'
          /\ saved' = Recorded
          /\ UNCHANGED <<turn, active, said, broken, midLine, starts, fresh>>
    /\ does = "done" =>
          /\ running # None
          /\ running' = None /\ n = running
          /\ UNCHANGED <<turn, active, said, calls, broken, saved, midLine, starts, fresh>>
    /\ does = "end" =>
          /\ active /\ running = None
          /\ active' = FALSE /\ n = turn
          /\ saved' = Recorded
          /\ UNCHANGED <<turn, said, calls, running, broken, midLine, starts, fresh>>
    /\ does = "fail" =>
          /\ active /\ turn \notin broken
          /\ broken' = broken \cup {turn} /\ active' = (kind = "opencode")
          /\ running' = None /\ n = turn
          /\ saved' = Recorded
          /\ UNCHANGED <<turn, said, calls, midLine, starts, fresh>>

LEMMA NextIs ==
    ASSUME [Next]_vars
    PROVE  \/ \E does \in Doings : \E n : Turned(does, n)
           \/ RepeatPart
           \/ LoadSession
           \/ WriteTranscript
           \/ ClearConversation
           \/ SessionStart \/ HeldResult \/ Sweep
           \/ UNCHANGED vars
<1>1. BeginTurn => Turned("prompt", turn')
  BY DEF BeginTurn, Turned, disk
<1>2. Say => Turned("say", Len(said'))
  BY DEF Say, Turned, disk
<1>3. CallTool => Turned("tool", running')
  BY DEF CallTool, Turned
<1>4. ToolReturns => Turned("done", running)
  BY DEF ToolReturns, Turned, disk
<1>5. EndTurn => Turned("end", turn)
  BY DEF EndTurn, Turned
<1>6. FailTurn => Turned("fail", turn)
  BY DEF FailTurn, Turned
<1>7. {"prompt", "say", "tool", "done", "end", "fail"} \subseteq Doings
  BY DEF Doings
<1> QED
  BY <1>1, <1>2, <1>3, <1>4, <1>5, <1>6, <1>7 DEF Next

LEMMA SaysOne ==
    ASSUME AgentInv, said' = Append(said, turn)
    PROVE  /\ said' \in Seq(Nat)
           /\ Len(said) \in Nat /\ Len(said') = Len(said) + 1
           /\ said'[Len(said')] = turn
           /\ \A n \in 1 .. Len(said) : said'[n] = said[n]
BY AppendProperties, LenProperties DEF AgentInv, AgentTypes

LEMMA CallsOne ==
    ASSUME AgentInv, calls' = Append(calls, Len(said))
    PROVE  /\ calls' \in Seq(Nat)
           /\ Len(calls) \in Nat /\ Len(calls') = Len(calls) + 1
           /\ calls'[Len(calls')] = Len(said)
           /\ \A t \in 1 .. Len(calls) : calls'[t] = calls[t]
<1>1. Len(said) \in Nat
  BY LenProperties DEF AgentInv, AgentTypes
<1> QED
  BY <1>1, AppendProperties, LenProperties DEF AgentInv, AgentTypes

\* The prose so far, as far as later steps are concerned.
LEMMA AgentFacts ==
    ASSUME AgentInv
    PROVE  /\ Len(said) \in Nat /\ Len(calls) \in Nat
           /\ History \in Nat /\ MaxTools \in Nat /\ None = 0
           /\ \A n \in 1 .. Len(said) : said[n] \in Nat
           /\ \A t \in 1 .. Len(calls) : calls[t] \in Nat
BY RoomNumbers, LenProperties, ElementOfSeq DEF AgentInv, AgentTypes

LEMMA AgentKeeps ==
    ASSUME AgentInv, NEW does \in Doings, NEW n, Turned(does, n)
    PROVE  AgentInv' /\ n \in Nat
<1>0. /\ Len(said) \in Nat /\ Len(calls) \in Nat
      /\ History \in Nat /\ MaxTools \in Nat /\ None = 0
      /\ \A k \in 1 .. Len(said) : said[k] \in Nat
      /\ \A t \in 1 .. Len(calls) : calls[t] \in Nat
  BY AgentFacts
<1>1. CASE does = "prompt"
  <2>1. /\ ~active /\ active' = TRUE /\ turn' = turn + 1 /\ n = turn'
        /\ UNCHANGED <<kind, said, calls, running, broken>>
    BY <1>1 DEF Turned
  <2>2. AgentTypes'
    BY <2>1 DEF AgentInv, AgentTypes
  <2>3. turn \in Nat
    BY DEF AgentInv, AgentTypes
  <2>4. \A k \in broken' : k <= turn'
    BY <2>1, <2>3 DEF AgentInv, AgentTypes
  <2>5. \A k \in 1 .. Len(said') : said'[k] <= turn' /\ (k > History <=> said'[k] # 0)
    BY <1>0, <2>1, <2>3 DEF AgentInv
  <2>6. \A k \in 1 .. Len(said') : k + 1 <= Len(said') => said'[k] <= said'[k + 1]
    BY <2>1 DEF AgentInv
  <2>7. active' => turn' # 0
    BY <2>1, <2>3
  <2> QED
    BY <2>1, <2>2, <2>3, <2>4, <2>5, <2>6, <2>7 DEF AgentInv
<1>2. CASE does = "say"
  <2>1. /\ active /\ running = None
        /\ said' = Append(said, turn) /\ n = Len(said')
        /\ UNCHANGED <<kind, turn, active, calls, running, broken>>
    BY <1>2 DEF Turned
  <2>2. /\ said' \in Seq(Nat)
        /\ Len(said') = Len(said) + 1
        /\ said'[Len(said')] = turn
        /\ \A k \in 1 .. Len(said) : said'[k] = said[k]
    BY <2>1, SaysOne
  <2>3. AgentTypes' /\ turn \in Nat
    BY <2>1, <2>2 DEF AgentInv, AgentTypes
  <2>4. ASSUME NEW k \in 1 .. Len(said')
        PROVE  \/ k \in 1 .. Len(said)
               \/ k = Len(said')
    BY <1>0, <2>2
  <2>5. turn # 0 /\ History <= Len(said)
    BY <2>1 DEF AgentInv
  <2>6. ASSUME NEW k \in 1 .. Len(said')
        PROVE  said'[k] <= turn' /\ (k > History <=> said'[k] # 0)
    <3>1. CASE k \in 1 .. Len(said)
      BY <2>1, <2>2, <3>1 DEF AgentInv
    <3>2. CASE k = Len(said')
      BY <1>0, <2>1, <2>2, <2>3, <2>5, <3>2
    <3> QED
      BY <2>4, <3>1, <3>2
  <2>7. ASSUME NEW k \in 1 .. Len(said'), k + 1 <= Len(said')
        PROVE  said'[k] <= said'[k + 1]
    <3>1. k \in 1 .. Len(said) /\ said'[k] = said[k]
      BY <1>0, <2>2, <2>7
    <3>2. CASE k = Len(said)
      <4>1. said[k] <= turn /\ k + 1 = Len(said')
        BY <2>2, <3>1, <3>2 DEF AgentInv
      <4> QED
        BY <2>2, <3>1, <4>1
    <3>3. CASE k # Len(said)
      <4>1. k + 1 \in 1 .. Len(said) /\ k + 1 <= Len(said)
        BY <1>0, <3>1, <3>3
      <4> QED
        BY <2>2, <3>1, <4>1 DEF AgentInv
    <3> QED
      BY <3>2, <3>3
  <2>8. \A t \in 1 .. Len(calls') : calls'[t] <= Len(said')
    <3>1. \A t \in 1 .. Len(calls) : calls[t] <= Len(said)
      BY DEF AgentInv
    <3> QED
      BY <1>0, <2>1, <2>2, <3>1
  <2>9. /\ Len(calls') <= MaxTools /\ History <= Len(said')
        /\ running' <= Len(calls') /\ (running' # None => active') /\ (active' => turn' # 0)
    BY <1>0, <2>1, <2>2, <2>5 DEF AgentInv
  <2> QED
    BY <1>0, <2>1, <2>2, <2>3, <2>6, <2>7, <2>8, <2>9 DEF AgentInv
<1>3. CASE does = "tool"
  <2>1. /\ active /\ Len(calls) < MaxTools
        /\ calls' = Append(calls, Len(said)) /\ running' = Len(calls') /\ n = running'
        /\ UNCHANGED <<kind, turn, active, said, broken>>
    BY <1>3 DEF Turned
  <2>2. /\ calls' \in Seq(Nat)
        /\ Len(calls') = Len(calls) + 1
        /\ calls'[Len(calls')] = Len(said)
        /\ \A t \in 1 .. Len(calls) : calls'[t] = calls[t]
    BY <2>1, CallsOne
  <2>3. AgentTypes'
    BY <1>0, <2>1, <2>2 DEF AgentInv, AgentTypes
  <2>4. ASSUME NEW t \in 1 .. Len(calls') PROVE calls'[t] <= Len(said')
    <3>1. CASE t \in 1 .. Len(calls)
      BY <2>1, <2>2, <3>1 DEF AgentInv
    <3>2. CASE t = Len(calls')
      BY <1>0, <2>1, <2>2, <3>2
    <3> QED
      BY <1>0, <2>2, <3>1, <3>2
  <2>5. Len(calls') <= MaxTools /\ running' <= Len(calls') /\ n \in Nat
    BY <1>0, <2>1, <2>2
  <2> QED
    BY <2>1, <2>3, <2>4, <2>5 DEF AgentInv
<1>4. CASE does \in {"done", "end", "fail"}
  <2>1. /\ UNCHANGED <<kind, turn, said, calls>>
        /\ running' = None
        /\ n \in {running, turn}
        /\ active' => active
        /\ active' \in BOOLEAN
        /\ broken' \in SUBSET Nat
        /\ broken' \subseteq broken \cup {turn}
    <3>1. broken \in SUBSET Nat /\ turn \in Nat /\ active \in BOOLEAN
      BY DEF AgentInv, AgentTypes
    <3>2. CASE does = "done"
      BY <3>1, <3>2 DEF Turned
    <3>3. CASE does = "end"
      BY <3>1, <3>3 DEF Turned
    <3>4. CASE does = "fail"
      BY <3>1, <3>4 DEF Turned
    <3> QED
      BY <1>4, <3>2, <3>3, <3>4
  <2>2. AgentTypes'
    BY <1>0, <2>1 DEF AgentInv, AgentTypes
  <2>3. n \in Nat
    BY <2>1 DEF AgentInv, AgentTypes
  <2>4. \A k \in broken' : k <= turn'
    BY <2>1 DEF AgentInv, AgentTypes
  <2> QED
    BY <1>0, <2>1, <2>2, <2>3, <2>4 DEF AgentInv
<1> QED
  BY <1>1, <1>2, <1>3, <1>4 DEF Doings

-----------------------------------------------------------------------------
(* Calls. *)

TimerRecord == [turn : Nat, path : Nat]

AdapterTypes ==
    /\ saved \in Nat
    /\ midLine \in BOOLEAN
    /\ starts \in Seq(Nat)
    /\ fresh \in BOOLEAN
    /\ path \in Nat
    /\ offset \in Nat
    /\ held \in Seq(Nat)
    /\ due \in Seq(TimerRecord)
    /\ sweeps \in Seq(TimerRecord)
    /\ kind # "claude-native" => due = <<>> /\ sweeps = <<>> /\ ~fresh

\* Every call has been announced, the one that runs was not answered.
CallsInv ==
    IF kind = "opencode"
    THEN Matches(feed, reported)
    ELSE UsedIn(feed) = 1 .. Len(calls) /\ running \notin AnsweredIn(feed)

\* What the room is to read before it sees a call.
Needed(t) ==
    {n \in History + 1 .. calls[t] : kind # "cursor-native" \/ said[n] \notin broken}

MirroredTo(f, k) == UNION {Told(f[j]) : j \in 1 .. k}

UsesInPlace ==
    kind \in {"claude", "codex", "cursor", "acp", "cursor-native"} =>
        \A k \in 1 .. Len(feed), t \in Tool :
            IsUse(feed[k], t) => Needed(t) \subseteq MirroredTo(feed, k)

LEMMA MirroredToAll ==
    ASSUME NEW f
    PROVE  MirroredTo(f, Len(f)) = Mirrored(f)
BY DEF MirroredTo, Mirrored

LEMMA MirroredBefore ==
    ASSUME NEW f \in Seq(EventRecord), NEW g, Extends(f, g), NEW k \in 1 .. Len(f)
    PROVE  MirroredTo(g, k) = MirroredTo(f, k)
<1>1. Len(f) \in Nat
  BY LenProperties
<1>2. \A j \in 1 .. k : g[j] = f[j]
  BY <1>1 DEF Extends
<1> QED
  BY <1>2 DEF MirroredTo

LEMMA TurnFits ==
    ASSUME AgentInv, kind # "opencode", CallsInv, NEW does \in Doings, NEW n, Turned(does, n)
    PROVE  Fits(does, n)
<1>0. /\ Len(calls) \in Nat /\ MaxTools \in Nat /\ None = 0 /\ Tool = 1 .. MaxTools
      /\ UsedIn(feed) = 1 .. Len(calls) /\ running \notin AnsweredIn(feed)
      /\ running \in Nat /\ running <= Len(calls)
  BY AgentFacts, RoomNumbers DEF CallsInv, AgentInv, AgentTypes
<1>1. n \in Nat
  BY AgentKeeps
<1>2. does = "tool" => n = Len(calls) + 1 /\ Len(calls) < MaxTools
  <2> SUFFICES ASSUME does = "tool" PROVE n = Len(calls) + 1 /\ Len(calls) < MaxTools
    OBVIOUS
  <2>1. calls' = Append(calls, Len(said)) /\ n = Len(calls') /\ Len(calls) < MaxTools
    BY DEF Turned
  <2> QED
    BY <2>1, CallsOne
<1>3. does = "done" => n = running /\ running # 0
  BY <1>0 DEF Turned
<1>4. does = "tool" => n \in Tool \ UsedIn(feed)
  BY <1>0, <1>2
<1>5. does = "done" => n \in UsedIn(feed) \ AnsweredIn(feed)
  BY <1>0, <1>3
<1> QED
  BY <1>1, <1>4, <1>5 DEF Fits

LEMMA TellsIs ==
    ASSUME NEW does, NEW n, NEW P, Tells(does, n, P)
    PROVE  /\ FeedOK(feed')
           /\ Extends(feed, feed')
           /\ Mirrored(feed') = Mirrored(feed) \cup P
           /\ does = "tool" => UsedIn(feed') = UsedIn(feed) \cup {n}
           /\ does # "tool" => UsedIn(feed') = UsedIn(feed)
           /\ does = "done" => AnsweredIn(feed') = AnsweredIn(feed) \cup {n}
           /\ does # "done" => AnsweredIn(feed') = AnsweredIn(feed)
           /\ \A k \in Len(feed) + 1 .. Len(feed') :
                 \/ Quiet(feed'[k])
                 \/ k = Len(feed') /\ (feed'[k].type = "result" => Closing(does) /\ feed'[k].of[1] = n)
<1>1. Adds(feed, feed', P, IF does = "tool" THEN {n} ELSE {}, IF does = "done" THEN {n} ELSE {})
  BY DEF Tells, AddsLast
<1>2. /\ FeedOK(feed')
      /\ Extends(feed, feed')
      /\ Mirrored(feed') = Mirrored(feed) \cup P
      /\ UsedIn(feed') = UsedIn(feed) \cup (IF does = "tool" THEN {n} ELSE {})
      /\ AnsweredIn(feed') = AnsweredIn(feed) \cup (IF does = "done" THEN {n} ELSE {})
  BY <1>1 DEF Adds
<1>3. \A k \in Len(feed) + 1 .. Len(feed') :
         \/ Quiet(feed'[k])
         \/ k = Len(feed') /\ (feed'[k].type = "result" => Closing(does) /\ feed'[k].of[1] = n)
  BY DEF Tells, AddsLast
<1>4. /\ does = "tool" => UsedIn(feed') = UsedIn(feed) \cup {n}
      /\ does # "tool" => UsedIn(feed') = UsedIn(feed)
  BY <1>2
<1>5. /\ does = "done" => AnsweredIn(feed') = AnsweredIn(feed) \cup {n}
      /\ does # "done" => AnsweredIn(feed') = AnsweredIn(feed)
  BY <1>2
<1> QED
  BY <1>2, <1>3, <1>4, <1>5

LEMMA CallsKeep ==
    ASSUME AgentInv, kind # "opencode", FeedOK(feed), CallsInv,
           NEW does \in Doings, NEW n, Turned(does, n), NEW P, Tells(does, n, P)
    PROVE  CallsInv'
<1>0. /\ Len(calls) \in Nat /\ None = 0 /\ Tool = 1 .. MaxTools /\ MaxTools \in Nat
      /\ UsedIn(feed) = 1 .. Len(calls) /\ running \notin AnsweredIn(feed)
      /\ kind' = kind
  BY AgentFacts, RoomNumbers DEF CallsInv, Turned
<1>1. /\ does = "tool" => UsedIn(feed') = UsedIn(feed) \cup {n}
      /\ does # "tool" => UsedIn(feed') = UsedIn(feed)
      /\ does = "done" => AnsweredIn(feed') = AnsweredIn(feed) \cup {n}
      /\ does # "done" => AnsweredIn(feed') = AnsweredIn(feed)
  BY TellsIs
<1>2. AnsweredIn(feed) \subseteq 1 .. Len(calls) /\ 0 \notin AnsweredIn(feed')
  <2>1. AnsweredIn(feed) \subseteq UsedIn(feed)
    BY DEF FeedOK, OnceEach, UsedIn, AnsweredIn
  <2>2. 0 \notin AnsweredIn(feed')
    BY <1>0 DEF AnsweredIn
  <2> QED
    BY <1>0, <2>1, <2>2
<1>3. CASE does = "tool"
  <2>1. calls' = Append(calls, Len(said)) /\ running' = Len(calls') /\ n = running'
    BY <1>3 DEF Turned
  <2>2. Len(calls') = Len(calls) + 1
    BY <2>1, CallsOne
  <2>3. UsedIn(feed') = 1 .. Len(calls')
    <3>1. UsedIn(feed') = (1 .. Len(calls)) \cup {Len(calls) + 1}
      BY <1>0, <1>1, <1>3, <2>1, <2>2
    <3>2. 1 .. Len(calls') = (1 .. Len(calls)) \cup {Len(calls) + 1}
      BY <1>0, <2>2
    <3> QED
      BY <3>1, <3>2
  <2>4. running' \notin AnsweredIn(feed')
    <3>1. AnsweredIn(feed') = AnsweredIn(feed) /\ running' = Len(calls) + 1
      BY <1>1, <1>3, <2>1, <2>2
    <3>2. Len(calls) + 1 \notin 1 .. Len(calls)
      BY <1>0
    <3> QED
      BY <1>2, <3>1, <3>2
  <2> QED
    BY <1>0, <2>3, <2>4 DEF CallsInv
<1>4. CASE does # "tool"
  <2>1. calls' = calls
    BY <1>4 DEF Turned, Doings
  <2>2. \/ running' = 0
        \/ running' = running /\ does # "done"
    <3>1. does = "done" => running' = 0
      BY <1>0 DEF Turned
    <3>2. does \in {"prompt", "say", "end"} => running' = running
      BY DEF Turned
    <3>3. does = "fail" => running' = 0
      BY <1>0 DEF Turned
    <3> QED
      BY <1>4, <3>1, <3>2, <3>3 DEF Doings
  <2>3. UsedIn(feed') = 1 .. Len(calls') /\ running' \notin AnsweredIn(feed')
    BY <1>0, <1>1, <1>2, <1>4, <2>1, <2>2
  <2> QED
    BY <1>0, <2>3 DEF CallsInv
<1> QED
  BY <1>3, <1>4

\* What a step leaves of the past: calls and what was said before them.
LEMMA PastStays ==
    ASSUME AgentInv, NEW does \in Doings, NEW n, Turned(does, n),
           NEW t \in 1 .. Len(calls)
    PROVE  Needed(t)' \subseteq Needed(t)
<1>0. /\ Len(said) \in Nat /\ Len(calls) \in Nat /\ History \in Nat
      /\ calls[t] \in Nat /\ calls[t] <= Len(said)
  BY AgentFacts DEF AgentInv
<1>1. kind' = kind
  BY DEF Turned
<1>2. calls'[t] = calls[t]
  <2>1. CASE does = "tool"
    BY <2>1, CallsOne DEF Turned
  <2>2. CASE does # "tool"
    BY <2>2 DEF Turned, Doings
  <2> QED
    BY <2>1, <2>2
<1>3. \A k \in 1 .. Len(said) : said'[k] = said[k]
  <2>1. CASE does = "say"
    BY <2>1, SaysOne DEF Turned
  <2>2. CASE does # "say"
    BY <2>2 DEF Turned, Doings
  <2> QED
    BY <2>1, <2>2
<1>4. broken \subseteq broken'
  BY DEF Turned, Doings
<1>5. \A k \in History + 1 .. calls[t] : k \in 1 .. Len(said)
  BY <1>0
<1> QED
  BY <1>1, <1>2, <1>3, <1>4, <1>5 DEF Needed

LEMMA UsesKeep ==
    ASSUME AgentInv, kind # "opencode", FeedOK(feed), CallsInv, UsesInPlace,
           NEW does \in Doings, NEW n, Turned(does, n), NEW P, Tells(does, n, P),
           kind \in {"claude", "codex", "cursor", "acp", "cursor-native"} /\ does = "tool"
              => Needed(n)' \subseteq Mirrored(feed')
    PROVE  UsesInPlace'
<1> SUFFICES ASSUME kind' \in {"claude", "codex", "cursor", "acp", "cursor-native"},
                    NEW k \in 1 .. Len(feed'), NEW t \in Tool, IsUse(feed'[k], t)
             PROVE  Needed(t)' \subseteq MirroredTo(feed', k)
  BY DEF UsesInPlace
<1>0. /\ kind' = kind
      /\ Len(feed) \in Nat /\ Len(feed') \in Nat
      /\ FeedOK(feed') /\ Extends(feed, feed')
      /\ feed \in Seq(EventRecord)
      /\ UsedIn(feed) = 1 .. Len(calls)
  <2>1. FeedOK(feed') /\ Extends(feed, feed')
    BY TellsIs
  <2>2. feed \in Seq(EventRecord) /\ feed' \in Seq(EventRecord)
    BY <2>1 DEF FeedOK
  <2> QED
    BY <2>1, <2>2, LenProperties DEF Turned, CallsInv
<1>1. CASE k \in 1 .. Len(feed)
  <2>1. feed'[k] = feed[k]
    BY <1>0, <1>1 DEF Extends
  <2>2. IsUse(feed[k], t)
    BY <2>1
  <2>3. t \in UsedIn(feed)
    BY <1>1, <2>2 DEF UsedIn
  <2>4. Needed(t)' \subseteq Needed(t)
    BY <1>0, <2>3, PastStays
  <2>5. Needed(t) \subseteq MirroredTo(feed, k)
    BY <1>0, <1>1, <2>2 DEF UsesInPlace
  <2>6. MirroredTo(feed', k) = MirroredTo(feed, k)
    BY <1>0, <1>1, MirroredBefore
  <2> QED
    BY <2>4, <2>5, <2>6
<1>2. CASE k \notin 1 .. Len(feed)
  <2>1. k \in Len(feed) + 1 .. Len(feed')
    BY <1>0, <1>2
  <2>2. ~Quiet(feed'[k])
    BY DEF Quiet, IsUse
  <2>3. k = Len(feed')
    BY <2>1, <2>2, TellsIs
  <2>4. t \notin UsedIn(feed)
    <3> SUFFICES ASSUME t \in UsedIn(feed) PROVE FALSE
      OBVIOUS
    <3>1. PICK j \in 1 .. Len(feed) : IsUse(feed[j], t)
      BY DEF UsedIn
    <3>2. j \in 1 .. Len(feed') /\ IsUse(feed'[j], t)
      BY <1>0, <3>1 DEF Extends
    <3>3. j = k
      BY <1>0, <3>2 DEF FeedOK, OnceEach
    <3> QED
      BY <1>2, <3>3
  <2>5. t \in UsedIn(feed')
    BY DEF UsedIn
  <2>6. does = "tool" /\ t = n
    BY <2>4, <2>5, TellsIs
  <2>7. Needed(t)' \subseteq Mirrored(feed')
    BY <1>0, <2>6
  <2> QED
    BY <2>3, <2>7, MirroredToAll
<1> QED
  BY <1>1, <1>2

\* The body of ReplyBeforeResult.
ReplyTold ==
    \A k \in Len(feed) + 1 .. Len(feed') :
        feed'[k].type = "result" =>
            \A n \in Mirrorable(feed'[k].of[1]) :
                \/ kind = "claude-native" /\ (n > saved \/ feed'[k].of[1] \notin calm)
                \/ n \in MirroredTo(feed', k)

LEMMA ReplyKeeps ==
    ASSUME NEW does, NEW n, NEW P, Tells(does, n, P),
           Closing(does) => \A m \in Mirrorable(n) : m \in Mirrored(feed')
    PROVE  ReplyTold
<1> SUFFICES ASSUME NEW k \in Len(feed) + 1 .. Len(feed'), feed'[k].type = "result",
                    NEW m \in Mirrorable(feed'[k].of[1])
             PROVE  m \in MirroredTo(feed', k)
  BY DEF ReplyTold
<1>1. ~Quiet(feed'[k])
  BY DEF Quiet
<1>2. k = Len(feed') /\ Closing(does) /\ feed'[k].of[1] = n
  BY <1>1, TellsIs
<1>3. m \in Mirrored(feed')
  BY <1>2
<1> QED
  BY <1>2, <1>3, MirroredToAll

LEMMA NoReplyDue ==
    ASSUME \A k \in Len(feed) + 1 .. Len(feed') : Quiet(feed'[k])
    PROVE  ReplyTold
BY DEF ReplyTold, Quiet

-----------------------------------------------------------------------------
(* What the room has of the prose, one way of reporting after the other.       *)

\* Everything that was said where the room could see it.
Heard == History + 1 .. Len(said)

LiveInv == Mirrored(feed) = Heard

\* acp and opencode: what the room has comes before what is held back.
HeldInv ==
    /\ Increasing(held)
    /\ Heard \subseteq Mirrored(feed) \cup Members(held)
    /\ \A m \in Mirrored(feed) \cup Members(held) :
          m \in 1 .. Len(said) /\ (kind # "acp" => m > History)
    /\ \A m \in Mirrored(feed), n \in Members(held) : m < n

\* hooks: nothing of a turn before its end.
HooksInv ==
    /\ Mirrored(feed) \subseteq Heard
    /\ active => \A m \in Mirrored(feed) : said[m] # turn

\* cursor-native: what is in a record the room has, but for the turns that failed;
\* what is in none yet was said in this turn.
RecordInv ==
    /\ History <= saved /\ saved <= Len(said)
    /\ \A m \in Mirrored(feed) : m \in Heard /\ m <= saved
    /\ \A n \in Heard : n <= saved /\ said[n] \notin broken => n \in Mirrored(feed)
    /\ \A n \in Heard : n > saved => active /\ said[n] = turn
    /\ active => turn \notin broken

\* claude-native: transcripts follow one another.
DiskInv ==
    /\ History <= saved /\ saved <= Len(said)
    /\ midLine => saved < Len(said)
    /\ Current # 0
    /\ \A c \in 1 .. Current : starts[c] <= Len(said) /\ (c # 1 => History <= starts[c])
    /\ \A c \in 1 .. Current : c # Current => starts[c] <= starts[c + 1]

\* The adapter follows a transcript that has ended, and has read all of it.
Consumed == path < Current /\ starts[path + 1] <= offset

\* What comes next in the transcript that is followed comes after what the room has.
TailInv ==
    /\ path <= Current /\ offset <= Len(said)
    /\ path # None => History <= offset /\ starts[path] <= offset
    /\ IF path = None THEN Mirrored(feed) = {}
       ELSE Consumed \/ \A m \in Mirrored(feed) : m <= offset
    /\ \A m \in Mirrored(feed) : m \in Heard /\ m <= saved

\* The room has all that was read of the turns that no earlier conversation disturbs.
CalmInv ==
    /\ calm # {} => path = Current
    /\ \A n \in Heard : said[n] \in calm /\ n <= offset => n \in Mirrored(feed)

Pending == Members(due) \cup Members(sweeps)

PendingInv ==
    /\ \A d \in Pending : d.path \in 1 .. Current
    /\ calm # {} => \A d \in Pending : d.path = Current

TranscriptInv == DiskInv /\ TailInv /\ CalmInv /\ PendingInv

ProseInv ==
    /\ kind \in Live => LiveInv
    /\ kind \in {"acp", "opencode"} => HeldInv
    /\ kind = "hooks" => HooksInv
    /\ kind = "cursor-native" => RecordInv
    /\ kind = "claude-native" => TranscriptInv

RoomInv ==
    /\ AgentInv
    /\ AdapterTypes
    /\ FeedOK(feed)
    /\ CallsInv
    /\ UsesInPlace
    /\ ProseInv

\* What a step of the agent leaves and makes of the prose.
LEMMA TurnFacts ==
    ASSUME AgentInv, saved \in Nat, NEW does \in Doings, NEW n, Turned(does, n)
    PROVE  /\ kind' = kind /\ midLine' = midLine /\ starts' = starts /\ fresh' = fresh /\ saved' \in Nat
           /\ kind # "cursor-native" => saved' = saved
           /\ does = "say" => /\ n = Len(said) + 1 /\ Len(said') = n /\ n > History
                              /\ said'[n] = turn
                              /\ \A k \in 1 .. Len(said) : said'[k] = said[k]
                              /\ active /\ turn # 0 /\ UNCHANGED <<active, turn, broken, saved>>
           /\ does # "say" => said' = said
           /\ does \in {"tool", "end", "fail"} =>
                 /\ active /\ turn # 0
                 /\ turn' = turn
                 /\ saved' = IF kind = "cursor-native" THEN Len(said) ELSE saved
           /\ does \in {"end", "fail"} => n = turn
           /\ does = "tool" =>
                 Needed(n)' = {k \in Heard : kind # "cursor-native" \/ said[k] \notin broken}
<1>0. /\ Len(said) \in Nat /\ Len(calls) \in Nat /\ History \in Nat /\ None = 0
      /\ History <= Len(said) /\ (active => turn # 0)
  BY AgentFacts DEF AgentInv
<1>1. kind' = kind /\ midLine' = midLine /\ starts' = starts /\ fresh' = fresh
  BY DEF Turned, Doings
<1>2. does = "say" => /\ n = Len(said) + 1 /\ Len(said') = n /\ n > History
                      /\ said'[n] = turn
                      /\ \A k \in 1 .. Len(said) : said'[k] = said[k]
                      /\ active /\ turn # 0 /\ UNCHANGED <<active, turn, broken, saved>>
  <2> SUFFICES ASSUME does = "say"
               PROVE  /\ n = Len(said) + 1 /\ Len(said') = n /\ n > History
                      /\ said'[n] = turn
                      /\ \A k \in 1 .. Len(said) : said'[k] = said[k]
                      /\ active /\ turn # 0 /\ UNCHANGED <<active, turn, broken, saved>>
    OBVIOUS
  <2>1. said' = Append(said, turn) /\ n = Len(said') /\ active /\ UNCHANGED <<active, turn, broken, saved>>
    BY DEF Turned
  <2>2. /\ Len(said') = Len(said) + 1
        /\ said'[Len(said')] = turn
        /\ \A k \in 1 .. Len(said) : said'[k] = said[k]
    BY <2>1, SaysOne
  <2> QED
    BY <1>0, <2>1, <2>2
<1>3. does # "say" => said' = said
  BY DEF Turned, Doings
<1>4. does \in {"tool", "end", "fail"} =>
         /\ active /\ turn' = turn
         /\ saved' = IF kind = "cursor-native" THEN Len(said) ELSE saved
  BY DEF Turned, Recorded
<1>5. does \in {"prompt", "say", "done"} => saved' = saved
  BY DEF Turned
<1>6. saved' \in Nat /\ (kind # "cursor-native" => saved' = saved)
  BY <1>0, <1>4, <1>5 DEF Doings
<1>7. does \in {"end", "fail"} => n = turn
  BY DEF Turned
<1>8. does = "tool" => Needed(n)' = {k \in Heard : kind # "cursor-native" \/ said[k] \notin broken}
  <2> SUFFICES ASSUME does = "tool"
               PROVE  Needed(n)' = {k \in Heard : kind # "cursor-native" \/ said[k] \notin broken}
    OBVIOUS
  <2>1. calls' = Append(calls, Len(said)) /\ n = Len(calls') /\ said' = said /\ broken' = broken
    BY DEF Turned
  <2>2. calls'[n] = Len(said)
    BY <2>1, CallsOne
  <2> QED
    BY <1>1, <2>1, <2>2 DEF Needed, Heard
<1> QED
  BY <1>0, <1>1, <1>2, <1>3, <1>4, <1>6, <1>7, <1>8

LEMMA TurnKeeps ==
    ASSUME RoomInv, kind # "opencode", NEW does \in Doings, NEW n, Turned(does, n),
           NEW P, Tells(does, n, P), AdapterTypes', ProseInv',
           kind \in {"claude", "codex", "cursor", "acp", "cursor-native"} /\ does = "tool"
              => Needed(n)' \subseteq Mirrored(feed'),
           Closing(does) => \A m \in Mirrorable(n) : m \in Mirrored(feed')
    PROVE  RoomInv' /\ ReplyTold
<1>1. AgentInv /\ FeedOK(feed) /\ CallsInv /\ UsesInPlace
  BY DEF RoomInv
<1>2. AgentInv'
  BY <1>1, AgentKeeps
<1>3. FeedOK(feed')
  BY TellsIs
<1>4. CallsInv'
  BY <1>1, CallsKeep
<1>5. UsesInPlace'
  BY <1>1, UsesKeep
<1>6. ReplyTold
  BY ReplyKeeps
<1> QED
  BY <1>2, <1>3, <1>4, <1>5, <1>6 DEF RoomInv

\* Of a turn, everything that is to be mirrored was said in it.
LEMMA MirrorableHeard ==
    ASSUME AgentInv, turn # 0, NEW m \in Mirrorable(turn)
    PROVE  /\ m \in Heard /\ m \in 1 .. Len(said) /\ said[m] = turn
           /\ kind = "hooks" => m = Len(said)
<1>0. /\ Len(said) \in Nat /\ History \in Nat /\ \A k \in 1 .. Len(said) : said[k] \in Nat
      /\ turn \in Nat
  BY AgentFacts DEF AgentInv, AgentTypes
<1>1. /\ m \in 1 .. Len(said) /\ said[m] = turn
      /\ kind = "hooks" => m = Len(said) \/ said[m + 1] # turn
  BY DEF Mirrorable
<1>2. m > History
  BY <1>1 DEF AgentInv
<1>3. ASSUME kind = "hooks", m # Len(said) PROVE FALSE
  <2>1. m + 1 \in 1 .. Len(said) /\ m + 1 <= Len(said)
    BY <1>0, <1>1, <1>3
  <2>2. said[m] <= said[m + 1] /\ said[m + 1] <= turn /\ said[m + 1] \in Nat
    BY <1>0, <1>1, <2>1 DEF AgentInv
  <2>3. said[m + 1] # turn
    BY <1>1, <1>3
  <2> QED
    BY <1>0, <1>1, <2>2, <2>3
<1> QED
  BY <1>0, <1>1, <1>2, <1>3 DEF Heard

LEMMA LiveKeeps ==
    ASSUME RoomInv, kind \in Live, NEW does \in Doings, NEW n, Turned(does, n)
    PROVE  RoomInv' /\ ReplyTold
<1>0. /\ AgentInv /\ FeedOK(feed) /\ CallsInv /\ AdapterTypes /\ Mirrored(feed) = Heard
      /\ kind # "opencode" /\ kind \notin {"acp", "hooks", "cursor-native", "claude-native"}
      /\ Len(said) \in Nat /\ History \in Nat /\ History <= Len(said)
  BY AgentFacts DEF RoomInv, ProseInv, LiveInv, Live, AgentInv
<1>1. Fits(does, n) /\ Hear(does, n)
  BY <1>0, TurnFits DEF Turned
<1>2. /\ kind' = kind /\ midLine' = midLine /\ starts' = starts /\ fresh' = fresh /\ saved' = saved
      /\ does = "say" => n = Len(said) + 1 /\ Len(said') = n /\ n > History
      /\ does # "say" => said' = said
      /\ does \in {"end", "fail"} => n = turn /\ turn # 0
      /\ does = "tool" => Needed(n)' \subseteq Heard
  BY <1>0, TurnFacts DEF AdapterTypes
<1>3. does = "say" => n > History /\ \A m \in Mirrored(feed) : m < n
  BY <1>0, <1>2 DEF Heard
<1> DEFINE P == IF does = "say" THEN {n} ELSE {}
<1>4. UNCHANGED adapter /\ Tells(does, n, P)
  BY <1>0, <1>1, <1>3, LiveTells
<1>5. AdapterTypes'
  BY <1>0, <1>2, <1>4 DEF AdapterTypes, adapter
<1>6. Mirrored(feed') = Heard'
  <2>1. Mirrored(feed') = Mirrored(feed) \cup P
    BY <1>4, TellsIs
  <2>2. CASE does = "say"
    <3>1. (History + 1 .. Len(said)) \cup {n} = History + 1 .. n
      BY <1>0, <1>2, <2>2
    <3>2. Heard' = History + 1 .. n
      BY <1>2, <2>2 DEF Heard
    <3> QED
      BY <1>0, <2>1, <2>2, <3>1, <3>2 DEF Heard
  <2>3. CASE does # "say"
    BY <1>0, <1>2, <2>1, <2>3 DEF Heard
  <2> QED
    BY <2>2, <2>3
<1>7. ProseInv'
  BY <1>0, <1>2, <1>6 DEF ProseInv, LiveInv
<1>8. does = "tool" => Needed(n)' \subseteq Mirrored(feed')
  <2> SUFFICES ASSUME does = "tool" PROVE Needed(n)' \subseteq Mirrored(feed')
    OBVIOUS
  <2>1. Heard' = Heard
    BY <1>2 DEF Heard
  <2> QED
    BY <1>2, <1>6, <2>1
<1>9. Closing(does) => \A m \in Mirrorable(n) : m \in Mirrored(feed')
  <2> SUFFICES ASSUME Closing(does), NEW m \in Mirrorable(n) PROVE m \in Mirrored(feed')
    OBVIOUS
  <2>1. does \in {"end", "fail"} /\ n = turn /\ turn # 0 /\ said' = said
    BY <1>2 DEF Closing
  <2>2. m \in Heard
    BY <1>0, <2>1, MirrorableHeard
  <2> QED
    BY <1>6, <2>1, <2>2 DEF Heard
<1> HIDE DEF P
<1> QED
  BY <1>0, <1>4, <1>5, <1>7, <1>8, <1>9, TurnKeeps

LEMMA AppendMembers ==
    ASSUME NEW s \in Seq(Nat), NEW n \in Nat, NEW t, t = Append(s, n)
    PROVE  /\ t \in Seq(Nat)
           /\ Members(t) = Members(s) \cup {n}
           /\ Increasing(s) /\ (\A m \in Members(s) : m < n) => Increasing(t)
<1>1. /\ Len(s) \in Nat
      /\ t \in Seq(Nat)
      /\ Len(t) = Len(s) + 1
      /\ t[Len(t)] = n
      /\ \A k \in 1 .. Len(s) : t[k] = s[k]
  BY AppendProperties, LenProperties
<1>2. /\ Len(t) \in 1 .. Len(t)
      /\ \A k \in 1 .. Len(s) : k \in 1 .. Len(t) /\ k # Len(t)
      /\ \A k \in 1 .. Len(t) : k \in 1 .. Len(s) \/ k = Len(t)
  BY <1>1
<1>3. Members(t) = Members(s) \cup {n}
  <2>1. ASSUME NEW m \in Members(t) PROVE m \in Members(s) \cup {n}
    BY <1>1, <1>2 DEF Members
  <2>2. ASSUME NEW m \in Members(s) \cup {n} PROVE m \in Members(t)
    BY <1>1, <1>2 DEF Members
  <2> QED
    BY <2>1, <2>2
<1>4. ASSUME Increasing(s), \A m \in Members(s) : m < n,
             NEW j \in 1 .. Len(t), NEW k \in 1 .. Len(t), j < k
      PROVE  t[j] < t[k]
  <2>1. j \in 1 .. Len(s)
    BY <1>1, <1>4
  <2>2. CASE k \in 1 .. Len(s)
    BY <1>1, <1>4, <2>1, <2>2 DEF Increasing
  <2>3. CASE k = Len(t)
    <3>1. s[j] < n
      BY <1>4, <2>1 DEF Members
    <3> QED
      BY <1>1, <2>1, <2>3, <3>1
  <2> QED
    BY <1>2, <2>2, <2>3
<1> QED
  BY <1>1, <1>3, <1>4 DEF Increasing

LEMMA HeldUntold ==
    ASSUME HeldInv, held \in Seq(Nat)
    PROVE  Untold(feed, held)
BY DEF HeldInv, Untold

LEMMA HeldMore ==
    ASSUME HeldInv, held \in Seq(Nat), Len(said) \in Nat, History \in Nat, History <= Len(said),
           NEW n, n = Len(said) + 1, Len(said') = n, kind' = kind,
           held' = Append(held, n), Mirrored(feed') = Mirrored(feed)
    PROVE  HeldInv' /\ held' \in Seq(Nat)
<1>1. \A m \in Mirrored(feed) \cup Members(held) :
         m \in 1 .. Len(said) /\ m < n /\ (kind # "acp" => m > History)
  BY DEF HeldInv
<1>2. /\ held' \in Seq(Nat)
      /\ Members(held') = Members(held) \cup {n}
      /\ Increasing(held')
  <2>1. n \in Nat /\ Increasing(held) /\ \A m \in Members(held) : m < n
    BY <1>1 DEF HeldInv
  <2> QED
    BY <2>1, AppendMembers
<1>3. Heard' = Heard \cup {n} /\ n > History /\ n \in 1 .. Len(said')
  BY DEF Heard
<1>4. Heard' \subseteq Mirrored(feed') \cup Members(held')
  BY <1>2, <1>3 DEF HeldInv
<1>5. \A m \in Mirrored(feed') \cup Members(held') :
         m \in 1 .. Len(said') /\ (kind' # "acp" => m > History)
  <2>1. \A m \in 1 .. Len(said) : m \in 1 .. Len(said')
    OBVIOUS
  <2> QED
    BY <1>1, <1>2, <1>3, <2>1
<1>6. \A m \in Mirrored(feed'), k \in Members(held') : m < k
  BY <1>1, <1>2 DEF HeldInv
<1> QED
  BY <1>2, <1>4, <1>5, <1>6 DEF HeldInv

LEMMA HeldGone ==
    ASSUME HeldInv, held' = <<>>, said' = said, kind' = kind,
           Mirrored(feed') = Mirrored(feed) \cup Members(held)
    PROVE  HeldInv' /\ held' \in Seq(Nat) /\ Heard \subseteq Mirrored(feed')
<1> DEFINE e == <<>>
<1>1. e \in Seq(Nat) /\ 1 .. Len(e) = {}
  BY EmptySeq
<1> HIDE DEF e
<1>2. held' = e
  BY DEF e
<1>3. Members(held') = {} /\ Increasing(held')
  BY <1>1, <1>2 DEF Members, Increasing
<1>4. Heard \subseteq Mirrored(feed') /\ Heard' = Heard
  BY DEF HeldInv, Heard
<1>5. \A m \in Mirrored(feed') : m \in 1 .. Len(said') /\ (kind' # "acp" => m > History)
  BY DEF HeldInv
<1> QED
  BY <1>1, <1>2, <1>3, <1>4, <1>5 DEF HeldInv

LEMMA HeldSame ==
    ASSUME HeldInv, held' = held, said' = said, kind' = kind, Mirrored(feed') = Mirrored(feed)
    PROVE  HeldInv'
BY DEF HeldInv, Heard

LEMMA AcpKeeps ==
    ASSUME RoomInv, kind = "acp", NEW does \in Doings, NEW n, Turned(does, n)
    PROVE  RoomInv' /\ ReplyTold
<1>0. /\ AgentInv /\ FeedOK(feed) /\ CallsInv /\ AdapterTypes /\ HeldInv
      /\ kind \notin Live \cup {"opencode", "hooks", "cursor-native", "claude-native"}
      /\ Len(said) \in Nat /\ History \in Nat /\ History <= Len(said)
      /\ held \in Seq(Nat)
  BY AgentFacts DEF RoomInv, ProseInv, Live, AgentInv, AdapterTypes
<1>1. Fits(does, n) /\ AcpUpdate(does, n)
  BY <1>0, TurnFits DEF Turned, Hear, Live
<1>2. /\ kind' = kind /\ midLine' = midLine /\ starts' = starts /\ fresh' = fresh /\ saved' = saved
      /\ does = "say" => n = Len(said) + 1 /\ Len(said') = n
      /\ does # "say" => said' = said
      /\ does \in {"end", "fail"} => n = turn /\ turn # 0
      /\ does = "tool" => Needed(n)' \subseteq Heard
  BY <1>0, TurnFacts DEF AdapterTypes
<1>3. Untold(feed, held)
  BY <1>0, HeldUntold
<1> DEFINE P == IF does \in {"tool", "end"} THEN Members(held) ELSE {}
<1>4. /\ UNCHANGED <<path, offset, reported, due, sweeps>>
      /\ Tells(does, n, P)
      /\ does \in {"tool", "end"} => held' = <<>>
      /\ does = "say" => held' = Append(held, n)
      /\ does \notin {"say", "tool", "end"} => held' = held
  BY <1>0, <1>1, <1>3, AcpTells
<1>5. Mirrored(feed') = Mirrored(feed) \cup P
  BY <1>4, TellsIs
<1>6. /\ HeldInv' /\ held' \in Seq(Nat)
      /\ does \in {"tool", "end"} => Heard \subseteq Mirrored(feed')
  <2>1. CASE does \in {"tool", "end"}
    <3>1. Mirrored(feed') = Mirrored(feed) \cup Members(held) /\ said' = said
      BY <1>2, <1>5, <2>1
    <3>2. HeldInv /\ held' = <<>> /\ kind' = kind
      BY <1>0, <1>2, <1>4, <2>1
    <3> QED
      BY <3>1, <3>2, HeldGone
  <2>2. CASE does = "say"
    BY <1>0, <1>2, <1>4, <1>5, <2>2, HeldMore
  <2>3. CASE does \notin {"say", "tool", "end"}
    BY <1>0, <1>2, <1>4, <1>5, <2>3, HeldSame
  <2> QED
    BY <2>1, <2>2, <2>3
<1>7. AdapterTypes'
  BY <1>0, <1>2, <1>4, <1>6 DEF AdapterTypes
<1>8. ProseInv'
  BY <1>0, <1>2, <1>6 DEF ProseInv
<1>9. does = "tool" => Needed(n)' \subseteq Mirrored(feed')
  BY <1>2, <1>6
<1>10. Closing(does) => \A m \in Mirrorable(n) : m \in Mirrored(feed')
  <2> SUFFICES ASSUME Closing(does), NEW m \in Mirrorable(n) PROVE m \in Mirrored(feed')
    OBVIOUS
  <2>1. does = "end" /\ n = turn /\ turn # 0
    BY <1>0, <1>2 DEF Closing
  <2>2. m \in Heard
    BY <1>0, <2>1, MirrorableHeard
  <2> QED
    BY <1>6, <2>1, <2>2
<1> HIDE DEF P
<1> QED
  BY <1>0, <1>4, <1>7, <1>8, <1>9, <1>10, TurnKeeps

LEMMA OpencodeKeeps ==
    ASSUME RoomInv, kind = "opencode", NEW does \in Doings, NEW n, Turned(does, n)
    PROVE  RoomInv' /\ ReplyTold
<1>0. /\ AgentInv /\ FeedOK(feed) /\ Matches(feed, reported) /\ AdapterTypes /\ HeldInv
      /\ kind \notin Live \cup {"acp", "hooks", "cursor-native", "claude-native"}
      /\ Len(said) \in Nat /\ Len(calls) \in Nat /\ MaxTools \in Nat
      /\ History \in Nat /\ History <= Len(said) /\ None = 0 /\ Tool = 1 .. MaxTools
      /\ held \in Seq(Nat)
  BY AgentFacts, RoomNumbers DEF RoomInv, ProseInv, CallsInv, Live, AgentInv, AdapterTypes
<1>1. OpencodeEvent(does, n)
  BY <1>0 DEF Turned, Hear, Live
<1>2. /\ kind' = kind /\ midLine' = midLine /\ starts' = starts /\ fresh' = fresh /\ saved' = saved
      /\ does = "say" => n = Len(said) + 1 /\ Len(said') = n
      /\ does # "say" => said' = said
      /\ does \in {"end", "fail"} => n = turn /\ turn # 0
  BY <1>0, TurnFacts DEF AdapterTypes
<1>3. n \in Nat /\ AgentInv'
  BY <1>0, AgentKeeps
<1>4. does \in {"tool", "done"} => n \in Tool
  <2>1. CASE does = "tool"
    <3>1. calls' = Append(calls, Len(said)) /\ n = Len(calls') /\ Len(calls) < MaxTools
      BY <2>1 DEF Turned
    <3>2. n = Len(calls) + 1
      BY <1>0, <3>1, CallsOne
    <3> QED
      BY <1>0, <3>1, <3>2
  <2>2. CASE does = "done"
    <3>1. n = running /\ running # 0 /\ running \in Nat /\ running <= Len(calls) /\ Len(calls) <= MaxTools
      BY <1>0, <2>2 DEF Turned, AgentInv, AgentTypes
    <3> QED
      BY <1>0, <3>1
  <2> QED
    BY <2>1, <2>2
<1>5. Untold(feed, held)
  BY <1>0, HeldUntold
<1> DEFINE P == IF does = "end" THEN Members(held) ELSE {}
           R == IF does = "end" THEN {n} ELSE {}
<1>6. /\ AddsLast(feed, feed', P, UsedIn(feed'), AnsweredIn(feed'), R)
      /\ Matches(feed', reported')
      /\ UNCHANGED <<path, offset, due, sweeps>>
      /\ does = "say" => OpencodeText(n)
      /\ does = "end" => held' = <<>>
      /\ does \notin {"say", "end"} => held' = held
  BY <1>0, <1>1, <1>3, <1>4, <1>5, OpencodeTells
<1>7. FeedOK(feed') /\ Mirrored(feed') = Mirrored(feed) \cup P
  BY <1>6 DEF AddsLast, Adds
<1>8. /\ HeldInv' /\ held' \in Seq(Nat)
      /\ does = "end" => Heard \subseteq Mirrored(feed')
  <2>1. CASE does = "end"
    <3>1. Mirrored(feed') = Mirrored(feed) \cup Members(held) /\ said' = said
      BY <1>2, <1>7, <2>1
    <3>2. HeldInv /\ held' = <<>> /\ kind' = kind
      BY <1>0, <1>2, <1>6, <2>1
    <3> QED
      BY <2>1, <3>1, <3>2, HeldGone
  <2>2. CASE does = "say"
    <3>1. n \notin Members(held)
      BY <1>0, <1>2, <2>2 DEF HeldInv, Heard
    <3>2. held' = Append(held, n)
      BY <1>6, <2>2, <3>1 DEF OpencodeText, Members
    <3> QED
      BY <1>0, <1>2, <1>7, <2>2, <3>2, HeldMore
  <2>3. CASE does \notin {"say", "end"}
    BY <1>0, <1>2, <1>6, <1>7, <2>3, HeldSame
  <2> QED
    BY <2>1, <2>2, <2>3
<1>9. AdapterTypes'
  BY <1>0, <1>2, <1>6, <1>8 DEF AdapterTypes
<1>10. ProseInv' /\ CallsInv' /\ UsesInPlace'
  BY <1>0, <1>2, <1>6, <1>8 DEF ProseInv, CallsInv, UsesInPlace
<1>11. ReplyTold
  <2> SUFFICES ASSUME NEW k \in Len(feed) + 1 .. Len(feed'), feed'[k].type = "result",
                      NEW m \in Mirrorable(feed'[k].of[1])
               PROVE  m \in MirroredTo(feed', k)
    BY DEF ReplyTold
  <2>1. k = Len(feed') /\ feed'[k].of[1] \in R
    BY <1>6 DEF AddsLast, Quiet
  <2>2. does = "end" /\ feed'[k].of[1] = turn /\ turn # 0
    BY <1>2, <2>1
  <2>3. m \in Heard
    BY <1>0, <2>2, MirrorableHeard
  <2> QED
    BY <1>8, <2>1, <2>2, <2>3, MirroredToAll
<1> QED
  BY <1>3, <1>7, <1>9, <1>10, <1>11 DEF RoomInv

LEMMA RepeatKeeps ==
    ASSUME RoomInv, RepeatPart
    PROVE  RoomInv' /\ ReplyTold
<1>0. /\ AgentInv /\ FeedOK(feed) /\ Matches(feed, reported) /\ AdapterTypes /\ HeldInv
      /\ kind = "opencode"
      /\ kind \notin Live \cup {"acp", "hooks", "cursor-native", "claude-native"}
      /\ Len(calls) \in Nat /\ MaxTools \in Nat /\ Len(calls) <= MaxTools
      /\ running \in Nat /\ running <= Len(calls)
      /\ None = 0 /\ Tool = 1 .. MaxTools
  <2>1. kind = "opencode"
    BY DEF RepeatPart
  <2> QED
    BY <2>1, AgentFacts, RoomNumbers
    DEF RoomInv, ProseInv, CallsInv, Live, AgentInv, AgentTypes
<1>1. UNCHANGED <<agent, disk, path, offset, due, sweeps>>
  BY DEF RepeatPart
<1>2. CASE \E k \in 1 .. Len(held) : OpencodeText(held[k]) /\ UNCHANGED <<feed, reported>>
  <2>1. held' = held /\ feed' = feed /\ reported' = reported
    BY <1>2 DEF OpencodeText
  <2>2. AddsQuietly(feed, feed', {}, {}, {})
    BY <1>0, <2>1, NothingEmitted
  <2> QED
    BY <1>0, <1>1, <2>1, <2>2 DEF AddsQuietly, RoomInv, AgentInv, AgentTypes, AdapterTypes,
        CallsInv, UsesInPlace, Needed, ProseInv, HeldInv, Heard, agent, disk, ReplyTold, Quiet
<1>3. CASE \E t \in Tool, status \in {"running", "completed"} :
              OpencodeTool(t, status) /\ UNCHANGED held
  <2>1. AddsQuietly(feed, feed', {}, UsedIn(feed'), AnsweredIn(feed')) /\ Matches(feed', reported')
    BY <1>0, <1>3, OpencodeToolTells
  <2>2. FeedOK(feed') /\ Mirrored(feed') = Mirrored(feed)
    BY <2>1 DEF AddsQuietly, Adds
  <2>3. ReplyTold
    BY <2>1, NoReplyDue DEF AddsQuietly
  <2>4. said' = said /\ kind' = kind /\ held' = held
    BY <1>1, <1>3 DEF agent
  <2>5. HeldInv'
    BY <1>0, <2>2, <2>4, HeldSame
  <2>6. AgentInv' /\ AdapterTypes'
    BY <1>0, <1>1, <2>4 DEF AgentInv, AgentTypes, AdapterTypes, agent, disk
  <2>7. ProseInv' /\ CallsInv' /\ UsesInPlace'
    BY <1>0, <2>1, <2>4, <2>5 DEF ProseInv, CallsInv, UsesInPlace
  <2> QED
    BY <2>2, <2>3, <2>6, <2>7 DEF RoomInv
<1>4. running # None => running \in Tool
  BY <1>0
<1>5. \A t \in 1 .. Len(calls) : t \in Tool
  BY <1>0
<1> QED
  BY <1>2, <1>3, <1>4, <1>5 DEF RepeatPart

LEMMA HooksKeep ==
    ASSUME RoomInv, kind = "hooks", NEW does \in Doings, NEW n, Turned(does, n)
    PROVE  RoomInv' /\ ReplyTold
<1>0. /\ AgentInv /\ FeedOK(feed) /\ CallsInv /\ AdapterTypes /\ HooksInv
      /\ kind \notin Live \cup {"acp", "opencode", "cursor-native", "claude-native"}
      /\ Len(said) \in Nat /\ History \in Nat /\ History <= Len(said)
      /\ turn \in Nat /\ active \in BOOLEAN
      /\ \A k \in 1 .. Len(said) : said[k] \in Nat /\ said[k] <= turn
  BY AgentFacts DEF RoomInv, ProseInv, Live, AgentInv, AgentTypes
<1>1. Fits(does, n) /\ Emit(HookEvents(does, n)) /\ UNCHANGED adapter
  BY <1>0, TurnFits DEF Turned, Hear, Live
<1>2. /\ kind' = kind /\ midLine' = midLine /\ starts' = starts /\ fresh' = fresh /\ saved' = saved
      /\ does = "say" => /\ n = Len(said) + 1 /\ Len(said') = n
                         /\ \A k \in 1 .. Len(said) : said'[k] = said[k]
                         /\ active /\ active' = active /\ turn' = turn
      /\ does # "say" => said' = said
      /\ does \in {"end", "fail"} => n = turn /\ turn # 0
      /\ does = "end" => active
  BY <1>0, TurnFacts DEF AdapterTypes
<1>3. does = "end" => /\ Untold(feed, Reply(n))
                      /\ Members(Reply(n)) \subseteq Heard
                      /\ \A m \in Mirrorable(n) : m \in Members(Reply(n))
  <2> SUFFICES ASSUME does = "end"
               PROVE  /\ Untold(feed, Reply(n))
                      /\ Members(Reply(n)) \subseteq Heard
                      /\ \A m \in Mirrorable(n) : m \in Members(Reply(n))
    OBVIOUS
  <2>1. n = turn /\ turn # 0 /\ active
    BY <1>2
  <2>2. CASE said # <<>> /\ said[Len(said)] = n
    <3> DEFINE last == Len(said)
               p == <<last>>
    <3>1. Reply(n) = p
      BY <2>2 DEF Reply
    <3>2. last \in 1 .. Len(said)
      BY <1>0, <2>2, EmptySeq DEF AgentInv, AgentTypes
    <3>3. last > History
      BY <2>1, <2>2, <3>2, <1>0 DEF AgentInv
    <3>4. \A m \in Mirrored(feed) : m < last
      <4> SUFFICES ASSUME NEW m \in Mirrored(feed) PROVE m < last
        OBVIOUS
      <4>1. m \in History + 1 .. last /\ said[m] # turn
        BY <1>0, <2>1 DEF HooksInv, Heard
      <4> QED
        BY <1>0, <2>1, <2>2, <4>1
    <3>5. Untold(feed, p) /\ Members(p) = {last}
      BY <1>0, <3>3, <3>4, OnePiece
    <3>6. last \in Heard
      BY <1>0, <3>3 DEF Heard
    <3>7. \A m \in Mirrorable(n) : m = last
      BY <1>0, <2>1, MirrorableHeard
    <3> HIDE DEF p
    <3> QED
      BY <3>1, <3>5, <3>6, <3>7
  <2>3. CASE ~(said # <<>> /\ said[Len(said)] = n)
    <3> DEFINE e == <<>>
    <3>1. e \in Seq(Nat) /\ 1 .. Len(e) = {}
      BY EmptySeq
    <3>2. Reply(n) = e
      BY <2>3 DEF Reply
    <3> HIDE DEF e
    <3>3. Members(e) = {} /\ Untold(feed, e)
      BY <3>1 DEF Members, Untold, Increasing
    <3>4. ASSUME NEW m \in Mirrorable(n) PROVE FALSE
      <4>1. m = Len(said) /\ m \in 1 .. Len(said) /\ said[m] = turn
        BY <1>0, <2>1, MirrorableHeard
      <4>2. said # <<>>
        BY <4>1, EmptySeq
      <4> QED
        BY <2>1, <2>3, <4>1, <4>2
    <3> QED
      BY <3>2, <3>3, <3>4
  <2> QED
    BY <2>2, <2>3
<1> DEFINE P == IF does = "end" THEN Members(Reply(n)) ELSE {}
<1>4. Tells(does, n, P)
  BY <1>0, <1>1, <1>3, HooksTell
<1>5. Mirrored(feed') = Mirrored(feed) \cup P
  BY <1>4, TellsIs
<1>6. AdapterTypes'
  BY <1>0, <1>1, <1>2 DEF AdapterTypes, adapter
<1>7. HooksInv'
  <2>1. Mirrored(feed) \subseteq Heard
    BY <1>0 DEF HooksInv
  <2>2. CASE does = "say"
    <3>1. Mirrored(feed') = Mirrored(feed)
      BY <1>5, <2>2
    <3>2. \A m \in Heard : m \in 1 .. Len(said) /\ m \in Heard'
      BY <1>0, <1>2, <2>2 DEF Heard
    <3>3. \A m \in Mirrored(feed) : said[m] # turn
      BY <1>0, <1>2, <2>2 DEF HooksInv
    <3> QED
      BY <1>2, <2>1, <2>2, <3>1, <3>2, <3>3 DEF HooksInv
  <2>3. CASE does \in {"end", "fail"}
    <3>1. ~active' /\ Heard' = Heard
      BY <1>0, <1>2, <2>3 DEF Turned, Heard
    <3>2. Mirrored(feed') \subseteq Heard
      BY <1>3, <1>5, <2>1
    <3> QED
      BY <3>1, <3>2 DEF HooksInv
  <2>4. CASE does \in {"tool", "done"}
    <3>1. active' = active /\ turn' = turn
      BY <2>4 DEF Turned
    <3>2. Mirrored(feed') = Mirrored(feed) /\ said' = said
      BY <1>2, <1>5, <2>4
    <3> QED
      BY <1>0, <3>1, <3>2 DEF HooksInv, Heard
  <2>5. CASE does = "prompt"
    <3>1. turn' = turn + 1
      BY <2>5 DEF Turned
    <3>2. Mirrored(feed') = Mirrored(feed) /\ said' = said
      BY <1>2, <1>5, <2>5
    <3>3. \A m \in Heard : m \in 1 .. Len(said)
      BY <1>0 DEF Heard
    <3>4. \A m \in Mirrored(feed) : said[m] # turn'
      BY <1>0, <2>1, <3>1, <3>3
    <3>5. Heard' = Heard
      BY <3>2 DEF Heard
    <3> QED
      BY <2>1, <3>2, <3>4, <3>5 DEF HooksInv
  <2> QED
    BY <2>2, <2>3, <2>4, <2>5 DEF Doings
<1>8. ProseInv'
  BY <1>0, <1>2, <1>7 DEF ProseInv
<1>9. Closing(does) => \A m \in Mirrorable(n) : m \in Mirrored(feed')
  <2> SUFFICES ASSUME Closing(does), NEW m \in Mirrorable(n) PROVE m \in Mirrored(feed')
    OBVIOUS
  <2>1. does = "end"
    BY <1>0 DEF Closing
  <2> QED
    BY <1>3, <1>5, <2>1
<1> HIDE DEF P
<1> QED
  BY <1>0, <1>4, <1>6, <1>8, <1>9, TurnKeeps

LEMMA RecordKeeps ==
    ASSUME RoomInv, kind = "cursor-native", NEW does \in Doings, NEW n, Turned(does, n)
    PROVE  RoomInv' /\ ReplyTold
<1>0. /\ AgentInv /\ FeedOK(feed) /\ CallsInv /\ AdapterTypes /\ RecordInv
      /\ kind \notin Live \cup {"acp", "opencode", "hooks", "claude-native"}
      /\ Len(said) \in Nat /\ History \in Nat /\ History <= Len(said)
      /\ turn \in Nat /\ saved \in Nat /\ broken \in SUBSET Nat
  BY AgentFacts DEF RoomInv, ProseInv, Live, AgentInv, AgentTypes, AdapterTypes
<1>1. Fits(does, n) /\ Emit(CursorRecord(does, n)) /\ UNCHANGED adapter
  BY <1>0, TurnFits DEF Turned, Hear, Live
<1>2. /\ kind' = kind /\ midLine' = midLine /\ starts' = starts /\ fresh' = fresh /\ saved' \in Nat
      /\ does = "say" => /\ n = Len(said) + 1 /\ Len(said') = n /\ said'[n] = turn
                         /\ \A k \in 1 .. Len(said) : said'[k] = said[k]
                         /\ active /\ UNCHANGED <<active, turn, broken, saved>>
      /\ does # "say" => said' = said
      /\ does \in {"tool", "end", "fail"} => /\ active /\ turn # 0 /\ turn' = turn
                                             /\ saved' = Len(said)
      /\ does \in {"end", "fail"} => n = turn
      /\ does = "tool" => Needed(n)' = {k \in Heard : said[k] \notin broken}
  BY <1>0, TurnFacts
<1> DEFINE P == IF does \in {"tool", "end"} THEN saved + 1 .. Len(said) ELSE {}
<1>3. Tells(does, n, P)
  <2>1. History <= saved /\ saved <= Len(said) /\ \A m \in Mirrored(feed) : m \in Nat /\ m <= saved
    BY <1>0 DEF RecordInv, Heard
  <2> QED
    BY <1>0, <1>1, <2>1, RecordTells
<1>4. Mirrored(feed') = Mirrored(feed) \cup P
  BY <1>3, TellsIs
<1>5. AdapterTypes'
  BY <1>0, <1>1, <1>2 DEF AdapterTypes, adapter
<1>6. /\ History <= saved /\ saved <= Len(said)
      /\ \A m \in Mirrored(feed) : m \in Heard /\ m <= saved
      /\ \A k \in Heard : k <= saved /\ said[k] \notin broken => k \in Mirrored(feed)
      /\ \A k \in Heard : k > saved => active /\ said[k] = turn
      /\ active => turn \notin broken
  BY <1>0 DEF RecordInv
<1>7. RecordInv'
  <2>1. CASE does = "say"
    <3>1. Mirrored(feed') = Mirrored(feed) /\ saved' = saved /\ broken' = broken
      BY <1>2, <1>4, <2>1
    <3>2. \A k \in Heard' : \/ k \in Heard /\ said'[k] = said[k]
                            \/ k = n
      BY <1>0, <1>2, <2>1 DEF Heard
    <3>3. \A k \in Heard : k \in Heard' /\ said'[k] = said[k]
      BY <1>0, <1>2, <2>1 DEF Heard
    <3>4. n > saved' /\ said'[n] = turn' /\ active' /\ turn' = turn /\ n \in Nat
      BY <1>0, <1>2, <1>6, <2>1
    <3>5. History <= saved' /\ saved' <= Len(said')
      BY <1>0, <1>2, <1>6, <2>1
    <3>6. \A m \in Mirrored(feed') : m \in Heard' /\ m <= saved'
      BY <1>6, <3>1, <3>3
    <3>7. \A k \in Heard' : k <= saved' /\ said'[k] \notin broken' => k \in Mirrored(feed')
      <4> SUFFICES ASSUME NEW k \in Heard', k <= saved', said'[k] \notin broken'
                   PROVE  k \in Mirrored(feed')
        OBVIOUS
      <4>1. k # n
        BY <1>0, <3>1, <3>4
      <4> QED
        BY <1>6, <3>1, <3>2, <4>1
    <3>8. \A k \in Heard' : k > saved' => active' /\ said'[k] = turn'
      BY <1>2, <1>6, <2>1, <3>1, <3>2, <3>4
    <3>9. active' => turn' \notin broken'
      BY <1>2, <1>6, <2>1, <3>1
    <3> QED
      BY <3>5, <3>6, <3>7, <3>8, <3>9 DEF RecordInv
  <2>2. CASE does \in {"tool", "end"}
    <3>1. /\ Mirrored(feed') = Mirrored(feed) \cup (saved + 1 .. Len(said))
          /\ saved' = Len(said) /\ said' = said /\ turn' = turn /\ active
          /\ broken' = broken
      BY <1>2, <1>4, <2>2 DEF Turned
    <3>2. Heard' = Heard
      BY <3>1 DEF Heard
    <3>3. \A m \in Mirrored(feed') : m \in Heard' /\ m <= saved'
      <4>1. \A m \in saved + 1 .. Len(said) : m \in Heard /\ m <= Len(said)
        BY <1>0, <1>6 DEF Heard
      <4>2. \A m \in Heard : m <= Len(said)
        BY DEF Heard
      <4> QED
        BY <1>6, <3>1, <3>2, <4>1, <4>2
    <3>4. \A k \in Heard' : said'[k] \notin broken' => k \in Mirrored(feed')
      <4> SUFFICES ASSUME NEW k \in Heard, said[k] \notin broken PROVE k \in Mirrored(feed')
        BY <3>1, <3>2
      <4>1. k <= saved \/ k \in saved + 1 .. Len(said)
        BY <1>0 DEF Heard
      <4> QED
        BY <1>6, <3>1, <4>1
    <3>5. \A k \in Heard' : ~(k > saved')
      BY <1>0, <3>1, <3>2 DEF Heard
    <3>6. History <= saved' /\ saved' <= Len(said') /\ turn' \notin broken'
      BY <1>0, <1>6, <3>1
    <3> QED
      BY <3>3, <3>4, <3>5, <3>6 DEF RecordInv
  <2>3. CASE does = "fail"
    <3>1. /\ Mirrored(feed') = Mirrored(feed)
          /\ saved' = Len(said) /\ said' = said /\ active
          /\ broken' = broken \cup {turn} /\ ~active'
      BY <1>0, <1>2, <1>4, <2>3 DEF Turned
    <3>2. Heard' = Heard
      BY <3>1 DEF Heard
    <3>3. \A m \in Mirrored(feed') : m \in Heard' /\ m <= saved'
      BY <1>6, <3>1, <3>2 DEF Heard
    <3>4. \A k \in Heard' : said'[k] \notin broken' => k \in Mirrored(feed')
      <4> SUFFICES ASSUME NEW k \in Heard, said[k] \notin broken, said[k] # turn
                   PROVE  k \in Mirrored(feed')
        BY <3>1, <3>2
      <4>1. ~(k > saved) /\ k \in Nat
        BY <1>0, <1>6 DEF Heard
      <4> QED
        BY <1>0, <1>6, <3>1, <4>1
    <3>5. \A k \in Heard' : ~(k > saved')
      BY <1>0, <3>1, <3>2 DEF Heard
    <3>6. History <= saved' /\ saved' <= Len(said')
      BY <1>0, <3>1
    <3> QED
      BY <3>1, <3>3, <3>4, <3>5, <3>6 DEF RecordInv
  <2>4. CASE does = "done"
    <3>1. /\ Mirrored(feed') = Mirrored(feed)
          /\ UNCHANGED <<said, active, turn, broken, saved>>
      BY <1>2, <1>4, <2>4 DEF Turned
    <3> QED
      BY <1>6, <3>1 DEF RecordInv, Heard
  <2>5. CASE does = "prompt"
    <3>1. /\ Mirrored(feed') = Mirrored(feed)
          /\ turn' = turn + 1 /\ ~active
          /\ UNCHANGED <<said, broken, saved>>
      BY <1>2, <1>4, <2>5 DEF Turned
    <3>2. turn' \notin broken
      BY <1>0, <3>1 DEF AgentInv
    <3>3. \A k \in Heard : ~(k > saved)
      BY <1>6, <3>1
    <3>4. Heard' = Heard
      BY <3>1 DEF Heard
    <3> QED
      BY <1>6, <3>1, <3>2, <3>3, <3>4 DEF RecordInv
  <2> QED
    BY <2>1, <2>2, <2>3, <2>4, <2>5 DEF Doings
<1>8. ProseInv'
  BY <1>0, <1>2, <1>7 DEF ProseInv
<1>9. does \in {"tool", "end"} =>
         \A k \in Heard : said[k] \notin broken => k \in Mirrored(feed')
  <2> SUFFICES ASSUME does \in {"tool", "end"}, NEW k \in Heard, said[k] \notin broken
               PROVE  k \in Mirrored(feed')
    OBVIOUS
  <2>1. k <= saved \/ k \in saved + 1 .. Len(said)
    BY <1>0 DEF Heard
  <2> QED
    BY <1>4, <1>6, <2>1
<1>10. does = "tool" => Needed(n)' \subseteq Mirrored(feed')
  BY <1>2, <1>9
<1>11. Closing(does) => \A m \in Mirrorable(n) : m \in Mirrored(feed')
  <2> SUFFICES ASSUME Closing(does), NEW m \in Mirrorable(n) PROVE m \in Mirrored(feed')
    OBVIOUS
  <2>1. does = "end" /\ n = turn /\ turn # 0 /\ active
    BY <1>0, <1>2 DEF Closing
  <2>2. m \in Heard /\ said[m] = turn
    BY <1>0, <2>1, MirrorableHeard
  <2> QED
    BY <1>6, <1>9, <2>1, <2>2
<1> HIDE DEF P
<1> QED
  BY <1>0, <1>3, <1>5, <1>8, <1>10, <1>11, TurnKeeps

\* Members of longer and shorter sequences.
LEMMA OneMoreMember ==
    ASSUME NEW s \in Seq(TimerRecord), NEW e \in TimerRecord, NEW t, t = Append(s, e)
    PROVE  t \in Seq(TimerRecord) /\ Members(t) = Members(s) \cup {e}
<1>1. /\ Len(s) \in Nat
      /\ t \in Seq(TimerRecord)
      /\ Len(t) = Len(s) + 1
      /\ t[Len(t)] = e
      /\ \A k \in 1 .. Len(s) : t[k] = s[k]
  BY AppendProperties, LenProperties
<1>2. /\ Len(t) \in 1 .. Len(t)
      /\ \A k \in 1 .. Len(s) : k \in 1 .. Len(t)
      /\ \A k \in 1 .. Len(t) : k \in 1 .. Len(s) \/ k = Len(t)
  BY <1>1
<1>3. ASSUME NEW m \in Members(t) PROVE m \in Members(s) \cup {e}
  BY <1>1, <1>2 DEF Members
<1>4. ASSUME NEW m \in Members(s) \cup {e} PROVE m \in Members(t)
  BY <1>1, <1>2 DEF Members
<1> QED
  BY <1>1, <1>3, <1>4

LEMMA OneLessMember ==
    ASSUME NEW s \in Seq(TimerRecord), s # <<>>
    PROVE  /\ Head(s) \in Members(s)
           /\ Head(s) \in TimerRecord
           /\ Tail(s) \in Seq(TimerRecord)
           /\ Members(Tail(s)) \subseteq Members(s)
<1>1. /\ Len(s) \in Nat
      /\ Len(s) >= 1
      /\ Head(s) \in TimerRecord
      /\ Tail(s) \in Seq(TimerRecord)
      /\ Len(Tail(s)) = Len(s) - 1
      /\ \A k \in 1 .. Len(Tail(s)) : Tail(s)[k] = s[k + 1]
      /\ Head(s) = s[1]
  BY HeadTailProperties, EmptySeq, LenProperties
<1>2. /\ 1 \in 1 .. Len(s)
      /\ \A k \in 1 .. Len(Tail(s)) : k + 1 \in 1 .. Len(s)
  BY <1>1
<1> QED
  BY <1>1, <1>2 DEF Members

\* How far a transcript goes.
LEMMA LinesAre ==
    ASSUME DiskInv, AdapterTypes, Len(said) \in Nat, History \in Nat, History <= Len(said),
           NEW c \in 1 .. Current
    PROVE  /\ c \in Nat /\ c # 0 /\ Current \in Nat
           /\ starts[c] \in Nat /\ Last(c) \in Nat /\ Lines(c) \in Nat /\ Size(c) \in Nat
           /\ c # Current => c + 1 \in 1 .. Current /\ Last(c) = starts[c + 1]
           /\ c = Current => Last(c) = Len(said) /\ saved <= Lines(c)
           /\ History <= Last(c) /\ Last(c) <= Len(said)
           /\ starts[c] <= Lines(c) /\ Lines(c) <= Size(c) /\ Size(c) <= Last(c)
           /\ Lines(c) = Last(c) \/ saved <= Lines(c)
           /\ Lines(c) = starts[c] \/ Lines(c) <= saved
<1>1. Current \in Nat /\ saved \in Nat
  BY LenProperties DEF AdapterTypes, Current
<1>2. c \in Nat /\ c # 0 /\ (c # Current => c + 1 \in 1 .. Current /\ c + 1 # 1)
  BY <1>1
<1>3. \A d \in 1 .. Current : starts[d] \in Nat
  BY ElementOfSeq DEF AdapterTypes, Current
<1>4. starts[c] \in Nat /\ starts[c] <= Len(said)
  BY <1>3 DEF DiskInv
<1>5. /\ Last(c) \in Nat /\ History <= Last(c) /\ Last(c) <= Len(said) /\ starts[c] <= Last(c)
      /\ c # Current => Last(c) = starts[c + 1]
      /\ c = Current => Last(c) = Len(said)
  <2>1. CASE c = Current
    BY <1>4, <2>1 DEF Last
  <2>2. CASE c # Current
    <3>1. Last(c) = starts[c + 1]
      BY <2>2 DEF Last
    <3>2. /\ starts[c + 1] \in Nat /\ starts[c + 1] <= Len(said)
          /\ History <= starts[c + 1] /\ starts[c] <= starts[c + 1]
      BY <1>2, <1>3, <2>2 DEF DiskInv
    <3> QED
      BY <2>2, <3>1, <3>2
  <2> QED
    BY <2>1, <2>2
<1>6. /\ Lines(c) \in Nat /\ starts[c] <= Lines(c) /\ Lines(c) <= Last(c)
      /\ Lines(c) = Last(c) \/ saved <= Lines(c)
      /\ Lines(c) = starts[c] \/ Lines(c) <= saved
      /\ starts[c] <= saved /\ saved < Last(c) => Lines(c) = saved
  BY <1>1, <1>4, <1>5 DEF Lines
<1>7. Size(c) \in Nat /\ Lines(c) <= Size(c) /\ Size(c) <= Last(c)
  <2>1. CASE midLine /\ starts[c] <= saved /\ saved < Last(c)
    <3>1. Size(c) = saved + 1
      BY <2>1 DEF Size
    <3> QED
      BY <1>1, <1>5, <1>6, <2>1, <3>1
  <2>2. CASE ~(midLine /\ starts[c] <= saved /\ saved < Last(c))
    <3>1. Size(c) = Lines(c)
      BY <2>2 DEF Size
    <3> QED
      BY <1>6, <3>1
  <2> QED
    BY <2>1, <2>2
<1>8. c = Current => saved <= Lines(c)
  BY <1>1, <1>5, <1>6 DEF DiskInv
<1> QED
  BY <1>1, <1>2, <1>4, <1>5, <1>6, <1>7, <1>8

LEMMA ReadyToFlush ==
    ASSUME FeedOK(feed), AdapterTypes, TranscriptInv, Len(said) \in Nat, History \in Nat,
           History <= Len(said), NEW c \in 1 .. Current
    PROVE  FlushReady(c)
<1>1. /\ c # 0 /\ c \in Nat /\ Current \in Nat /\ Lines(c) \in Nat /\ offset \in Nat
      /\ c # Current => Lines(c) <= starts[c + 1]
  BY LinesAre DEF TranscriptInv, AdapterTypes
<1>2. CASE path = c
  <2>1. \A m \in Mirrored(feed) : m \in Nat
    BY DEF TranscriptInv, TailInv, Heard
  <2>2. CASE Consumed
    <3>1. c # Current /\ starts[c + 1] <= offset /\ starts[c + 1] \in Nat
      BY <1>1, <1>2, <2>2, LinesAre DEF Consumed, TranscriptInv
    <3>2. Lines(c) <= offset
      BY <1>1, <3>1
    <3> QED
      BY <1>1, <3>2 DEF FlushReady
  <2>3. CASE ~Consumed
    <3>1. \A m \in Mirrored(feed) : m <= offset
      BY <1>1, <1>2, <2>3 DEF TranscriptInv, TailInv, None
    <3> QED
      BY <1>1, <2>1, <3>1 DEF FlushReady
  <2> QED
    BY <2>2, <2>3
<1>3. CASE path # c
  BY <1>1, <1>3 DEF FlushReady
<1> QED
  BY <1>2, <1>3

\* After a flush what comes next still comes after what the room has; if no timer of an
\* earlier conversation disturbs, the room has all lines that are complete.
LEMMA FlushKeeps ==
    ASSUME TranscriptInv, AdapterTypes, Len(said) \in Nat, History \in Nat, History <= Len(said),
           UNCHANGED <<said, saved, midLine, starts>>,
           NEW c \in 1 .. Current, NEW after, FlushTranscript(c, after),
           Mirrored(feed') = Mirrored(feed) \cup Read(c),
           \A n \in Heard : said[n] \in calm' => said[n] \in calm,
           calm' # {} => c = Current,
           PendingInv'
    PROVE  /\ TranscriptInv' /\ path' \in Nat /\ offset' \in Nat
           /\ calm' # {} =>
                 \A n \in Heard : said[n] \in calm' /\ n <= saved => n \in Mirrored(feed')
<1>1. /\ DiskInv /\ TailInv /\ CalmInv
      /\ saved \in Nat /\ offset \in Nat /\ path \in Nat
  BY DEF TranscriptInv, AdapterTypes
<1>2. /\ c \in Nat /\ c # 0 /\ Current \in Nat
      /\ starts[c] \in Nat /\ Last(c) \in Nat /\ Lines(c) \in Nat /\ Size(c) \in Nat
      /\ c # Current => c + 1 \in 1 .. Current /\ Last(c) = starts[c + 1]
      /\ c = Current => Last(c) = Len(said) /\ saved <= Lines(c)
      /\ History <= Last(c) /\ Last(c) <= Len(said)
      /\ starts[c] <= Lines(c) /\ Lines(c) <= Size(c) /\ Size(c) <= Last(c)
      /\ Lines(c) = Last(c) \/ saved <= Lines(c)
      /\ Lines(c) = starts[c] \/ Lines(c) <= saved
  BY <1>1, LinesAre
<1>3. /\ Current' = Current /\ Heard' = Heard /\ DiskInv'
      /\ \A n \in Heard : n \in Nat /\ n > History /\ n <= Len(said)
  BY <1>1 DEF Current, Heard, DiskInv
<1>4. /\ \A m \in Mirrored(feed) : m \in Heard /\ m <= saved
      /\ path # None => History <= offset /\ starts[path] <= offset
      /\ IF path = None THEN Mirrored(feed) = {}
         ELSE Consumed \/ \A m \in Mirrored(feed) : m <= offset
      /\ path <= Current /\ offset <= Len(said)
  BY <1>1 DEF TailInv
<1>5. CASE path # c
  <2>1. path' = c /\ offset' = Size(c) /\ Mirrored(feed') = Mirrored(feed)
    BY <1>5 DEF FlushTranscript, Read
  <2>2. History <= Lines(c)
    BY <1>1, <1>2 DEF DiskInv
  <2>3. Consumed' \/ \A m \in Mirrored(feed) : m <= Size(c)
    <3>1. CASE saved <= Lines(c)
      BY <1>1, <1>2, <1>3, <1>4, <3>1
    <3>2. CASE Lines(c) = Last(c) /\ c = Current
      BY <1>1, <1>2, <1>3, <1>4, <3>2
    <3>3. CASE Lines(c) = Last(c) /\ c # Current
      <4>1. c < Current /\ starts[c + 1] <= Size(c)
        BY <1>2, <3>3
      <4> QED
        BY <1>3, <2>1, <4>1 DEF Consumed
    <3> QED
      BY <1>2, <3>1, <3>2, <3>3
  <2>4. TailInv'
    <3>1. path' # None /\ path' <= Current' /\ offset' <= Len(said')
      BY <1>2, <1>3, <2>1 DEF None
    <3>2. History <= offset' /\ starts'[path'] <= offset'
      BY <1>2, <2>1, <2>2
    <3>3. Consumed' \/ \A m \in Mirrored(feed') : m <= offset'
      BY <2>1, <2>3
    <3>4. \A m \in Mirrored(feed') : m \in Heard' /\ m <= saved'
      BY <1>3, <1>4, <2>1
    <3> QED
      BY <3>1, <3>2, <3>3, <3>4 DEF TailInv
  <2>5. \A n \in Heard : said[n] \notin calm'
    <3>1. calm' # {} /\ calm # {} => FALSE
      BY <1>1, <1>5 DEF CalmInv
    <3> QED
      BY <3>1
  <2>6. CalmInv'
    BY <1>3, <2>1, <2>5 DEF CalmInv
  <2> QED
    BY <1>2, <1>3, <2>1, <2>4, <2>5, <2>6 DEF TranscriptInv
<1>6. CASE path = c
  <2>1. /\ path' = path /\ offset' = IF Lines(c) > offset THEN Lines(c) ELSE offset
        /\ Mirrored(feed') = Mirrored(feed) \cup (offset + 1 .. Lines(c))
    BY <1>6 DEF FlushTranscript, Read
  <2>2. path # None /\ History <= offset /\ starts[c] <= offset
    BY <1>2, <1>4, <1>6 DEF None
  <2>3. /\ offset' \in Nat /\ offset <= offset' /\ Lines(c) <= offset' /\ offset' <= Len(said)
        /\ offset' = offset \/ offset' = Lines(c)
    BY <1>1, <1>2, <1>4, <2>1
  <2>4. \A m \in offset + 1 .. Lines(c) : m \in Heard /\ m <= saved /\ m <= offset'
    <3> SUFFICES ASSUME NEW m \in offset + 1 .. Lines(c)
                 PROVE  m \in Heard /\ m <= saved /\ m <= offset'
      OBVIOUS
    <3>1. m \in Nat /\ m > offset /\ m <= Lines(c)
      BY <1>1, <1>2
    <3>2. Lines(c) <= saved
      BY <1>1, <1>2, <2>2, <3>1
    <3>3. m > History /\ m <= Len(said)
      BY <1>1, <1>2, <2>2, <3>1
    <3> QED
      BY <1>1, <1>2, <2>3, <3>1, <3>2, <3>3 DEF Heard
  <2>5. Consumed' \/ \A m \in Mirrored(feed') : m <= offset'
    <3>1. CASE Consumed
      <4>1. path < Current /\ starts[path + 1] <= offset /\ starts[path + 1] \in Nat
        BY <1>2, <1>6, <3>1 DEF Consumed
      <4>2. starts[path + 1] <= offset'
        BY <1>1, <2>3, <4>1
      <4> QED
        BY <1>3, <2>1, <4>1, <4>2 DEF Consumed
    <3>2. CASE ~Consumed
      <4>1. \A m \in Mirrored(feed) : m \in Nat /\ m <= offset
        BY <1>3, <1>4, <2>2, <3>2
      <4> QED
        BY <1>1, <2>1, <2>3, <2>4, <4>1
    <3> QED
      BY <3>1, <3>2
  <2>6. TailInv'
    <3>1. path' # None /\ path' <= Current' /\ offset' <= Len(said')
      BY <1>3, <1>4, <2>1, <2>2, <2>3
    <3>2. History <= offset' /\ starts'[path'] <= offset'
      BY <1>1, <1>2, <1>6, <2>1, <2>2, <2>3
    <3>3. \A m \in Mirrored(feed') : m \in Heard' /\ m <= saved'
      BY <1>3, <1>4, <2>1, <2>4
    <3> QED
      BY <2>5, <3>1, <3>2, <3>3 DEF TailInv
  <2>7. \A n \in Heard : said[n] \in calm' /\ n <= offset' => n \in Mirrored(feed')
    <3> SUFFICES ASSUME NEW n \in Heard, said[n] \in calm', n <= offset'
                 PROVE  n \in Mirrored(feed')
      OBVIOUS
    <3>1. CASE n <= offset
      BY <1>1, <2>1, <3>1 DEF CalmInv
    <3>2. CASE ~(n <= offset)
      <4>1. n \in offset + 1 .. Lines(c)
        BY <1>1, <1>2, <1>3, <2>1, <3>2
      <4> QED
        BY <2>1, <4>1
    <3> QED
      BY <3>1, <3>2
  <2>8. CalmInv'
    BY <1>3, <1>6, <2>1, <2>7 DEF CalmInv
  <2>9. calm' # {} => saved <= offset'
    BY <1>1, <1>2, <2>3
  <2> QED
    BY <1>1, <1>3, <2>1, <2>3, <2>6, <2>7, <2>8, <2>9 DEF TranscriptInv
<1> QED
  BY <1>5, <1>6

\* What holds of the adapter of claude-native in every state.
LEMMA TranscriptFacts ==
    ASSUME RoomInv, kind = "claude-native"
    PROVE  /\ AgentInv /\ FeedOK(feed) /\ CallsInv /\ UsesInPlace /\ AdapterTypes /\ TranscriptInv
           /\ DiskInv /\ TailInv /\ CalmInv /\ PendingInv
           /\ kind \notin Live \cup {"acp", "opencode", "hooks", "cursor-native"}
           /\ Len(said) \in Nat /\ History \in Nat /\ History <= Len(said)
           /\ turn \in Nat /\ saved \in Nat /\ offset \in Nat /\ path \in Nat
           /\ Current \in Nat /\ Current \in 1 .. Current
           /\ None = 0
           /\ due \in Seq(TimerRecord) /\ sweeps \in Seq(TimerRecord)
           /\ \A n \in 1 .. Len(said) : said[n] \in Nat /\ said[n] <= turn
           /\ \A n \in Heard : n \in 1 .. Len(said)
<1>1. AgentInv /\ FeedOK(feed) /\ CallsInv /\ UsesInPlace /\ AdapterTypes /\ TranscriptInv
  BY DEF RoomInv, ProseInv
<1>2. DiskInv /\ TailInv /\ CalmInv /\ PendingInv
  BY <1>1 DEF TranscriptInv
<1>3. kind \notin Live \cup {"acp", "opencode", "hooks", "cursor-native"}
  BY DEF Live
<1>4. /\ Len(said) \in Nat /\ History \in Nat /\ History <= Len(said) /\ None = 0
      /\ turn \in Nat
      /\ \A n \in 1 .. Len(said) : said[n] \in Nat /\ said[n] <= turn
  BY <1>1, AgentFacts DEF AgentInv, AgentTypes
<1>5. Current \in Nat /\ Current \in 1 .. Current
  <2>1. Current \in Nat
    BY <1>1, LenProperties DEF AdapterTypes, Current
  <2> QED
    BY <1>2, <2>1 DEF DiskInv
<1>6. \A n \in Heard : n \in 1 .. Len(said)
  BY <1>4 DEF Heard
<1> QED
  BY <1>1, <1>2, <1>3, <1>4, <1>5, <1>6 DEF AdapterTypes

\* A timer that starts belongs to the transcript of now.
LEMMA TimerStarts ==
    ASSUME RoomInv, kind = "claude-native", NEW k \in Nat, NEW t, t = Append(due, Timer(k))
    PROVE  /\ t \in Seq(TimerRecord)
           /\ \A d \in Members(t) : d \in Members(due) \/ d.path = Current
<1>1. Current \in Nat /\ due \in Seq(TimerRecord)
  BY TranscriptFacts
<1> DEFINE d == Timer(k)
<1>2. d \in TimerRecord /\ d.path = Current
  BY <1>1 DEF Timer, TimerRecord
<1>3. t = Append(due, d)
  OBVIOUS
<1> HIDE DEF d
<1>4. t \in Seq(TimerRecord) /\ Members(t) = Members(due) \cup {d}
  BY <1>1, <1>2, <1>3, OneMoreMember
<1> QED
  BY <1>2, <1>4

\* A turn that begins is calm only if all timers are of this conversation.
LEMMA TimersFollow ==
    ASSUME RoomInv, kind = "claude-native", NEW does \in Doings, NEW n, Turned(does, n),
           UNCHANGED sweeps, due' = IF does = "end" THEN Append(due, Timer(n)) ELSE due
    PROVE  /\ due' \in Seq(TimerRecord)
           /\ PendingInv'
           /\ \A m \in 1 .. Len(said) : said[m] \in calm' => said[m] \in calm
           /\ does # "prompt" => calm' = calm
<1>0. /\ AgentInv /\ PendingInv
      /\ Current \in Nat /\ Current \in 1 .. Current
      /\ due \in Seq(TimerRecord) /\ turn \in Nat
      /\ \A m \in 1 .. Len(said) : said[m] \in Nat /\ said[m] <= turn
  BY TranscriptFacts
<1>1. starts' = starts /\ Current' = Current /\ n \in Nat
  BY <1>0, AgentKeeps DEF Turned, Doings, Current
<1>2. calm' = IF does = "prompt" /\ Calm THEN calm \cup {turn'} ELSE calm
  BY DEF Turned
<1>3. \A m \in 1 .. Len(said) : said[m] \in calm' => said[m] \in calm
  <2>1. does = "prompt" => turn' = turn + 1
    BY DEF Turned
  <2> QED
    BY <1>0, <1>2, <2>1
<1>4. CASE does = "end"
  <2> DEFINE t == Append(due, Timer(n))
  <2>1. due' = t /\ calm' = calm
    BY <1>2, <1>4
  <2>2. t \in Seq(TimerRecord) /\ \A d \in Members(t) : d \in Members(due) \/ d.path = Current
    BY <1>1, TimerStarts
  <2> HIDE DEF t
  <2>3. \A d \in Pending' : d \in Pending \/ d.path = Current
    BY <2>1, <2>2 DEF Pending
  <2>4. PendingInv'
    BY <1>0, <1>1, <2>1, <2>3 DEF PendingInv
  <2> QED
    BY <1>3, <2>1, <2>2, <2>4
<1>5. CASE does # "end"
  <2>1. due' = due /\ Pending' = Pending
    BY <1>5 DEF Pending
  <2>2. Calm => \A d \in Pending : d.path = Current
    BY DEF Calm, Pending, Members
  <2>3. PendingInv'
    <3>1. CASE calm' = calm
      BY <1>0, <1>1, <2>1, <3>1 DEF PendingInv
    <3>2. CASE Calm
      BY <1>0, <1>1, <2>1, <2>2, <3>2 DEF PendingInv
    <3> QED
      BY <1>2, <3>1, <3>2
  <2> QED
    BY <1>0, <1>2, <1>3, <2>1, <2>3
<1> QED
  BY <1>4, <1>5

LEMMA TranscriptKeeps ==
    ASSUME RoomInv, kind = "claude-native", NEW does \in Doings, NEW n, Turned(does, n)
    PROVE  RoomInv' /\ ReplyTold
<1>0. /\ AgentInv /\ FeedOK(feed) /\ CallsInv /\ AdapterTypes /\ TranscriptInv
      /\ DiskInv /\ TailInv /\ CalmInv
      /\ kind \notin Live \cup {"acp", "opencode", "hooks", "cursor-native"}
      /\ Len(said) \in Nat /\ History \in Nat /\ History <= Len(said)
      /\ saved \in Nat /\ offset \in Nat /\ path \in Nat
      /\ Current \in 1 .. Current
      /\ sweeps \in Seq(TimerRecord)
      /\ \A m \in Heard : m \in 1 .. Len(said)
  BY TranscriptFacts
<1>1. Fits(does, n) /\ ClaudeHook(does, n)
  BY <1>0, TurnFits DEF Turned, Hear, Live
<1>2. /\ kind' = kind /\ midLine' = midLine /\ starts' = starts /\ fresh' = fresh /\ saved' = saved
      /\ does = "say" => /\ Len(said') = Len(said) + 1
                         /\ \A k \in 1 .. Len(said) : said'[k] = said[k]
      /\ does # "say" => said' = said
  BY <1>0, TurnFacts
<1>3. FlushReady(Current)
  BY <1>0, ReadyToFlush
<1>4. /\ does \in {"prompt", "tool", "done"} =>
            /\ Tells(does, n, Read(Current))
            /\ \E after : FlushTranscript(Current, after)
      /\ does \in {"say", "end", "fail"} => Tells(does, n, {}) /\ UNCHANGED <<feed, path, offset>>
  BY <1>1, <1>3, ClaudeHookTells
<1>5. /\ UNCHANGED <<held, reported, sweeps>>
      /\ due' = IF does = "end" THEN Append(due, Timer(n)) ELSE due
  BY <1>1 DEF ClaudeHook
<1>6. /\ due' \in Seq(TimerRecord)
      /\ PendingInv'
      /\ \A m \in 1 .. Len(said) : said[m] \in calm' => said[m] \in calm
      /\ does # "prompt" => calm' = calm
  BY <1>5, TimersFollow
<1>7. /\ TranscriptInv' /\ path' \in Nat /\ offset' \in Nat
      /\ \E P : Tells(does, n, P)
      /\ ReplyTold
  <2>1. CASE does \in {"prompt", "tool", "done"}
    <3>1. PICK after : FlushTranscript(Current, after)
      BY <1>4, <2>1
    <3>2. Tells(does, n, Read(Current))
      BY <1>4, <2>1
    <3>3. Mirrored(feed') = Mirrored(feed) \cup Read(Current)
      BY <3>2, TellsIs
    <3>4. said' = said /\ \A m \in Heard : said[m] \in calm' => said[m] \in calm
      BY <1>0, <1>2, <1>6, <2>1
    <3>5. TranscriptInv' /\ path' \in Nat /\ offset' \in Nat
      BY <1>0, <1>2, <1>6, <3>1, <3>3, <3>4, FlushKeeps
    <3>6. ~Closing(does)
      BY <1>0, <2>1 DEF Closing
    <3>7. ReplyTold
      BY <3>2, <3>6, ReplyKeeps
    <3> QED
      BY <3>2, <3>5, <3>7
  <2>2. CASE does \in {"say", "end", "fail"}
    <3>1. UNCHANGED <<feed, path, offset>> /\ Tells(does, n, {}) /\ calm' = calm
      BY <1>4, <1>6, <2>2
    <3>2. /\ Len(said') \in Nat /\ Len(said) <= Len(said')
          /\ Current' = Current
          /\ \A m \in Heard : m \in Heard' /\ said'[m] = said[m]
          /\ \A m \in Heard' : m \in Heard \/ m > Len(said)
      BY <1>0, <1>2, <2>2 DEF Heard, Current
    <3>3. DiskInv'
      <4>1. \A c \in 1 .. Current : starts[c] \in Nat
        BY <1>0, LinesAre
      <4> QED
        BY <1>0, <1>2, <3>2, <4>1 DEF DiskInv
    <3>4. TailInv'
      <4>1. Consumed' = Consumed
        BY <1>2, <3>1, <3>2 DEF Consumed
      <4>2. offset' <= Len(said')
        BY <1>0, <3>1, <3>2 DEF TailInv
      <4> QED
        BY <1>0, <1>2, <3>1, <3>2, <4>1, <4>2 DEF TailInv
    <3>5. CalmInv'
      <4>1. \A m \in Heard' : m <= offset => m \in Heard
        BY <1>0, <3>2 DEF TailInv, Heard
      <4> QED
        BY <1>0, <3>1, <3>2, <4>1 DEF CalmInv
    <3>6. ReplyTold
      <4>1. AddsQuietly(feed, feed', {}, {}, {})
        BY <1>0, <3>1, NothingEmitted
      <4> QED
        BY <4>1, NoReplyDue DEF AddsQuietly
    <3> QED
      BY <1>0, <1>6, <3>1, <3>3, <3>4, <3>5, <3>6 DEF TranscriptInv
  <2> QED
    BY <2>1, <2>2 DEF Doings
<1>8. PICK P : Tells(does, n, P)
  BY <1>7
<1>9. AgentInv' /\ FeedOK(feed') /\ CallsInv'
  BY <1>0, <1>8, AgentKeeps, CallsKeep, TellsIs
<1>10. AdapterTypes'
  BY <1>0, <1>2, <1>5, <1>6, <1>7 DEF AdapterTypes
<1>11. ProseInv' /\ UsesInPlace'
  BY <1>0, <1>2, <1>7 DEF ProseInv, UsesInPlace
<1> QED
  BY <1>7, <1>9, <1>10, <1>11 DEF RoomInv

\* A step that only the adapter of claude-native, or the disk, is concerned with.
LEMMA AdapterSteps ==
    ASSUME RoomInv, kind = "claude-native",
           UNCHANGED <<kind, turn, active, said, calls, running, broken>>,
           FeedOK(feed'), UsedIn(feed') = UsedIn(feed), AnsweredIn(feed') = AnsweredIn(feed),
           AdapterTypes', TranscriptInv'
    PROVE  RoomInv'
<1>0. AgentInv /\ CallsInv /\ kind \notin Live \cup {"acp", "opencode", "hooks", "cursor-native"}
  BY TranscriptFacts
<1>1. AgentInv'
  BY <1>0 DEF AgentInv, AgentTypes
<1>2. CallsInv' /\ UsesInPlace'
  BY <1>0 DEF CallsInv, UsesInPlace
<1>3. ProseInv'
  BY <1>0 DEF ProseInv
<1> QED
  BY <1>1, <1>2, <1>3 DEF RoomInv

LEMMA WriteKeeps ==
    ASSUME RoomInv, WriteTranscript
    PROVE  RoomInv' /\ ReplyTold
<1>0. kind = "claude-native"
  BY DEF WriteTranscript
<1>1. /\ FeedOK(feed) /\ AdapterTypes
      /\ DiskInv /\ TailInv /\ CalmInv /\ PendingInv
      /\ Len(said) \in Nat /\ History \in Nat /\ saved \in Nat /\ midLine \in BOOLEAN
      /\ \A n \in Heard : n \in Nat
  BY <1>0, TranscriptFacts DEF AdapterTypes
<1>2. /\ saved < Len(said)
      /\ midLine' = ~midLine
      /\ saved' = IF midLine THEN saved + 1 ELSE saved
      /\ UNCHANGED <<kind, turn, active, said, calls, running, broken, calm, starts, fresh>>
      /\ UNCHANGED <<path, offset, held, reported, due, sweeps, feed>>
  BY DEF WriteTranscript, agent, adapter
<1>3. /\ saved' \in Nat /\ saved <= saved' /\ saved' <= Len(said)
      /\ midLine' \in BOOLEAN
      /\ midLine' => saved' < Len(said)
  <2>1. CASE midLine = TRUE
    <3>1. midLine' = FALSE /\ saved' = saved + 1
      BY <1>2, <2>1
    <3> QED
      BY <1>1, <1>2, <3>1
  <2>2. CASE midLine = FALSE
    <3>1. midLine' = TRUE /\ saved' = saved
      BY <1>2, <2>2
    <3> QED
      BY <1>1, <1>2, <3>1
  <2> QED
    BY <1>1, <2>1, <2>2
<1>4. Current' = Current /\ Heard' = Heard /\ Consumed' = Consumed /\ Pending' = Pending
  BY <1>2 DEF Current, Heard, Consumed, Pending
<1>5. DiskInv'
  BY <1>1, <1>2, <1>3, <1>4 DEF DiskInv
<1>6. TailInv'
  <2>1. \A m \in Mirrored(feed) : m \in Heard /\ m <= saved'
    BY <1>1, <1>3 DEF TailInv
  <2> QED
    BY <1>1, <1>2, <1>4, <2>1 DEF TailInv
<1>7. CalmInv' /\ PendingInv'
  BY <1>1, <1>2, <1>4 DEF CalmInv, PendingInv
<1>8. AdapterTypes'
  BY <1>1, <1>2, <1>3 DEF AdapterTypes
<1>9. ReplyTold
  <2>1. AddsQuietly(feed, feed', {}, {}, {})
    BY <1>1, <1>2, NothingEmitted
  <2> QED
    BY <2>1, NoReplyDue DEF AddsQuietly
<1>10. TranscriptInv'
  BY <1>5, <1>6, <1>7 DEF TranscriptInv
<1> QED
  BY <1>0, <1>1, <1>2, <1>8, <1>9, <1>10, AdapterSteps

LEMMA ClearKeeps ==
    ASSUME RoomInv, ClearConversation
    PROVE  RoomInv' /\ ReplyTold
<1>0. kind = "claude-native"
  BY DEF ClearConversation
<1>1. /\ FeedOK(feed) /\ AdapterTypes
      /\ DiskInv /\ TailInv /\ CalmInv /\ PendingInv
      /\ Len(said) \in Nat /\ History \in Nat /\ History <= Len(said)
      /\ Current \in Nat /\ path \in Nat /\ None = 0
  BY <1>0, TranscriptFacts
<1>2. /\ due' = Append(due, Timer(None))
      /\ starts' = Append(starts, Len(said))
      /\ fresh' = TRUE /\ calm' = {}
      /\ UNCHANGED <<kind, turn, active, said, calls, running, broken, saved, midLine>>
      /\ UNCHANGED <<path, offset, held, reported, sweeps, feed>>
  BY DEF ClearConversation
<1>3. /\ starts' \in Seq(Nat)
      /\ Current' = Current + 1 /\ Current' \in Nat
      /\ starts'[Current'] = Len(said)
      /\ \A c \in 1 .. Current : starts'[c] = starts[c]
  BY <1>1, <1>2, AppendProperties DEF AdapterTypes, Current
<1>4. /\ Heard' = Heard
      /\ \A c \in 1 .. Current' : c \in 1 .. Current \/ c = Current'
      /\ \A c \in 1 .. Current : c \in 1 .. Current' /\ c < Current'
  BY <1>1, <1>2, <1>3 DEF Heard
<1>5. DiskInv'
  <2>1. ASSUME NEW c \in 1 .. Current'
        PROVE  /\ starts'[c] <= Len(said) /\ (c # 1 => History <= starts'[c])
               /\ c # Current' => starts'[c] <= starts'[c + 1]
    <3>1. CASE c = Current'
      BY <1>1, <1>3, <3>1
    <3>2. CASE c \in 1 .. Current
      <4>1. starts'[c] <= Len(said) /\ (c # 1 => History <= starts'[c])
        BY <1>1, <1>3, <3>2 DEF DiskInv
      <4>2. CASE c = Current
        BY <1>1, <1>3, <4>1, <4>2
      <4>3. CASE c # Current
        <5>1. c + 1 \in 1 .. Current
          BY <1>1, <3>2, <4>3
        <5>2. starts'[c + 1] = starts[c + 1] /\ starts'[c] = starts[c]
          BY <1>3, <3>2, <5>1
        <5> QED
          BY <1>1, <3>2, <4>1, <4>3, <5>2 DEF DiskInv
      <4> QED
        BY <4>2, <4>3
    <3> QED
      BY <1>4, <3>1, <3>2
  <2>2. Current' # 0
    BY <1>1, <1>3
  <2> QED
    BY <1>1, <1>2, <2>1, <2>2 DEF DiskInv
<1>6. TailInv'
  <2>1. Consumed => Consumed'
    <3> SUFFICES ASSUME Consumed PROVE Consumed'
      OBVIOUS
    <3>1. path < Current /\ starts[path + 1] <= offset
      BY DEF Consumed
    <3>2. path + 1 \in 1 .. Current /\ path < Current'
      BY <1>1, <1>3, <3>1
    <3> QED
      BY <1>2, <1>3, <3>1, <3>2 DEF Consumed
  <2>2. path <= Current' /\ (path # None => starts'[path] = starts[path])
    <3>1. path <= Current
      BY <1>1 DEF TailInv
    <3>2. path # None => path \in 1 .. Current
      BY <1>1, <3>1
    <3> QED
      BY <1>1, <1>3, <3>1, <3>2
  <2> QED
    BY <1>1, <1>2, <1>4, <2>1, <2>2 DEF TailInv
<1>7. CalmInv'
  BY <1>2, <1>4 DEF CalmInv
<1> DEFINE t == Append(due, Timer(None))
<1>8. t \in Seq(TimerRecord) /\ \A d \in Members(t) : d \in Members(due) \/ d.path = Current
  <2>1. None \in Nat
    BY <1>1
  <2> QED
    BY <1>0, <2>1, TimerStarts
<1> HIDE DEF t
<1>9. due' = t
  BY <1>2 DEF t
<1>10. PendingInv'
  <2>1. \A d \in Pending' : d \in Pending \/ d.path = Current
    BY <1>2, <1>8, <1>9 DEF Pending
  <2>2. \A d \in Pending : d.path \in 1 .. Current
    BY <1>1 DEF PendingInv
  <2>3. Current \in 1 .. Current
    BY <1>0, TranscriptFacts
  <2> QED
    BY <1>2, <1>4, <2>1, <2>2, <2>3 DEF PendingInv
<1>11. AdapterTypes'
  BY <1>0, <1>1, <1>2, <1>3, <1>8, <1>9 DEF AdapterTypes
<1>12. ReplyTold
  <2>1. AddsQuietly(feed, feed', {}, {}, {})
    BY <1>1, <1>2, NothingEmitted
  <2> QED
    BY <2>1, NoReplyDue DEF AddsQuietly
<1>13. TranscriptInv'
  BY <1>5, <1>6, <1>7, <1>10 DEF TranscriptInv
<1> QED
  BY <1>0, <1>1, <1>2, <1>11, <1>12, <1>13, AdapterSteps

\* SessionStart and the timers: which transcript is flushed, and what is left to flush.
LEMMA TimersFire ==
    ASSUME RoomInv, kind = "claude-native", SessionStart \/ HeldResult \/ Sweep
    PROVE  /\ due' \in Seq(TimerRecord) /\ sweeps' \in Seq(TimerRecord)
           /\ Pending' \subseteq Pending
           /\ \E c \in 1 .. Current : \E after :
                 /\ FlushTranscript(c, after)
                 /\ c = Current \/ \E d \in Pending : d.path = c
                 /\ after = <<>> \/ \E k \in Nat \ {0} : after = <<Result(k)>>
<1>0. /\ due \in Seq(TimerRecord) /\ sweeps \in Seq(TimerRecord)
      /\ PendingInv /\ Current \in 1 .. Current /\ None = 0
  BY TranscriptFacts
<1>1. CASE SessionStart
  <2>1. FlushTranscript(Current, <<>>) /\ UNCHANGED <<due, sweeps>>
    BY <1>1 DEF SessionStart
  <2>2. Pending' = Pending
    BY <2>1 DEF Pending
  <2> QED
    BY <1>0, <2>1, <2>2
<1>2. CASE HeldResult
  <2> DEFINE d == Head(due)
             after == Closed(d)
             t == Append(sweeps, d)
  <2>1. /\ due # <<>> /\ due' = Tail(due) /\ sweeps' = t /\ FlushTranscript(d.path, after)
    BY <1>2 DEF HeldResult
  <2>2. d \in Members(due) /\ d \in TimerRecord /\ due' \in Seq(TimerRecord)
        /\ Members(due') \subseteq Members(due)
    BY <1>0, <2>1, OneLessMember
  <2> HIDE DEF d
  <2>3. t \in Seq(TimerRecord) /\ Members(t) = Members(sweeps) \cup {d}
    BY <1>0, <2>2, OneMoreMember
  <2>4. d.path \in 1 .. Current /\ d \in Pending
    BY <1>0, <2>2 DEF PendingInv, Pending
  <2>5. after = <<>> \/ \E k \in Nat \ {0} : after = <<Result(k)>>
    <3>1. d.turn \in Nat
      BY <2>2 DEF TimerRecord
    <3> QED
      BY <1>0, <3>1 DEF Closed
  <2> HIDE DEF after, t
  <2>6. Pending' \subseteq Pending
    BY <2>1, <2>2, <2>3 DEF Pending
  <2> QED
    BY <2>1, <2>2, <2>3, <2>4, <2>5, <2>6
<1>3. CASE Sweep
  <2> DEFINE d == Head(sweeps)
  <2>1. sweeps # <<>> /\ sweeps' = Tail(sweeps) /\ due' = due /\ FlushTranscript(d.path, <<>>)
    BY <1>3 DEF Sweep
  <2>2. d \in Members(sweeps) /\ sweeps' \in Seq(TimerRecord)
        /\ Members(sweeps') \subseteq Members(sweeps)
    BY <1>0, <2>1, OneLessMember
  <2> HIDE DEF d
  <2>3. d.path \in 1 .. Current /\ d \in Pending
    BY <1>0, <2>2 DEF PendingInv, Pending
  <2>4. Pending' \subseteq Pending
    BY <2>1, <2>2 DEF Pending
  <2> QED
    BY <1>0, <2>1, <2>2, <2>3, <2>4
<1> QED
  BY <1>1, <1>2, <1>3

LEMMA TimersKeep ==
    ASSUME RoomInv, SessionStart \/ HeldResult \/ Sweep
    PROVE  RoomInv' /\ ReplyTold
<1>0. kind = "claude-native"
  <2>1. fresh \/ due # <<>> \/ sweeps # <<>>
    BY DEF SessionStart, HeldResult, Sweep
  <2> QED
    BY <2>1 DEF RoomInv, AdapterTypes
<1>1. /\ AgentInv /\ FeedOK(feed) /\ AdapterTypes /\ TranscriptInv /\ PendingInv
      /\ Len(said) \in Nat /\ History \in Nat /\ History <= Len(said)
      /\ saved \in Nat
  BY <1>0, TranscriptFacts
<1>2. /\ UNCHANGED <<kind, turn, active, said, calls, running, broken, calm>>
      /\ UNCHANGED <<saved, midLine, starts, held, reported>>
      /\ fresh' \in BOOLEAN
  BY <1>1 DEF SessionStart, HeldResult, Sweep, agent, disk, AdapterTypes
<1>3. due' \in Seq(TimerRecord) /\ sweeps' \in Seq(TimerRecord) /\ Pending' \subseteq Pending
  BY <1>0, TimersFire
<1>13. PICK c \in 1 .. Current :
       \E after :
         /\ FlushTranscript(c, after)
         /\ c = Current \/ \E d \in Pending : d.path = c
         /\ after = <<>> \/ \E k \in Nat \ {0} : after = <<Result(k)>>
  BY <1>0, TimersFire
<1>4. PICK after :
         /\ FlushTranscript(c, after)
         /\ c = Current \/ \E d \in Pending : d.path = c
         /\ after = <<>> \/ \E k \in Nat \ {0} : after = <<Result(k)>>
  BY <1>13
<1>5. FlushReady(c)
  BY <1>1, ReadyToFlush
<1>6. PICK R : AddsLast(feed, feed', Read(c), {}, {}, R) /\ R \subseteq Nat \ {0}
  <2>1. CASE after = <<>>
    <3>1. AddsQuietly(feed, feed', Read(c), {}, {})
      BY <1>4, <1>5, <2>1, FlushTells
    <3>2. AddsLast(feed, feed', Read(c), {}, {}, {})
      BY <3>1, QuietIsLast
    <3> QED
      BY <3>2
  <2>2. CASE \E k \in Nat \ {0} : after = <<Result(k)>>
    <3>1. PICK k \in Nat \ {0} : after = <<Result(k)>>
      BY <2>2
    <3>2. FlushTranscript(c, <<Result(k)>>)
      BY <1>4, <3>1
    <3>3. AddsLast(feed, feed', Read(c), {}, {}, {k})
      BY <1>5, <3>2, FlushTells
    <3> QED
      BY <3>3
  <2> QED
    BY <1>4, <2>1, <2>2
<1>7. /\ FeedOK(feed')
      /\ Mirrored(feed') = Mirrored(feed) \cup Read(c)
      /\ UsedIn(feed') = UsedIn(feed) /\ AnsweredIn(feed') = AnsweredIn(feed)
  BY <1>6 DEF AddsLast, Adds
<1>8. PendingInv' /\ (calm' # {} => c = Current)
  <2>1. Current' = Current
    BY <1>2 DEF Current
  <2> QED
    BY <1>1, <1>2, <1>3, <1>4, <2>1 DEF PendingInv
<1>9. /\ TranscriptInv' /\ path' \in Nat /\ offset' \in Nat
      /\ calm' # {} =>
            \A n \in Heard : said[n] \in calm' /\ n <= saved => n \in Mirrored(feed')
  BY <1>1, <1>2, <1>4, <1>7, <1>8, FlushKeeps
<1>10. AdapterTypes'
  BY <1>0, <1>1, <1>2, <1>3, <1>9 DEF AdapterTypes
<1>11. RoomInv'
  BY <1>0, <1>2, <1>7, <1>9, <1>10, AdapterSteps
<1>12. ReplyTold
  <2> SUFFICES ASSUME NEW k \in Len(feed) + 1 .. Len(feed'), feed'[k].type = "result",
                      NEW m \in Mirrorable(feed'[k].of[1]), ~(m > saved),
                      feed'[k].of[1] \in calm
               PROVE  m \in MirroredTo(feed', k)
    BY <1>0 DEF ReplyTold
  <2>1. k = Len(feed') /\ feed'[k].of[1] \in R
    BY <1>6 DEF AddsLast, Quiet
  <2>2. m \in 1 .. Len(said) /\ said[m] = feed'[k].of[1] /\ said[m] # 0
    BY <1>6, <2>1 DEF Mirrorable
  <2>3. m > History
    BY <1>1, <2>2 DEF AgentInv
  <2>4. m \in Heard /\ m <= saved
    BY <1>1, <2>2, <2>3 DEF Heard
  <2>5. m \in Mirrored(feed')
    BY <1>2, <1>9, <2>2, <2>4
  <2> QED
    BY <2>1, <2>5, MirroredToAll
<1> QED
  BY <1>11, <1>12

\* acp: the agent repeats its history before the first turn.
LEMMA LoadKeeps ==
    ASSUME RoomInv, LoadSession
    PROVE  RoomInv' /\ ReplyTold
<1>0. kind = "acp" /\ turn = 0 /\ feed = <<>> /\ held' = Pieces(1, History)
  BY DEF LoadSession
<1>1. /\ UNCHANGED <<kind, turn, active, said, calls, running, broken, calm>>
      /\ UNCHANGED <<saved, midLine, starts, fresh, path, offset, reported, due, sweeps, feed>>
  BY DEF LoadSession, agent, disk
<1>2. /\ AgentInv /\ FeedOK(feed) /\ CallsInv /\ UsesInPlace /\ AdapterTypes
      /\ kind \notin Live \cup {"opencode", "hooks", "cursor-native", "claude-native"}
      /\ Len(said) \in Nat /\ History \in Nat /\ History <= Len(said)
      /\ \A n \in 1 .. Len(said) : said[n] \in Nat
  BY <1>0, AgentFacts DEF RoomInv, AgentInv, Live
<1>3. held' \in Seq(Nat) /\ Increasing(held') /\ Members(held') = 1 .. History
  BY <1>0, <1>2, PiecesAre
<1>4. Heard = {}
  <2> SUFFICES ASSUME NEW n \in Heard PROVE FALSE
    OBVIOUS
  <2>1. n \in 1 .. Len(said) /\ n > History
    BY <1>2 DEF Heard
  <2>2. said[n] <= turn /\ said[n] # 0
    BY <1>2, <2>1 DEF AgentInv
  <2> QED
    BY <1>0, <1>2, <2>1, <2>2
<1>5. Mirrored(feed') = {}
  BY <1>0, <1>1, NoProse
<1>6. HeldInv'
  <2>1. Heard' = {}
    BY <1>1, <1>4 DEF Heard
  <2>2. \A m \in 1 .. History : m \in 1 .. Len(said)
    BY <1>2
  <2> QED
    BY <1>0, <1>1, <1>3, <1>5, <2>1, <2>2 DEF HeldInv
<1>7. AgentInv' /\ CallsInv' /\ AdapterTypes'
  BY <1>1, <1>2, <1>3 DEF AgentInv, AgentTypes, CallsInv, AdapterTypes
<1>8. UsesInPlace' /\ ProseInv'
  BY <1>1, <1>2, <1>6 DEF UsesInPlace, Needed, ProseInv
<1>9. ReplyTold
  <2>1. AddsQuietly(feed, feed', {}, {}, {})
    BY <1>1, <1>2, NothingEmitted
  <2> QED
    BY <2>1, NoReplyDue DEF AddsQuietly
<1> QED
  BY <1>1, <1>2, <1>7, <1>8, <1>9 DEF RoomInv

-----------------------------------------------------------------------------
(* Every step, and what follows.                                               *)

LEMMA StepKeeps ==
    ASSUME RoomInv, [Next]_vars
    PROVE  RoomInv' /\ ReplyTold
<1>1. ASSUME NEW does \in Doings, NEW n, Turned(does, n) PROVE RoomInv' /\ ReplyTold
  <2>1. kind \in {"claude", "codex", "cursor", "acp", "opencode", "hooks",
                  "claude-native", "cursor-native"}
    BY RoomNumbers DEF RoomInv, AgentInv, AgentTypes
  <2> QED
    BY <1>1, <2>1, LiveKeeps, AcpKeeps, OpencodeKeeps, HooksKeep, RecordKeeps, TranscriptKeeps
    DEF Live
<1>2. CASE UNCHANGED vars
  <2>1. UNCHANGED <<kind, turn, active, said, calls, running, broken, calm>>
        /\ UNCHANGED <<saved, midLine, starts, fresh, path, offset, held, reported, due, sweeps, feed>>
    BY <1>2 DEF vars, agent, disk, adapter
  <2>2. FeedOK(feed) /\ AgentInv /\ AdapterTypes /\ CallsInv /\ UsesInPlace /\ ProseInv
    BY DEF RoomInv
  <2>3. AgentInv' /\ AdapterTypes'
    BY <2>1, <2>2 DEF AgentInv, AgentTypes, AdapterTypes
  <2>4. CallsInv' /\ UsesInPlace'
    BY <2>1, <2>2 DEF CallsInv, UsesInPlace, Needed
  <2>5. ProseInv'
    BY <2>1, <2>2 DEF ProseInv, LiveInv, HeldInv, HooksInv, RecordInv, TranscriptInv, DiskInv, TailInv,
        CalmInv, PendingInv, Pending, Consumed, Current, Heard
  <2>6. ReplyTold
    <3>1. AddsQuietly(feed, feed', {}, {}, {})
      BY <2>1, <2>2, NothingEmitted
    <3> QED
      BY <3>1, NoReplyDue DEF AddsQuietly
  <2> QED
    BY <2>1, <2>2, <2>3, <2>4, <2>5, <2>6 DEF RoomInv
<1> QED
  BY <1>1, <1>2, NextIs, RepeatKeeps, LoadKeeps, WriteKeeps, ClearKeeps, TimersKeep

LEMMA InitRoom == Init => RoomInv
<1> SUFFICES ASSUME Init PROVE RoomInv
  OBVIOUS
<1> DEFINE e == <<>>
<1>1. e \in Seq(EventRecord) /\ e \in Seq(Nat) /\ e \in Seq(TimerRecord) /\ Len(e) = 0 /\ 1 .. Len(e) = {}
  BY EmptySeq
<1>2. calls = e /\ held = e /\ due = e /\ sweeps = e /\ feed = e
  BY DEF Init
<1> HIDE DEF e
<1>3. History \in Nat /\ MaxTools \in Nat /\ None = 0 /\ Tool = 1 .. MaxTools
  BY RoomNumbers
<1>4. /\ said \in Seq(Nat) /\ Len(said) = History
      /\ \A n \in 1 .. Len(said) : said[n] = 0
  <2>1. said = [k \in 1 .. History |-> 0]
    BY DEF Init
  <2>2. said \in Seq(Nat) /\ Len(said) = History
    BY <1>3, <2>1
  <2> QED
    BY <2>1, <2>2
<1>5. AgentInv
  <2>1. AgentTypes
    BY <1>1, <1>2, <1>3, <1>4 DEF Init, AgentTypes
  <2>2. Len(calls) = 0 /\ \A t \in 1 .. Len(calls) : calls[t] <= Len(said)
    BY <1>1, <1>2
  <2>3. \A n \in 1 .. Len(said) : said[n] <= turn /\ (n > History <=> said[n] # 0)
    BY <1>3, <1>4 DEF Init
  <2>4. \A n \in 1 .. Len(said) : n + 1 <= Len(said) => said[n] <= said[n + 1]
    BY <1>3, <1>4
  <2> QED
    BY <1>3, <1>4, <2>1, <2>2, <2>3, <2>4 DEF Init, AgentInv
<1>6. AdapterTypes /\ Current = 1 /\ starts[1] = 0
  <2> DEFINE one == <<0>>
  <2>1. one \in Seq(Nat) /\ Len(one) = 1 /\ one[1] = 0
    OBVIOUS
  <2>2. starts = one
    BY DEF Init
  <2> HIDE DEF one
  <2> QED
    BY <1>1, <1>2, <1>3, <2>1, <2>2 DEF Init, AdapterTypes, Current
<1>7. /\ Mirrored(feed) = {} /\ UsedIn(feed) = {} /\ AnsweredIn(feed) = {}
      /\ Members(held) = {} /\ Increasing(held)
  BY <1>1, <1>2 DEF Mirrored, UsedIn, AnsweredIn, Members, Increasing
<1>8. FeedOK(feed) /\ UsesInPlace
  BY <1>1, <1>2 DEF FeedOK, InOrder, OnceEach, UsesInPlace
<1>9. CallsInv
  <2>1. 1 .. Len(calls) = {}
    BY <1>1, <1>2
  <2>2. Matches(feed, reported)
    BY <1>7 DEF Init, Matches
  <2> QED
    BY <1>7, <2>1, <2>2 DEF CallsInv
<1>10. Heard = {}
  BY <1>3, <1>4 DEF Heard
<1>11. ProseInv
  <2>1. LiveInv /\ HeldInv /\ HooksInv
    BY <1>7, <1>10 DEF Init, LiveInv, HeldInv, HooksInv
  <2>2. RecordInv
    BY <1>3, <1>4, <1>7, <1>10 DEF Init, RecordInv
  <2>3. DiskInv /\ TailInv
    BY <1>3, <1>4, <1>6, <1>7 DEF Init, DiskInv, TailInv
  <2>4. CalmInv /\ PendingInv
    <3>1. Pending = {}
      BY <1>1, <1>2 DEF Pending, Members
    <3> QED
      BY <1>10, <3>1 DEF Init, CalmInv, PendingInv
  <2> QED
    BY <2>1, <2>2, <2>3, <2>4 DEF ProseInv, TranscriptInv
<1> QED
  BY <1>5, <1>6, <1>8, <1>9, <1>11 DEF RoomInv

LEMMA RoomInvariant == Spec => []RoomInv
<1>1. RoomInv /\ [Next]_vars => RoomInv'
  BY StepKeeps
<1> QED
  BY <1>1, InitRoom, PTL DEF Spec

LEMMA MirroredPrefix ==
    ASSUME NEW f \in Seq(EventRecord), NEW k \in 1 .. Len(f)
    PROVE  Mirrored(SubSeq(f, 1, k)) = MirroredTo(f, k)
<1> DEFINE g == SubSeq(f, 1, k)
<1>1. Len(f) \in Nat /\ k \in Nat
  BY LenProperties
<1>2. Len(g) = k /\ \A j \in 1 .. k : g[j] = f[j]
  BY <1>1, SubSeqProperties
<1> HIDE DEF g
<1>3. Mirrored(g) = MirroredTo(f, k)
  BY <1>2 DEF Mirrored, MirroredTo
<1> QED
  BY <1>3 DEF g

\* The room has the agent's prose once and in the order in which it was said, with
\* every runtime's way of reporting it, and nothing of the history unless the agent
\* itself repeats it.
THEOREM ProseTold == Spec => []ProseInOrder
<1>1. ASSUME RoomInv PROVE ProseInOrder
  <2>0. /\ Len(said) \in Nat /\ History \in Nat /\ feed \in Seq(EventRecord)
        /\ kind \in {"claude", "codex", "cursor", "acp", "opencode", "hooks",
                     "claude-native", "cursor-native"}
    BY <1>1, AgentFacts, RoomNumbers DEF RoomInv, AgentInv, AgentTypes, FeedOK
  <2>1. \A n \in Heard : n > History
    BY <2>0 DEF Heard
  <2>2. kind = "acp" \/ \A n \in Mirrored(feed) : n > History
    <3>1. ProseInv
      BY <1>1 DEF RoomInv
    <3> QED
      BY <2>0, <2>1, <3>1 DEF ProseInv, Live, LiveInv, HeldInv, HooksInv, RecordInv,
          TranscriptInv, TailInv
  <2>3. \A k \in 1 .. Len(feed) : \A n \in Told(feed[k]) : n \in Mirrored(feed)
    BY MirroredOf
  <2> QED
    BY <1>1, <2>2, <2>3 DEF RoomInv, FeedOK, InOrder, ProseInOrder
<1> QED
  BY <1>1, RoomInvariant, PTL

\* Calls are announced and answered once, in that order, after what was said before
\* them where the runtime does not hold it back.
THEOREM ToolsTold == Spec => []ToolsInPlace
<1>1. ASSUME RoomInv PROVE ToolsInPlace
  <2>1. OnceEach(feed) /\ feed \in Seq(EventRecord) /\ UsesInPlace
    BY <1>1 DEF RoomInv, FeedOK
  <2>2. ASSUME NEW t \in Tool
        PROVE  LET of(type) == {k \in 1 .. Len(feed) : feed[k].type = type /\ feed[k].of = <<t>>}
               IN  /\ \A j, k \in of("tool_use") : j = k
                   /\ \A j, k \in of("tool_result") : j = k
                   /\ \A k \in of("tool_result") : \E j \in of("tool_use") : j < k
    BY <2>1 DEF OnceEach, IsUse, IsAnswer
  <2>3. ASSUME kind \in {"claude", "codex", "cursor", "acp", "cursor-native"},
               NEW k \in 1 .. Len(feed), feed[k].type = "tool_use"
        PROVE  {n \in History + 1 .. calls[feed[k].of[1]] : kind # "cursor-native" \/ said[n] \notin broken}
                  \subseteq Mirrored(SubSeq(feed, 1, k))
    <3>1. PICK t \in Tool : IsUse(feed[k], t)
      BY <2>1, <2>3 DEF OnceEach
    <3>2. feed[k].of[1] = t
      BY <3>1 DEF IsUse
    <3>3. Needed(t) \subseteq MirroredTo(feed, k)
      BY <2>1, <2>3, <3>1 DEF UsesInPlace
    <3>4. Mirrored(SubSeq(feed, 1, k)) = MirroredTo(feed, k)
      BY <2>1, MirroredPrefix
    <3> QED
      BY <3>2, <3>3, <3>4 DEF Needed
  <2> QED
    BY <2>2, <2>3 DEF ToolsInPlace
<1> QED
  BY <1>1, RoomInvariant, PTL

\* When a turn is closed the room has its reply, as far as the runtime had made it
\* available; of claude-native's turns, those that no timer of an earlier conversation
\* disturbs.
THEOREM ReplyComesFirst == Spec => ReplyBeforeResult
<1>1. ASSUME RoomInv, [Next]_vars
      PROVE  [ \A k \in Len(feed) + 1 .. Len(feed') :
                 feed'[k].type = "result" =>
                    \A n \in Mirrorable(feed'[k].of[1]) :
                        \/ kind = "claude-native" /\ (n > saved \/ feed'[k].of[1] \notin calm)
                        \/ n \in Mirrored(SubSeq(feed', 1, k)) ]_vars
  <2>1. ReplyTold /\ RoomInv'
    BY <1>1, StepKeeps
  <2>2. feed' \in Seq(EventRecord) /\ feed \in Seq(EventRecord)
    BY <1>1, <2>1 DEF RoomInv, FeedOK
  <2>3. \A k \in Len(feed) + 1 .. Len(feed') : k \in 1 .. Len(feed')
    BY <2>2, LenProperties
  <2>4. \A k \in Len(feed) + 1 .. Len(feed') : Mirrored(SubSeq(feed', 1, k)) = MirroredTo(feed', k)
    BY <2>2, <2>3, MirroredPrefix
  <2> QED
    BY <2>1, <2>4 DEF ReplyTold
<1> QED
  BY <1>1, RoomInvariant, PTL DEF Spec, ReplyBeforeResult
=============================================================================
