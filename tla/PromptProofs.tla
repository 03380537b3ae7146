----------------------------- MODULE PromptProofs -----------------------------
(***************************************************************************)
(* Proofs about the adapters that hand an agent one prompt per             *)
(* instruction, for every number of instructions.                          *)
(***************************************************************************)
EXTENDS PromptAdapter, SequenceTheorems, FiniteSetTheorems, FunctionTheorems, TLAPS

LEMMA PromptNumbers == /\ MaxInstructions \in Nat
                       /\ Instruction = 1 .. MaxInstructions
                       /\ None = 0
                       /\ None \notin Instruction
                       /\ Kinds \subseteq {"acp", "codex", "cursor"}
BY PromptConstants DEF Instruction, None

-----------------------------------------------------------------------------
(* Queues without repetitions. *)

Injective(s) == \A j, k \in 1 .. Len(s) : s[j] = s[k] => j = k

LEMMA InjectiveIsDistinct ==
    ASSUME NEW S, NEW s \in Seq(S), Injective(s)
    PROVE  Distinct(s)
<1>1. Len(s) \in Nat /\ s \in [1 .. Len(s) -> S]
  BY LenProperties
<1>2. s \in [1 .. Len(s) -> Members(s)]
  BY <1>1 DEF Members
<1>3. \A t \in Members(s) : \E k \in 1 .. Len(s) : s[k] = t
  BY DEF Members
<1>4. s \in Bijection(1 .. Len(s), Members(s))
  BY <1>2, <1>3, Fun_IsBij DEF Injective
<1>5. ExistsBijection(1 .. Len(s), Members(s))
  BY <1>4, Fun_ExistsBij
<1>6. IsFiniteSet(1 .. Len(s)) /\ Cardinality(1 .. Len(s)) = Len(s)
  BY <1>1, FS_Interval
<1> QED
  BY <1>5, <1>6, FS_Bijection DEF Distinct

LEMMA Appended ==
    ASSUME NEW S, NEW s \in Seq(S), NEW e \in S
    PROVE  /\ Members(Append(s, e)) = Members(s) \cup {e}
           /\ Injective(s) /\ e \notin Members(s) => Injective(Append(s, e))
<1>1. /\ Len(s) \in Nat
      /\ Len(Append(s, e)) = Len(s) + 1
      /\ \A k \in 1 .. Len(s) : Append(s, e)[k] = s[k]
      /\ Append(s, e)[Len(s) + 1] = e
  BY AppendProperties, LenProperties
<1>2. \A k \in 1 .. Len(s) + 1 : k \in 1 .. Len(s) \/ k = Len(s) + 1
  BY <1>1
<1>3. /\ Len(s) + 1 \in 1 .. Len(s) + 1
      /\ \A k \in 1 .. Len(s) : k \in 1 .. Len(s) + 1
  BY <1>1
<1>4. Members(Append(s, e)) = Members(s) \cup {e}
  <2>1. ASSUME NEW m \in Members(Append(s, e)) PROVE m \in Members(s) \cup {e}
    BY <1>1, <1>2 DEF Members
  <2>2. ASSUME NEW m \in Members(s) PROVE m \in Members(Append(s, e))
    BY <1>1, <1>3 DEF Members
  <2>3. e \in Members(Append(s, e))
    BY <1>1, <1>3 DEF Members
  <2> QED
    BY <2>1, <2>2, <2>3
<1>5. ASSUME Injective(s), e \notin Members(s) PROVE Injective(Append(s, e))
  BY <1>1, <1>2, <1>5 DEF Injective, Members
<1> QED
  BY <1>4, <1>5

LEMMA TailTaken ==
    ASSUME NEW S, NEW s \in Seq(S), s # <<>>, Injective(s)
    PROVE  /\ Tail(s) \in Seq(S)
           /\ Head(s) \in S
           /\ Head(s) \in Members(s)
           /\ Members(Tail(s)) = Members(s) \ {Head(s)}
           /\ Injective(Tail(s))
<1>1. /\ Len(s) \in Nat
      /\ Len(s) >= 1
      /\ Head(s) \in S
      /\ Tail(s) \in Seq(S)
      /\ Len(Tail(s)) = Len(s) - 1
      /\ \A k \in 1 .. Len(Tail(s)) : Tail(s)[k] = s[k + 1]
      /\ Head(s) = s[1]
  BY HeadTailProperties, EmptySeq, LenProperties
<1>2. /\ 1 \in 1 .. Len(s)
      /\ \A k \in 1 .. Len(Tail(s)) : k + 1 \in 1 .. Len(s) /\ k + 1 # 1
      /\ \A k \in 1 .. Len(s) : k # 1 => k - 1 \in 1 .. Len(Tail(s)) /\ (k - 1) + 1 = k
  BY <1>1
<1>3. Head(s) \in Members(s)
  BY <1>1, <1>2 DEF Members
<1>4. Members(Tail(s)) = Members(s) \ {Head(s)}
  <2>1. ASSUME NEW m \in Members(Tail(s)) PROVE m \in Members(s) \ {Head(s)}
    <3>1. PICK k \in 1 .. Len(Tail(s)) : m = s[k + 1]
      BY <1>1 DEF Members
    <3> QED
      BY <1>1, <1>2, <3>1 DEF Members, Injective
  <2>2. ASSUME NEW m \in Members(s) \ {Head(s)} PROVE m \in Members(Tail(s))
    <3>1. PICK k \in 1 .. Len(s) : m = s[k] /\ k # 1
      BY <1>1 DEF Members
    <3>2. Tail(s)[k - 1] = m
      BY <1>1, <1>2, <3>1
    <3> QED
      BY <1>2, <3>1, <3>2 DEF Members
  <2> QED
    BY <2>1, <2>2
<1>5. Injective(Tail(s))
  <2> SUFFICES ASSUME NEW j \in 1 .. Len(Tail(s)), NEW k \in 1 .. Len(Tail(s)),
                      Tail(s)[j] = Tail(s)[k]
               PROVE  j = k
    BY DEF Injective
  <2>1. j + 1 = k + 1
    BY <1>1, <1>2 DEF Injective
  <2> QED
    BY <2>1
<1> QED
  BY <1>1, <1>3, <1>4, <1>5

LEMMA EmptyQueue == Members(<<>>) = {} /\ Injective(<<>>)
BY DEF Members, Injective

-----------------------------------------------------------------------------
(* The invariant. *)

TurnTypes ==
    /\ busy \in BOOLEAN
    /\ queue \in Seq(Instruction)
    /\ next \in [Instruction -> Instruction \cup {None}]
    /\ pending \subseteq Instruction
    /\ given \in Seq(Instruction)
    /\ running \subseteq Instruction
    /\ dropped \subseteq Instruction

OtherTypes ==
    /\ kind \in Kinds
    /\ received \in 0 .. MaxInstructions
    /\ session \in {"none", "starting", "ready", "failed"}
    /\ known \in BOOLEAN
    /\ proc \in {"none", "alive", "closed", "dead"}
    /\ paused \in BOOLEAN
    /\ overdue \subseteq Instruction
    /\ written \subseteq Instruction
    /\ results \in [Instruction -> Nat]
    /\ refused \subseteq Instruction
    /\ turnId \in BOOLEAN
    /\ stopping \in BOOLEAN
    /\ kind = "cursor" => overdue = {}
    /\ kind # "cursor" => written = {}

Queued  == Members(queue)
Chained == {next[n] : n \in Instruction} \ {None}
Handed  == pending \cup Members(given) \cup refused

Accounted ==
    /\ 1 .. received = Queued \cup Chained \cup Handed \cup dropped
    /\ Queued \cap Chained = {}
    /\ (Queued \cup Chained) \cap Handed = {}
    /\ dropped \cap (Queued \cup Chained \cup Handed) = {}

NoRepetition == Injective(queue) /\ Injective(given)

\* codex: what resume() took from the queue is a chain, whose first link hangs on a
\* request that awaits its answer.
ChainInv ==
    /\ \A m, n \in Instruction : next[m] = next[n] /\ next[m] # None => m = n
    /\ \A n \in Instruction :
          next[n] # None => kind = "codex" /\ known /\ n \in pending \cup Chained

\* acp and cursor: one prompt at a time, and what the agent works on is that one or
\* one whose request timed out.
TurnInv ==
    kind # "codex" =>
        /\ \A m, n \in pending : m = n
        /\ pending # {} => busy
        /\ running \ overdue \subseteq pending
        /\ pending \cap refused = {}

PromptInv ==
    /\ OtherTypes
    /\ TurnTypes
    /\ Accounted
    /\ NoRepetition
    /\ ChainInv
    /\ running \subseteq Members(given)
    /\ TurnInv

LEMMA InitPrompt == Init => PromptInv
<1> SUFFICES ASSUME Init PROVE PromptInv
  OBVIOUS
<1> USE PromptNumbers DEF Init
<1>1. OtherTypes /\ TurnTypes
  <2>1. <<>> \in Seq(Instruction) /\ 0 \in 0 .. MaxInstructions /\ 0 \in Nat
    OBVIOUS
  <2>2. next \in [Instruction -> Instruction \cup {None}] /\ results \in [Instruction -> Nat]
    OBVIOUS
  <2> QED
    BY <2>1, <2>2 DEF OtherTypes, TurnTypes
<1>2. Queued = {} /\ Members(given) = {} /\ NoRepetition
  BY EmptyQueue DEF Queued, NoRepetition
<1>3. Chained = {} /\ \A n \in Instruction : next[n] = None
  BY DEF Chained
<1>4. Handed = {} /\ 1 .. received = {}
  BY <1>2 DEF Handed
<1>5. Accounted /\ ChainInv /\ TurnInv
  BY <1>2, <1>3, <1>4 DEF Accounted, ChainInv, TurnInv
<1> QED
  BY <1>1, <1>2, <1>5 DEF PromptInv

\* A prompt: the instruction is handed over, or dropped for want of a session.
LEMMA Prompting ==
    ASSUME PromptInv, UNCHANGED <<kind, known>>, NEW n \in Instruction, n \notin Members(given),
           NEW rest, NEW waiting \in SUBSET Instruction, NEW working \in SUBSET Members(given),
           \/ Prompt(n, rest, waiting, working)
           \/ kind = "codex" /\ CodexStartTurn(n, rest, waiting, working)
    PROVE  /\ queue' = rest
           /\ busy' \in BOOLEAN
           /\ kind # "codex" /\ pending' # waiting => busy'
           /\ kind = "codex" => busy' = busy
           /\ given' \in Seq(Instruction)
           /\ Injective(given')
           /\ Members(given) \subseteq Members(given')
           /\ Members(given') \subseteq Members(given) \cup {n}
           /\ running' \subseteq Members(given')
           /\ running' \subseteq working \cup {n}
           /\ ~Writable => running' = working
           /\ \/ pending' = waiting \cup {n} /\ dropped' = dropped
              \/ /\ ~known
                 /\ pending' = waiting
                 /\ dropped' = dropped \cup {n}
                 /\ given' = given
                 /\ running' = working
<1> USE PromptNumbers DEF PromptInv, TurnTypes, OtherTypes, NoRepetition
<1>1. /\ Append(given, n) \in Seq(Instruction)
      /\ Members(Append(given, n)) = Members(given) \cup {n}
      /\ Injective(Append(given, n))
  BY Appended, AppendProperties
<1>2. ASSUME Give(n, working)
      PROVE  /\ given' \in Seq(Instruction)
             /\ Injective(given')
             /\ Members(given) \subseteq Members(given')
             /\ Members(given') \subseteq Members(given) \cup {n}
             /\ running' \subseteq Members(given')
             /\ running' \subseteq working \cup {n}
             /\ ~Writable => running' = working
             /\ dropped' = dropped
  BY <1>1, <1>2 DEF Give
<1>3. ASSUME LetGo({n}, working)
      PROVE  /\ given' = given
             /\ running' = working
             /\ dropped' = dropped \cup {n}
  BY <1>3 DEF LetGo
<1>4. CASE kind = "acp" /\ AcpPrompt(n, rest, waiting, working)
  BY <1>2, <1>3, <1>4 DEF AcpPrompt
<1>5. CASE kind = "codex" /\ CodexStartTurn(n, rest, waiting, working)
  BY <1>2, <1>3, <1>5 DEF CodexStartTurn
<1>6. CASE kind = "cursor" /\ CursorRunTurn(n, rest, waiting, working)
  BY <1>2, <1>6 DEF CursorRunTurn
<1> QED
  BY <1>4, <1>5, <1>6 DEF Prompt

TurnParts ==
    /\ TurnTypes
    /\ Accounted
    /\ NoRepetition
    /\ ChainInv
    /\ running \subseteq Members(given)
    /\ TurnInv

LEMMA OnlyCodexChains ==
    ASSUME PromptInv, kind # "codex"
    PROVE  Chained = {} /\ \A n \in Instruction : next[n] = None
BY DEF PromptInv, ChainInv, Chained

\* acp and cursor: the turn that ended was the only one; the next one is new.
LEMMA TurnDoneKeeps ==
    ASSUME PromptInv, kind # "codex", UNCHANGED <<kind, known, received>>,
           NEW working \in SUBSET running, TurnDone({}, working),
           refused \subseteq refused', refused' \subseteq Instruction,
           refused' \subseteq refused \cup pending,
           pending \subseteq Members(given) \cup refused',
           working \subseteq overdue',
           overdue' \subseteq overdue \cup pending
    PROVE  /\ TurnParts'
           /\ pending' \cap Handed = {}
           /\ running' \subseteq working \cup pending'
           /\ ~Writable => running' = working
<1> USE PromptNumbers
<1>0. Chained = {} /\ \A n \in Instruction : next[n] = None
  BY OnlyCodexChains
<1>1. next' = next /\ Chained' = {} /\ ChainInv'
  <2>1. next' = next
    BY DEF TurnDone
  <2> QED
    BY <1>0, <2>1 DEF Chained, ChainInv
<1>2. working \in SUBSET Members(given)
  BY DEF PromptInv
<1>3. CASE ~paused /\ queue # <<>>
  <2> DEFINE n == Head(queue)
             rest == Tail(queue)
  <2>1. Prompt(n, rest, {}, working)
    BY <1>3 DEF TurnDone
  <2>2. /\ rest \in Seq(Instruction)
        /\ n \in Instruction
        /\ n \in Queued
        /\ Members(rest) = Queued \ {n}
        /\ Injective(rest)
    BY <1>3, TailTaken DEF PromptInv, TurnTypes, NoRepetition, Queued
  <2> HIDE DEF n, rest
  <2>3. n \notin Handed /\ n \notin Members(given)
    BY <2>2 DEF PromptInv, Accounted, Handed
  <2>4. /\ queue' = rest
        /\ busy' \in BOOLEAN
        /\ pending' # {} => busy'
        /\ given' \in Seq(Instruction)
        /\ Injective(given')
        /\ Members(given) \subseteq Members(given')
        /\ Members(given') \subseteq Members(given) \cup {n}
        /\ running' \subseteq Members(given')
        /\ running' \subseteq working \cup {n}
        /\ ~Writable => running' = working
        /\ \/ pending' = {n} /\ dropped' = dropped
           \/ /\ pending' = {}
              /\ dropped' = dropped \cup {n}
              /\ given' = given
              /\ running' = working
    <3> DEFINE none == {}
    <3>1. none \in SUBSET Instruction /\ Prompt(n, rest, none, working)
      BY <2>1
    <3>2. none \cup {n} = {n}
      OBVIOUS
    <3> HIDE DEF none
    <3>3. /\ queue' = rest
          /\ busy' \in BOOLEAN
          /\ pending' # none => busy'
          /\ given' \in Seq(Instruction)
          /\ Injective(given')
          /\ Members(given) \subseteq Members(given')
          /\ Members(given') \subseteq Members(given) \cup {n}
          /\ running' \subseteq Members(given')
          /\ running' \subseteq working \cup {n}
          /\ ~Writable => running' = working
          /\ \/ pending' = none \cup {n} /\ dropped' = dropped
             \/ /\ pending' = none
                /\ dropped' = dropped \cup {n}
                /\ given' = given
                /\ running' = working
      BY <1>2, <2>2, <2>3, <3>1, Prompting
    <3> QED
      BY <3>2, <3>3 DEF none
  <2>5. TurnTypes'
    <3>1. dropped' \subseteq Instruction /\ pending' \subseteq Instruction
      BY <2>2, <2>4 DEF PromptInv, TurnTypes
    <3>2. running' \subseteq Instruction
      BY <2>2, <2>4 DEF PromptInv, TurnTypes
    <3> QED
      BY <1>1, <2>2, <2>4, <3>1, <3>2 DEF PromptInv, TurnTypes
  <2>6. NoRepetition' /\ Queued' = Queued \ {n}
    BY <2>2, <2>4 DEF NoRepetition, Queued
  <2>7. Accounted'
    <3>1. \/ Handed' = Handed \cup {n} /\ dropped' = dropped
          \/ Handed' = Handed /\ dropped' = dropped \cup {n}
      <4>1. CASE pending' = {n} /\ dropped' = dropped
        <5>1. Handed' = Handed \cup {n}
          BY <2>4, <4>1 DEF Handed
        <5> QED
          BY <4>1, <5>1
      <4>2. CASE pending' = {} /\ given' = given /\ dropped' = dropped \cup {n}
        <5>1. Handed' = Handed
          BY <4>2 DEF Handed
        <5> QED
          BY <4>2, <5>1
      <4> QED
        BY <2>4, <4>1, <4>2
    <3> QED
      BY <1>0, <1>1, <2>2, <2>3, <2>6, <3>1 DEF PromptInv, Accounted
  <2>8. TurnInv'
    <3>1. pending' \subseteq {n} /\ n \notin refused'
      BY <2>3, <2>4 DEF Handed
    <3> QED
      BY <2>4, <3>1 DEF TurnInv
  <2> QED
    BY <1>1, <2>3, <2>4, <2>5, <2>6, <2>7, <2>8 DEF TurnParts
<1>4. CASE ~(~paused /\ queue # <<>>)
  <2>1. /\ busy' = FALSE
        /\ pending' = {}
        /\ running' = working
        /\ UNCHANGED <<queue, given, dropped>>
    BY <1>4 DEF TurnDone
  <2>2. TurnTypes' /\ NoRepetition' /\ Queued' = Queued
    BY <1>1, <2>1 DEF PromptInv, TurnTypes, NoRepetition, Queued
  <2>3. Accounted'
    <3>1. Handed' = Handed
      BY <2>1 DEF Handed
    <3> QED
      BY <1>0, <1>1, <2>1, <2>2, <3>1 DEF PromptInv, Accounted
  <2>4. TurnInv' /\ running' \subseteq Members(given')
    BY <1>2, <2>1 DEF TurnInv
  <2> QED
    BY <1>1, <2>1, <2>2, <2>3, <2>4 DEF TurnParts
<1> QED
  BY <1>3, <1>4

\* codex: the request for n is settled, and what resume() has next is started.
LEMMA CodexContinueKeeps ==
    ASSUME PromptInv, kind = "codex", UNCHANGED <<kind, known, received>>, NEW n \in pending,
           NEW working \in SUBSET running, CodexContinue(n, pending \ {n}, working),
           refused \subseteq refused', refused' \subseteq Instruction,
           refused' \subseteq refused \cup {n},
           n \in Members(given) \cup refused'
    PROVE  /\ TurnParts'
           /\ running' \cap Handed \subseteq working
           /\ pending' \cap Handed \subseteq pending
<1> USE PromptNumbers
<1>0. n \in Instruction /\ next \in [Instruction -> Instruction \cup {None}]
  BY DEF PromptInv, TurnTypes
<1>1. /\ next'[n] = None
      /\ \A m \in Instruction \ {n} : next'[m] = next[m]
      /\ next' \in [Instruction -> Instruction \cup {None}]
      /\ next' = [next EXCEPT ![n] = None]
  BY <1>0 DEF CodexContinue
<1>2. working \in SUBSET Members(given) /\ pending \ {n} \in SUBSET Instruction
  BY DEF PromptInv, TurnTypes
<1>3. TurnInv'
  BY DEF TurnInv
<1>4. CASE next[n] # None
  <2> DEFINE m == next[n]
  <2>1. CodexStartTurn(m, queue, pending \ {n}, working)
    BY <1>4 DEF CodexContinue
  <2>2. m \in Instruction /\ m \in Chained /\ known
    BY <1>0, <1>4 DEF PromptInv, Chained, ChainInv
  <2>3. m # n
    BY <2>2 DEF PromptInv, Accounted, Handed
  <2>4. m \notin Handed /\ m \notin Members(given) /\ m \notin Queued /\ m \notin dropped
    BY <2>2 DEF PromptInv, Accounted, Handed
  <2>5. Chained' = Chained \ {m}
    <3>1. ASSUME NEW x \in Chained' PROVE x \in Chained \ {m}
      <4>1. PICK k \in Instruction : x = next'[k] /\ x # None
        BY <3>1 DEF Chained
      <4>2. k # n /\ x = next[k]
        BY <1>1, <4>1
      <4>3. x # m
        BY <1>0, <4>1, <4>2 DEF PromptInv, ChainInv
      <4> QED
        BY <4>1, <4>2, <4>3 DEF Chained
    <3>2. ASSUME NEW x \in Chained \ {m} PROVE x \in Chained'
      <4>1. PICK k \in Instruction : x = next[k] /\ x # None
        BY <3>2 DEF Chained
      <4>2. k # n /\ x = next'[k]
        BY <1>1, <4>1
      <4> QED
        BY <4>1, <4>2 DEF Chained
    <3> QED
      BY <3>1, <3>2
  <2> HIDE DEF m
  <2>6. /\ queue' = queue
        /\ busy' \in BOOLEAN
        /\ given' \in Seq(Instruction)
        /\ Injective(given')
        /\ Members(given) \subseteq Members(given')
        /\ Members(given') \subseteq Members(given) \cup {m}
        /\ running' \subseteq Members(given')
        /\ running' \subseteq working \cup {m}
        /\ pending' = (pending \ {n}) \cup {m}
        /\ dropped' = dropped
    BY <1>2, <2>1, <2>2, <2>4, Prompting
  <2>7. TurnTypes'
    <3>1. running' \subseteq Instruction
      BY <2>2, <2>6 DEF PromptInv, TurnTypes
    <3> QED
      BY <1>1, <2>2, <2>6, <3>1 DEF PromptInv, TurnTypes
  <2>8. NoRepetition' /\ Queued' = Queued
    BY <2>6 DEF PromptInv, NoRepetition, Queued
  <2>9. Accounted'
    <3>1. Handed' = Handed \cup {m}
      BY <2>6 DEF Handed
    <3> QED
      BY <2>2, <2>4, <2>5, <2>6, <2>8, <3>1 DEF PromptInv, Accounted
  <2>10. ChainInv'
    <3>1. ASSUME NEW k \in Instruction, next'[k] # None
          PROVE  k \in pending' \cup Chained'
      <4>1. k # n /\ next[k] # None
        BY <1>1, <3>1
      <4>2. k \in pending \cup Chained
        BY <4>1 DEF PromptInv, ChainInv
      <4> QED
        BY <2>5, <2>6, <4>1, <4>2
    <3>2. ASSUME NEW j \in Instruction, NEW k \in Instruction, next'[j] = next'[k],
                 next'[j] # None
          PROVE  j = k
      BY <1>1, <3>2 DEF PromptInv, ChainInv
    <3> QED
      BY <2>2, <3>1, <3>2 DEF ChainInv
  <2> QED
    BY <1>3, <2>4, <2>6, <2>7, <2>8, <2>9, <2>10 DEF TurnParts
<1>5. CASE next[n] = None
  <2>1. /\ pending' = pending \ {n}
        /\ running' = working
        /\ UNCHANGED <<busy, queue, given, dropped>>
    BY <1>5 DEF CodexContinue
  <2>2. next' = next /\ Chained' = Chained
    BY <1>0, <1>1, <1>5 DEF Chained
  <2>3. TurnTypes' /\ NoRepetition' /\ Queued' = Queued
    BY <2>1, <2>2 DEF PromptInv, TurnTypes, NoRepetition, Queued
  <2>4. Accounted'
    <3>1. Handed' = Handed
      BY <2>1 DEF Handed
    <3> QED
      BY <2>1, <2>2, <2>3, <3>1 DEF PromptInv, Accounted
  <2>5. ChainInv'
    BY <1>5, <2>1, <2>2 DEF PromptInv, ChainInv
  <2> QED
    BY <1>2, <1>3, <2>1, <2>3, <2>4, <2>5 DEF TurnParts
<1> QED
  BY <1>4, <1>5

\* A request is settled after its answer, an error, its timeout or an exit.
LEMMA SettleKeeps ==
    ASSUME PromptInv, UNCHANGED <<kind, known, received>>, NEW n \in pending,
           NEW working \in SUBSET running, Settle(n, working),
           refused \subseteq refused', refused' \subseteq Instruction,
           refused' \subseteq refused \cup {n},
           n \in Members(given) \cup refused',
           kind # "codex" => /\ overdue \subseteq overdue'
                             /\ overdue' \subseteq overdue \cup {n}
                             /\ n \in working => n \in overdue'
    PROVE  /\ TurnParts'
           /\ running' \cap Handed \subseteq working
           /\ pending' \cap Handed \subseteq pending
<1>1. CASE kind = "codex"
  BY <1>1, CodexContinueKeeps DEF Settle
<1>2. CASE kind # "codex"
  <2>1. pending = {n}
    BY <1>2 DEF PromptInv, TurnInv
  <2>2. working \subseteq overdue' /\ overdue' \subseteq overdue \cup pending
    BY <1>2, <2>1 DEF PromptInv, TurnInv
  <2>3. TurnDone({}, working)
    BY <1>2, <2>1 DEF Settle
  <2> QED
    BY <1>2, <2>1, <2>2, <2>3, TurnDoneKeeps
<1> QED
  BY <1>1, <1>2

-----------------------------------------------------------------------------
(* The steps. *)

LEMMA NextOther == PromptInv /\ [Next]_vars => OtherTypes'
<1> SUFFICES ASSUME PromptInv, [Next]_vars PROVE OtherTypes'
  OBVIOUS
<1> USE PromptNumbers DEF OtherTypes
<1>0. OtherTypes
  BY DEF PromptInv
<1>1. CASE ReceiveInstruction
  BY <1>0, <1>1 DEF ReceiveInstruction, reports
<1>2. CASE Pause
  BY <1>0, <1>2 DEF Pause, reports
<1>3. CASE Resume
  BY <1>0, <1>3 DEF Resume, reports
<1>4. CASE Disconnect \/ Interrupted
  BY <1>0, <1>4 DEF Disconnect, Interrupted, reports
<1>5. CASE CreateSession \/ SessionAnswered \/ SessionFails
  BY <1>0, <1>5 DEF CreateSession, SessionAnswered, SessionFails, reports
<1>6. CASE Exit
  <2>1. pending \subseteq Instruction
    BY DEF PromptInv, TurnTypes
  <2> QED
    BY <1>0, <1>6, <2>1 DEF Exit
<1>7. ASSUME NEW n \in Instruction,
             \/ Answer(n) \/ Refuse(n) \/ TimeOut(n) \/ LateAnswer(n) \/ TurnCompleted(n)
             \/ WriteResult(n) \/ ReadResult(n) \/ TurnExit(n) \/ SpawnError(n)
      PROVE  OtherTypes'
  <2>1. ASSUME results' = [results EXCEPT ![n] = @ + 1] PROVE results' \in [Instruction -> Nat]
    BY <1>0, <2>1
  <2>2. CASE Answer(n)
    <3>1. results' \in [Instruction -> Nat]
      BY <1>0, <2>1, <2>2 DEF Answer
    <3> QED
      BY <1>0, <2>2, <3>1 DEF Answer
  <2>3. CASE Refuse(n)
    BY <1>0, <2>3 DEF Refuse
  <2>4. CASE TimeOut(n)
    BY <1>0, <2>4 DEF TimeOut
  <2>5. CASE LateAnswer(n)
    BY <1>0, <2>5 DEF LateAnswer
  <2>6. CASE TurnCompleted(n)
    <3>1. results' \in [Instruction -> Nat]
      BY <2>1, <2>6 DEF TurnCompleted
    <3> QED
      BY <1>0, <2>6, <3>1 DEF TurnCompleted
  <2>7. CASE WriteResult(n)
    BY <1>0, <2>7 DEF WriteResult
  <2>8. CASE ReadResult(n)
    <3>1. results' \in [Instruction -> Nat]
      BY <2>1, <2>8 DEF ReadResult
    <3> QED
      BY <1>0, <2>8, <3>1 DEF ReadResult
  <2>9. CASE TurnExit(n)
    <3>1. results' \in [Instruction -> Nat]
      BY <1>0, <2>9 DEF TurnExit
    <3>2. refused' \subseteq Instruction
      BY <1>0, <2>9 DEF TurnExit
    <3> QED
      BY <1>0, <2>9, <3>1, <3>2 DEF TurnExit
  <2>10. CASE SpawnError(n)
    BY <1>0, <2>10 DEF SpawnError
  <2> QED
    BY <1>7, <2>2, <2>3, <2>4, <2>5, <2>6, <2>7, <2>8, <2>9, <2>10
<1>8. CASE UNCHANGED vars
  BY <1>0, <1>8 DEF vars, reports
<1> QED
  BY <1>1, <1>2, <1>3, <1>4, <1>5, <1>6, <1>7, <1>8 DEF Next

\* What was handed over once is not handed over again.
NothingAgain ==
    /\ running' \cap Handed \subseteq running
    /\ pending' \cap Handed \subseteq pending

\* Steps that start nothing: what the agent works on may become less.
LEMMA TurnKept ==
    ASSUME PromptInv,
           UNCHANGED <<kind, received, busy, queue, next, pending, given, dropped, refused>>,
           known => known', running' \subseteq running,
           kind # "codex" => running' \ overdue' \subseteq running \ overdue
    PROVE  TurnParts'
<1>1. Queued' = Queued /\ Chained' = Chained /\ Handed' = Handed
  BY DEF Queued, Chained, Handed
<1>2. TurnTypes' /\ NoRepetition' /\ Accounted'
  BY <1>1 DEF PromptInv, TurnTypes, NoRepetition, Accounted
<1>3. ChainInv'
  BY <1>1 DEF PromptInv, ChainInv
<1>4. TurnInv' /\ running' \subseteq Members(given')
  BY DEF PromptInv, TurnInv
<1> QED
  BY <1>2, <1>3, <1>4 DEF TurnParts

\* New or taken from the queue: n starts while nothing else is under way, but for
\* codex, which does not wait.
LEMMA Starting ==
    ASSUME PromptInv, UNCHANGED <<kind, known, next, refused, overdue>>, NEW n \in Instruction,
           NEW rest \in Seq(Instruction), Prompt(n, rest, pending, running),
           kind # "codex" => ~busy,
           Injective(rest), n \notin Members(rest), n \notin Handed, n \notin Chained,
           n \notin dropped, Members(rest) \subseteq Queued,
           1 .. received' = (1 .. received) \cup {n}, Queued \subseteq Members(rest) \cup {n}
    PROVE  TurnParts' /\ pending' \subseteq pending \cup {n} /\ running' \subseteq running \cup {n}
<1> USE PromptNumbers
<1>1. /\ queue' = rest
      /\ busy' \in BOOLEAN
      /\ kind # "codex" /\ pending' # pending => busy'
      /\ given' \in Seq(Instruction)
      /\ Injective(given')
      /\ Members(given) \subseteq Members(given')
      /\ Members(given') \subseteq Members(given) \cup {n}
      /\ running' \subseteq Members(given')
      /\ running' \subseteq running \cup {n}
      /\ \/ pending' = pending \cup {n} /\ dropped' = dropped
         \/ /\ pending' = pending
            /\ dropped' = dropped \cup {n}
            /\ given' = given
            /\ running' = running
  <2>1. pending \in SUBSET Instruction /\ running \in SUBSET Members(given)
        /\ n \notin Members(given)
    BY DEF PromptInv, TurnTypes, Handed
  <2> QED
    BY <2>1, Prompting
<1>2. TurnTypes'
  <2>1. pending' \subseteq Instruction /\ dropped' \subseteq Instruction /\ running' \subseteq Instruction
    BY <1>1 DEF PromptInv, TurnTypes
  <2> QED
    BY <1>1, <2>1 DEF PromptInv, TurnTypes
<1>3. NoRepetition' /\ Queued' = Members(rest) /\ Chained' = Chained
  BY <1>1 DEF NoRepetition, Queued, Chained
<1>4. Accounted'
  <2>1. CASE pending' = pending \cup {n} /\ dropped' = dropped
    <3>1. Handed' = Handed \cup {n}
      BY <1>1, <2>1 DEF Handed
    <3> QED
      BY <1>3, <2>1, <3>1 DEF PromptInv, Accounted
  <2>2. CASE pending' = pending /\ dropped' = dropped \cup {n} /\ given' = given
    <3>1. Handed' = Handed
      BY <2>2 DEF Handed
    <3> QED
      BY <1>3, <2>2, <3>1 DEF PromptInv, Accounted
  <2> QED
    BY <1>1, <2>1, <2>2
<1>5. ChainInv'
  BY <1>1, <1>3 DEF PromptInv, ChainInv
<1>6. TurnInv'
  <2> SUFFICES ASSUME kind # "codex" PROVE TurnInv'
    BY DEF TurnInv
  <2>1. pending = {} /\ n \notin refused
    BY DEF PromptInv, TurnInv, Handed
  <2> QED
    BY <1>1, <2>1 DEF PromptInv, TurnInv
<1> QED
  BY <1>1, <1>2, <1>3, <1>4, <1>5, <1>6 DEF TurnParts

LEMMA ReceiveKeeps == PromptInv /\ ReceiveInstruction => TurnParts' /\ NothingAgain
<1> SUFFICES ASSUME PromptInv, ReceiveInstruction PROVE TurnParts' /\ NothingAgain
  OBVIOUS
<1> USE PromptNumbers
<1>1. /\ received' = received + 1
      /\ received' \in Instruction
      /\ 1 .. received' = (1 .. received) \cup {received'}
      /\ received' \notin 1 .. received
      /\ UNCHANGED <<kind, known, next, refused, overdue>>
  BY DEF ReceiveInstruction, PromptInv, OtherTypes, reports
<1>2. received' \notin Queued \cup Chained \cup Handed \cup dropped
  BY <1>1 DEF PromptInv, Accounted
<1>3. CASE paused \/ busy
  <2>1. /\ queue' = Append(queue, received')
        /\ UNCHANGED <<busy, pending, given, running, dropped>>
    BY <1>3 DEF ReceiveInstruction
  <2>2. /\ queue' \in Seq(Instruction)
        /\ Queued' = Queued \cup {received'}
        /\ Injective(queue')
    BY <1>1, <1>2, <2>1, Appended, AppendProperties
    DEF PromptInv, TurnTypes, NoRepetition, Queued
  <2>3. Chained' = Chained /\ Handed' = Handed
    BY <1>1, <2>1 DEF Chained, Handed
  <2>4. TurnTypes' /\ NoRepetition'
    BY <1>1, <2>1, <2>2 DEF PromptInv, TurnTypes, NoRepetition
  <2>5. Accounted'
    BY <1>1, <1>2, <2>1, <2>2, <2>3 DEF PromptInv, Accounted
  <2>6. ChainInv' /\ TurnInv' /\ running' \subseteq Members(given')
    BY <1>1, <2>1, <2>3 DEF PromptInv, ChainInv, TurnInv
  <2> QED
    BY <2>1, <2>4, <2>5, <2>6 DEF TurnParts, NothingAgain
<1>4. CASE ~(paused \/ busy)
  <2>1. Prompt(received', queue, pending, running)
    BY <1>4 DEF ReceiveInstruction
  <2>2. queue \in Seq(Instruction) /\ Injective(queue)
    BY DEF PromptInv, TurnTypes, NoRepetition
  <2> DEFINE n == received'
  <2>3. Prompt(n, queue, pending, running) /\ n \in Instruction
    BY <1>1, <2>1
  <2>4. /\ n \notin Members(queue) /\ n \notin Handed /\ n \notin Chained /\ n \notin dropped
        /\ Members(queue) = Queued
        /\ 1 .. received' = (1 .. received) \cup {n}
    BY <1>1, <1>2 DEF Queued
  <2> HIDE DEF n
  <2> QED
    BY <1>1, <1>4, <2>2, <2>3, <2>4, Starting DEF NothingAgain
<1> QED
  BY <1>3, <1>4

\* codex, resume(): the queue becomes a chain behind its first instruction.
LEMMA ResumeQueueKeeps ==
    ASSUME PromptInv, kind = "codex", UNCHANGED <<kind, known, received, refused>>,
           queue # <<>>, CodexResumeQueue
    PROVE  TurnParts' /\ pending' \cap Handed \subseteq pending /\ running' \cap Handed \subseteq running
<1> USE PromptNumbers
<1>1. /\ Len(queue) \in Nat
      /\ Len(queue) >= 1
      /\ Head(queue) = queue[1]
      /\ \A k \in 1 .. Len(queue) : queue[k] \in Instruction
      /\ \A k \in 1 .. Len(queue) : queue[k] \in Queued
      /\ \A j, k \in 1 .. Len(queue) : queue[j] = queue[k] => j = k
      /\ 1 \in 1 .. Len(queue)
  BY EmptySeq, LenProperties, ElementOfSeq
  DEF PromptInv, TurnTypes, NoRepetition, Injective, Queued, Members
<1>2. TurnInv'
  BY DEF TurnInv
<1>3. next \in [Instruction -> Instruction \cup {None}]
  BY DEF PromptInv, TurnTypes
<1>4. CASE known
  <2> DEFINE n == Head(queue)
  <2>1. next' = [m \in Instruction |->
                   IF \E k \in 1 .. Len(queue) - 1 : queue[k] = m
                   THEN queue[CHOOSE k \in 2 .. Len(queue) : queue[k - 1] = m] ELSE next[m]]
    BY <1>4 DEF CodexResumeQueue
  <2>2. CodexStartTurn(n, <<>>, pending, running)
    BY <1>4 DEF CodexResumeQueue
  <2>3. \A k \in 1 .. Len(queue) - 1 : next'[queue[k]] = queue[k + 1]
    <3> SUFFICES ASSUME NEW k \in 1 .. Len(queue) - 1 PROVE next'[queue[k]] = queue[k + 1]
      OBVIOUS
    <3> DEFINE P(j) == j \in 2 .. Len(queue) /\ queue[j - 1] = queue[k]
    <3>1. k + 1 \in 2 .. Len(queue) /\ queue[(k + 1) - 1] = queue[k] /\ queue[k] \in Instruction
      BY <1>1
    <3>2. \A j \in 2 .. Len(queue) : queue[j - 1] = queue[k] => j = k + 1
      <4> SUFFICES ASSUME NEW j \in 2 .. Len(queue), queue[j - 1] = queue[k] PROVE j = k + 1
        OBVIOUS
      <4>1. j - 1 \in 1 .. Len(queue) /\ k \in 1 .. Len(queue)
        BY <1>1
      <4>2. j - 1 = k
        BY <1>1, <4>1
      <4> QED
        BY <4>1, <4>2
    <3>3. (CHOOSE j \in 2 .. Len(queue) : queue[j - 1] = queue[k]) = k + 1
      BY <3>1, <3>2
    <3> QED
      BY <2>1, <3>1, <3>3
  <2>4. \A m \in Instruction :
           \/ \E k \in 1 .. Len(queue) - 1 : m = queue[k] /\ next'[m] = queue[k + 1]
           \/ next'[m] = next[m]
    <3> SUFFICES ASSUME NEW m \in Instruction,
                        ~ \E k \in 1 .. Len(queue) - 1 : m = queue[k] /\ next'[m] = queue[k + 1]
                 PROVE  next'[m] = next[m]
      OBVIOUS
    <3>1. ~ \E k \in 1 .. Len(queue) - 1 : queue[k] = m
      BY <2>3
    <3> QED
      BY <2>1, <3>1
  <2>5. \A m \in Queued : next[m] = None
    <3> SUFFICES ASSUME NEW m \in Queued, next[m] # None PROVE FALSE
      OBVIOUS
    <3>1. m \in Instruction
      BY <1>1 DEF Queued, Members
    <3>2. m \in pending \cup Chained
      BY <3>1 DEF PromptInv, ChainInv
    <3> QED
      BY <3>2 DEF PromptInv, Accounted, Handed
  <2>6. \A m \in Instruction : next[m] # None => next'[m] = next[m]
    <3> SUFFICES ASSUME NEW m \in Instruction, next[m] # None PROVE next'[m] = next[m]
      OBVIOUS
    <3>1. m \notin Queued
      BY <2>5
    <3>2. \A k \in 1 .. Len(queue) - 1 : m # queue[k]
      BY <1>1, <3>1
    <3> QED
      BY <2>4, <3>2
  <2>7. Chained' = Chained \cup (Queued \ {n})
    <3>1. ASSUME NEW x \in Chained' PROVE x \in Chained \cup (Queued \ {n})
      <4>1. PICK m \in Instruction : x = next'[m] /\ x # None
        BY <3>1 DEF Chained
      <4>2. CASE \E k \in 1 .. Len(queue) - 1 : m = queue[k] /\ next'[m] = queue[k + 1]
        <5>1. PICK k \in 1 .. Len(queue) - 1 : x = queue[k + 1]
          BY <4>1, <4>2
        <5>2. k + 1 \in 1 .. Len(queue) /\ k + 1 # 1
          BY <1>1
        <5> QED
          BY <1>1, <5>1, <5>2
      <4>3. CASE next'[m] = next[m]
        BY <4>1, <4>3 DEF Chained
      <4> QED
        BY <2>4, <4>2, <4>3
    <3>2. ASSUME NEW x \in Chained PROVE x \in Chained'
      <4>1. PICK m \in Instruction : x = next[m] /\ x # None
        BY <3>2 DEF Chained
      <4> QED
        BY <2>6, <4>1 DEF Chained
    <3>3. ASSUME NEW x \in Queued \ {n} PROVE x \in Chained'
      <4>1. PICK k \in 1 .. Len(queue) : x = queue[k] /\ k # 1
        BY <1>1, <3>3 DEF Queued, Members
      <4>2. k - 1 \in 1 .. Len(queue) - 1 /\ (k - 1) + 1 = k /\ k - 1 \in 1 .. Len(queue)
        BY <1>1, <4>1
      <4>3. next'[queue[k - 1]] = x
        BY <2>3, <4>1, <4>2
      <4>4. x \in Instruction /\ queue[k - 1] \in Instruction
        BY <1>1, <4>1, <4>2
      <4> QED
        BY <4>3, <4>4 DEF Chained
    <3> QED
      BY <3>1, <3>2, <3>3
  <2>8. n \in Instruction /\ n \in Queued /\ n \notin Handed /\ n \notin dropped /\ n \notin Chained
        /\ n \notin Members(given)
    BY <1>1 DEF PromptInv, Accounted, Handed
  <2> HIDE DEF n
  <2>9. /\ queue' = <<>>
        /\ busy' \in BOOLEAN
        /\ given' \in Seq(Instruction)
        /\ Injective(given')
        /\ Members(given) \subseteq Members(given')
        /\ Members(given') \subseteq Members(given) \cup {n}
        /\ running' \subseteq Members(given')
        /\ running' \subseteq running \cup {n}
        /\ pending' = pending \cup {n}
        /\ dropped' = dropped
    <3> DEFINE rest == <<>>
    <3>1. pending \in SUBSET Instruction /\ running \in SUBSET Members(given)
      BY DEF PromptInv, TurnTypes
    <3>2. CodexStartTurn(n, rest, pending, running)
      BY <2>2
    <3> HIDE DEF rest
    <3>3. /\ queue' = rest
          /\ busy' \in BOOLEAN
          /\ given' \in Seq(Instruction)
          /\ Injective(given')
          /\ Members(given) \subseteq Members(given')
          /\ Members(given') \subseteq Members(given) \cup {n}
          /\ running' \subseteq Members(given')
          /\ running' \subseteq running \cup {n}
          /\ pending' = pending \cup {n}
          /\ dropped' = dropped
      BY <1>4, <2>8, <3>1, <3>2, Prompting
    <3> QED
      BY <3>3 DEF rest
  <2>10. Queued' = {} /\ NoRepetition'
    BY <2>9, EmptyQueue DEF Queued, NoRepetition
  <2>11. TurnTypes'
    <3>1. next' \in [Instruction -> Instruction \cup {None}]
      <4>1. \A m \in Instruction : next'[m] \in Instruction \cup {None}
        <5> SUFFICES ASSUME NEW m \in Instruction PROVE next'[m] \in Instruction \cup {None}
          OBVIOUS
        <5>1. CASE next'[m] = next[m]
          BY <1>3, <5>1
        <5>2. CASE \E k \in 1 .. Len(queue) - 1 : m = queue[k] /\ next'[m] = queue[k + 1]
          <6>1. PICK k \in 1 .. Len(queue) - 1 : next'[m] = queue[k + 1]
            BY <5>2
          <6>2. k + 1 \in 1 .. Len(queue)
            BY <1>1
          <6> QED
            BY <1>1, <6>1, <6>2
        <5> QED
          BY <2>4, <5>1, <5>2
      <4> QED
        BY <2>1, <4>1
    <3>2. running' \subseteq Instruction /\ pending' \subseteq Instruction
          /\ dropped' \subseteq Instruction
      BY <2>8, <2>9 DEF PromptInv, TurnTypes
    <3> QED
      BY <2>9, <3>1, <3>2 DEF TurnTypes
  <2>12. Accounted'
    <3>1. Handed' = Handed \cup {n}
      BY <2>9 DEF Handed
    <3> QED
      BY <2>7, <2>8, <2>9, <2>10, <3>1 DEF PromptInv, Accounted
  <2>13. ChainInv'
    <3>1. ASSUME NEW m \in Instruction, next'[m] # None
          PROVE  m \in pending' \cup Chained'
      <4>1. CASE next'[m] = next[m]
        BY <2>7, <2>9, <3>1, <4>1 DEF PromptInv, ChainInv
      <4>2. CASE \E k \in 1 .. Len(queue) - 1 : m = queue[k]
        <5>1. m \in Queued
          BY <1>1, <4>2
        <5> QED
          BY <2>7, <2>9, <5>1
      <4> QED
        BY <2>4, <4>1, <4>2
    <3>2. ASSUME NEW l \in Instruction, NEW m \in Instruction, next'[l] = next'[m],
                 next'[l] # None
          PROVE  l = m
      <4> DEFINE New(x) == \E k \in 1 .. Len(queue) - 1 : x = queue[k] /\ next'[x] = queue[k + 1]
                 Old(x) == next'[x] = next[x]
      <4>1. CASE Old(l) /\ Old(m)
        BY <3>2, <4>1 DEF PromptInv, ChainInv
      <4>2. CASE New(l) /\ New(m)
        <5>1. PICK j \in 1 .. Len(queue) - 1 : l = queue[j] /\ next'[l] = queue[j + 1]
          BY <4>2
        <5>2. PICK k \in 1 .. Len(queue) - 1 : m = queue[k] /\ next'[m] = queue[k + 1]
          BY <4>2
        <5>3. j + 1 \in 1 .. Len(queue) /\ k + 1 \in 1 .. Len(queue)
          BY <1>1
        <5>4. j + 1 = k + 1
          BY <1>1, <3>2, <5>1, <5>2, <5>3
        <5> QED
          BY <5>1, <5>2, <5>4
      <4>3. ASSUME NEW x \in Instruction, NEW y \in Instruction, New(x), Old(y),
                   next'[x] = next'[y], next'[x] # None
            PROVE  FALSE
        <5>1. PICK k \in 1 .. Len(queue) - 1 : next'[x] = queue[k + 1]
          BY <4>3
        <5>2. k + 1 \in 1 .. Len(queue)
          BY <1>1
        <5>3. next'[x] \in Queued
          BY <1>1, <5>1, <5>2
        <5>4. next'[x] \in Chained
          BY <4>3 DEF Chained
        <5> QED
          BY <5>3, <5>4 DEF PromptInv, Accounted
      <4>4. (New(l) \/ Old(l)) /\ (New(m) \/ Old(m))
        BY <2>4
      <4> HIDE DEF New, Old
      <4> QED
        BY <3>2, <4>1, <4>2, <4>3, <4>4
    <3> QED
      BY <1>4, <3>1, <3>2 DEF ChainInv
  <2> QED
    BY <1>2, <2>8, <2>9, <2>10, <2>11, <2>12, <2>13 DEF TurnParts
<1>5. CASE ~known
  <2>1. /\ queue' = <<>>
        /\ dropped' = dropped \cup Queued
        /\ running' = running
        /\ UNCHANGED <<given, busy, next, pending>>
    BY <1>5 DEF CodexResumeQueue, LetGo, Queued, Members
  <2>2. Chained' = Chained /\ Handed' = Handed /\ Queued' = {} /\ NoRepetition'
    BY <2>1, EmptyQueue DEF Chained, Handed, Queued, NoRepetition, PromptInv
  <2>3. TurnTypes'
    <3>1. Queued \subseteq Instruction
      BY <1>1 DEF Queued, Members
    <3>2. queue' \in Seq(Instruction)
      BY <2>1
    <3> QED
      BY <2>1, <3>1, <3>2 DEF PromptInv, TurnTypes
  <2>4. Accounted'
    BY <2>1, <2>2 DEF PromptInv, Accounted
  <2>5. ChainInv' /\ running' \subseteq Members(given')
    BY <2>1, <2>2 DEF PromptInv, ChainInv
  <2> QED
    BY <1>2, <2>1, <2>2, <2>3, <2>4, <2>5 DEF TurnParts
<1> QED
  BY <1>4, <1>5 DEF PromptInv, OtherTypes

LEMMA ResumeKeeps == PromptInv /\ Resume => TurnParts' /\ NothingAgain
<1> SUFFICES ASSUME PromptInv, Resume PROVE TurnParts' /\ NothingAgain
  OBVIOUS
<1>1. UNCHANGED <<kind, received, known, refused, overdue>>
  BY DEF Resume, reports
<1>2. CASE queue = <<>> \/ busy
  <2>1. UNCHANGED turn
    BY <1>2 DEF Resume
  <2> QED
    BY <1>1, <2>1, TurnKept DEF turn, NothingAgain
<1>3. CASE ~(queue = <<>> \/ busy) /\ kind = "codex"
  BY <1>1, <1>3, ResumeQueueKeeps DEF Resume, NothingAgain
<1>4. CASE ~(queue = <<>> \/ busy) /\ kind # "codex"
  <2> DEFINE n == Head(queue)
             rest == Tail(queue)
  <2>1. Prompt(n, rest, pending, running) /\ UNCHANGED next
    BY <1>4 DEF Resume
  <2>2. /\ rest \in Seq(Instruction)
        /\ n \in Instruction
        /\ n \in Queued
        /\ Members(rest) = Queued \ {n}
        /\ Injective(rest)
    BY <1>4, TailTaken DEF PromptInv, TurnTypes, NoRepetition, Queued
  <2> HIDE DEF n, rest
  <2>3. /\ n \notin Handed /\ n \notin Chained /\ n \notin dropped
        /\ 1 .. received' = (1 .. received) \cup {n}
    BY <1>1, <2>2 DEF PromptInv, Accounted
  <2> QED
    BY <1>1, <1>4, <2>1, <2>2, <2>3, Starting DEF NothingAgain
<1> QED
  BY <1>2, <1>3, <1>4

\* The 'exit' handler of codex: the requests are rejected, and the loop of resume()
\* goes on to the next, which no process is there to read.
LEMMA CodexExitKeeps ==
    ASSUME PromptInv, Exit, kind = "codex"
    PROVE  TurnParts' /\ NothingAgain
<1> USE PromptNumbers
<1>1. /\ pending' = {next[n] : n \in pending} \ {None}
      /\ next' = [n \in Instruction |-> IF n \in pending THEN None ELSE next[n]]
      /\ running' = {}
      /\ refused' = refused \cup pending
      /\ UNCHANGED <<kind, received, known, busy, queue, given, dropped>>
  BY DEF Exit
<1>2. pending \subseteq Instruction /\ next \in [Instruction -> Instruction \cup {None}]
  BY DEF PromptInv, TurnTypes
<1>3. pending' \subseteq Chained
  BY <1>1, <1>2 DEF Chained
<1>4. \A n \in Instruction : next'[n] # None => n \notin pending /\ next'[n] = next[n]
  BY <1>1
<1>5. Chained' = Chained \ pending'
  <2>1. ASSUME NEW x \in Chained' PROVE x \in Chained \ pending'
    <3>1. PICK m \in Instruction : x = next'[m] /\ x # None
      BY <2>1 DEF Chained
    <3>2. m \notin pending /\ x = next[m]
      BY <1>4, <3>1
    <3>3. x \notin pending'
      BY <1>1, <1>2, <3>1, <3>2 DEF PromptInv, ChainInv
    <3> QED
      BY <3>1, <3>2, <3>3 DEF Chained
  <2>2. ASSUME NEW x \in Chained \ pending' PROVE x \in Chained'
    <3>1. PICK m \in Instruction : x = next[m] /\ x # None
      BY <2>2 DEF Chained
    <3>2. m \notin pending
      BY <1>1, <2>2, <3>1
    <3>3. next'[m] = x
      BY <1>1, <3>1, <3>2
    <3> QED
      BY <3>1, <3>3 DEF Chained
  <2> QED
    BY <2>1, <2>2
<1>6. Handed' = Handed \cup pending' /\ Queued' = Queued
  BY <1>1 DEF Handed, Queued
<1>7. TurnTypes'
  <2>1. \A n \in Instruction : next'[n] \in Instruction \cup {None}
    BY <1>1, <1>2
  <2>2. next' \in [Instruction -> Instruction \cup {None}]
    BY <1>1, <2>1
  <2>3. pending' \subseteq Instruction
    BY <1>1, <1>2
  <2> QED
    BY <1>1, <2>2, <2>3 DEF PromptInv, TurnTypes
<1>8. Accounted'
  BY <1>1, <1>3, <1>5, <1>6 DEF PromptInv, Accounted
<1>9. ChainInv'
  <2>1. ASSUME NEW m \in Instruction, next'[m] # None PROVE m \in pending' \cup Chained'
    <3>1. m \notin pending /\ next[m] # None
      BY <1>4, <2>1
    <3>2. m \in Chained
      BY <3>1 DEF PromptInv, ChainInv
    <3> QED
      BY <1>5, <3>2
  <2>2. ASSUME NEW m \in Instruction, NEW n \in Instruction, next'[m] = next'[n],
               next'[m] # None
        PROVE  m = n
    BY <1>4, <2>2 DEF PromptInv, ChainInv
  <2>3. \A n \in Instruction : next'[n] # None => kind' = "codex" /\ known'
    BY <1>1, <1>4 DEF PromptInv, ChainInv
  <2> QED
    BY <2>1, <2>2, <2>3 DEF ChainInv
<1>10. NoRepetition' /\ TurnInv' /\ running' \subseteq Members(given')
  BY <1>1 DEF PromptInv, NoRepetition, TurnInv
<1>11. NothingAgain
  BY <1>1, <1>3 DEF PromptInv, Accounted, NothingAgain
<1> QED
  BY <1>1, <1>7, <1>8, <1>9, <1>10, <1>11 DEF TurnParts

LEMMA ExitKeeps == PromptInv /\ Exit => TurnParts' /\ NothingAgain
<1> SUFFICES ASSUME PromptInv, Exit PROVE TurnParts' /\ NothingAgain
  OBVIOUS
<1>1. /\ proc' = "dead"
      /\ refused' = refused \cup pending
      /\ overdue' = {}
      /\ UNCHANGED <<kind, received, known>>
      /\ refused' \subseteq Instruction
  BY DEF Exit, PromptInv, OtherTypes, TurnTypes
<1>2. CASE kind = "codex"
  BY <1>2, CodexExitKeeps
<1>3. CASE kind = "acp" /\ pending # {} /\ TurnDone({}, {})
  <2> DEFINE none == {}
  <2>1. none \in SUBSET running /\ TurnDone({}, none) /\ none \subseteq overdue' /\ ~Writable
    BY <1>1, <1>3 DEF Writable
  <2> HIDE DEF none
  <2>2. /\ TurnParts'
        /\ pending' \cap Handed = {}
        /\ running' = none
    BY <1>1, <1>3, <2>1, TurnDoneKeeps
  <2> QED
    BY <2>2 DEF none, NothingAgain
<1>4. CASE kind = "acp" /\ pending = {} /\ running' = {}
           /\ UNCHANGED <<busy, queue, next, pending, given, dropped>>
  BY <1>1, <1>4, TurnKept DEF NothingAgain
<1> QED
  BY <1>2, <1>3, <1>4 DEF Exit

LEMMA NextTurn == PromptInv /\ [Next]_vars => TurnParts' /\ NothingAgain
<1> SUFFICES ASSUME PromptInv, [Next]_vars PROVE TurnParts' /\ NothingAgain
  OBVIOUS
<1> USE PromptNumbers
<1>0. running \subseteq Members(given) /\ refused \subseteq Instruction
      /\ (kind = "cursor" => overdue = {})
  BY DEF PromptInv, OtherTypes
<1>1. CASE ReceiveInstruction
  BY <1>1, ReceiveKeeps
<1>2. CASE Resume
  BY <1>2, ResumeKeeps
<1>3. CASE Exit
  BY <1>3, ExitKeeps
<1>4. CASE Pause \/ Disconnect \/ Interrupted
  BY <1>4, TurnKept DEF Pause, Disconnect, Interrupted, turn, reports, NothingAgain
<1>5. CASE CreateSession \/ SessionAnswered \/ SessionFails
  BY <1>5, TurnKept
  DEF CreateSession, SessionAnswered, SessionFails, turn, reports, NothingAgain
<1>6. ASSUME NEW n \in Instruction, Answer(n) PROVE TurnParts' /\ NothingAgain
  <2> DEFINE working == IF kind = "acp" THEN running \ {n} ELSE running
  <2>1. /\ n \in pending /\ n \in Members(given)
        /\ working \in SUBSET running
        /\ Settle(n, working)
        /\ kind \in {"acp", "codex"}
        /\ UNCHANGED <<kind, known, received, refused, overdue>>
    BY <1>0, <1>6 DEF Answer
  <2>2. kind # "codex" => n \notin working
    BY <2>1
  <2> HIDE DEF working
  <2> QED
    BY <1>0, <2>1, <2>2, SettleKeeps DEF NothingAgain
<1>7. ASSUME NEW n \in Instruction, Refuse(n) PROVE TurnParts' /\ NothingAgain
  <2> DEFINE working == running \ {n}
  <2>1. /\ n \in pending /\ n \in Members(given) /\ n \notin working
        /\ working \in SUBSET running
        /\ Settle(n, working)
        /\ refused' = refused \cup {n}
        /\ UNCHANGED <<kind, known, received, overdue>>
    BY <1>0, <1>7 DEF Refuse
  <2> HIDE DEF working
  <2> QED
    BY <1>0, <2>1, SettleKeeps DEF NothingAgain
<1>8. ASSUME NEW n \in Instruction, TimeOut(n) PROVE TurnParts' /\ NothingAgain
  <2>1. /\ n \in pending
        /\ running \in SUBSET running
        /\ Settle(n, running)
        /\ refused' = refused \cup {n}
        /\ overdue' = overdue \cup ({n} \cap running)
        /\ UNCHANGED <<kind, known, received>>
    BY <1>8 DEF TimeOut
  <2> QED
    BY <1>0, <2>1, SettleKeeps DEF NothingAgain
<1>9. ASSUME NEW n \in Instruction, LateAnswer(n) \/ TurnCompleted(n)
      PROVE  TurnParts' /\ NothingAgain
  BY <1>9, TurnKept DEF LateAnswer, TurnCompleted, NothingAgain
<1>10. ASSUME NEW n \in Instruction, WriteResult(n) \/ ReadResult(n)
       PROVE  TurnParts' /\ NothingAgain
  BY <1>10, TurnKept DEF WriteResult, ReadResult, turn, NothingAgain
<1>11. ASSUME NEW n \in Instruction, TurnExit(n) PROVE TurnParts' /\ NothingAgain
  <2> DEFINE working == running \ {n}
  <2>1. kind = "cursor" /\ n \in running
    BY <1>11 DEF TurnExit
  <2>2. n \in pending
    BY <1>0, <2>1 DEF PromptInv, TurnInv
  <2>3. /\ n \in Members(given) /\ n \notin working
        /\ working \in SUBSET running
        /\ Settle(n, working)
        /\ refused' = refused \cup {n} \/ refused' = refused
        /\ UNCHANGED <<kind, known, received, overdue>>
    BY <1>0, <1>11 DEF TurnExit
  <2> HIDE DEF working
  <2> QED
    BY <1>0, <2>2, <2>3, SettleKeeps DEF NothingAgain
<1>12. ASSUME NEW n \in Instruction, SpawnError(n) PROVE TurnParts' /\ NothingAgain
  <2> DEFINE working == running \ {n}
  <2>1. kind = "cursor" /\ n \in running
    BY <1>12 DEF SpawnError
  <2>2. n \in pending
    BY <1>0, <2>1 DEF PromptInv, TurnInv
  <2>3. /\ n \in Members(given) /\ n \notin working
        /\ working \in SUBSET running
        /\ Settle(n, working)
        /\ refused' = refused \cup {n}
        /\ UNCHANGED <<kind, known, received, overdue>>
    BY <1>0, <1>12 DEF SpawnError
  <2> HIDE DEF working
  <2> QED
    BY <1>0, <2>2, <2>3, SettleKeeps DEF NothingAgain
<1>13. CASE UNCHANGED vars
  BY <1>13, TurnKept DEF vars, turn, reports, NothingAgain
<1> QED
  BY <1>1, <1>2, <1>3, <1>4, <1>5, <1>6, <1>7, <1>8, <1>9, <1>10, <1>11, <1>12, <1>13 DEF Next

LEMMA PromptInvariant == Spec => []PromptInv
<1>1. PromptInv /\ [Next]_vars => PromptInv'
  BY NextOther, NextTurn DEF TurnParts, PromptInv
<1> QED
  BY <1>1, InitPrompt, PTL DEF Spec

-----------------------------------------------------------------------------
\* Through pauses, resumes, timeouts and exits every instruction the adapter received
\* is in one place: it waits, once, or was handed over, once, or was answered with an
\* error, or was dropped for want of a session (sendInstruction, resume, _turnDone,
\* _prompt and the 'exit' handlers of the three adapters).
THEOREM InstructionsAccountedFor == Spec => []EachAccountedFor
<1>1. PromptInv => EachAccountedFor
  <2> SUFFICES ASSUME PromptInv PROVE EachAccountedFor
    OBVIOUS
  <2>1. Distinct(queue) /\ Distinct(given)
    BY InjectiveIsDistinct DEF PromptInv, TurnTypes, NoRepetition
  <2>2. Members(next) \ {None} = Chained
    <3>1. next \in [1 .. MaxInstructions -> Instruction \cup {None}] /\ MaxInstructions \in Nat
      BY PromptNumbers DEF PromptInv, TurnTypes
    <3>2. next \in Seq(Instruction \cup {None})
      BY <3>1, SeqDef
    <3>3. Len(next) = MaxInstructions
      BY <3>1, <3>2, LenProperties
    <3> QED
      BY <3>3, PromptNumbers DEF Members, Chained
  <2> QED
    BY <2>1, <2>2 DEF PromptInv, Accounted, EachAccountedFor, Queued, Handed
<1> QED
  BY <1>1, PromptInvariant, PTL

\* acp/client.js: "Turns run one at a time" - but for those whose request timed out;
\* and there is one cursor process at a time.
THEOREM TurnsOneAtATime == Spec => []OneTurnAtATime
<1>1. PromptInv => OneTurnAtATime
  <2> SUFFICES ASSUME PromptInv, kind \in {"acp", "cursor"}
               PROVE  Cardinality(running \ overdue) <= 1
    BY DEF OneTurnAtATime
  <2>1. CASE running \ overdue = {}
    BY <2>1, FS_EmptySet
  <2>2. CASE running \ overdue # {}
    <3>1. PICK n : n \in running \ overdue
      BY <2>2
    <3>2. running \ overdue = {n}
      BY <3>1 DEF PromptInv, TurnInv
    <3>3. Cardinality({n}) = 1
      BY FS_Singleton
    <3> QED
      BY <3>2, <3>3
  <2> QED
    BY <2>1, <2>2
<1> QED
  BY <1>1, PromptInvariant, PTL

-----------------------------------------------------------------------------
(* What is reported of an instruction. *)

OutcomeInv ==
    /\ \A n \in Instruction : results[n] > 0 => n \in Members(given)
    /\ kind = "acp" =>
          /\ \A n \in pending : results[n] = 0
          /\ \A n \in Instruction : results[n] <= 1 /\ (results[n] = 0 \/ n \notin refused)
    /\ kind = "codex" =>
          /\ \A n \in running : results[n] = 0
          /\ \A n \in Instruction : results[n] <= 1
    /\ kind = "cursor" =>
          /\ written \subseteq Members(given)
          /\ \A n \in written \cap running : results[n] = 0
          /\ \A n \in written \cup running : results[n] <= 1
          /\ \A n \in Instruction : results[n] <= 2

\* The agent is given one instruction more, if any.
Grown == given' = given \/ \E n : given' = Append(given, n)

LEMMA GivenGrows == [Next]_vars => Grown
<1> USE DEF Grown
<1>1. \A n, rest, waiting, working : Prompt(n, rest, waiting, working) => Grown
  BY DEF Prompt, AcpPrompt, CodexStartTurn, CursorRunTurn, Give, LetGo
<1>2. \A n, rest, waiting, working : CodexStartTurn(n, rest, waiting, working) => Grown
  BY DEF CodexStartTurn, Give, LetGo
<1>3. \A waiting, working : TurnDone(waiting, working) => Grown
  BY <1>1 DEF TurnDone
<1>4. \A n, working : Settle(n, working) => Grown
  BY <1>2, <1>3 DEF Settle, CodexContinue
<1>5. ReceiveInstruction => Grown
  BY <1>1 DEF ReceiveInstruction
<1>6. Resume => Grown
  BY <1>1, <1>2 DEF Resume, CodexResumeQueue, LetGo, turn
<1>7. Exit => Grown
  BY <1>3 DEF Exit
<1>8. \A n : Answer(n) \/ Refuse(n) \/ TimeOut(n) \/ TurnExit(n) \/ SpawnError(n) => Grown
  BY <1>4 DEF Answer, Refuse, TimeOut, TurnExit, SpawnError
<1>9. \A n : LateAnswer(n) \/ TurnCompleted(n) \/ WriteResult(n) \/ ReadResult(n) => Grown
  BY DEF LateAnswer, TurnCompleted, WriteResult, ReadResult, turn
<1>10. Pause \/ Disconnect \/ Interrupted \/ CreateSession \/ SessionAnswered \/ SessionFails => Grown
  BY DEF Pause, Disconnect, Interrupted, CreateSession, SessionAnswered, SessionFails, turn
<1>11. UNCHANGED vars => Grown
  BY DEF vars, turn
<1> QED
  BY <1>5, <1>6, <1>7, <1>8, <1>9, <1>10, <1>11 DEF Next

LEMMA GivenStaysGiven ==
    ASSUME PromptInv, TurnParts', Grown
    PROVE  Members(given) \subseteq Members(given')
<1>1. CASE given' = given
  BY <1>1
<1>2. ASSUME NEW n, given' = Append(given, n) PROVE Members(given) \subseteq Members(given')
  <2>1. given \in Seq(Instruction \cup {n}) /\ n \in Instruction \cup {n}
    BY SeqMonotonic DEF PromptInv, TurnTypes
  <2> QED
    BY <1>2, <2>1, Appended
<1> QED
  BY <1>1, <1>2 DEF Grown

\* What is started was not reported on before.
LEMMA StartedIsFresh ==
    ASSUME PromptInv, OutcomeInv, NothingAgain, TurnParts'
    PROVE  /\ \A n \in running' \ running : n \in Instruction /\ results[n] = 0
           /\ kind = "cursor" => \A n \in running' \ running : n \notin written
           /\ kind = "acp" => \A n \in pending' \ pending : n \in Instruction /\ results[n] = 0
<1>1. \A n \in Instruction : n \notin Handed => results[n] = 0
  BY DEF PromptInv, OtherTypes, OutcomeInv, Handed
<1>2. kind = "cursor" => \A n \in written : n \in Handed
  BY DEF OutcomeInv, Handed
<1> QED
  BY <1>1, <1>2 DEF TurnParts, TurnTypes, NothingAgain

\* acp and cursor: a turn that ended is neither started again.
LEMMA SettledIsDone ==
    ASSUME PromptInv, kind # "codex", UNCHANGED <<kind, known>>, NEW n \in pending,
           NEW working \in SUBSET running, Settle(n, working)
    PROVE  n \notin pending' /\ (n \notin working => n \notin running')
<1>1. TurnDone({}, working)
  BY DEF Settle, PromptInv, TurnInv
<1>2. CASE ~paused /\ queue # <<>>
  <2> DEFINE m == Head(queue)
             rest == Tail(queue)
             none == {}
  <2>1. Prompt(m, rest, none, working) /\ none \in SUBSET Instruction
    BY <1>1, <1>2 DEF TurnDone
  <2>2. m \in Instruction /\ m \in Queued
    BY <1>2, TailTaken DEF PromptInv, TurnTypes, NoRepetition, Queued
  <2>3. m \notin Handed /\ m \notin Members(given) /\ m # n
    BY <2>2 DEF PromptInv, Accounted, Handed
  <2>4. none = {}
    OBVIOUS
  <2>5. working \in SUBSET Members(given)
    BY DEF PromptInv
  <2> HIDE DEF m, rest, none
  <2>6. running' \subseteq working \cup {m} /\ (pending' = none \cup {m} \/ pending' = none)
    BY <2>1, <2>2, <2>3, <2>5, Prompting
  <2> QED
    BY <2>3, <2>4, <2>6
<1>3. CASE ~(~paused /\ queue # <<>>)
  BY <1>1, <1>3 DEF TurnDone
<1> QED
  BY <1>2, <1>3

LEMMA NextOutcome == PromptInv /\ PromptInv' /\ OutcomeInv /\ [Next]_vars => OutcomeInv'
<1> SUFFICES ASSUME PromptInv, PromptInv', OutcomeInv, [Next]_vars PROVE OutcomeInv'
  OBVIOUS
<1> USE PromptNumbers
<1>0. /\ Members(given) \subseteq Members(given')
      /\ \A n \in running' \ running : n \in Instruction /\ results[n] = 0
      /\ kind = "cursor" => \A n \in running' \ running : n \notin written
      /\ kind = "acp" => \A n \in pending' \ pending : n \in Instruction /\ results[n] = 0
  <2>1. TurnParts' /\ NothingAgain
    BY NextTurn
  <2> QED
    BY <2>1, GivenGrows, GivenStaysGiven, StartedIsFresh
<1>1. kind' = kind
  BY DEF Next, ReceiveInstruction, Pause, Resume, Disconnect, Interrupted, CreateSession,
     SessionAnswered, SessionFails, Exit, Answer, Refuse, TimeOut, LateAnswer, TurnCompleted,
     WriteResult, ReadResult, TurnExit, SpawnError, vars
<1>2. /\ results \in [Instruction -> Nat]
      /\ running \subseteq Instruction /\ running \subseteq Members(given)
      /\ pending \subseteq Instruction /\ written \subseteq Instruction
      /\ kind # "codex" => pending \cap refused = {} /\ pending' \cap refused' = {}
      /\ kind \in {"acp", "codex", "cursor"}
  BY <1>1 DEF PromptInv, OtherTypes, TurnTypes, TurnInv
\* Nothing is reported, but refusals of what was under way.
<1>3. ASSUME results' = results, written' = written, refused' \subseteq refused \cup pending
      PROVE  OutcomeInv'
  <2>1. kind = "acp" => \A n \in Instruction : results[n] = 0 \/ n \notin refused'
    BY <1>3 DEF OutcomeInv
  <2>2. kind = "acp" => \A n \in pending' : results[n] = 0
    BY <1>0 DEF OutcomeInv
  <2>3. kind = "codex" => \A n \in running' : results[n] = 0
    BY <1>0 DEF OutcomeInv
  <2>4. kind = "cursor" => /\ \A n \in written \cap running' : results[n] = 0
                           /\ \A n \in written \cup running' : results[n] <= 1
    BY <1>0 DEF OutcomeInv
  <2> QED
    BY <1>0, <1>1, <1>3, <2>1, <2>2, <2>3, <2>4 DEF OutcomeInv
<1>4. CASE ReceiveInstruction \/ Pause \/ Resume \/ Disconnect
  BY <1>3, <1>4 DEF ReceiveInstruction, Pause, Resume, Disconnect, reports
<1>5. CASE Interrupted \/ CreateSession \/ SessionAnswered \/ SessionFails
  BY <1>3, <1>5 DEF Interrupted, CreateSession, SessionAnswered, SessionFails, reports
<1>6. CASE Exit
  BY <1>3, <1>6 DEF Exit
<1>7. ASSUME NEW n \in Instruction, Answer(n) PROVE OutcomeInv'
  <2>1. CASE kind = "codex"
    BY <1>3, <1>7, <2>1 DEF Answer
  <2>2. CASE kind = "acp"
    <3>1. /\ n \in pending /\ n \in Members(given)
          /\ refused' = refused
          /\ results' = [results EXCEPT ![n] = @ + 1]
          /\ Settle(n, running \ {n})
          /\ UNCHANGED <<kind, known>>
      BY <1>2, <1>7, <2>2 DEF Answer
    <3>2. n \notin pending'
      <4>1. running \ {n} \in SUBSET running
        OBVIOUS
      <4> QED
        BY <2>2, <3>1, <4>1, SettledIsDone
    <3>3. results[n] = 0 /\ n \notin refused
      BY <1>2, <2>2, <3>1 DEF OutcomeInv
    <3>4. results'[n] = 1 /\ \A m \in Instruction \ {n} : results'[m] = results[m]
      BY <1>2, <3>1, <3>3
    <3>5. \A m \in pending' : m \in Instruction /\ m # n /\ results[m] = 0
      BY <1>0, <1>2, <2>2, <3>2 DEF OutcomeInv
    <3> QED
      BY <1>0, <1>1, <2>2, <3>1, <3>3, <3>4, <3>5 DEF OutcomeInv
  <2> QED
    BY <1>7, <2>1, <2>2 DEF Answer
<1>8. ASSUME NEW n \in Instruction, Refuse(n) \/ TimeOut(n) PROVE OutcomeInv'
  BY <1>3, <1>8 DEF Refuse, TimeOut
<1>9. ASSUME NEW n \in Instruction, LateAnswer(n) PROVE OutcomeInv'
  BY <1>3, <1>9 DEF LateAnswer
<1>10. ASSUME NEW n \in Instruction, TurnCompleted(n) PROVE OutcomeInv'
  <2>1. /\ kind = "codex" /\ n \in running /\ running' = running \ {n} /\ refused' = refused
        /\ results' = [results EXCEPT ![n] = @ + 1]
    BY <1>10 DEF TurnCompleted
  <2>2. results[n] = 0
    BY <2>1 DEF OutcomeInv
  <2>3. results'[n] = 1 /\ \A m \in Instruction \ {n} : results'[m] = results[m]
    BY <1>2, <2>1, <2>2
  <2>4. \A m \in running' : m \in Instruction \ {n} /\ results[m] = 0
    BY <1>2, <2>1 DEF OutcomeInv
  <2> QED
    BY <1>0, <1>2, <1>1, <2>1, <2>3, <2>4 DEF OutcomeInv
<1>11. ASSUME NEW n \in Instruction, WriteResult(n) PROVE OutcomeInv'
  <2>1. /\ kind = "cursor" /\ n \in running /\ n \notin written /\ results[n] = 0
        /\ written' = written \cup {n}
        /\ UNCHANGED <<results, running, given>>
    BY <1>11 DEF WriteResult, turn
  <2> QED
    BY <1>2, <1>1, <2>1 DEF OutcomeInv
<1>12. ASSUME NEW n \in Instruction, ReadResult(n) PROVE OutcomeInv'
  <2>1. /\ n \in written
        /\ written' = written \ {n}
        /\ results' = [results EXCEPT ![n] = @ + 1]
        /\ UNCHANGED <<running, given>>
    BY <1>12 DEF ReadResult, turn
  <2>2. kind = "cursor"
    BY <2>1 DEF PromptInv, OtherTypes
  <2>3. /\ n \in Members(given)
        /\ n \in running => results[n] = 0
        /\ results[n] <= 1
    BY <2>1, <2>2 DEF OutcomeInv
  <2>4. results'[n] = results[n] + 1 /\ \A m \in Instruction \ {n} : results'[m] = results[m]
    BY <1>2, <2>1
  <2>5. results'[n] <= 2 /\ (n \in running => results'[n] <= 1)
    BY <1>2, <2>3, <2>4
  <2> QED
    BY <1>2, <1>1, <2>1, <2>2, <2>3, <2>4, <2>5 DEF OutcomeInv
<1>13. ASSUME NEW n \in Instruction, TurnExit(n) PROVE OutcomeInv'
  <2>1. /\ kind = "cursor" /\ n \in running /\ n \in Members(given)
        /\ written' = written
        /\ Settle(n, running \ {n})
        /\ UNCHANGED <<kind, known>>
    BY <1>2, <1>13 DEF TurnExit
  <2>2. n \in pending
    BY <2>1 DEF PromptInv, OtherTypes, TurnInv
  <2>3. n \notin running'
    <3>1. running \ {n} \in SUBSET running /\ n \notin running \ {n}
      OBVIOUS
    <3> QED
      BY <2>1, <2>2, <3>1, SettledIsDone
  <2>4. CASE results' = results
    <3>1. \A m \in written \cap running' : results[m] = 0
      BY <1>0, <2>1 DEF OutcomeInv
    <3>2. \A m \in written \cup running' : results[m] <= 1
      BY <1>0, <2>1 DEF OutcomeInv
    <3> QED
      BY <1>0, <1>1, <2>1, <2>4, <3>1, <3>2 DEF OutcomeInv
  <2>5. CASE results[n] = 0 /\ results' = [results EXCEPT ![n] = 1]
    <3>1. results'[n] = 1 /\ \A m \in Instruction \ {n} : results'[m] = results[m]
      BY <1>2, <2>5
    <3>2. \A m \in written \cap running' : m \in Instruction \ {n} /\ results[m] = 0
      BY <1>0, <1>2, <2>1, <2>3 DEF OutcomeInv
    <3>3. \A m \in written \cup running' : m \in Instruction /\ (m # n => results[m] <= 1)
      BY <1>0, <1>2, <2>1 DEF OutcomeInv
    <3>4. \A m \in Instruction : m # n => results[m] <= 2
      BY <2>1 DEF OutcomeInv
    <3>5. \A m \in Instruction : results'[m] > 0 => m \in Members(given')
      BY <1>0, <2>1, <3>1 DEF OutcomeInv
    <3> QED
      BY <1>0, <1>1, <2>1, <3>1, <3>2, <3>3, <3>4, <3>5 DEF OutcomeInv
  <2> QED
    BY <1>13, <2>4, <2>5 DEF TurnExit
<1>14. ASSUME NEW n \in Instruction, SpawnError(n) PROVE OutcomeInv'
  <2>1. /\ kind = "cursor" /\ n \in running
        /\ UNCHANGED <<results, written>>
        /\ refused' = refused \cup {n}
    BY <1>14 DEF SpawnError
  <2>2. n \in pending
    BY <2>1 DEF PromptInv, OtherTypes, TurnInv
  <2> QED
    BY <1>3, <2>1, <2>2
<1>15. CASE UNCHANGED vars
  BY <1>3, <1>15 DEF vars, reports
<1> QED
  BY <1>4, <1>5, <1>6, <1>7, <1>8, <1>9, <1>10, <1>11, <1>12, <1>13, <1>14, <1>15 DEF Next

LEMMA OutcomeInvariant == Spec => []OutcomeInv
<1>1. Init => OutcomeInv
  BY PromptNumbers DEF Init, OutcomeInv
<1> QED
  BY <1>1, PromptInvariant, NextOutcome, PTL DEF Spec

\* What an error says of the results: a codex turn that was given up and goes on is
\* overdue, and no result came while its request waited; a cursor turn whose line is
\* not read yet has a result only if its process exited before.
ErrorInv ==
    /\ kind = "codex" =>
          /\ running \cap refused \subseteq overdue
          /\ \A n \in pending : results[n] = 0
    /\ kind = "cursor" => \A n \in written : results[n] = 1 <=> n \in refused

\* codex: a request that was settled has no turn but the one that goes on.
LEMMA CodexSettled ==
    ASSUME PromptInv, kind = "codex", NEW n \in pending, NEW working \in SUBSET running,
           Settle(n, working)
    PROVE  n \notin working => n \notin running'
<1>1. CodexContinue(n, pending \ {n}, working)
  BY DEF Settle
<1>2. CASE next[n] # None
  <2>1. n \in Instruction /\ next[n] \in Chained /\ n \notin Chained
    BY <1>2 DEF PromptInv, TurnTypes, Accounted, Chained, Handed
  <2>2. running' \subseteq working \cup {next[n]}
    BY <1>1, <1>2 DEF CodexContinue, CodexStartTurn, Give, LetGo
  <2> QED
    BY <2>1, <2>2
<1>3. CASE next[n] = None
  BY <1>1, <1>3 DEF CodexContinue
<1> QED
  BY <1>2, <1>3

LEMMA NextError ==
    PromptInv /\ PromptInv' /\ OutcomeInv /\ ErrorInv /\ [Next]_vars => ErrorInv'
<1> SUFFICES ASSUME PromptInv, PromptInv', OutcomeInv, ErrorInv, [Next]_vars PROVE ErrorInv'
  OBVIOUS
<1> USE PromptNumbers
<1>0. /\ running' \cap Handed \subseteq running
      /\ pending' \cap Handed \subseteq pending
      /\ pending \subseteq Handed /\ refused \subseteq Handed
      /\ \A n \in Instruction : results[n] > 0 => n \in Handed
      /\ results \in [Instruction -> Nat]
      /\ running' \subseteq Instruction /\ pending' \subseteq Instruction
      /\ running \subseteq Instruction /\ pending \subseteq Instruction
      /\ kind = "cursor" => running \subseteq pending /\ pending \cap refused = {}
      /\ kind # "cursor" => written = {}
      /\ kind \in {"acp", "codex", "cursor"}
  <2>1. TurnParts' /\ NothingAgain
    BY NextTurn
  <2> QED
    BY <2>1 DEF NothingAgain, Handed, PromptInv, OtherTypes, TurnTypes, TurnInv, OutcomeInv
<1>1. \A n \in pending' : results[n] = 0 \/ n \in pending
  BY <1>0
\* Nothing is reported, and what is given up goes on, if at all, beyond its time.
<1>2. ASSUME kind' = kind, results' = results, written' = written,
             running' \cap refused' \subseteq overdue', kind = "cursor" => refused' = refused
      PROVE  ErrorInv'
  BY <1>1, <1>2 DEF ErrorInv
<1>3. ASSUME refused' = refused, overdue \subseteq overdue' PROVE kind = "codex" => running' \cap refused' \subseteq overdue'
  BY <1>0, <1>3 DEF ErrorInv
\* The parts of the other kinds.
<1>4. ASSUME kind' = kind, results' = results, written' = written, refused' = refused,
             overdue' = overdue
      PROVE  ErrorInv'
  BY <1>1, <1>3, <1>4 DEF ErrorInv
<1>5. CASE \/ ReceiveInstruction \/ Pause \/ Resume \/ Disconnect \/ Interrupted
           \/ CreateSession \/ SessionAnswered \/ SessionFails \/ UNCHANGED vars
  BY <1>4, <1>5 DEF ReceiveInstruction, Pause, Resume, Disconnect, Interrupted, CreateSession,
     SessionAnswered, SessionFails, reports, vars
<1>6. CASE Exit
  <2>1. kind' = kind /\ results' = results /\ written' = written /\ kind \in {"acp", "codex"}
        /\ (kind = "codex" => running' = {})
    BY <1>6 DEF Exit
  <2> QED
    BY <1>1, <2>1 DEF ErrorInv
<1>7. ASSUME NEW n \in Instruction, Answer(n) PROVE ErrorInv'
  BY <1>0, <1>1, <1>3, <1>7 DEF Answer, ErrorInv
<1>8. ASSUME NEW n \in Instruction, Refuse(n) PROVE ErrorInv'
  <2>1. /\ kind' = kind /\ results' = results /\ kind \in {"acp", "codex"}
        /\ refused' = refused \cup {n} /\ overdue' = overdue
        /\ n \in pending /\ Settle(n, running \ {n})
    BY <1>8 DEF Refuse
  <2>2. kind = "codex" => n \notin running'
    <3>1. running \ {n} \in SUBSET running /\ n \notin running \ {n}
      OBVIOUS
    <3> QED
      BY <2>1, <3>1, CodexSettled
  <2> QED
    BY <1>0, <1>1, <2>1, <2>2 DEF ErrorInv
<1>9. ASSUME NEW n \in Instruction, TimeOut(n) PROVE ErrorInv'
  <2>1. /\ kind' = kind /\ results' = results /\ kind \in {"acp", "codex"}
        /\ refused' = refused \cup {n} /\ overdue' = overdue \cup ({n} \cap running)
        /\ n \in pending
    BY <1>9 DEF TimeOut
  <2> QED
    BY <1>0, <1>1, <2>1 DEF ErrorInv
<1>10. ASSUME NEW n \in Instruction, LateAnswer(n) \/ TurnCompleted(n) PROVE ErrorInv'
  <2>1. CASE LateAnswer(n)
    BY <2>1 DEF LateAnswer, ErrorInv
  <2>2. CASE TurnCompleted(n)
    <3>1. /\ kind' = kind /\ kind = "codex" /\ n \notin pending
          /\ running' = running \ {n} /\ overdue' = overdue \ {n}
          /\ refused' = refused /\ pending' = pending
          /\ results' = [results EXCEPT ![n] = @ + 1]
      BY <2>2 DEF TurnCompleted
    <3>2. \A m \in pending : m \in Instruction /\ results'[m] = results[m]
      BY <1>0, <3>1
    <3> QED
      BY <3>1, <3>2 DEF ErrorInv
  <2> QED
    BY <1>10, <2>1, <2>2
<1>11. ASSUME NEW n \in Instruction, WriteResult(n) PROVE ErrorInv'
  <2>1. /\ kind' = kind /\ kind = "cursor" /\ n \in running /\ results[n] = 0
        /\ written' = written \cup {n}
        /\ results' = results /\ refused' = refused
    BY <1>11 DEF WriteResult, turn
  <2>2. n \notin refused
    BY <1>0, <2>1
  <2> QED
    BY <2>1, <2>2 DEF ErrorInv
<1>12. ASSUME NEW n \in Instruction, ReadResult(n) PROVE ErrorInv'
  <2>1. /\ kind' = kind /\ kind = "cursor" /\ refused' = refused
        /\ written' = written \ {n}
        /\ results' = [results EXCEPT ![n] = @ + 1]
    BY <1>0, <1>12 DEF ReadResult, turn
  <2>2. \A m \in written' : m # n /\ results'[m] = results[m]
    BY <1>0, <2>1
  <2> QED
    BY <2>1, <2>2 DEF ErrorInv
<1>13. ASSUME NEW n \in Instruction, TurnExit(n) PROVE ErrorInv'
  <2>1. /\ kind' = kind /\ kind = "cursor" /\ written' = written
        /\ \/ results' = results /\ refused' = refused
           \/ results' = [results EXCEPT ![n] = 1] /\ refused' = refused \cup {n}
    BY <1>13 DEF TurnExit
  <2>2. CASE results' = results /\ refused' = refused
    BY <2>1, <2>2 DEF ErrorInv
  <2>3. CASE results' = [results EXCEPT ![n] = 1] /\ refused' = refused \cup {n}
    <3>1. results'[n] = 1 /\ \A m \in Instruction \ {n} : results'[m] = results[m]
      BY <1>0, <2>3
    <3>2. written \subseteq Instruction
      BY DEF PromptInv, OtherTypes
    <3> QED
      BY <2>1, <2>3, <3>1, <3>2 DEF ErrorInv
  <2> QED
    BY <2>1, <2>2, <2>3
<1>14. ASSUME NEW n \in Instruction, SpawnError(n) PROVE ErrorInv'
  <2>1. /\ kind' = kind /\ kind = "cursor" /\ n \notin written
        /\ UNCHANGED <<written, results>> /\ refused' = refused \cup {n}
    BY <1>14 DEF SpawnError
  <2> QED
    BY <2>1 DEF ErrorInv
<1> QED
  BY <1>5, <1>6, <1>7, <1>8, <1>9, <1>10, <1>11, <1>12, <1>13, <1>14 DEF Next

LEMMA ErrorInvariant == Spec => []ErrorInv
<1>1. Init => ErrorInv
  BY DEF Init, ErrorInv
<1> QED
  BY <1>1, PromptInvariant, OutcomeInvariant, NextError, PTL DEF Spec

\* An error and the results of one prompt, in the orders in which they may come.
Outcomes(n) ==
    /\ results'[n] # results[n] =>
          \/ results[n] = 0 /\ n \notin refused
          \/ results[n] = 0 /\ kind = "codex" /\ n \in overdue
          \/ results[n] = 1 /\ kind = "cursor" /\ n \in refused \cap written
    /\ n \in refused' \ refused => results[n] = 0

LEMMA NextOutcomes ==
    PromptInv /\ OutcomeInv /\ ErrorInv /\ [Next]_vars => \A n \in Instruction : Outcomes(n)
<1> SUFFICES ASSUME PromptInv, OutcomeInv, ErrorInv, [Next]_vars
             PROVE  \A n \in Instruction : Outcomes(n)
  OBVIOUS
<1> USE PromptNumbers
<1>0. /\ results \in [Instruction -> Nat]
      /\ kind = "acp" \/ kind = "codex" \/ kind = "cursor"
      /\ kind # "codex" => pending \cap refused = {}
      /\ kind = "cursor" => running \subseteq pending
      /\ kind # "cursor" => written = {} /\ \A n \in pending : results[n] = 0
  BY DEF PromptInv, OtherTypes, TurnTypes, TurnInv, OutcomeInv, ErrorInv
<1>1. ASSUME results' = results, refused' = refused PROVE \A n \in Instruction : Outcomes(n)
  BY <1>1 DEF Outcomes
<1>2. ASSUME kind # "cursor", results' = results, refused' \subseteq refused \cup pending
      PROVE  \A n \in Instruction : Outcomes(n)
  BY <1>0, <1>2 DEF Outcomes
\* One of them gets one result more.
<1>3. ASSUME NEW n \in Instruction, results' = [results EXCEPT ![n] = results[n] + 1] \/ results' = [results EXCEPT ![n] = 1],
             refused' \ refused \subseteq {n}, Outcomes(n)
      PROVE  \A m \in Instruction : Outcomes(m)
  <2>1. \A m \in Instruction \ {n} : results'[m] = results[m] /\ m \notin refused' \ refused
    BY <1>0, <1>3
  <2> QED
    BY <1>3, <2>1 DEF Outcomes
<1>4. CASE \/ ReceiveInstruction \/ Pause \/ Resume \/ Disconnect \/ Interrupted
           \/ CreateSession \/ SessionAnswered \/ SessionFails \/ UNCHANGED vars
  BY <1>1, <1>4 DEF ReceiveInstruction, Pause, Resume, Disconnect, Interrupted, CreateSession,
     SessionAnswered, SessionFails, reports, vars
<1>5. CASE Exit
  BY <1>2, <1>5 DEF Exit
<1>6. ASSUME NEW n \in Instruction, Refuse(n) \/ TimeOut(n)
      PROVE  \A m \in Instruction : Outcomes(m)
  BY <1>2, <1>6 DEF Refuse, TimeOut
<1>7. ASSUME NEW n \in Instruction, Answer(n) PROVE \A m \in Instruction : Outcomes(m)
  <2>1. CASE kind = "codex"
    BY <1>1, <1>7, <2>1 DEF Answer
  <2>2. CASE kind = "acp"
    <3>1. /\ results' = [results EXCEPT ![n] = results[n] + 1] /\ refused' = refused
          /\ n \in pending
      BY <1>7, <2>2 DEF Answer
    <3>2. results[n] = 0 /\ n \notin refused
      BY <1>0, <2>2, <3>1
    <3>3. Outcomes(n)
      BY <3>1, <3>2 DEF Outcomes
    <3> QED
      BY <1>3, <3>1, <3>3
  <2> QED
    BY <1>7, <2>1, <2>2 DEF Answer
<1>8. ASSUME NEW n \in Instruction, LateAnswer(n) \/ WriteResult(n)
      PROVE  \A m \in Instruction : Outcomes(m)
  BY <1>1, <1>8 DEF LateAnswer, WriteResult
<1>9. ASSUME NEW n \in Instruction, TurnCompleted(n) PROVE \A m \in Instruction : Outcomes(m)
  <2>1. /\ kind = "codex" /\ n \in running /\ refused' = refused
        /\ results' = [results EXCEPT ![n] = results[n] + 1]
    BY <1>9 DEF TurnCompleted
  <2>2. results[n] = 0 /\ (n \in refused => n \in overdue)
    BY <2>1 DEF OutcomeInv, ErrorInv
  <2>3. Outcomes(n)
    BY <2>1, <2>2 DEF Outcomes
  <2> QED
    BY <1>3, <2>1, <2>3
<1>10. ASSUME NEW n \in Instruction, ReadResult(n) PROVE \A m \in Instruction : Outcomes(m)
  <2>1. /\ kind = "cursor" /\ n \in written /\ refused' = refused
        /\ results' = [results EXCEPT ![n] = results[n] + 1]
    BY <1>0, <1>10 DEF ReadResult
  <2>2. results[n] \in Nat /\ results[n] <= 1 /\ (results[n] = 1 <=> n \in refused)
    BY <1>0, <2>1 DEF OutcomeInv, ErrorInv
  <2>3. (results[n] = 0 /\ n \notin refused) \/ (results[n] = 1 /\ n \in refused)
    BY <2>2
  <2>4. Outcomes(n)
    BY <2>1, <2>3 DEF Outcomes
  <2> QED
    BY <1>3, <2>1, <2>4
<1>11. ASSUME NEW n \in Instruction, TurnExit(n) PROVE \A m \in Instruction : Outcomes(m)
  <2>1. /\ kind = "cursor" /\ n \in running
        /\ \/ results' = results /\ refused' = refused
           \/ /\ results[n] = 0
              /\ results' = [results EXCEPT ![n] = 1]
              /\ refused' = refused \cup {n}
    BY <1>11 DEF TurnExit
  <2>2. CASE results[n] = 0 /\ results' = [results EXCEPT ![n] = 1] /\ refused' = refused \cup {n}
    <3>1. Outcomes(n)
      BY <1>0, <2>1, <2>2 DEF Outcomes
    <3> QED
      BY <1>3, <2>2, <3>1
  <2> QED
    BY <1>1, <2>1, <2>2
<1>12. ASSUME NEW n \in Instruction, SpawnError(n) PROVE \A m \in Instruction : Outcomes(m)
  <2>1. results[n] = 0 /\ results' = results /\ refused' = refused \cup {n}
    BY <1>12 DEF SpawnError
  <2> QED
    BY <2>1 DEF Outcomes
<1> QED
  BY <1>4, <1>5, <1>6, <1>7, <1>8, <1>9, <1>10, <1>11, <1>12 DEF Next

\* A prompt has one outcome, an error or a result, but for a codex turn that goes on
\* after its timeout and a cursor process that exits before its result line is read; an
\* ACP answer that comes after its timeout is no result, and nothing fails after its
\* result: the host would close the turn of the next instruction.
THEOREM PromptOutcomes == Spec => OutcomesPerPrompt
<1>1. PromptInv /\ OutcomeInv /\ ErrorInv /\ [Next]_vars
      => [\A n \in Instruction :
            /\ results'[n] # results[n] =>
                  \/ results[n] = 0 /\ n \notin refused
                  \/ results[n] = 0 /\ kind = "codex" /\ n \in overdue
                  \/ results[n] = 1 /\ kind = "cursor" /\ n \in refused \cap written
            /\ n \in refused' \ refused => results[n] = 0]_vars
  BY NextOutcomes DEF Outcomes
<1> QED
  BY <1>1, PromptInvariant, OutcomeInvariant, ErrorInvariant, PTL DEF Spec, OutcomesPerPrompt

\* Every variable keeps its type, the results of one instruction their bound.
THEOREM PromptTypeCorrect == Spec => []TypeOK
<1>1. PromptInv /\ OutcomeInv => TypeOK
  <2> SUFFICES ASSUME PromptInv, OutcomeInv PROVE TypeOK
    OBVIOUS
  <2>1. ASSUME NEW n \in Instruction PROVE results[n] \in 0 .. 2
    <3>1. results[n] \in Nat /\ kind \in {"acp", "codex", "cursor"}
      BY PromptNumbers DEF PromptInv, OtherTypes
    <3>2. results[n] <= 2
      BY <3>1 DEF OutcomeInv
    <3> QED
      BY <3>1, <3>2
  <2>2. results \in [Instruction -> 0 .. 2]
    BY <2>1 DEF PromptInv, OtherTypes
  <2>3. UNION {pending, running, overdue, written, refused, dropped} \subseteq Instruction
    BY DEF PromptInv, OtherTypes, TurnTypes
  <2> QED
    BY <2>2, <2>3 DEF PromptInv, OtherTypes, TurnTypes, TypeOK
<1> QED
  BY <1>1, PromptInvariant, OutcomeInvariant, PTL

\* A turn that ends during a pause starts no other, nor does an exit or a timeout
\* (_turnDone, the end of _prompt).
THEOREM PauseHolds == Spec => NothingGivenWhilePaused
<1> DEFINE Held == paused /\ paused' /\ kind \in {"acp", "cursor"} => given' = given
<1>1. [Next]_vars => Held
  <2> SUFFICES ASSUME [Next]_vars, paused, paused', kind \in {"acp", "cursor"}
               PROVE  given' = given
    OBVIOUS
  <2>1. \A waiting, working : TurnDone(waiting, working) => given' = given
    BY DEF TurnDone
  <2>2. \A n, working : Settle(n, working) => given' = given
    BY <2>1 DEF Settle
  <2>3. CASE ReceiveInstruction
    BY <2>3 DEF ReceiveInstruction
  <2>4. CASE Resume
    BY <2>4 DEF Resume
  <2>5. CASE Exit
    BY <2>1, <2>5 DEF Exit
  <2>6. ASSUME NEW n \in Instruction,
               Answer(n) \/ Refuse(n) \/ TimeOut(n) \/ TurnExit(n) \/ SpawnError(n)
        PROVE  given' = given
    BY <2>2, <2>6 DEF Answer, Refuse, TimeOut, TurnExit, SpawnError
  <2>7. ASSUME NEW n \in Instruction,
               LateAnswer(n) \/ TurnCompleted(n) \/ WriteResult(n) \/ ReadResult(n)
        PROVE  given' = given
    BY <2>7 DEF LateAnswer, TurnCompleted, WriteResult, ReadResult, turn
  <2>8. CASE \/ Pause \/ Disconnect \/ Interrupted \/ CreateSession \/ SessionAnswered
             \/ SessionFails
    BY <2>8 DEF Pause, Disconnect, Interrupted, CreateSession, SessionAnswered, SessionFails, turn
  <2>9. CASE UNCHANGED vars
    BY <2>9 DEF vars, turn
  <2> QED
    BY <2>3, <2>4, <2>5, <2>6, <2>7, <2>8, <2>9 DEF Next
<1>2. [Next]_vars => [Held]_vars
  BY <1>1
<1> QED
  BY <1>2, PTL DEF Spec, NothingGivenWhilePaused

=============================================================================
