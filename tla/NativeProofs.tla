----------------------------- MODULE NativeProofs -----------------------------
(***************************************************************************)
(* Proofs about the adapters that type instructions into an agent's own    *)
(* interface, for every number of instructions.                            *)
(***************************************************************************)
EXTENDS NativeAdapter, SequenceTheorems, TLAPS

LEMMA TypingNumbers == /\ MaxInstructions \in Nat
                       /\ Instruction = 1 .. MaxInstructions
                       /\ Host = MaxInstructions + 1
                       /\ Host \notin Instruction
                       /\ None = 0
                       /\ None \notin Instruction
                       /\ Kinds \subseteq {"pty", "opencode"}
                       /\ RecentLimit \in Nat \ {0}
BY NativeConstants DEF Instruction, None, Host

-----------------------------------------------------------------------------
(* Sequences and what is in them. *)

Injective(s) == \A j, k \in 1 .. Len(s) : s[j] = s[k] => j = k

LEMMA EmptyHolds == Members(<<>>) = {} /\ Injective(<<>>)
<1>1. 1 .. Len(<<>>) = {}
  BY EmptySeq
<1> QED
  BY <1>1 DEF Members, Injective

LEMMA OneHeld ==
    ASSUME NEW S, NEW e \in S
    PROVE  /\ <<e>> \in Seq(S)
           /\ Members(<<e>>) = {e}
           /\ Injective(<<e>>)
<1>1. <<e>> \in Seq(S) /\ Len(<<e>>) = 1 /\ <<e>>[1] = e
  OBVIOUS
<1>2. 1 .. Len(<<e>>) = {1}
  BY <1>1
<1> QED
  BY <1>1, <1>2 DEF Members, Injective

LEMMA HeldTyped ==
    ASSUME NEW S, NEW s \in Seq(S)
    PROVE  Members(s) \subseteq S
BY ElementOfSeq DEF Members

LEMMA Joined ==
    ASSUME NEW S, NEW s \in Seq(S), NEW t \in Seq(S)
    PROVE  /\ s \o t \in Seq(S)
           /\ Members(s \o t) = Members(s) \cup Members(t)
           /\ Injective(s) /\ Injective(t) /\ Members(s) \cap Members(t) = {}
                 => Injective(s \o t)
<1> DEFINE u == s \o t
           m == Len(s)
           n == Len(t)
<1>1. m \in Nat /\ n \in Nat
  BY LenProperties
<1>2. /\ u \in Seq(S)
      /\ Len(u) = m + n
      /\ \A k \in 1 .. m + n : u[k] = IF k <= m THEN s[k] ELSE t[k - m]
  BY ConcatProperties
<1> HIDE DEF u
<1>3. \A k \in 1 .. Len(u) : \/ k \in 1 .. m /\ u[k] = s[k]
                             \/ k > m /\ k - m \in 1 .. n /\ u[k] = t[k - m]
  BY <1>1, <1>2
<1>4. \A k \in 1 .. m : k \in 1 .. Len(u) /\ u[k] = s[k]
  BY <1>1, <1>2
<1>5. \A k \in 1 .. n : k + m \in 1 .. Len(u) /\ u[k + m] = t[k]
  <2> SUFFICES ASSUME NEW k \in 1 .. n PROVE k + m \in 1 .. Len(u) /\ u[k + m] = t[k]
    OBVIOUS
  <2>1. k + m \in 1 .. m + n /\ ~(k + m <= m) /\ (k + m) - m = k
    BY <1>1
  <2> QED
    BY <1>2, <2>1
<1>6. Members(u) = Members(s) \cup Members(t)
  <2>1. ASSUME NEW e \in Members(u) PROVE e \in Members(s) \cup Members(t)
    BY <1>3 DEF Members
  <2>2. ASSUME NEW e \in Members(s) PROVE e \in Members(u)
    BY <1>4 DEF Members
  <2>3. ASSUME NEW e \in Members(t) PROVE e \in Members(u)
    <3>1. PICK k \in 1 .. n : t[k] = e
      BY DEF Members
    <3>2. k + m \in 1 .. Len(u) /\ u[k + m] = e
      BY <1>5, <3>1
    <3> QED
      BY <3>2 DEF Members
  <2> QED
    BY <2>1, <2>2, <2>3
<1>7. ASSUME Injective(s), Injective(t), Members(s) \cap Members(t) = {}
      PROVE  Injective(u)
  <2> SUFFICES ASSUME NEW j \in 1 .. Len(u), NEW k \in 1 .. Len(u), u[j] = u[k]
               PROVE  j = k
    BY DEF Injective
  <2>1. CASE j \in 1 .. m /\ u[j] = s[j] /\ k \in 1 .. m /\ u[k] = s[k]
    BY <1>7, <2>1 DEF Injective
  <2>2. CASE j - m \in 1 .. n /\ u[j] = t[j - m] /\ k - m \in 1 .. n /\ u[k] = t[k - m]
    <3>1. j - m = k - m
      BY <1>7, <2>2 DEF Injective
    <3> QED
      BY <1>1, <1>2, <3>1
  <2>3. ASSUME NEW a \in 1 .. m, NEW b \in 1 .. n, s[a] = t[b] PROVE FALSE
    BY <1>7, <2>3 DEF Members
  <2> QED
    BY <1>3, <2>1, <2>2, <2>3
<1> QED
  BY <1>2, <1>6, <1>7 DEF u

LEMMA Appended ==
    ASSUME NEW S, NEW s \in Seq(S), NEW e \in S
    PROVE  /\ Append(s, e) \in Seq(S)
           /\ Members(Append(s, e)) = Members(s) \cup {e}
           /\ Injective(s) /\ e \notin Members(s) => Injective(Append(s, e))
<1>1. Append(s, e) = s \o <<e>>
  BY AppendIsConcat
<1>2. <<e>> \in Seq(S) /\ Members(<<e>>) = {e} /\ Injective(<<e>>)
  BY OneHeld
<1> DEFINE t == <<e>>
<1> HIDE DEF t
<1>3. t \in Seq(S) /\ Members(t) = {e} /\ Injective(t)
  BY <1>2 DEF t
<1>4. /\ s \o t \in Seq(S)
      /\ Members(s \o t) = Members(s) \cup Members(t)
      /\ Injective(s) /\ Injective(t) /\ Members(s) \cap Members(t) = {} => Injective(s \o t)
  BY <1>3, Joined
<1>5. Append(s, e) = s \o t
  BY <1>1 DEF t
<1> QED
  BY <1>3, <1>4, <1>5

LEMMA HeadAndTail ==
    ASSUME NEW S, NEW s \in Seq(S), s # <<>>
    PROVE  /\ Head(s) \in Members(s)
           /\ Head(s) \in S
           /\ Tail(s) \in Seq(S)
           /\ Members(Tail(s)) \subseteq Members(s)
<1>1. /\ Len(s) \in Nat
      /\ Len(s) >= 1
      /\ Head(s) \in S
      /\ Tail(s) \in Seq(S)
      /\ Len(Tail(s)) = Len(s) - 1
      /\ \A k \in 1 .. Len(Tail(s)) : Tail(s)[k] = s[k + 1]
      /\ Head(s) = s[1]
  BY HeadTailProperties, EmptySeq, LenProperties
<1>2. /\ 1 \in 1 .. Len(s)
      /\ \A k \in 1 .. Len(Tail(s)) : k + 1 \in 1 .. Len(s)
  BY <1>1
<1> QED
  BY <1>1, <1>2 DEF Members

-----------------------------------------------------------------------------
(* Where an instruction is. *)

\* What the interface's composer is made of.
Key == Instruction \cup {Host}

\* The types, without the bounds on what grows.
TypingTypes ==
    /\ kind \in {"pty", "opencode"}
    /\ received \in 0 .. MaxInstructions
    /\ queue \in Seq(Instruction)
    /\ settling \in Seq(Instruction)
    /\ next \in [Instruction -> Instruction \cup {None}]
    /\ posting \in [Instruction -> {"no", "append", "submit"}]
    /\ composer \in Seq(Key)
    /\ prompts \in Seq(Seq(Key))
    /\ swallowed \in SUBSET Instruction
    /\ failed \in SUBSET Instruction

\* What waits for an earlier one of its batch.
Chained == {next[n] : n \in Instruction} \ {None}

Held == Members(queue) \cup Members(settling) \cup Chained

Gone == swallowed \cup failed

\* Every instruction that was received is in one place.
InOnePlace ==
    \A n \in Instruction :
        /\ n <= received <=> n \in Held \/ posting[n] = "append" \/ n \in Typed \/ n \in Gone
        /\ n \in Held => posting[n] # "append" /\ n \notin Typed /\ n \notin Gone
        /\ posting[n] = "append" => n \notin Typed /\ n \notin Gone
        /\ n \in Members(queue) => n \notin Members(settling) /\ n \notin Chained
        /\ n \in Members(settling) => n \notin Chained

\* What is being submitted was appended; what another one waits for is under way, or
\* waits itself.
UnderWay ==
    \A n \in Instruction :
        /\ posting[n] = "submit" => n \in Typed
        /\ next[n] # None => posting[n] # "no" \/ n \in Chained

\* Each is waited for by one, and held once.
WaitedForOnce ==
    /\ \A m, n \in Instruction : next[m] = next[n] /\ next[m] # None => m = n
    /\ Injective(queue)
    /\ Injective(settling)

\* What was submitted is in one prompt, and no longer in the composer.
SubmittedOnce ==
    /\ \A n \in Instruction : n \in Members(composer) => n \notin Submitted
    /\ \A j, k \in 1 .. Len(prompts) :
          j # k => Members(prompts[j]) \cap Members(prompts[k]) \subseteq {Host}

\* Nothing is typed before the start.
TypedAfterStart ==
    /\ swallowed # {} => started
    /\ settling # <<>> => started

TypingInv ==
    TypingTypes /\ InOnePlace /\ UnderWay /\ WaitedForOnce /\ SubmittedOnce /\ TypedAfterStart

LEMMA InitTyping == Init => TypingInv
<1> SUFFICES ASSUME Init PROVE TypingInv
  OBVIOUS
<1> USE TypingNumbers
<1>1. /\ queue = <<>> /\ settling = <<>> /\ composer = <<>> /\ prompts = <<>>
      /\ received = 0 /\ swallowed = {} /\ failed = {} /\ kind \in {"pty", "opencode"}
      /\ next = [n \in Instruction |-> None]
      /\ posting = [n \in Instruction |-> "no"]
  BY DEF Init
<1>2. Members(queue) = {} /\ Members(settling) = {} /\ Members(composer) = {}
      /\ Members(prompts) = {} /\ Injective(queue) /\ Injective(settling)
  BY <1>1, EmptyHolds
<1>3. Chained = {}
  BY <1>1 DEF Chained
<1>4. Typed = {}
  BY <1>2 DEF Typed, Submitted
<1>5. TypingTypes
  <2>1. /\ queue \in Seq(Instruction) /\ settling \in Seq(Instruction)
        /\ composer \in Seq(Key) /\ prompts \in Seq(Seq(Key))
    BY <1>1, EmptySeq
  <2>2. /\ next \in [Instruction -> Instruction \cup {None}]
        /\ posting \in [Instruction -> {"no", "append", "submit"}]
    BY <1>1
  <2>3. received \in 0 .. MaxInstructions
    BY <1>1
  <2> QED
    BY <1>1, <2>1, <2>2, <2>3 DEF TypingTypes
<1>6. InOnePlace
  BY <1>1, <1>2, <1>3, <1>4 DEF InOnePlace, Held, Gone
<1>7. UnderWay /\ WaitedForOnce
  BY <1>1, <1>2 DEF UnderWay, WaitedForOnce
<1>8. SubmittedOnce
  <2>1. 1 .. Len(prompts) = {}
    BY <1>1, EmptySeq
  <2> QED
    BY <1>2, <2>1 DEF SubmittedOnce
<1>9. TypedAfterStart
  BY <1>1 DEF TypedAfterStart
<1> QED
  BY <1>5, <1>6, <1>7, <1>8, <1>9 DEF TypingInv

\* A step that moves no instruction.
LEMMA NothingTyped ==
    ASSUME TypingInv, started => started',
           UNCHANGED <<kind, received, queue, settling, next, posting, composer, prompts, swallowed,
                       failed>>
    PROVE  TypingInv'
<1>1. TypingTypes' /\ TypedAfterStart'
  BY DEF TypingInv, TypingTypes, TypedAfterStart
<1>2. Typed' = Typed /\ Submitted' = Submitted /\ Chained' = Chained /\ Held' = Held
      /\ Gone' = Gone
  BY DEF Typed, Submitted, Chained, Held, Gone
<1>3. InOnePlace' /\ UnderWay'
  BY <1>2 DEF TypingInv, InOnePlace, UnderWay
<1>4. WaitedForOnce' /\ SubmittedOnce'
  BY <1>2 DEF TypingInv, WaitedForOnce, SubmittedOnce
<1> QED
  BY <1>1, <1>3, <1>4 DEF TypingInv

\* Enter moves what the composer holds into a prompt.
LEMMA Submits ==
    ASSUME TypingTypes, SubmittedOnce, Submit
    PROVE  /\ composer' \in Seq(Key) /\ prompts' \in Seq(Seq(Key))
           /\ Typed' = Typed
           /\ SubmittedOnce'
<1>1. CASE UNCHANGED <<prompts, composer>>
  BY <1>1 DEF TypingTypes, SubmittedOnce, Typed, Submitted
<1>2. CASE prompts' = Append(prompts, composer) /\ composer' = <<>>
  <2>1. composer \in Seq(Key) /\ prompts \in Seq(Seq(Key))
    BY DEF TypingTypes
  <2>2. /\ Len(prompts) \in Nat
        /\ prompts' \in Seq(Seq(Key))
        /\ Len(prompts') = Len(prompts) + 1
        /\ \A k \in 1 .. Len(prompts) : prompts'[k] = prompts[k]
        /\ prompts'[Len(prompts) + 1] = composer
    BY <1>2, <2>1, AppendProperties, LenProperties
  <2>3. Members(prompts') = Members(prompts) \cup {composer}
    BY <1>2, <2>1, Appended
  <2>4. Submitted' = Submitted \cup Members(composer)
    BY <2>3 DEF Submitted
  <2>5. composer' \in Seq(Key) /\ Members(composer') = {}
    BY <1>2, EmptyHolds, EmptySeq
  <2>6. Typed' = Typed
    BY <2>4, <2>5 DEF Typed
  <2>7. Members(composer) \cap Submitted \subseteq {Host}
    <3>1. Members(composer) \subseteq Key
      BY <2>1, HeldTyped
    <3> QED
      BY <3>1 DEF SubmittedOnce, Key
  <2>8. \A k \in 1 .. Len(prompts) : Members(prompts[k]) \subseteq Submitted
    BY DEF Submitted, Members
  <2>9. ASSUME NEW j \in 1 .. Len(prompts'), NEW k \in 1 .. Len(prompts'), j # k
        PROVE  Members(prompts'[j]) \cap Members(prompts'[k]) \subseteq {Host}
    <3>1. CASE j \in 1 .. Len(prompts) /\ k \in 1 .. Len(prompts)
      BY <2>2, <2>9, <3>1 DEF SubmittedOnce
    <3>2. CASE j \in 1 .. Len(prompts) /\ k = Len(prompts) + 1
      BY <2>2, <2>7, <2>8, <3>2
    <3>3. CASE j = Len(prompts) + 1 /\ k \in 1 .. Len(prompts)
      BY <2>2, <2>7, <2>8, <3>3
    <3> QED
      BY <2>2, <2>9, <3>1, <3>2, <3>3
  <2>10. SubmittedOnce'
    BY <2>5, <2>9 DEF SubmittedOnce
  <2> QED
    BY <2>2, <2>5, <2>6, <2>10
<1> QED
  BY <1>1, <1>2 DEF Submit

-----------------------------------------------------------------------------
(* Typing a batch. *)

\* Typing a batch puts each of it in one place and moves nothing else.
Typing(batch) ==
    /\ composer' \in Seq(Key)
    /\ swallowed' \in SUBSET Instruction
    /\ posting' \in [Instruction -> {"no", "append", "submit"}]
    /\ next' = next
    /\ \A n \in Instruction :
          IF n \in Members(batch)
          THEN \/ /\ posting'[n] = "append"
                  /\ n \in Members(composer') <=> n \in Members(composer)
                  /\ n \in swallowed' <=> n \in swallowed
               \/ /\ posting'[n] = posting[n]
                  /\ n \in Members(composer')
                  /\ n \in swallowed' <=> n \in swallowed
               \/ /\ posting'[n] = posting[n]
                  /\ n \in Members(composer') <=> n \in Members(composer)
                  /\ n \in swallowed'
          ELSE /\ posting'[n] = posting[n]
               /\ n \in Members(composer') <=> n \in Members(composer)
               /\ n \in swallowed' <=> n \in swallowed

LEMMA InjectTypes ==
    ASSUME TypingTypes, NEW batch \in Seq(Instruction), Inject(batch)
    PROVE  Typing(batch)
<1>1. Members(batch) \subseteq Instruction
  BY HeldTyped
<1>2. CASE PtyInject(batch) /\ screen = "composer"
  <2>1. composer' = composer \o batch /\ swallowed' = swallowed
        /\ UNCHANGED <<next, posting>>
    BY <1>2 DEF PtyInject
  <2>2. composer \in Seq(Key) /\ batch \in Seq(Key)
    <3>1. Instruction \subseteq Key
      BY DEF Key
    <3> QED
      BY <3>1, SeqMonotonic DEF TypingTypes
  <2>3. composer' \in Seq(Key) /\ Members(composer') = Members(composer) \cup Members(batch)
    BY <2>1, <2>2, Joined
  <2> QED
    BY <2>1, <2>3 DEF Typing, TypingTypes
<1>3. CASE PtyInject(batch) /\ screen # "composer"
  <2>1. composer' = composer /\ swallowed' = swallowed \cup Members(batch)
        /\ UNCHANGED <<next, posting>>
    BY <1>3 DEF PtyInject
  <2> QED
    BY <1>1, <2>1 DEF Typing, TypingTypes
<1>4. CASE OpencodeInject(Members(batch)) /\ UNCHANGED next
  <2>1. /\ posting' = [n \in Instruction |-> IF n \in Members(batch) THEN "append" ELSE posting[n]]
        /\ UNCHANGED <<composer, swallowed, next>>
    BY <1>4 DEF OpencodeInject
  <2>2. posting' \in [Instruction -> {"no", "append", "submit"}]
    BY <2>1 DEF TypingTypes
  <2>3. \A n \in Instruction : posting'[n] = IF n \in Members(batch) THEN "append" ELSE posting[n]
    BY <2>1
  <2> QED
    BY <2>1, <2>2, <2>3 DEF Typing, TypingTypes
<1> QED
  BY <1>2, <1>3, <1>4 DEF Inject

\* A batch that was just received, or is taken from where it was held.
Released(batch) ==
    /\ batch \in Seq(Instruction)
    /\ received' \in 0 .. MaxInstructions
    /\ queue' \in Seq(Instruction) /\ Injective(queue')
    /\ settling' \in Seq(Instruction) /\ Injective(settling')
    /\ UNCHANGED <<kind, prompts, failed, started>>
    /\ started
    /\ \A n \in Instruction :
          /\ n \in Members(queue') <=> n \in Members(queue) /\ n \notin Members(batch)
          /\ n \in Members(settling') <=> n \in Members(settling) /\ n \notin Members(batch)
          /\ n <= received' <=> n <= received \/ n \in Members(batch)
          /\ n \in Members(batch) =>
                n \notin Chained /\ posting[n] # "append" /\ n \notin Typed /\ n \notin Gone

LEMMA TypedKeeps ==
    ASSUME TypingInv, NEW batch, Released(batch), Typing(batch)
    PROVE  TypingInv'
<1>1. TypingTypes'
  BY DEF TypingInv, TypingTypes, Typing, Released
<1>2. Chained' = Chained /\ Submitted' = Submitted
  BY DEF Typing, Released, Chained, Submitted
<1>3. SubmittedOnce'
  <2>1. ASSUME NEW n \in Instruction, n \in Members(composer') PROVE n \notin Submitted'
    <3>1. CASE n \in Members(batch)
      BY <1>2, <3>1 DEF Released, Typed
    <3>2. CASE n \notin Members(batch)
      BY <1>2, <2>1, <3>2 DEF Typing, TypingInv, SubmittedOnce
    <3> QED
      BY <3>1, <3>2
  <2> QED
    BY <2>1 DEF SubmittedOnce, TypingInv, Released
<1>4. TypedAfterStart'
  BY DEF TypedAfterStart, Released
<1>5. WaitedForOnce'
  BY DEF WaitedForOnce, TypingInv, Released, Typing
<1>6. ASSUME NEW n \in Instruction
      PROVE  /\ n \in Held' <=> n \in Held /\ n \notin Members(batch)
             /\ n \in Typed' <=> n \in Members(composer') \/ n \in Submitted
             /\ n \in Typed <=> n \in Members(composer) \/ n \in Submitted
             /\ n \in Gone' <=> n \in swallowed' \/ n \in failed
             /\ n \in Gone <=> n \in swallowed \/ n \in failed
  BY <1>2 DEF Held, Typed, Gone, Released
<1>7. InOnePlace'
  <2> SUFFICES ASSUME NEW n \in Instruction
               PROVE  /\ n <= received' <=> \/ n \in Held' \/ posting'[n] = "append"
                                            \/ n \in Typed' \/ n \in Gone'
                      /\ n \in Held' => posting'[n] # "append" /\ n \notin Typed' /\ n \notin Gone'
                      /\ posting'[n] = "append" => n \notin Typed' /\ n \notin Gone'
                      /\ n \in Members(queue') => n \notin Members(settling') /\ n \notin Chained'
                      /\ n \in Members(settling') => n \notin Chained'
    BY DEF InOnePlace
  <2>1. /\ n \in Members(queue') => n \in Members(queue)
        /\ n \in Members(settling') => n \in Members(settling)
        /\ n <= received' <=> n <= received \/ n \in Members(batch)
    BY DEF Released
  <2>2. /\ n <= received <=> \/ n \in Held \/ posting[n] = "append"
                             \/ n \in Typed \/ n \in Gone
        /\ n \in Held => posting[n] # "append" /\ n \notin Typed /\ n \notin Gone
        /\ posting[n] = "append" => n \notin Typed /\ n \notin Gone
        /\ n \in Members(queue) => n \notin Members(settling) /\ n \notin Chained
        /\ n \in Members(settling) => n \notin Chained
    BY DEF TypingInv, InOnePlace
  <2>3. CASE n \in Members(batch)
    <3>1. posting[n] # "append" /\ n \notin Typed /\ n \notin Gone
      BY <2>3 DEF Released
    <3>2. \/ /\ posting'[n] = "append"
             /\ n \in Members(composer') <=> n \in Members(composer)
             /\ n \in swallowed' <=> n \in swallowed
          \/ /\ posting'[n] = posting[n]
             /\ n \in Members(composer')
          \/ /\ posting'[n] = posting[n]
             /\ n \in swallowed'
      BY <2>3 DEF Typing
    <3> QED
      BY <1>2, <1>6, <2>1, <2>2, <2>3, <3>1, <3>2
  <2>4. CASE n \notin Members(batch)
    <3>1. /\ posting'[n] = posting[n]
          /\ n \in Members(composer') <=> n \in Members(composer)
          /\ n \in swallowed' <=> n \in swallowed
      BY <2>4 DEF Typing
    <3> QED
      BY <1>2, <1>6, <2>1, <2>2, <2>4, <3>1
  <2> QED
    BY <2>3, <2>4
<1>8. UnderWay'
  <2> SUFFICES ASSUME NEW n \in Instruction
               PROVE  /\ posting'[n] = "submit" => n \in Typed'
                      /\ next'[n] # None => posting'[n] # "no" \/ n \in Chained'
    BY DEF UnderWay
  <2>1. /\ posting'[n] = "append" \/ posting'[n] = posting[n]
        /\ n \in Members(composer) => n \in Members(composer')
        /\ next' = next
    BY DEF Typing
  <2>2. /\ posting[n] = "submit" => n \in Typed
        /\ next[n] # None => posting[n] # "no" \/ n \in Chained
    BY DEF TypingInv, UnderWay
  <2> QED
    BY <1>2, <1>6, <2>1, <2>2
<1> QED
  BY <1>1, <1>3, <1>4, <1>5, <1>7, <1>8 DEF TypingInv

\* Nothing that waits, was typed or is gone is held in the queue or waits for the delay.
LEMMA HeldApart ==
    ASSUME TypingInv
    PROVE  /\ \A n \in Members(queue) \cup Members(settling) :
                 n \in Instruction /\ n <= received
                 /\ n \notin Chained /\ posting[n] # "append" /\ n \notin Typed /\ n \notin Gone
           /\ \A n \in Members(queue) : n \notin Members(settling)
           /\ \A n \in Instruction : n > received =>
                 /\ n \notin Members(queue) /\ n \notin Members(settling) /\ n \notin Chained
                 /\ posting[n] # "append" /\ n \notin Typed /\ n \notin Gone
<1>1. Members(queue) \subseteq Instruction /\ Members(settling) \subseteq Instruction
  BY HeldTyped DEF TypingInv, TypingTypes
<1>2. received \in Nat
  BY TypingNumbers DEF TypingInv, TypingTypes
<1>3. \A n \in Instruction : n > received => ~(n <= received)
  BY <1>2, TypingNumbers
<1> QED
  BY <1>1, <1>3 DEF TypingInv, InOnePlace, Held

LEMMA SettleTypes ==
    ASSUME TypingInv, Settle
    PROVE  Released(settling) /\ Typing(settling)
<1>1. /\ settling # <<>> /\ settling' = <<>> /\ Inject(settling)
      /\ UNCHANGED <<kind, received, queue, started, prompts, failed>>
  BY DEF Settle
<1>2. Members(settling') = {} /\ Injective(settling') /\ settling' \in Seq(Instruction)
  BY <1>1, EmptyHolds, EmptySeq
<1>3. Released(settling)
  BY <1>1, <1>2, HeldApart DEF Released, TypingInv, TypingTypes, WaitedForOnce, TypedAfterStart
<1>4. Typing(settling)
  BY <1>1, InjectTypes DEF TypingInv, TypingTypes
<1> QED
  BY <1>3, <1>4

LEMMA SettleKeeps == TypingInv /\ Settle => TypingInv'
BY SettleTypes, TypedKeeps

\* What a step that types nothing may do to what is held: add what was received to
\* the queue, or empty the queue into what waits for the delay.
LEMMA HeldOn ==
    ASSUME TypingInv,
           received' \in 0 .. MaxInstructions,
           queue' \in Seq(Instruction), Injective(queue'),
           settling' \in Seq(Instruction), Injective(settling'),
           settling' # <<>> => started', started => started',
           UNCHANGED <<kind, next, posting, composer, prompts, swallowed, failed>>,
           \A n \in Instruction :
              /\ n \in Members(queue') => n \notin Members(settling')
              /\ n \in Members(queue') \/ n \in Members(settling') <=>
                    \/ n \in Members(queue) \/ n \in Members(settling)
                    \/ n <= received' /\ n > received
              /\ n <= received => n <= received'
    PROVE  TypingInv'
<1>1. TypingTypes' /\ TypedAfterStart'
  BY DEF TypingInv, TypingTypes, TypedAfterStart
<1>2. Typed' = Typed /\ Submitted' = Submitted /\ Chained' = Chained /\ Gone' = Gone
  BY DEF Typed, Submitted, Chained, Gone
<1>3. UnderWay'
  BY <1>2 DEF TypingInv, UnderWay
<1>4. WaitedForOnce' /\ SubmittedOnce'
  BY <1>2 DEF TypingInv, WaitedForOnce, SubmittedOnce
<1>5. InOnePlace'
  <2> SUFFICES ASSUME NEW n \in Instruction
               PROVE  /\ n <= received' <=> \/ n \in Held' \/ posting[n] = "append"
                                            \/ n \in Typed \/ n \in Gone
                      /\ n \in Held' => posting[n] # "append" /\ n \notin Typed /\ n \notin Gone
                      /\ posting[n] = "append" => n \notin Typed /\ n \notin Gone
                      /\ n \in Members(queue') => n \notin Members(settling') /\ n \notin Chained
                      /\ n \in Members(settling') => n \notin Chained
    BY <1>2 DEF InOnePlace
  <2>1. n <= received \/ n > received
    BY TypingNumbers DEF TypingInv, TypingTypes
  <2>2. /\ n <= received <=> \/ n \in Held \/ posting[n] = "append"
                             \/ n \in Typed \/ n \in Gone
        /\ n \in Held => posting[n] # "append" /\ n \notin Typed /\ n \notin Gone
        /\ posting[n] = "append" => n \notin Typed /\ n \notin Gone
    BY DEF TypingInv, InOnePlace
  <2>3. /\ n \in Members(queue) \/ n \in Members(settling) => n \notin Chained
        /\ n > received => /\ n \notin Chained
                           /\ posting[n] # "append" /\ n \notin Typed /\ n \notin Gone
    BY HeldApart
  <2>4. n \in Members(queue') \/ n \in Members(settling') =>
            n \notin Chained /\ posting[n] # "append" /\ n \notin Typed /\ n \notin Gone
    BY HeldApart, <2>3
  <2>5. n \in Held' <=> n \in Held \/ (n <= received' /\ n > received)
    BY <1>2 DEF Held
  <2> QED
    BY <1>2, <2>1, <2>2, <2>3, <2>4, <2>5 DEF Held
<1> QED
  BY <1>1, <1>3, <1>4, <1>5 DEF TypingInv

\* MarkSessionStarted takes what was held.
LEMMA MarkStartedKeeps ==
    ASSUME TypingInv, MarkSessionStarted
    PROVE  TypingInv'
<1>1. CASE ~started /\ ~paused
  <2>1. /\ started' = TRUE /\ settling' = queue /\ queue' = <<>>
        /\ UNCHANGED <<kind, received, next, posting, composer, prompts, swallowed, failed>>
    BY <1>1 DEF MarkSessionStarted, interface
  <2>2. settling = <<>>
    BY <1>1 DEF TypingInv, TypedAfterStart
  <2>3. Members(settling) = {} /\ Members(queue') = {} /\ Injective(queue')
        /\ queue' \in Seq(Instruction)
    BY <2>1, <2>2, EmptyHolds, EmptySeq
  <2>4. \A n \in Instruction : ~(n <= received' /\ n > received)
    BY <2>1, TypingNumbers DEF TypingInv, TypingTypes
  <2> QED
    BY <2>1, <2>3, <2>4, HeldOn DEF TypingInv, TypingTypes, WaitedForOnce
<1>2. CASE started \/ paused
  <2>1. /\ started' = TRUE
        /\ UNCHANGED <<kind, received, queue, settling, next, posting, composer, prompts, swallowed,
                       failed>>
    BY <1>2 DEF MarkSessionStarted, interface
  <2> QED
    BY <2>1, NothingTyped
<1> QED
  BY <1>1, <1>2

\* What is received now is in no place yet.
LEMMA ReceivedIsNew ==
    ASSUME TypingInv, ReceiveInstruction, NEW i, i = received'
    PROVE  /\ UNCHANGED <<kind, started, settling, prompts, failed>>
           /\ i \in Instruction /\ i > received /\ received' \in 0 .. MaxInstructions
           /\ \A n \in Instruction : /\ n <= received' <=> n <= received \/ n = i
                                     /\ n <= received' /\ n > received <=> n = i
           /\ i \notin Members(queue) /\ i \notin Members(settling) /\ i \notin Chained
           /\ posting[i] # "append" /\ i \notin Typed /\ i \notin Gone
<1>1. /\ received < MaxInstructions
      /\ received' = received + 1
      /\ UNCHANGED <<kind, started, settling, prompts, failed>>
  BY DEF ReceiveInstruction
<1>2. /\ i \in Instruction /\ i > received /\ received' \in 0 .. MaxInstructions
      /\ \A n \in Instruction : /\ n <= received' <=> n <= received \/ n = i
                                /\ n <= received' /\ n > received <=> n = i
  BY <1>1, TypingNumbers DEF TypingInv, TypingTypes
<1> QED
  BY <1>1, <1>2, HeldApart

\* It is held in the queue,
LEMMA ReceiveHolds ==
    ASSUME TypingInv, ReceiveInstruction, NEW i, i = received', queue' = Append(queue, i)
    PROVE  /\ queue' \in Seq(Instruction)
           /\ Members(queue') = Members(queue) \cup {i}
           /\ Injective(queue')
<1>1. queue \in Seq(Instruction) /\ Injective(queue)
  BY DEF TypingInv, TypingTypes, WaitedForOnce
<1> QED
  BY <1>1, ReceivedIsNew, Appended

\* or typed at once.
LEMMA ReceiveTypes ==
    ASSUME TypingInv, ReceiveInstruction, started, UNCHANGED queue,
           NEW i, i = received', NEW batch, batch = <<i>>, Inject(batch)
    PROVE  /\ Released(batch) /\ Typing(batch)
           /\ Injective(batch) /\ Members(batch) = {i}
<1>1. /\ UNCHANGED <<kind, started, settling, prompts, failed>>
      /\ i \in Instruction /\ i > received /\ received' \in 0 .. MaxInstructions
      /\ \A n \in Instruction : n <= received' <=> n <= received \/ n = i
      /\ i \notin Members(queue) /\ i \notin Members(settling) /\ i \notin Chained
      /\ posting[i] # "append" /\ i \notin Typed /\ i \notin Gone
  BY ReceivedIsNew
<1>2. batch \in Seq(Instruction) /\ Members(batch) = {i} /\ Injective(batch)
  BY <1>1, OneHeld
<1>3. Typing(batch)
  BY <1>2, InjectTypes DEF TypingInv
<1>4. /\ queue' \in Seq(Instruction) /\ Injective(queue')
      /\ settling' \in Seq(Instruction) /\ Injective(settling')
  BY <1>1 DEF TypingInv, TypingTypes, WaitedForOnce
<1>5. \A n \in Instruction : n \in Members(batch) <=> n = i
  BY <1>2
<1>6. Released(batch)
  BY <1>1, <1>2, <1>4, <1>5 DEF Released
<1> QED
  BY <1>2, <1>3, <1>6

LEMMA ReceiveKeeps ==
    ASSUME TypingInv, ReceiveInstruction
    PROVE  TypingInv'
<1> DEFINE i == received'
           batch == <<i>>
<1>a. i = received' /\ batch = <<i>>
  OBVIOUS
<1>b. \/ queue' = Append(queue, i) /\ Untouched
      \/ started /\ Inject(batch) /\ UNCHANGED queue
  BY DEF ReceiveInstruction
<1> HIDE DEF i, batch
<1>1. /\ UNCHANGED <<kind, started, settling, prompts, failed>>
      /\ i \in Instruction /\ i > received /\ received' \in 0 .. MaxInstructions
      /\ \A n \in Instruction : /\ n <= received' <=> n <= received \/ n = i
                                /\ n <= received' /\ n > received <=> n = i
      /\ i \notin Members(queue) /\ i \notin Members(settling)
  BY <1>a, ReceivedIsNew
<1>2. CASE queue' = Append(queue, i) /\ Untouched
  <2>1. /\ queue' \in Seq(Instruction)
        /\ Members(queue') = Members(queue) \cup {i}
        /\ Injective(queue')
    BY <1>a, <1>2, ReceiveHolds
  <2>2. UNCHANGED <<next, posting, composer, swallowed>>
    BY <1>2 DEF Untouched
  <2>3. /\ settling' \in Seq(Instruction) /\ Injective(settling')
        /\ settling' # <<>> => started'
    BY <1>1 DEF TypingInv, TypingTypes, WaitedForOnce, TypedAfterStart
  <2>4. \A n \in Instruction : n \in Members(queue) => n \notin Members(settling)
    BY HeldApart
  <2>5. \A n \in Instruction :
           /\ n \in Members(queue') => n \notin Members(settling')
           /\ n \in Members(queue') \/ n \in Members(settling') <=>
                 \/ n \in Members(queue) \/ n \in Members(settling)
                 \/ n <= received' /\ n > received
           /\ n <= received => n <= received'
    <3>1. settling' = settling
      BY <1>1
    <3> QED
      BY <1>1, <2>1, <2>4, <3>1
  <2> QED
    BY <1>1, <2>1, <2>2, <2>3, <2>5, HeldOn
<1>3. CASE started /\ Inject(batch) /\ UNCHANGED queue
  BY <1>a, <1>3, ReceiveTypes, TypedKeeps
<1> QED
  BY <1>b, <1>2, <1>3

-----------------------------------------------------------------------------
(* opencode's batches: each waits for the one before it. *)

\* The first of a resumed queue is under way, each of the others waits for the one
\* before it.
LEMMA QueueChained ==
    ASSUME TypingInv, OpencodeResumeQueue, queue # <<>>
    PROVE  /\ next' \in [Instruction -> Instruction \cup {None}]
           /\ \A n \in Instruction : n \in Chained' <=>
                 n \in Chained \/ (n \in Members(queue) /\ n # Head(queue))
           /\ \A m, n \in Instruction : next'[m] = next'[n] /\ next'[m] # None => m = n
           /\ \A n \in Instruction : next'[n] # None => n \in Members(queue) \/ next[n] # None
           /\ Head(queue) \in Members(queue)
<1> USE TypingNumbers
<1> DEFINE q == queue
           Waits(n) == \E k \in 1 .. Len(q) - 1 : q[k] = n
           After(n) == q[CHOOSE k \in 2 .. Len(q) : q[k - 1] = n]
           Following(n) == IF Waits(n) THEN After(n) ELSE next[n]
<1>1. /\ q \in Seq(Instruction) /\ Injective(q)
      /\ next \in [Instruction -> Instruction \cup {None}]
  BY DEF TypingInv, TypingTypes, WaitedForOnce
<1>2. /\ Len(q) \in Nat /\ Len(q) >= 1
      /\ \A k \in 1 .. Len(q) : q[k] \in Instruction /\ q[k] \in Members(q)
      /\ Head(q) = q[1] /\ Head(q) \in Members(q)
  <2>1. Len(q) \in Nat \ {0}
    BY <1>1, EmptySeq
  <2>2. \A k \in 1 .. Len(q) : q[k] \in Instruction /\ q[k] \in Members(q)
    BY <1>1, ElementOfSeq DEF Members
  <2>3. Head(q) = q[1]
    BY <1>1, HeadTailProperties
  <2> QED
    BY <2>1, <2>2, <2>3
<1>3. next' = [n \in Instruction |-> Following(n)]
  BY DEF OpencodeResumeQueue
<1>4. ASSUME NEW k \in 1 .. Len(q) - 1
      PROVE  After(q[k]) = q[k + 1] /\ k + 1 \in 1 .. Len(q)
  <2>1. k \in 1 .. Len(q) /\ k + 1 \in 2 .. Len(q) /\ (k + 1) - 1 = k
    BY <1>2
  <2> DEFINE c == CHOOSE j \in 2 .. Len(q) : q[j - 1] = q[k]
  <2>2. c \in 2 .. Len(q) /\ q[c - 1] = q[k]
    <3>1. \E j \in 2 .. Len(q) : q[j - 1] = q[k]
      BY <2>1
    <3> QED
      BY <3>1
  <2>a. After(q[k]) = q[c]
    OBVIOUS
  <2> HIDE DEF c, After
  <2>3. c - 1 \in 1 .. Len(q)
    BY <1>2, <2>2
  <2>4. c - 1 = k
    BY <1>1, <2>1, <2>2, <2>3 DEF Injective
  <2>5. c = k + 1
    BY <1>2, <2>2, <2>4
  <2> QED
    BY <1>2, <2>1, <2>5, <2>a
<1> HIDE DEF q, After
<1>5. ASSUME NEW k \in 1 .. Len(q) - 1
      PROVE  q[k] \in Instruction /\ next'[q[k]] = q[k + 1] /\ q[k + 1] \in Instruction
  <2>1. k \in 1 .. Len(q) /\ k + 1 \in 1 .. Len(q)
    BY <1>2
  <2>2. Waits(q[k])
    OBVIOUS
  <2> HIDE DEF Waits
  <2>3. q[k] \in Instruction /\ q[k + 1] \in Instruction
    BY <1>2, <2>1
  <2>4. next'[q[k]] = After(q[k])
    BY <1>3, <2>2, <2>3
  <2> QED
    BY <1>4, <2>3, <2>4
<1>6. ASSUME NEW n \in Instruction, ~Waits(n) PROVE next'[n] = next[n]
  <2> HIDE DEF Waits
  <2> QED
    BY <1>3, <1>6
<1>7. ASSUME NEW n \in Members(q) PROVE n \in Instruction /\ next[n] = None /\ n \notin Chained
  <2>1. /\ n \in Instruction /\ n \notin Chained /\ posting[n] # "append" /\ n \notin Typed
    BY HeldApart DEF q
  <2>2. posting[n] = "no"
    BY <2>1 DEF TypingInv, TypingTypes, UnderWay
  <2> QED
    BY <2>1, <2>2 DEF TypingInv, UnderWay
<1>8. next' \in [Instruction -> Instruction \cup {None}]
  <2>1. \A n \in Instruction : next'[n] \in Instruction \cup {None}
    <3> SUFFICES ASSUME NEW n \in Instruction PROVE next'[n] \in Instruction \cup {None}
      OBVIOUS
    <3>1. CASE Waits(n)
      <4>1. PICK k \in 1 .. Len(q) - 1 : q[k] = n
        BY <3>1
      <4> QED
        BY <1>5, <4>1
    <3>2. CASE ~Waits(n)
      BY <1>1, <1>6, <3>2
    <3> QED
      BY <3>1, <3>2
  <2> HIDE DEF Following
  <2>2. \A n \in Instruction : Following(n) \in Instruction \cup {None}
    BY <1>3, <2>1
  <2> QED
    BY <1>3, <2>2
<1>9. ASSUME NEW n \in Instruction, Waits(n)
      PROVE  /\ n \in Members(q)
             /\ next[n] = None
             /\ next'[n] \in Members(q) /\ next'[n] # Head(q)
  <2>1. PICK k \in 1 .. Len(q) - 1 : q[k] = n
    BY <1>9
  <2>2. /\ k \in 1 .. Len(q) /\ k + 1 \in 1 .. Len(q) /\ 1 \in 1 .. Len(q) /\ k + 1 # 1
    BY <1>2
  <2>3. next'[n] = q[k + 1]
    BY <1>5, <2>1
  <2>4. q[k + 1] # q[1]
    BY <1>1, <2>2 DEF Injective
  <2> QED
    BY <1>2, <1>7, <2>1, <2>2, <2>3, <2>4
<1>10. ASSUME NEW n \in Instruction
       PROVE  n \in Chained' <=> n \in Chained \/ (n \in Members(q) /\ n # Head(q))
  <2>1. ASSUME n \in Chained' PROVE n \in Chained \/ (n \in Members(q) /\ n # Head(q))
    <3>1. PICK m \in Instruction : next'[m] = n /\ n # None
      BY <2>1 DEF Chained
    <3>2. CASE Waits(m)
      BY <1>9, <3>1, <3>2
    <3>3. CASE ~Waits(m)
      BY <1>6, <3>1, <3>3 DEF Chained
    <3> QED
      BY <3>2, <3>3
  <2>2. ASSUME n \in Chained PROVE n \in Chained'
    <3>1. PICK m \in Instruction : next[m] = n /\ n # None
      BY <2>2 DEF Chained
    <3>2. ~Waits(m)
      BY <1>9, <3>1
    <3> QED
      BY <1>6, <3>1, <3>2 DEF Chained
  <2>3. ASSUME n \in Members(q), n # Head(q) PROVE n \in Chained'
    <3>1. PICK k \in 1 .. Len(q) : q[k] = n
      BY <2>3 DEF Members
    <3>2. k # 1
      BY <1>2, <2>3, <3>1
    <3>3. k - 1 \in 1 .. Len(q) - 1 /\ (k - 1) + 1 = k
      BY <1>2, <3>2
    <3>4. q[k - 1] \in Instruction /\ next'[q[k - 1]] = n
      BY <1>5, <3>1, <3>3
    <3> QED
      BY <3>4 DEF Chained
  <2> QED
    BY <2>1, <2>2, <2>3
<1>11. ASSUME NEW m \in Instruction, NEW n \in Instruction,
              next'[m] = next'[n], next'[m] # None
       PROVE  m = n
  <2>1. CASE Waits(m) /\ Waits(n)
    <3>1. PICK j \in 1 .. Len(q) - 1 : q[j] = m
      BY <2>1
    <3>2. PICK k \in 1 .. Len(q) - 1 : q[k] = n
      BY <2>1
    <3>3. q[j + 1] = q[k + 1] /\ j + 1 \in 1 .. Len(q) /\ k + 1 \in 1 .. Len(q)
      BY <1>2, <1>5, <1>11, <3>1, <3>2
    <3>4. j + 1 = k + 1
      BY <1>1, <3>3 DEF Injective
    <3> QED
      BY <3>1, <3>2, <3>4
  <2>2. CASE ~Waits(m) /\ ~Waits(n)
    BY <1>6, <1>11, <2>2 DEF TypingInv, WaitedForOnce
  <2>3. ASSUME NEW x \in Instruction, NEW y \in Instruction,
               Waits(x), ~Waits(y), next'[x] = next'[y], next'[y] # None
        PROVE  FALSE
    <3>1. next'[x] \in Members(q)
      BY <1>9, <2>3
    <3>2. next[y] = next'[y]
      BY <1>6, <2>3
    <3>3. next[y] \in Chained
      BY <2>3, <3>2 DEF Chained
    <3> QED
      BY <1>7, <2>3, <3>1, <3>2, <3>3
  <2> HIDE DEF Waits
  <2> QED
    BY <1>11, <2>1, <2>2, <2>3
<1>12. ASSUME NEW n \in Instruction, next'[n] # None PROVE n \in Members(q) \/ next[n] # None
  <2>1. CASE Waits(n)
    BY <1>9, <2>1
  <2>2. CASE ~Waits(n)
    BY <1>6, <1>12, <2>2
  <2> QED
    BY <2>1, <2>2
<1> QED
  BY <1>2, <1>8, <1>10, <1>11, <1>12 DEF q

LEMMA ResumeQueueKeeps ==
    ASSUME TypingInv, OpencodeResumeQueue, queue # <<>>, queue' = <<>>,
           UNCHANGED <<kind, received, settling, started, prompts, failed>>
    PROVE  TypingInv'
<1> DEFINE h == Head(queue)
<1> HIDE DEF h
<1>1. /\ next' \in [Instruction -> Instruction \cup {None}]
      /\ \A n \in Instruction : n \in Chained' <=>
            n \in Chained \/ (n \in Members(queue) /\ n # h)
      /\ \A m, n \in Instruction : next'[m] = next'[n] /\ next'[m] # None => m = n
      /\ \A n \in Instruction : next'[n] # None => n \in Members(queue) \/ next[n] # None
      /\ h \in Members(queue)
  BY QueueChained DEF h
<1>2. /\ h \in Instruction
      /\ \A n \in Members(queue) :
            /\ n \in Instruction /\ n <= received /\ n \notin Members(settling)
            /\ n \notin Chained /\ posting[n] # "append" /\ n \notin Typed /\ n \notin Gone
  BY <1>1, HeldApart
<1>3. /\ posting' = [n \in Instruction |-> IF n = h THEN "append" ELSE posting[n]]
      /\ UNCHANGED <<composer, swallowed>>
  BY DEF OpencodeResumeQueue, OpencodeInject, h
<1>4. /\ posting' \in [Instruction -> {"no", "append", "submit"}]
      /\ \A n \in Instruction : posting'[n] = IF n = h THEN "append" ELSE posting[n]
  <2>1. posting \in [Instruction -> {"no", "append", "submit"}]
    BY DEF TypingInv, TypingTypes
  <2> QED
    BY <1>3, <2>1
<1>5. queue' \in Seq(Instruction) /\ Members(queue') = {} /\ Injective(queue')
  BY EmptyHolds, EmptySeq
<1>6. Typed' = Typed /\ Submitted' = Submitted /\ Gone' = Gone
  BY <1>3 DEF Typed, Submitted, Gone
<1>7. TypingTypes' /\ TypedAfterStart'
  BY <1>1, <1>3, <1>4, <1>5 DEF TypingInv, TypingTypes, TypedAfterStart
<1>8. WaitedForOnce' /\ SubmittedOnce'
  BY <1>1, <1>3, <1>5, <1>6 DEF TypingInv, WaitedForOnce, SubmittedOnce
<1>9. ASSUME NEW n \in Instruction
      PROVE  n \in Held' <=> n \in Members(settling) \/ n \in Chained'
  BY <1>5 DEF Held
<1>10. InOnePlace'
  <2> SUFFICES ASSUME NEW n \in Instruction
               PROVE  /\ n <= received <=> \/ n \in Held' \/ posting'[n] = "append"
                                           \/ n \in Typed \/ n \in Gone
                      /\ n \in Held' => posting'[n] # "append" /\ n \notin Typed /\ n \notin Gone
                      /\ posting'[n] = "append" => n \notin Typed /\ n \notin Gone
                      /\ n \notin Members(queue')
                      /\ n \in Members(settling) => n \notin Chained'
    BY <1>6 DEF InOnePlace
  <2>1. /\ n <= received <=> \/ n \in Held \/ posting[n] = "append"
                             \/ n \in Typed \/ n \in Gone
        /\ n \in Held => posting[n] # "append" /\ n \notin Typed /\ n \notin Gone
        /\ posting[n] = "append" => n \notin Typed /\ n \notin Gone
        /\ n \in Members(settling) => n \notin Chained
    BY DEF TypingInv, InOnePlace
  <2>2. n \in Held <=> n \in Members(queue) \/ n \in Members(settling) \/ n \in Chained
    BY DEF Held
  <2>3. CASE n = h
    BY <1>1, <1>2, <1>4, <1>5, <1>9, <2>1, <2>2, <2>3
  <2>4. CASE n # h
    BY <1>1, <1>2, <1>4, <1>5, <1>9, <2>1, <2>2, <2>4
  <2> QED
    BY <2>3, <2>4
<1>11. UnderWay'
  <2> SUFFICES ASSUME NEW n \in Instruction
               PROVE  /\ posting'[n] = "submit" => n \in Typed
                      /\ next'[n] # None => posting'[n] # "no" \/ n \in Chained'
    BY <1>6 DEF UnderWay
  <2>1. /\ posting[n] = "submit" => n \in Typed
        /\ next[n] # None => posting[n] # "no" \/ n \in Chained
    BY DEF TypingInv, UnderWay
  <2> QED
    BY <1>1, <1>4, <2>1
<1> QED
  BY <1>7, <1>8, <1>10, <1>11 DEF TypingInv

\* The others type what was held in one go.
LEMMA ResumeTypes ==
    ASSUME TypingInv, Resume, started, queue # <<>>, kind = "pty"
    PROVE  Released(queue) /\ Typing(queue)
<1>1. /\ queue' = <<>> /\ Inject(queue)
      /\ UNCHANGED <<kind, received, settling, started, prompts, failed>>
  BY DEF Resume
<1>2. queue' \in Seq(Instruction) /\ Members(queue') = {} /\ Injective(queue')
  BY <1>1, EmptyHolds, EmptySeq
<1>3. Typing(queue)
  BY <1>1, InjectTypes DEF TypingInv, TypingTypes
<1>4. /\ queue \in Seq(Instruction) /\ received' \in 0 .. MaxInstructions
      /\ settling' \in Seq(Instruction) /\ Injective(settling')
  BY <1>1 DEF TypingInv, TypingTypes, WaitedForOnce
<1>5. Released(queue)
  BY <1>1, <1>2, <1>4, HeldApart DEF Released
<1> QED
  BY <1>3, <1>5

LEMMA ResumeKeeps ==
    ASSUME TypingInv, Resume
    PROVE  TypingInv'
<1>1. UNCHANGED <<kind, received, settling, started, prompts, failed>>
  BY DEF Resume
<1>2. CASE ~started \/ queue = <<>>
  <2>1. UNCHANGED <<queue, next, posting, composer, swallowed>>
    BY <1>2 DEF Resume, Untouched
  <2> QED
    BY <1>1, <2>1, NothingTyped
<1>3. CASE started /\ queue # <<>> /\ kind = "pty"
  BY <1>3, ResumeTypes, TypedKeeps
<1>4. CASE started /\ queue # <<>> /\ kind # "pty"
  <2>1. queue' = <<>> /\ OpencodeResumeQueue
    BY <1>4 DEF Resume
  <2> QED
    BY <1>1, <1>4, <2>1, ResumeQueueKeeps
<1> QED
  BY <1>2, <1>3, <1>4

\* The injection of i is over: what waits for it is held no longer.
LEMMA PostedMoves ==
    ASSUME TypingInv, NEW i \in Instruction, posting[i] # "no", Posted(i),
           NEW j, j = next[i], UNCHANGED <<queue, settling>>
    PROVE  /\ posting' \in [Instruction -> {"no", "append", "submit"}]
           /\ \A m \in Instruction :
                 posting'[m] = IF m = i THEN "no" ELSE IF m = j THEN "append" ELSE posting[m]
           /\ next' \in [Instruction -> Instruction \cup {None}]
           /\ \A m \in Instruction : next'[m] = IF m = i THEN None ELSE next[m]
           /\ i \notin Held /\ i <= received /\ (posting[i] = "submit" => i \in Typed)
           /\ \A n \in Instruction : n \in Chained' <=> n \in Chained /\ n # j
           /\ \A n \in Instruction : n \in Held' <=> n \in Held /\ n # j
           /\ j \in Instruction => j \in Held /\ j # i
           /\ j \in Instruction \cup {None}
<1> USE TypingNumbers
<1>1. /\ next \in [Instruction -> Instruction \cup {None}]
      /\ posting \in [Instruction -> {"no", "append", "submit"}]
      /\ j \in Instruction \cup {None}
  BY DEF TypingInv, TypingTypes
<1>2. /\ posting' = [m \in Instruction |->
             IF m = i THEN "no" ELSE IF m = j THEN "append" ELSE posting[m]]
      /\ next' = [next EXCEPT ![i] = None]
  BY DEF Posted
<1>3. /\ posting' \in [Instruction -> {"no", "append", "submit"}]
      /\ \A m \in Instruction :
            posting'[m] = IF m = i THEN "no" ELSE IF m = j THEN "append" ELSE posting[m]
  BY <1>1, <1>2
<1>4. /\ next' \in [Instruction -> Instruction \cup {None}]
      /\ \A m \in Instruction : next'[m] = IF m = i THEN None ELSE next[m]
  BY <1>1, <1>2
<1>6. i \notin Held /\ i <= received /\ (posting[i] = "submit" => i \in Typed)
  BY <1>1 DEF TypingInv, InOnePlace, UnderWay
<1>7. ASSUME NEW n \in Instruction PROVE n \in Chained' <=> n \in Chained /\ n # j
  <2>1. ASSUME n \in Chained' PROVE n \in Chained /\ n # j
    <3>1. PICK m \in Instruction : next'[m] = n /\ n # None
      BY <2>1 DEF Chained
    <3>2. m # i /\ next[m] = n
      BY <1>4, <3>1
    <3>3. n # j
      BY <3>1, <3>2 DEF TypingInv, WaitedForOnce
    <3> QED
      BY <3>1, <3>2, <3>3 DEF Chained
  <2>2. ASSUME n \in Chained, n # j PROVE n \in Chained'
    <3>1. PICK m \in Instruction : next[m] = n /\ n # None
      BY <2>2 DEF Chained
    <3>2. m # i
      BY <2>2, <3>1
    <3> QED
      BY <1>4, <3>1, <3>2 DEF Chained
  <2> QED
    BY <2>1, <2>2
<1>8. j \in Instruction => j \in Chained /\ j # i
  <2>1. j \in Instruction => j \in Chained
    BY DEF Chained
  <2> QED
    BY <1>6, <2>1 DEF Held
<1>9. ASSUME NEW n \in Instruction
       PROVE  n \in Held' <=> n \in Held /\ n # j
  <2>1. n \in Held => (n \in Chained <=> ~(n \in Members(queue) \/ n \in Members(settling)))
    BY DEF Held, TypingInv, InOnePlace
  <2>2. n = j => n \in Chained
    BY <1>8
  <2> QED
    BY <1>7, <2>1, <2>2 DEF Held
<1>10. j \in Instruction => j \in Held /\ j # i
  BY <1>8 DEF Held
<1> QED
  BY <1>1, <1>3, <1>4, <1>6, <1>7, <1>9, <1>10

\* The injection of i is over, and the next of its batch under way.
LEMMA PostedKeeps ==
    ASSUME TypingInv, NEW i \in Instruction, posting[i] # "no", Posted(i),
           composer' \in Seq(Key), prompts' \in Seq(Seq(Key)), SubmittedOnce', Typed' = Typed,
           \/ failed' = failed /\ posting[i] = "submit"
           \/ failed' = failed \cup {i},
           UNCHANGED <<kind, received, queue, settling, started, swallowed>>
    PROVE  TypingInv'
<1> DEFINE j == next[i]
<1>a. j = next[i]
  OBVIOUS
<1> HIDE DEF j
<1>1. /\ posting' \in [Instruction -> {"no", "append", "submit"}]
      /\ \A m \in Instruction :
            posting'[m] = IF m = i THEN "no" ELSE IF m = j THEN "append" ELSE posting[m]
      /\ next' \in [Instruction -> Instruction \cup {None}]
      /\ \A m \in Instruction : next'[m] = IF m = i THEN None ELSE next[m]
      /\ i \notin Held /\ i <= received /\ (posting[i] = "submit" => i \in Typed)
      /\ \A n \in Instruction : n \in Chained' <=> n \in Chained /\ n # j
      /\ \A n \in Instruction : n \in Held' <=> n \in Held /\ n # j
      /\ j \in Instruction => j \in Held /\ j # i
  BY <1>a, PostedMoves
<1>2. failed \in SUBSET Instruction /\ failed' \in SUBSET Instruction
  BY DEF TypingInv, TypingTypes
<1>9. TypingTypes' /\ TypedAfterStart'
  BY <1>1, <1>2 DEF TypingInv, TypingTypes, TypedAfterStart
<1>10. WaitedForOnce'
  BY <1>1, TypingNumbers DEF TypingInv, WaitedForOnce
<1>11. ASSUME NEW n \in Instruction
       PROVE  /\ n \in Gone' <=> n \in swallowed \/ n \in failed'
              /\ n \in Gone <=> n \in swallowed \/ n \in failed
  BY DEF Gone
<1>12. InOnePlace'
  <2> SUFFICES ASSUME NEW n \in Instruction
               PROVE  /\ n <= received <=> \/ n \in Held' \/ posting'[n] = "append"
                                           \/ n \in Typed \/ n \in Gone'
                      /\ n \in Held' => posting'[n] # "append" /\ n \notin Typed /\ n \notin Gone'
                      /\ posting'[n] = "append" => n \notin Typed /\ n \notin Gone'
                      /\ n \in Members(queue) => n \notin Members(settling) /\ n \notin Chained'
                      /\ n \in Members(settling) => n \notin Chained'
    BY DEF InOnePlace
  <2>1. /\ n <= received <=> \/ n \in Held \/ posting[n] = "append"
                             \/ n \in Typed \/ n \in Gone
        /\ n \in Held => posting[n] # "append" /\ n \notin Typed /\ n \notin Gone
        /\ posting[n] = "append" => n \notin Typed /\ n \notin Gone
        /\ n \in Members(queue) => n \notin Members(settling) /\ n \notin Chained
        /\ n \in Members(settling) => n \notin Chained
    BY DEF TypingInv, InOnePlace
  <2>2. CASE n = i
    <3>1. posting'[n] = "no" /\ n # j /\ n \notin Held'
      BY <1>1, <2>2
    <3>2. n \in Typed \/ n \in Gone'
      BY <1>1, <1>2, <1>11, <2>2
    <3> QED
      BY <1>1, <2>1, <2>2, <3>1, <3>2
  <2>3. CASE n = j
    <3>1. posting'[n] = "append" /\ n \in Held /\ n \notin Held' /\ n # i
      BY <1>1, <2>3
    <3>2. n \notin Gone'
      BY <1>11, <2>1, <3>1
    <3> QED
      BY <1>1, <2>1, <3>1, <3>2
  <2>4. CASE n # i /\ n # j
    <3>1. posting'[n] = posting[n]
      BY <1>1, <2>4
    <3>2. (n \in Held' <=> n \in Held) /\ (n \in Gone' <=> n \in Gone)
      BY <1>1, <1>11, <2>4
    <3> QED
      BY <1>1, <2>1, <3>1, <3>2
  <2> QED
    BY <2>2, <2>3, <2>4
<1>13. UnderWay'
  <2> SUFFICES ASSUME NEW n \in Instruction
               PROVE  /\ posting'[n] = "submit" => n \in Typed
                      /\ next'[n] # None => posting'[n] # "no" \/ n \in Chained'
    BY DEF UnderWay
  <2>1. /\ posting[n] = "submit" => n \in Typed
        /\ next[n] # None => posting[n] # "no" \/ n \in Chained
    BY DEF TypingInv, UnderWay
  <2> QED
    BY <1>1, <2>1
<1> QED
  BY <1>9, <1>10, <1>12, <1>13 DEF TypingInv

LEMMA PostAppendKeeps ==
    ASSUME TypingInv, NEW i \in Instruction, PostAppend(i)
    PROVE  TypingInv'
<1>1. /\ posting[i] = "append"
      /\ posting' = [posting EXCEPT ![i] = "submit"]
      /\ composer' = Append(composer, i)
      /\ UNCHANGED <<kind, received, queue, settling, next, started, prompts, swallowed, failed>>
  BY DEF PostAppend
<1>2. composer' \in Seq(Key) /\ Members(composer') = Members(composer) \cup {i}
  <2>1. composer \in Seq(Key) /\ i \in Key
    BY DEF TypingInv, TypingTypes, Key
  <2> QED
    BY <1>1, <2>1, Appended
<1>3. /\ posting' \in [Instruction -> {"no", "append", "submit"}]
      /\ \A n \in Instruction : posting'[n] = IF n = i THEN "submit" ELSE posting[n]
  BY <1>1 DEF TypingInv, TypingTypes
<1>4. Submitted' = Submitted /\ Typed' = Typed \cup {i} /\ Gone' = Gone /\ Chained' = Chained
      /\ Held' = Held
  <2>1. Submitted' = Submitted
    BY <1>1 DEF Submitted
  <2> QED
    BY <1>1, <1>2, <2>1 DEF Typed, Gone, Chained, Held
<1>5. i \notin Typed /\ i \notin Submitted
  BY <1>1 DEF TypingInv, InOnePlace, Typed
<1>6. TypingTypes' /\ TypedAfterStart'
  BY <1>1, <1>2, <1>3 DEF TypingInv, TypingTypes, TypedAfterStart
<1>7. WaitedForOnce' /\ SubmittedOnce'
  BY <1>1, <1>2, <1>4, <1>5 DEF TypingInv, WaitedForOnce, SubmittedOnce
<1>8. InOnePlace' /\ UnderWay'
  BY <1>1, <1>3, <1>4 DEF TypingInv, InOnePlace, UnderWay
<1> QED
  BY <1>6, <1>7, <1>8 DEF TypingInv

LEMMA HostTypesKeeps ==
    ASSUME TypingInv, HostTypes
    PROVE  TypingInv'
<1>1. /\ composer' = Append(composer, Host)
      /\ UNCHANGED <<kind, received, queue, settling, next, posting, started, prompts, swallowed,
                     failed>>
  BY DEF HostTypes, adapter
<1>2. composer' \in Seq(Key) /\ Members(composer') = Members(composer) \cup {Host}
  <2>1. composer \in Seq(Key) /\ Host \in Key
    BY DEF TypingInv, TypingTypes, Key
  <2> QED
    BY <1>1, <2>1, Appended
<1>3. /\ Submitted' = Submitted /\ Gone' = Gone /\ Chained' = Chained /\ Held' = Held
      /\ \A n \in Instruction : n \in Members(composer') <=> n \in Members(composer)
      /\ \A n \in Instruction : n \in Typed' <=> n \in Typed
  <2>1. Submitted' = Submitted /\ Gone' = Gone /\ Chained' = Chained /\ Held' = Held
    BY <1>1 DEF Submitted, Gone, Chained, Held
  <2>2. \A n \in Instruction : n # Host
    BY TypingNumbers
  <2> QED
    BY <1>2, <2>1, <2>2 DEF Typed
<1>4. TypingTypes' /\ TypedAfterStart'
  BY <1>1, <1>2 DEF TypingInv, TypingTypes, TypedAfterStart
<1>5. WaitedForOnce' /\ SubmittedOnce'
  BY <1>1, <1>3 DEF TypingInv, WaitedForOnce, SubmittedOnce
<1>6. InOnePlace' /\ UnderWay'
  BY <1>1, <1>3 DEF TypingInv, InOnePlace, UnderWay
<1> QED
  BY <1>4, <1>5, <1>6 DEF TypingInv

\* An Enter, of the adapter or of the host.
LEMMA SubmitKeeps ==
    ASSUME TypingInv, Submit,
           UNCHANGED <<kind, received, queue, settling, next, posting, started, swallowed, failed>>
    PROVE  TypingInv'
<1>1. composer' \in Seq(Key) /\ prompts' \in Seq(Seq(Key)) /\ Typed' = Typed /\ SubmittedOnce'
  BY Submits DEF TypingInv
<1>2. TypingTypes' /\ TypedAfterStart' /\ WaitedForOnce'
  BY <1>1 DEF TypingInv, TypingTypes, TypedAfterStart, WaitedForOnce
<1>3. Gone' = Gone /\ Chained' = Chained /\ Held' = Held
  BY DEF Gone, Chained, Held
<1>4. InOnePlace' /\ UnderWay'
  BY <1>1, <1>3 DEF TypingInv, InOnePlace, UnderWay
<1> QED
  BY <1>1, <1>2, <1>4 DEF TypingInv

LEMMA NextTyping == TypingInv /\ [Next]_vars => TypingInv'
<1> SUFFICES ASSUME TypingInv, [Next]_vars PROVE TypingInv'
  OBVIOUS
<1> USE DEF adapter, interface
<1>1. ASSUME CreateSession PROVE TypingInv'
  BY <1>1, NothingTyped DEF CreateSession
<1>2. ASSUME Pause PROVE TypingInv'
  BY <1>2, NothingTyped DEF Pause
<1>3. ASSUME StartupFallback PROVE TypingInv'
  BY <1>3, MarkStartedKeeps DEF StartupFallback
<1>4. ASSUME HearStart PROVE TypingInv'
  BY <1>4, MarkStartedKeeps DEF HearStart
<1>5. ASSUME HearPrompt PROVE TypingInv'
  BY <1>5, NothingTyped DEF HearPrompt
<1>6. ASSUME Disconnect PROVE TypingInv'
  BY <1>6, NothingTyped DEF Disconnect
<1>7. ASSUME ShowComposer PROVE TypingInv'
  BY <1>7, NothingTyped DEF ShowComposer
<1>8. ASSUME PressEnter PROVE TypingInv'
  BY <1>8, SubmitKeeps DEF PressEnter
<1>9. ASSUME HostSubmits PROVE TypingInv'
  BY <1>9, SubmitKeeps DEF HostSubmits
<1>10. ASSUME InterfaceExits PROVE TypingInv'
  BY <1>10, NothingTyped DEF InterfaceExits
<1>11. ASSUME NEW n \in Instruction, PostSubmit(n) PROVE TypingInv'
  <2>1. /\ posting[n] = "submit" /\ Submit /\ Posted(n)
        /\ UNCHANGED <<kind, received, queue, settling, started, swallowed, failed>>
    BY <1>11 DEF PostSubmit
  <2>2. composer' \in Seq(Key) /\ prompts' \in Seq(Seq(Key)) /\ Typed' = Typed /\ SubmittedOnce'
    BY <2>1, Submits DEF TypingInv
  <2> QED
    BY <2>1, <2>2, PostedKeeps
<1>12. ASSUME NEW n \in Instruction, PostFails(n) PROVE TypingInv'
  <2>1. /\ posting[n] # "no" /\ failed' = failed \cup {n} /\ Posted(n)
        /\ UNCHANGED <<kind, received, queue, settling, started, composer, prompts, swallowed>>
    BY <1>12 DEF PostFails
  <2>2. composer' \in Seq(Key) /\ prompts' \in Seq(Seq(Key)) /\ Typed' = Typed /\ SubmittedOnce'
    BY <2>1 DEF TypingInv, TypingTypes, SubmittedOnce, Typed, Submitted
  <2> QED
    BY <2>1, <2>2, PostedKeeps
<1>13. ASSUME UNCHANGED vars PROVE TypingInv'
  BY <1>13, NothingTyped DEF vars
<1> QED
  BY <1>1, <1>2, <1>3, <1>4, <1>5, <1>6, <1>7, <1>8, <1>9, <1>10, <1>11, <1>12, <1>13,
     ReceiveKeeps, ResumeKeeps, SettleKeeps, HostTypesKeeps, PostAppendKeeps DEF Next

LEMMA TypingInvariant == Spec => []TypingInv
<1> QED
  BY InitTyping, NextTyping, PTL DEF Spec

\* Every instruction that was received is held, waits for the one before it, is
\* typed, or is gone, and is so once: nothing is typed twice, nothing is lost
\* without a trace, and nothing is typed into a startup screen before the start was
\* reported or the fallback fired.
THEOREM TypedOnce == Spec => []EachTypedOnce
<1>1. TypingInv => EachTypedOnce
  <2> SUFFICES ASSUME TypingInv PROVE EachTypedOnce
    OBVIOUS
  <2> USE TypingNumbers
  <2>1. /\ next \in [Instruction -> Instruction \cup {None}]
        /\ received \in 0 .. MaxInstructions
    BY DEF TypingInv, TypingTypes
  <2>2. Members(next) \ {None} = Chained
    <3>1. next \in [1 .. MaxInstructions -> Instruction \cup {None}]
      BY <2>1
    <3>2. next \in Seq(Instruction \cup {None})
      BY <3>1, SeqDef
    <3>3. 1 .. Len(next) = DOMAIN next
      BY <3>2, LenProperties
    <3>4. 1 .. Len(next) = Instruction
      BY <3>1, <3>3
    <3> QED
      BY <3>4 DEF Members, Chained
  <2> DEFINE posted == {n \in Instruction : posting[n] = "append"}
  <2>3. /\ Members(queue) \subseteq Instruction /\ Members(settling) \subseteq Instruction
        /\ Chained \subseteq Instruction /\ posted \subseteq Instruction
        /\ Held \subseteq Instruction
    <3>1. Members(queue) \subseteq Instruction /\ Members(settling) \subseteq Instruction
      BY HeldTyped DEF TypingInv, TypingTypes
    <3>2. Chained \subseteq Instruction
      BY <2>1 DEF Chained
    <3> QED
      BY <3>1, <3>2 DEF Held
  <2>4. \A n : n \in 1 .. received <=> n \in Instruction /\ n <= received
    BY <2>1
  <2>5. \A n : n \in posted <=> n \in Instruction /\ posting[n] = "append"
    OBVIOUS
  <2> HIDE DEF posted
  <2>6. Instruction \cap (Held \cup posted \cup Typed \cup Gone) = 1 .. received
    BY <2>4, <2>5 DEF TypingInv, InOnePlace
  <2>7. Held \cap (posted \cup Typed \cup Gone) = {}
    BY <2>3, <2>5 DEF TypingInv, InOnePlace
  <2>8. posted \cap (Typed \cup Gone) = {}
    BY <2>5 DEF TypingInv, InOnePlace
  <2>9. Members(queue) \cap Members(settling) = {}
    BY HeldApart
  <2>10. /\ \A j, k \in 1 .. Len(prompts) :
               j # k => Members(prompts[j]) \cap Members(prompts[k]) \subseteq {Host}
         /\ swallowed # {} => started
    BY DEF TypingInv, SubmittedOnce, TypedAfterStart
  <2> QED
    BY <2>2, <2>6, <2>7, <2>8, <2>9, <2>10 DEF EachTypedOnce, Held, Gone, posted
<1> QED
  BY <1>1, TypingInvariant, PTL

-----------------------------------------------------------------------------
(* The echo of what was typed. *)

\* What a report that is not heard yet holds.
Echoing == UNION {Members(r) : r \in Members(reports)}

\* An instruction whose echo may still come.
MayEcho(n) == n \in Members(composer) \/ n \in Echoing \/ posting[n] # "no"

\* The injections that are not remembered any more.
Before == Len(injected) - Len(recent)

\* Those remembered are the last of them all; what is missing was too old, or
\* RecentLimit others came after it.
MemoryInv ==
    /\ recent \in Seq(Instruction)
    /\ injected \in Seq(Instruction)
    /\ old \in Nat
    /\ Before \in Nat
    /\ \A i \in 1 .. Len(recent) : recent[i] = injected[i + Before]
    /\ \A k \in 1 .. Before : k <= old \/ k + RecentLimit <= Len(injected)

\* Nothing comes back that was not recorded before.
EchoInv ==
    /\ MemoryInv
    /\ reports \in Seq(Seq(Key))
    /\ \A n \in Instruction : MayEcho(n) => n \in Members(injected)

LEMMA InitEcho == Init => EchoInv
<1> SUFFICES ASSUME Init PROVE EchoInv
  OBVIOUS
<1>1. /\ recent = <<>> /\ injected = <<>> /\ reports = <<>> /\ composer = <<>> /\ old = 0
      /\ posting = [n \in Instruction |-> "no"]
  BY DEF Init
<1>2. /\ recent \in Seq(Instruction) /\ injected \in Seq(Instruction)
      /\ reports \in Seq(Seq(Key)) /\ Len(recent) = 0 /\ Len(injected) = 0
      /\ Members(reports) = {} /\ Members(composer) = {}
  BY <1>1, EmptyHolds, EmptySeq
<1>3. \A n \in Instruction : ~MayEcho(n)
  BY <1>1, <1>2 DEF MayEcho, Echoing
<1>4. Before = 0 /\ 1 .. Len(recent) = {} /\ 1 .. 0 = {}
  BY <1>2 DEF Before
<1>5. MemoryInv
  BY <1>1, <1>2, <1>4 DEF MemoryInv
<1> QED
  BY <1>2, <1>3, <1>5 DEF EchoInv

\* A batch is recorded: the limit pushes out the oldest.
LEMMA RecordKeeps ==
    ASSUME MemoryInv, NEW batch \in Seq(Instruction), Record(batch)
    PROVE  MemoryInv' /\ Members(injected') = Members(injected) \cup Members(batch)
<1> DEFINE all == recent \o batch
           L == Len(injected)
           r == Len(recent)
           b == Len(batch)
<1>1. /\ L \in Nat /\ r \in Nat /\ b \in Nat /\ Before = L - r /\ r <= L
      /\ RecentLimit \in Nat /\ old \in Nat
  BY LenProperties, TypingNumbers DEF MemoryInv, Before
<1>2. /\ injected' = injected \o batch /\ old' = old
      /\ recent' = IF Len(all) > RecentLimit
                   THEN SubSeq(all, Len(all) - RecentLimit + 1, Len(all)) ELSE all
  BY DEF Record, Recorded
<1>3. /\ injected' \in Seq(Instruction)
      /\ Len(injected') = L + b
      /\ \A k \in 1 .. L + b : injected'[k] = IF k <= L THEN injected[k] ELSE batch[k - L]
  BY <1>2, ConcatProperties DEF MemoryInv
<1>4. /\ all \in Seq(Instruction)
      /\ Len(all) = r + b
      /\ \A k \in 1 .. r + b : all[k] = IF k <= r THEN recent[k] ELSE batch[k - r]
  BY ConcatProperties DEF MemoryInv
<1>5. Members(injected') = Members(injected) \cup Members(batch)
  BY <1>2, Joined DEF MemoryInv
<1> HIDE DEF all
<1>6. \A k \in 1 .. r + b : all[k] = injected'[k + (L - r)]
  <2> SUFFICES ASSUME NEW k \in 1 .. r + b PROVE all[k] = injected'[k + (L - r)]
    OBVIOUS
  <2>1. CASE k <= r
    <3>1. k \in 1 .. r /\ k + (L - r) \in 1 .. L + b /\ k + (L - r) <= L
      BY <1>1, <2>1
    <3>2. recent[k] = injected[k + (L - r)]
      BY <1>1, <3>1 DEF MemoryInv
    <3> QED
      BY <1>3, <1>4, <2>1, <3>1, <3>2
  <2>2. CASE ~(k <= r)
    <3>1. /\ k + (L - r) \in 1 .. L + b /\ ~(k + (L - r) <= L)
          /\ k + (L - r) - L = k - r
      BY <1>1, <2>2
    <3>2. all[k] = batch[k - r]
      BY <1>4, <2>2
    <3>3. \A m \in 1 .. L + b : ~(m <= L) => injected'[m] = batch[m - L]
      BY <1>3
    <3>4. injected'[k + (L - r)] = batch[k + (L - r) - L]
      BY <3>1, <3>3
    <3> QED
      BY <3>1, <3>2, <3>4
  <2> QED
    BY <2>1, <2>2
<1>7. CASE Len(all) > RecentLimit
  <2> DEFINE d == r + b - RecentLimit
  <2>1. d \in Nat /\ d + 1 \in Int /\ r + b \in Int /\ d + 1 <= r + b + 1
    BY <1>1, <1>4, <1>7
  <2>2. recent' = SubSeq(all, d + 1, r + b)
    <3>1. recent' = SubSeq(all, Len(all) - RecentLimit + 1, Len(all))
      BY ONLY <1>2, <1>7, Zenon
    <3>2. Len(all) = r + b /\ Len(all) - RecentLimit + 1 = d + 1
      BY <1>1, <1>4
    <3> QED
      BY ONLY <3>1, <3>2, Zenon
  <2>3. \A i \in d + 1 .. r + b : all[i] \in Instruction
    BY <1>4, <2>1, ElementOfSeq
  <2>4. /\ recent' \in Seq(Instruction)
        /\ Len(recent') = IF d + 1 <= r + b THEN (r + b) - (d + 1) + 1 ELSE 0
        /\ \A i \in 1 .. (r + b) - (d + 1) + 1 : recent'[i] = all[(d + 1) + i - 1]
    BY <2>1, <2>2, <2>3, SubSeqProperties
  <2>5. Len(recent') = RecentLimit
    BY <1>1, <2>1, <2>4
  <2>6. Before' = L + b - RecentLimit
    BY <1>3, <2>5 DEF Before
  <2>7. Before' \in Nat
    BY <1>1, <2>1, <2>6
  <2>8. \A i \in 1 .. Len(recent') : recent'[i] = injected'[i + Before']
    <3> SUFFICES ASSUME NEW i \in 1 .. RecentLimit PROVE recent'[i] = injected'[i + Before']
      BY <2>5
    <3>1. /\ i \in 1 .. (r + b) - (d + 1) + 1
          /\ (d + 1) + i - 1 \in 1 .. r + b
          /\ ((d + 1) + i - 1) + (L - r) = i + Before'
      BY <1>1, <2>1, <2>6
    <3> QED
      BY <1>6, <2>4, <3>1
  <2>9. \A k \in 1 .. Before' : k + RecentLimit <= Len(injected')
    BY <1>1, <1>3, <2>6
  <2> QED
    BY <1>2, <1>3, <1>5, <2>4, <2>7, <2>8, <2>9 DEF MemoryInv
<1>8. CASE ~(Len(all) > RecentLimit)
  <2>1. recent' = all
    BY ONLY <1>2, <1>8, Zenon
  <2>3. Len(recent') = r + b
    BY ONLY <1>4, <2>1, Zenon
  <2>4. Before' = L - r
    BY <1>1, <1>3, <2>3 DEF Before
  <2>2. \A k \in 1 .. Before' : k <= old' \/ k + RecentLimit <= Len(injected')
    BY <1>1, <1>2, <1>3, <2>4 DEF MemoryInv
  <2> QED
    BY <1>1, <1>2, <1>3, <1>4, <1>5, <1>6, <2>1, <2>2, <2>3, <2>4 DEF MemoryInv
<1> QED
  BY <1>7, <1>8

\* What is 30 s old goes.
LEMMA AgedKeeps ==
    ASSUME MemoryInv, NEW k \in 0 .. Len(injected), Aged(k), old' = k, injected' = injected
    PROVE  MemoryInv'
<1> DEFINE L == Len(injected)
           r == Len(recent)
<1>1. L \in Nat /\ r \in Nat /\ Before = L - r /\ r <= L /\ old \in Nat /\ k \in Nat
  BY LenProperties DEF MemoryInv, Before
<1>2. CASE k = old /\ recent' = recent
  BY <1>2 DEF MemoryInv, Before
<1>3. CASE k \in Before + 1 .. L /\ recent' = SubSeq(recent, k - Before + 1, r)
  <2> DEFINE d == k - Before
  <2>1. d \in Nat /\ d + 1 \in Int /\ r \in Int /\ d + 1 <= r + 1 /\ d <= r
    BY <1>1, <1>3
  <2>2. \A i \in d + 1 .. r : recent[i] \in Instruction
    BY <1>1, <2>1, ElementOfSeq DEF MemoryInv
  <2>3. /\ recent' \in Seq(Instruction)
        /\ Len(recent') = IF d + 1 <= r THEN r - (d + 1) + 1 ELSE 0
        /\ \A i \in 1 .. r - (d + 1) + 1 : recent'[i] = recent[(d + 1) + i - 1]
    BY <1>3, <2>1, <2>2, SubSeqProperties
  <2>4. Len(recent') = r - d
    <3>1. CASE d + 1 <= r
      <4>1. Len(recent') = r - (d + 1) + 1
        BY ONLY <2>3, <3>1, Zenon
      <4> QED
        BY <1>1, <2>1, <4>1
    <3>2. CASE ~(d + 1 <= r)
      <4>1. Len(recent') = 0
        BY ONLY <2>3, <3>2, Zenon
      <4>2. r = d
        BY <1>1, <2>1, <3>2
      <4> QED
        BY <1>1, <4>1, <4>2
    <3> QED
      BY <3>1, <3>2
  <2>5. Before' = k
    BY <1>1, <2>4 DEF Before
  <2>6. \A i \in 1 .. Len(recent') : recent'[i] = injected'[i + Before']
    <3> SUFFICES ASSUME NEW i \in 1 .. r - d PROVE recent'[i] = injected[i + k]
      BY <2>4, <2>5
    <3>1. /\ i \in 1 .. r - (d + 1) + 1 /\ (d + 1) + i - 1 = i + d
          /\ i + d \in 1 .. r /\ (i + d) + Before = i + k
      BY <1>1, <2>1
    <3>2. recent'[i] = recent[i + d]
      BY <2>3, <3>1
    <3> QED
      BY <3>1, <3>2 DEF MemoryInv
  <2>7. \A j \in 1 .. Before' : j <= old'
    BY <1>1, <2>5
  <2> QED
    BY <1>1, <2>3, <2>5, <2>6, <2>7 DEF MemoryInv
<1> QED
  BY <1>2, <1>3 DEF Aged, Before

\* What is recorded before it can come back is known.
LEMMA EchoKept ==
    ASSUME EchoInv, MemoryInv', reports' \in Seq(Seq(Key)),
           Members(injected) \subseteq Members(injected'),
           \A n \in Instruction : MayEcho(n)' => MayEcho(n) \/ n \in Members(injected')
    PROVE  EchoInv'
BY DEF EchoInv

\* A step that records nothing, and after which nothing more may come back.
LEMMA NothingRecorded ==
    ASSUME EchoInv, UNCHANGED memory, reports' \in Seq(Seq(Key)),
           \A n \in Instruction : MayEcho(n)' => MayEcho(n)
    PROVE  EchoInv'
<1>1. MemoryInv'
  BY DEF EchoInv, MemoryInv, Before, memory
<1> QED
  BY <1>1, EchoKept DEF memory

\* Typing a batch.
LEMMA TypedRecorded ==
    ASSUME EchoInv, NEW batch \in Seq(Instruction), Typing(batch), Record(batch),
           reports' = reports
    PROVE  EchoInv'
<1>1. MemoryInv' /\ Members(injected') = Members(injected) \cup Members(batch)
  BY RecordKeeps DEF EchoInv
<1>2. Echoing' = Echoing
  BY DEF Echoing
<1>3. \A n \in Instruction : MayEcho(n)' => MayEcho(n) \/ n \in Members(batch)
  BY <1>2 DEF MayEcho, Typing
<1> QED
  BY <1>1, <1>3, EchoKept DEF EchoInv

LEMMA SettleEcho == TypingInv /\ EchoInv /\ Settle => EchoInv'
<1> SUFFICES ASSUME TypingInv, EchoInv, Settle PROVE EchoInv'
  OBVIOUS
<1>1. Record(settling) /\ reports' = reports
  BY DEF Settle, Inject
<1>2. Released(settling) /\ Typing(settling)
  BY SettleTypes
<1> QED
  BY <1>1, <1>2, TypedRecorded DEF Released

LEMMA ReceiveEcho == TypingInv /\ EchoInv /\ ReceiveInstruction => EchoInv'
<1> SUFFICES ASSUME TypingInv, EchoInv, ReceiveInstruction PROVE EchoInv'
  OBVIOUS
<1> DEFINE i == received'
           batch == <<i>>
<1>a. i = received' /\ batch = <<i>>
  OBVIOUS
<1>b. \/ queue' = Append(queue, i) /\ Untouched
      \/ started /\ Inject(batch) /\ UNCHANGED queue
  BY DEF ReceiveInstruction
<1> HIDE DEF i, batch
<1>1. UNCHANGED <<settling, failed, shown, reports>>
  BY DEF ReceiveInstruction
<1>2. CASE queue' = Append(queue, i) /\ Untouched
  <2>1. UNCHANGED <<posting, composer, memory>>
    BY <1>2 DEF Untouched
  <2>2. \A n \in Instruction : MayEcho(n)' => MayEcho(n)
    BY <1>1, <2>1 DEF MayEcho, Echoing
  <2> QED
    BY <1>1, <2>1, <2>2, NothingRecorded DEF EchoInv
<1>3. CASE started /\ Inject(batch) /\ UNCHANGED queue
  <2>1. Record(batch)
    BY <1>3 DEF Inject
  <2>2. Released(batch) /\ Typing(batch)
    BY <1>a, <1>3, ReceiveTypes
  <2> QED
    BY <1>1, <2>1, <2>2, TypedRecorded DEF Released
<1> QED
  BY <1>b, <1>2, <1>3

\* One of a batch is posted: it is recorded first.
LEMMA PostingRecorded ==
    ASSUME EchoInv, NEW j \in Instruction, Record(<<j>>), reports' \in Seq(Seq(Key)),
           \A n \in Instruction : MayEcho(n)' => MayEcho(n) \/ n = j
    PROVE  EchoInv'
<1> DEFINE batch == <<j>>
<1>1. batch \in Seq(Instruction) /\ Members(batch) = {j} /\ Record(batch)
  BY OneHeld
<1> HIDE DEF batch
<1>2. MemoryInv' /\ Members(injected') = Members(injected) \cup Members(batch)
  BY <1>1, RecordKeeps DEF EchoInv
<1> QED
  BY <1>1, <1>2, EchoKept

LEMMA ResumeEcho == TypingInv /\ EchoInv /\ Resume => EchoInv'
<1> SUFFICES ASSUME TypingInv, EchoInv, Resume PROVE EchoInv'
  OBVIOUS
<1>1. reports' = reports /\ Echoing' = Echoing
  BY DEF Resume, Echoing
<1>2. CASE ~started \/ queue = <<>>
  <2>1. UNCHANGED <<posting, composer, memory>>
    BY <1>2 DEF Resume, Untouched
  <2>2. \A n \in Instruction : MayEcho(n)' => MayEcho(n)
    BY <1>1, <2>1 DEF MayEcho
  <2> QED
    BY <1>1, <2>1, <2>2, NothingRecorded DEF EchoInv
<1>3. CASE started /\ queue # <<>> /\ kind = "pty"
  <2>1. Record(queue)
    BY <1>3 DEF Resume, Inject
  <2>2. Released(queue) /\ Typing(queue)
    BY <1>3, ResumeTypes
  <2> QED
    BY <1>1, <2>1, <2>2, TypedRecorded DEF Released
<1>4. CASE started /\ queue # <<>> /\ kind # "pty"
  <2> DEFINE h == Head(queue)
  <2>1. /\ Record(<<h>>)
        /\ posting' = [n \in Instruction |-> IF n \in {h} THEN "append" ELSE posting[n]]
        /\ composer' = composer
    BY <1>4 DEF Resume, OpencodeResumeQueue, OpencodeInject
  <2>2. h \in Instruction
    BY <1>4, HeadAndTail DEF TypingInv, TypingTypes
  <2> HIDE DEF h
  <2>3. \A n \in Instruction : n # h => posting'[n] = posting[n]
    BY <2>1
  <2>4. \A n \in Instruction : MayEcho(n)' => MayEcho(n) \/ n = h
    BY <1>1, <2>1, <2>3 DEF MayEcho
  <2> QED
    BY <1>1, <2>1, <2>2, <2>4, PostingRecorded DEF EchoInv
<1> QED
  BY <1>2, <1>3, <1>4

\* Enter moves what the composer holds into a report.
LEMMA SubmitReports ==
    ASSUME TypingInv, EchoInv, Submit
    PROVE  /\ reports' \in Seq(Seq(Key))
           /\ \A n : n \in Members(composer') \/ n \in Echoing' =>
                        n \in Members(composer) \/ n \in Echoing
<1>1. CASE UNCHANGED <<reports, composer>>
  BY <1>1 DEF EchoInv, Echoing
<1>2. CASE reports' = Append(reports, composer) /\ composer' = <<>>
  <2>1. composer \in Seq(Key) /\ reports \in Seq(Seq(Key))
    BY DEF TypingInv, TypingTypes, EchoInv
  <2>2. reports' \in Seq(Seq(Key)) /\ Members(reports') = Members(reports) \cup {composer}
    BY <1>2, <2>1, Appended
  <2>3. Echoing' = Echoing \cup Members(composer)
    BY <2>2 DEF Echoing
  <2>4. Members(composer') = {}
    BY <1>2, EmptyHolds
  <2> QED
    BY <2>2, <2>3, <2>4
<1> QED
  BY <1>1, <1>2 DEF Submit

\* The injection of i is over, and the next of its batch is recorded.
LEMMA PostedEcho ==
    ASSUME TypingInv, EchoInv, NEW i \in Instruction, posting[i] # "no", Posted(i),
           UNCHANGED <<queue, settling>>, reports' \in Seq(Seq(Key)),
           \A n : n \in Members(composer') \/ n \in Echoing' =>
                     n \in Members(composer) \/ n \in Echoing
    PROVE  EchoInv'
<1> DEFINE j == next[i]
<1>a. j = next[i]
  OBVIOUS
<1> HIDE DEF j
<1>1. /\ \A m \in Instruction :
            posting'[m] = IF m = i THEN "no" ELSE IF m = j THEN "append" ELSE posting[m]
      /\ j \in Instruction \cup {None}
  BY <1>a, PostedMoves
<1>2. \A n \in Instruction : MayEcho(n)' => MayEcho(n) \/ n = j
  <2> SUFFICES ASSUME NEW n \in Instruction, MayEcho(n)', n # j PROVE MayEcho(n)
    OBVIOUS
  <2>1. n \in Members(composer') \/ n \in Echoing' \/ posting'[n] # "no"
    BY DEF MayEcho
  <2>2. posting'[n] # "no" => posting[n] # "no"
    BY <1>1
  <2> QED
    BY <2>1, <2>2 DEF MayEcho
<1>3. CASE j = None
  <2>1. UNCHANGED memory
    BY <1>3, <1>a DEF Posted
  <2>2. \A n \in Instruction : MayEcho(n)' => MayEcho(n)
    BY <1>2, <1>3, TypingNumbers
  <2> QED
    BY <2>1, <2>2, NothingRecorded
<1>4. CASE j \in Instruction
  <2>1. Record(<<j>>)
    BY <1>4, <1>a, TypingNumbers DEF Posted
  <2> QED
    BY <1>2, <1>4, <2>1, PostingRecorded
<1> QED
  BY <1>1, <1>3, <1>4

LEMMA HearPromptEcho == EchoInv /\ HearPrompt => EchoInv'
<1> SUFFICES ASSUME EchoInv, HearPrompt PROVE EchoInv'
  OBVIOUS
<1>1. /\ reports # <<>> /\ reports' = Tail(reports)
      /\ UNCHANGED <<posting, composer, injected>>
  BY DEF HearPrompt, interface
<1>2. PICK k \in 0 .. Len(injected) : old' = k /\ Aged(k)
  BY DEF HearPrompt
<1>3. MemoryInv'
  BY <1>1, <1>2, AgedKeeps DEF EchoInv
<1>4. reports' \in Seq(Seq(Key)) /\ Members(reports') \subseteq Members(reports)
  BY <1>1, HeadAndTail DEF EchoInv
<1>5. \A n \in Instruction : MayEcho(n)' => MayEcho(n)
  BY <1>1, <1>4 DEF MayEcho, Echoing
<1> QED
  BY <1>1, <1>3, <1>4, <1>5, EchoKept

LEMMA MarkStartedEcho ==
    ASSUME EchoInv, MarkSessionStarted,
           reports' \in Seq(Seq(Key)), Members(reports') \subseteq Members(reports)
    PROVE  EchoInv'
<1>1. UNCHANGED <<posting, memory, composer>>
  BY DEF MarkSessionStarted, interface
<1>2. \A n \in Instruction : MayEcho(n)' => MayEcho(n)
  BY <1>1 DEF MayEcho, Echoing
<1> QED
  BY <1>1, <1>2, NothingRecorded

LEMMA NextEcho == TypingInv /\ EchoInv /\ [Next]_vars => EchoInv'
<1> SUFFICES ASSUME TypingInv, EchoInv, [Next]_vars PROVE EchoInv'
  OBVIOUS
<1> USE DEF adapter, interface
<1>0. reports \in Seq(Seq(Key))
  BY DEF EchoInv
\* Only what is in the composer or reported may change.
<1>a. ASSUME UNCHANGED <<posting, memory>>, reports' \in Seq(Seq(Key)),
             \A n \in Instruction : n \in Members(composer') \/ n \in Echoing' =>
                                       n \in Members(composer) \/ n \in Echoing
      PROVE  EchoInv'
  <2>1. \A n \in Instruction : MayEcho(n)' => MayEcho(n)
    BY <1>a DEF MayEcho
  <2> QED
    BY <1>a, <2>1, NothingRecorded
<1>b. ASSUME UNCHANGED <<posting, memory, composer, reports>> PROVE EchoInv'
  BY <1>0, <1>a, <1>b DEF Echoing
<1>1. ASSUME CreateSession \/ Pause \/ InterfaceExits \/ UNCHANGED vars PROVE EchoInv'
  BY <1>1, <1>b DEF CreateSession, Pause, InterfaceExits, vars
<1>2. ASSUME StartupFallback PROVE EchoInv'
  BY <1>0, <1>2, MarkStartedEcho DEF StartupFallback
<1>3. ASSUME HearStart PROVE EchoInv'
  <2>1. reports' \in Seq(Seq(Key)) /\ Members(reports') \subseteq Members(reports)
    BY <1>0, <1>3, HeadAndTail DEF HearStart
  <2> QED
    BY <1>3, <2>1, MarkStartedEcho DEF HearStart
<1>4. ASSUME Disconnect PROVE EchoInv'
  <2>1. reports' \in Seq(Seq(Key)) /\ Members(reports') = {}
    BY <1>4, EmptyHolds, EmptySeq DEF Disconnect
  <2>2. Echoing' = {}
    BY <2>1 DEF Echoing
  <2>3. UNCHANGED <<posting, memory, composer>>
    BY <1>4 DEF Disconnect
  <2> QED
    BY <1>a, <2>1, <2>2, <2>3
<1>5. ASSUME ShowComposer PROVE EchoInv'
  <2>1. reports' \in Seq(Seq(Key)) /\ Echoing' = Echoing
    <3>1. CASE reports' = reports
      BY <1>0, <3>1 DEF Echoing
    <3>2. CASE reports' = Append(reports, <<>>)
      <4> DEFINE e == <<>>
      <4>1. e \in Seq(Key) /\ Members(e) = {} /\ reports' = Append(reports, e)
        BY <3>2, EmptySeq, EmptyHolds
      <4> HIDE DEF e
      <4>2. reports' \in Seq(Seq(Key)) /\ Members(reports') = Members(reports) \cup {e}
        BY <1>0, <4>1, Appended
      <4>3. Echoing' = Echoing \cup Members(e)
        BY <4>2, Zenon DEF Echoing
      <4> QED
        BY <4>1, <4>2, <4>3
    <3> QED
      BY <1>5, <3>1, <3>2 DEF ShowComposer, StartReport
  <2>2. UNCHANGED <<posting, memory, composer>>
    BY <1>5 DEF ShowComposer
  <2> QED
    BY <1>a, <2>1, <2>2
<1>6. ASSUME PressEnter \/ HostSubmits PROVE EchoInv'
  <2>1. Submit /\ UNCHANGED <<posting, memory>>
    BY <1>6 DEF PressEnter, HostSubmits
  <2> QED
    BY <1>a, <2>1, SubmitReports
<1>7. ASSUME HostTypes PROVE EchoInv'
  <2>1. composer' = Append(composer, Host) /\ UNCHANGED <<posting, memory, reports>>
    BY <1>7 DEF HostTypes
  <2>2. composer \in Seq(Key) /\ Host \in Key
    BY DEF TypingInv, TypingTypes, Key
  <2>3. Members(composer') = Members(composer) \cup {Host}
    BY <2>1, <2>2, Appended
  <2>4. \A n \in Instruction : n # Host
    BY TypingNumbers
  <2>5. Echoing' = Echoing
    BY <2>1 DEF Echoing
  <2> QED
    BY <1>0, <1>a, <2>1, <2>3, <2>4, <2>5
<1>8. ASSUME NEW i \in Instruction, PostAppend(i) PROVE EchoInv'
  <2>1. /\ posting[i] = "append"
        /\ posting' = [posting EXCEPT ![i] = "submit"]
        /\ composer' = Append(composer, i)
        /\ UNCHANGED <<memory, reports>>
    BY <1>8 DEF PostAppend
  <2>2. composer \in Seq(Key) /\ i \in Key
    BY DEF TypingInv, TypingTypes, Key
  <2>3. Members(composer') = Members(composer) \cup {i}
    BY <2>1, <2>2, Appended
  <2>4. Echoing' = Echoing
    BY <2>1 DEF Echoing
  <2>5. \A n \in Instruction : n # i => posting'[n] = posting[n]
    BY <2>1 DEF TypingInv, TypingTypes
  <2>6. \A n \in Instruction : MayEcho(n)' => MayEcho(n)
    BY <2>1, <2>3, <2>4, <2>5 DEF MayEcho
  <2> QED
    BY <1>0, <2>1, <2>6, NothingRecorded
<1>9. ASSUME NEW i \in Instruction, PostSubmit(i) PROVE EchoInv'
  <2>1. posting[i] # "no" /\ Submit /\ Posted(i) /\ UNCHANGED <<queue, settling>>
    BY <1>9 DEF PostSubmit
  <2>2. /\ reports' \in Seq(Seq(Key))
        /\ \A n : n \in Members(composer') \/ n \in Echoing' =>
                     n \in Members(composer) \/ n \in Echoing
    BY <2>1, SubmitReports
  <2> QED
    BY <2>1, <2>2, PostedEcho
<1>10. ASSUME NEW i \in Instruction, PostFails(i) PROVE EchoInv'
  <2>1. /\ posting[i] # "no" /\ Posted(i)
        /\ UNCHANGED <<queue, settling, composer, reports>>
    BY <1>10 DEF PostFails
  <2>2. \A n : n \in Members(composer') \/ n \in Echoing' =>
                  n \in Members(composer) \/ n \in Echoing
    BY <2>1 DEF Echoing
  <2> QED
    BY <1>0, <2>1, <2>2, PostedEcho
<1>11. ASSUME HearPrompt \/ Settle \/ ReceiveInstruction \/ Resume PROVE EchoInv'
  BY <1>11, HearPromptEcho, SettleEcho, ReceiveEcho, ResumeEcho
<1> QED
  BY <1>1, <1>2, <1>3, <1>4, <1>5, <1>6, <1>7, <1>8, <1>9, <1>10, <1>11 DEF Next

LEMMA EchoInvariant == Spec => []EchoInv
<1>1. TypingInv /\ EchoInv /\ [Next]_vars => EchoInv'
  BY NextEcho
<1> QED
  BY <1>1, InitEcho, TypingInvariant, PTL DEF Spec

\* What the adapter still remembers is not shown; what it does not was forgotten for
\* one of its two limits.
LEMMA NextShown ==
    ASSUME EchoInv, [Next]_vars, NEW n \in Instruction, <<n>> \in shown' \ shown
    PROVE  \E k \in 1 .. Len(injected) :
               injected[k] = n /\ (k <= old' \/ k + RecentLimit <= Len(injected))
<1>1. HearPrompt
  <2>1. ASSUME UNCHANGED shown PROVE FALSE
    BY <2>1
  <2>2. \/ HearPrompt
        \/ HearStart \/ StartupFallback
        \/ CreateSession \/ ReceiveInstruction \/ Pause \/ Resume \/ Settle \/ Disconnect
        \/ ShowComposer \/ PressEnter \/ HostTypes \/ HostSubmits \/ InterfaceExits
        \/ \E i \in Instruction : PostAppend(i) \/ PostSubmit(i) \/ PostFails(i)
    BY <2>1 DEF Next, vars
  <2> QED
    BY <2>1, <2>2 DEF HearStart, StartupFallback, CreateSession, ReceiveInstruction, Pause, Resume,
       Settle, Disconnect, ShowComposer, PressEnter, HostTypes, HostSubmits, InterfaceExits,
       PostAppend, PostSubmit, PostFails
<1>2. /\ reports # <<>> /\ UNCHANGED injected
      /\ Head(reports) = <<n>> /\ ~WasInjected(<<n>>, recent')
  BY <1>1 DEF HearPrompt
<1>3. Head(reports) \in Members(reports)
  BY <1>2, HeadAndTail DEF EchoInv
<1>4. MayEcho(n)
  <2>1. Members(<<n>>) = {n}
    BY OneHeld
  <2> QED
    BY <1>2, <1>3, <2>1 DEF MayEcho, Echoing
<1>5. PICK k \in 1 .. Len(injected) : injected[k] = n
  BY <1>4 DEF EchoInv, Members
<1>6. n \notin Members(recent')
  <2>1. Len(<<n>>) = 1 /\ <<n>>[1] = n
    OBVIOUS
  <2> QED
    BY <1>2, <2>1 DEF WasInjected
<1>7. MemoryInv'
  BY <1>1, HearPromptEcho DEF EchoInv
<1>8. k \in 1 .. Before'
  <2>1. Len(injected) \in Nat /\ Len(recent') \in Nat /\ Before' = Len(injected) - Len(recent')
        /\ Before' \in Nat
    BY <1>2, <1>7, LenProperties DEF EchoInv, MemoryInv, Before
  <2> SUFFICES ASSUME ~(k \in 1 .. Before') PROVE FALSE
    OBVIOUS
  <2>2. k - Before' \in 1 .. Len(recent') /\ (k - Before') + Before' = k
    BY <2>1
  <2>3. recent'[k - Before'] = n
    BY <1>2, <1>5, <1>7, <2>2 DEF MemoryInv
  <2> QED
    BY <1>6, <2>2, <2>3 DEF Members
<1> QED
  BY <1>2, <1>5, <1>7, <1>8 DEF MemoryInv

\* The echo of an instruction that was submitted by itself is taken for what it is, and
\* not shown again as the host's, unless the adapter has forgotten the injection for one
\* of its limits: its age, or the number of those recorded after it.  Nothing else, no
\* batch typed in one go, failing request or resume, makes it forget one.
THEOREM InjectionsNotEchoed == Spec => EchoNotRepeated
<1>1. EchoInv /\ [Next]_vars
      => [\A n \in Instruction :
            <<n>> \in shown' \ shown =>
                \E k \in 1 .. Len(injected) :
                    injected[k] = n /\ (k <= old' \/ k + RecentLimit <= Len(injected))]_vars
  BY NextShown
<1> QED
  BY <1>1, EchoInvariant, PTL DEF Spec, EchoNotRepeated
=============================================================================
