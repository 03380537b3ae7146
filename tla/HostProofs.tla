------------------------------ MODULE HostProofs ------------------------------
(***************************************************************************)
(* Proofs about the agent host and its adapter, for every number of        *)
(* instructions, every length of the connection's buffer, and whether or   *)
(* not frames arrive together with agent_attached.                         *)
(***************************************************************************)
EXTENDS AgentHost, SequenceTheorems, TLAPS

Frame == [type: {"instruction", "pause", "resume", "end"}, n: Instruction \cup {None}]

ProcessRecord ==
    [state: {"alive", "exited", "killed"}, inbox: Seq(Instruction), worked: BOOLEAN]

EventRecord == [kind: {"turn_started", "work", "result", "exited", "turn_ended"}, turn: Nat]

\* The types, without the bounds on what grows.
HostTypes ==
    /\ toHost \in Seq(Frame)
    /\ sent \in 0 .. MaxInstructions
    /\ link \in BOOLEAN
    /\ started \in BOOLEAN
    /\ paused \in BOOLEAN
    /\ stopping \in BOOLEAN
    /\ held \in Seq(Instruction)
    /\ procs \in Seq(ProcessRecord)
    /\ proc \in 0 .. Len(procs)
    /\ written \in Seq(Instruction)
    /\ turns \in Nat
    /\ turn \in {None, turns}
    /\ feed \in Seq(EventRecord)

Underway == {k \in 1 .. Len(toHost) : toHost[k].type = "instruction"}

Taken == Len(written) + Len(held)

\* What the adapter took, and what is still on its way, in order.
TakenInv ==
    /\ \A k \in 1 .. Len(written) : written[k] = k
    /\ \A k \in 1 .. Len(held) : held[k] = Len(written) + k
    /\ Taken <= sent
    /\ ~paused => held = <<>>

WireInv ==
    /\ ~link => toHost = <<>>
    /\ \A k \in Underway : toHost[k].n \in Taken + 1 .. sent
    /\ \A j, k \in Underway : j < k => toHost[j].n < toHost[k].n
    /\ link => \A i \in Taken + 1 .. sent : \E k \in Underway : toHost[k].n = i

\* Every process was spawned by start() or to write an instruction, and every
\* turn begun by one.
BoundInv ==
    /\ Len(procs) <= Len(written) + (IF started THEN 1 ELSE 0)
    /\ turns <= Taken

HostInv == HostTypes /\ TakenInv /\ WireInv /\ BoundInv

LEMMA HostNumbers == /\ MaxInstructions \in Nat
                     /\ MaxFrames \in Nat
                     /\ Instruction = 1 .. MaxInstructions
                     /\ None = 0
                     /\ NewProcess \in ProcessRecord
<1>1. <<>> \in Seq(Instruction)
  OBVIOUS
<1> QED
  BY <1>1, HostConstants DEF Instruction, None, NewProcess, ProcessRecord

LEMMA InitHost == Init => HostInv
<1> SUFFICES ASSUME Init PROVE HostInv
  OBVIOUS
<1> USE HostNumbers DEF Init
<1>1. HostTypes
  <2>1. Len(<<>>) = 0 /\ <<>> \in Seq(Frame) /\ <<>> \in Seq(Instruction)
        /\ <<>> \in Seq(ProcessRecord) /\ <<>> \in Seq(EventRecord)
    OBVIOUS
  <2>2. 0 \in 0 .. MaxInstructions /\ 0 \in 0 .. 0
    OBVIOUS
  <2> QED
    BY <2>1, <2>2 DEF HostTypes
<1>2. Taken = 0
  BY DEF Taken
<1>3. TakenInv /\ WireInv /\ BoundInv
  BY <1>2 DEF TakenInv, WireInv, BoundInv, Underway
<1> QED
  BY <1>1, <1>3 DEF HostInv

-----------------------------------------------------------------------------
(* The frames. *)

\* A frame that arrives is the first of those on the wire.
LEMMA Arrival ==
    ASSUME HostInv, NEW type, Receive(type)
    PROVE  /\ link
           /\ toHost' \in Seq(Frame)
           /\ Len(toHost') = Len(toHost) - 1
           /\ \A k \in 1 .. Len(toHost') : toHost'[k] = toHost[k + 1]
           /\ toHost[1] = Head(toHost)
           /\ toHost[1].type = type
           /\ 1 \in 1 .. Len(toHost)
BY HeadTailProperties DEF HostInv, HostTypes, WireInv, Receive

\* A frame that is no instruction leaves what is under way as it was.
LEMMA OtherFrameArrives ==
    ASSUME HostInv, NEW type, type # "instruction", Receive(type), UNCHANGED <<sent, link>>,
           Taken' = Taken
    PROVE  WireInv'
<1> USE Arrival DEF HostInv, HostTypes
<1>1. Taken \in Nat
  BY LenProperties DEF Taken
<1>2. \A k \in Underway' : k + 1 \in Underway /\ toHost'[k] = toHost[k + 1]
  BY DEF Underway
<1>3. \A k \in Underway : k - 1 \in Underway' /\ toHost'[k - 1] = toHost[k]
  <2> SUFFICES ASSUME NEW k \in Underway PROVE k - 1 \in Underway' /\ toHost'[k - 1] = toHost[k]
    OBVIOUS
  <2>1. k # 1 /\ k \in 1 .. Len(toHost)
    BY DEF Underway
  <2>2. k - 1 \in 1 .. Len(toHost')
    BY <2>1
  <2>3. toHost'[k - 1] = toHost[k]
    BY <2>1, <2>2
  <2>4. toHost[k].type = "instruction"
    BY DEF Underway
  <2> QED
    BY <2>2, <2>3, <2>4 DEF Underway
<1>4. \A k \in Underway' : toHost'[k].n \in Taken + 1 .. sent
  BY <1>2 DEF WireInv
<1>5. ASSUME NEW j \in Underway', NEW k \in Underway', j < k
      PROVE  toHost'[j].n < toHost'[k].n
  <2>1. j + 1 < k + 1
    BY <1>5 DEF Underway
  <2>2. j + 1 \in Underway /\ k + 1 \in Underway
    BY <1>2
  <2>3. toHost[j + 1].n < toHost[k + 1].n
    BY <2>1, <2>2 DEF WireInv
  <2> QED
    BY <1>2, <2>3
<1>6. ASSUME NEW i \in Taken + 1 .. sent PROVE \E k \in Underway' : toHost'[k].n = i
  <2>1. PICK k \in Underway : toHost[k].n = i
    BY DEF WireInv
  <2> QED
    BY <1>3, <2>1
<1> QED
  BY <1>4, <1>5, <1>6 DEF WireInv

\* The instruction that arrives is the one after those already taken.
LEMMA InstructionArrives ==
    ASSUME HostInv, Receive("instruction"), UNCHANGED <<sent, link>>
    PROVE  /\ Head(toHost).n = Taken + 1
           /\ Taken + 1 <= sent
           /\ Taken' = Taken + 1 => WireInv'
<1> USE Arrival DEF HostInv, HostTypes
<1>1. Taken \in Nat
  BY LenProperties DEF Taken
<1>2. 1 \in Underway
  BY DEF Underway
<1>3. toHost[1].n \in Taken + 1 .. sent
  BY <1>2 DEF WireInv
<1>4. toHost[1].n = Taken + 1
  <2>0. Taken + 1 \in Taken + 1 .. sent
    BY <1>1, <1>3, HostNumbers
  <2>1. PICK k \in Underway : toHost[k].n = Taken + 1
    BY <2>0 DEF WireInv
  <2>2. k # 1 => 1 < k
    BY DEF Underway
  <2>3. k # 1 => toHost[1].n < toHost[k].n
    BY <1>2, <2>2 DEF WireInv
  <2> QED
    BY <1>1, <1>3, <2>1, <2>3
<1>5. ASSUME Taken' = Taken + 1 PROVE WireInv'
  <2>1. \A k \in Underway' : k + 1 \in Underway /\ toHost'[k] = toHost[k + 1]
    <3> SUFFICES ASSUME NEW k \in Underway'
                 PROVE  k + 1 \in Underway /\ toHost'[k] = toHost[k + 1]
      OBVIOUS
    <3>1. k \in 1 .. Len(toHost') /\ toHost'[k].type = "instruction"
      BY DEF Underway
    <3>2. k + 1 \in 1 .. Len(toHost) /\ toHost'[k] = toHost[k + 1]
      BY <3>1
    <3> QED
      BY <3>1, <3>2 DEF Underway
  <2>2. ASSUME NEW k \in Underway'
        PROVE  toHost'[k].n \in Taken' + 1 .. sent
    <3>1. k + 1 \in Underway /\ toHost'[k] = toHost[k + 1] /\ 1 < k + 1
      BY <2>1 DEF Underway
    <3>2. toHost[1].n < toHost[k + 1].n /\ toHost[k + 1].n \in Taken + 1 .. sent
      BY <1>2, <3>1 DEF WireInv
    <3> DEFINE m == toHost[k + 1].n
    <3>3. m > Taken + 1 /\ m \in Taken + 1 .. sent /\ toHost'[k].n = m
      BY <1>4, <3>1, <3>2
    <3> HIDE DEF m
    <3>4. Taken \in Nat /\ sent \in Nat
      BY <1>1
    <3>5. m \in (Taken + 1) + 1 .. sent
      BY <3>3, <3>4
    <3> QED
      BY <1>5, <3>3, <3>5
  <2>3. ASSUME NEW j \in Underway', NEW k \in Underway', j < k
        PROVE  toHost'[j].n < toHost'[k].n
    <3>1. j + 1 < k + 1
      BY <2>3 DEF Underway
    <3>2. j + 1 \in Underway /\ k + 1 \in Underway
      BY <2>1
    <3>3. toHost[j + 1].n < toHost[k + 1].n
      BY <3>1, <3>2 DEF WireInv
    <3> QED
      BY <2>1, <3>3
  <2>4. ASSUME NEW i \in Taken' + 1 .. sent PROVE \E k \in Underway' : toHost'[k].n = i
    <3>1. i \in Taken + 1 .. sent /\ i # Taken + 1
      BY <1>1, <1>5
    <3>2. PICK k \in Underway : toHost[k].n = i
      BY <3>1 DEF WireInv
    <3>3. k # 1 /\ k \in 1 .. Len(toHost)
      BY <1>4, <3>1, <3>2 DEF Underway
    <3>4. k - 1 \in 1 .. Len(toHost') /\ toHost'[k - 1] = toHost[k]
      BY <3>3
    <3>5. k - 1 \in Underway'
      BY <3>2, <3>4 DEF Underway
    <3> QED
      BY <3>2, <3>4, <3>5
  <2> QED
    BY <2>2, <2>3, <2>4 DEF WireInv
<1> QED
  BY <1>1, <1>3, <1>4, <1>5

\* Types of the steps that add frames.
LEMMA SendKeeps == HostInv /\ (SendInstruction \/ SendControl) => HostInv'
<1> SUFFICES ASSUME HostInv, SendInstruction \/ SendControl PROVE HostInv'
  OBVIOUS
<1> USE HostNumbers DEF HostInv
<1>1. PICK type \in {"instruction", "pause", "resume", "end"}, n \in Instruction \cup {None} :
         /\ Send(Told(type, n))
         /\ type = "instruction" => n = sent + 1 /\ sent' = sent + 1 /\ sent < MaxInstructions
         /\ type # "instruction" => sent' = sent
  <2>1. CASE SendInstruction
    <3>1. sent + 1 \in Instruction
      BY <2>1 DEF SendInstruction, HostTypes
    <3> QED
      BY <2>1, <3>1 DEF SendInstruction
  <2>2. CASE SendControl
    BY <2>2 DEF SendControl
  <2> QED
    BY <2>1, <2>2
<1>2. /\ Told(type, n) \in Frame
      /\ Told(type, n).type = type
      /\ Told(type, n).n = n
  BY DEF Told, Frame
<1> DEFINE new == Told(type, n)
<1>3. /\ toHost' \in Seq(Frame)
      /\ Len(toHost') = Len(toHost) + 1
      /\ \A k \in 1 .. Len(toHost) : toHost'[k] = toHost[k]
      /\ toHost'[Len(toHost) + 1] = new
      /\ Len(toHost) \in Nat
  BY <1>1, <1>2, AppendProperties, LenProperties DEF Send, HostTypes
<1>4. UNCHANGED <<link, started, adapter, host>> /\ link
  BY <1>1 DEF Send
<1>5. sent' \in sent .. MaxInstructions
  BY <1>1 DEF HostTypes
<1>6. HostTypes'
  BY <1>3, <1>4, <1>5 DEF HostTypes, adapter, host
<1>7. Taken' = Taken /\ TakenInv' /\ BoundInv'
  <2>1. Taken' = Taken /\ Taken \in Nat
    BY <1>4, LenProperties DEF Taken, adapter, HostTypes
  <2> QED
    BY <1>4, <1>5, <2>1 DEF TakenInv, BoundInv, adapter, host, HostTypes
<1>8. WireInv'
  <2> HIDE DEF new
  <2>0. Taken \in Nat /\ Taken <= sent /\ sent \in Nat
    BY LenProperties DEF Taken, HostTypes, TakenInv
  <2>1. /\ \A k \in Underway : k \in Underway' /\ toHost'[k] = toHost[k] /\ k \in 1 .. Len(toHost)
        /\ \A k \in Underway' : k \in Underway \/ (k = Len(toHost) + 1 /\ type = "instruction")
        /\ type = "instruction" => Len(toHost) + 1 \in Underway'
    BY <1>2, <1>3 DEF Underway, new
  <2>2. toHost'[Len(toHost) + 1].n = n
    BY <1>2, <1>3 DEF new
  <2>3. \A k \in Underway : toHost[k].n \in Taken + 1 .. sent
    BY DEF WireInv
  <2>4. \A k \in Underway' : toHost'[k].n \in Taken' + 1 .. sent'
    BY <1>1, <1>5, <1>7, <2>0, <2>1, <2>2, <2>3
  <2>5. ASSUME NEW j \in Underway', NEW k \in Underway', j < k
        PROVE  toHost'[j].n < toHost'[k].n
    <3>1. CASE k \in Underway
      <4>1. j \in Underway
        BY <1>3, <2>1, <2>5, <3>1
      <4> QED
        BY <2>1, <2>5, <3>1, <4>1 DEF WireInv
    <3>2. CASE k = Len(toHost) + 1 /\ type = "instruction"
      <4>1. j \in Underway
        BY <1>3, <2>1, <2>5, <3>2
      <4> QED
        BY <1>1, <2>0, <2>1, <2>2, <2>3, <3>2, <4>1
    <3> QED
      BY <2>1, <3>1, <3>2
  <2>6. ASSUME NEW i \in Taken' + 1 .. sent' PROVE \E k \in Underway' : toHost'[k].n = i
    <3>1. CASE i \in Taken + 1 .. sent
      BY <1>4, <2>1, <3>1 DEF WireInv
    <3>2. CASE type = "instruction" /\ i = sent + 1
      BY <1>1, <2>1, <2>2, <3>2
    <3> QED
      BY <1>1, <1>7, <2>0, <2>6, <3>1, <3>2
  <2> QED
    BY <1>4, <2>4, <2>5, <2>6 DEF WireInv
<1> QED
  BY <1>6, <1>7, <1>8

-----------------------------------------------------------------------------
(* What the adapter does with an instruction. *)

\* A step that touches neither the instructions nor the frames.
LEMMA WireKept ==
    ASSUME HostInv, UNCHANGED <<toHost, sent, link, paused, held, written>>
    PROVE  Taken' = Taken /\ TakenInv' /\ WireInv'
BY DEF HostInv, Taken, TakenInv, WireInv, Underway

\* Without a connection nothing is under way.
LEMMA WireLost ==
    ASSUME HostInv, link' = FALSE, toHost' = <<>>, UNCHANGED <<sent, paused, held, written>>
    PROVE  Taken' = Taken /\ TakenInv' /\ WireInv'
<1>1. Taken' = Taken /\ TakenInv'
  BY DEF HostInv, Taken, TakenInv
<1>2. Underway' = {}
  BY DEF Underway
<1> QED
  BY <1>1, <1>2 DEF WireInv

\* What is written to a process reaches its inbox, if anything does.
LEMMA FedTypes ==
    ASSUME NEW ps \in Seq(ProcessRecord), NEW p \in 1 .. Len(ps), NEW batch \in Seq(Instruction)
    PROVE  /\ Fed(ps, p, batch) \in Seq(ProcessRecord)
           /\ Len(Fed(ps, p, batch)) = Len(ps)
<1>1. ps[p] \in ProcessRecord
  BY ElementOfSeq
<1>2. ps[p].inbox \o batch \in Seq(Instruction)
  BY <1>1 DEF ProcessRecord
<1> DEFINE box == IF ps[p].state = "alive" THEN ps[p].inbox \o batch ELSE ps[p].inbox
<1>3. [ps[p] EXCEPT !.inbox = box] \in ProcessRecord
  BY <1>1, <1>2 DEF ProcessRecord
<1>4. Fed(ps, p, batch) = [ps EXCEPT ![p] = [ps[p] EXCEPT !.inbox = box]]
  BY DEF Fed
<1> QED
  BY <1>3, <1>4, ExceptSeq

LEMMA SpawnTypes ==
    ASSUME HostInv
    PROVE  /\ Spawned \in Seq(ProcessRecord)
           /\ Len(Spawned) = Len(procs) + 1
BY HostNumbers, AppendProperties DEF HostInv, HostTypes, Spawned

\* A batch goes to one process, spawned for it when the last one is known dead.
LEMMA Writing ==
    ASSUME HostInv, NEW batch \in Seq(Instruction), batch # <<>>, Write(batch)
    PROVE  /\ procs' \in Seq(ProcessRecord)
           /\ proc' \in 0 .. Len(procs')
           /\ Len(procs') <= Len(procs) + 1
           /\ written' = written \o batch
           /\ Len(written') = Len(written) + Len(batch)
           /\ written' \in Seq(Instruction)
           /\ Len(batch) >= 1
<1> DEFINE to == IF LooksDead THEN Spawned ELSE procs
<1>1. /\ to \in Seq(ProcessRecord)
      /\ Len(to) \in Nat
      /\ Len(to) <= Len(procs) + 1
      /\ proc' \in 1 .. Len(to)
  BY SpawnTypes, LenProperties, HostNumbers DEF HostInv, HostTypes, Write, LooksDead
<1>2. procs' = Fed(to, proc', batch)
  BY DEF Write
<1> HIDE DEF to
<1>3. procs' \in Seq(ProcessRecord) /\ Len(procs') = Len(to)
  BY <1>1, <1>2, FedTypes
<1>4. /\ written' = written \o batch
      /\ Len(written') = Len(written) + Len(batch)
      /\ written' \in Seq(Instruction)
  BY ConcatProperties DEF Write, HostInv, HostTypes
<1>5. Len(batch) >= 1
  BY EmptySeq
<1> QED
  BY <1>1, <1>3, <1>4, <1>5

\* _beginTurn and the end of a turn keep the turn's numbers.
LEMMA BeginTurnTypes ==
    ASSUME HostInv, BeginTurn
    PROVE  /\ turns' \in Nat
           /\ turns' <= turns + 1
           /\ turn' \in {None, turns'}
           /\ feed' \in Seq(EventRecord)
<1>1. CASE turn # None
  BY <1>1 DEF BeginTurn, host, HostInv, HostTypes
<1>2. CASE turn = None
  <2>1. turns' = turns + 1 /\ turn' = turns + 1
    BY <1>2 DEF BeginTurn
  <2>2. <<Event("turn_started", turns + 1)>> \in Seq(EventRecord)
    BY DEF Event, EventRecord, HostInv, HostTypes
  <2>3. feed' \in Seq(EventRecord)
    BY <1>2, <2>2, ConcatProperties DEF BeginTurn, Emitted, HostInv, HostTypes
  <2> QED
    BY <2>1, <2>3 DEF HostInv, HostTypes
<1> QED
  BY <1>1, <1>2

LEMMA ReportTypes ==
    ASSUME HostInv, NEW kind \in {"result", "exited"}, ReportAndEndTurn(kind)
    PROVE  /\ turns' = turns
           /\ turn' = None
           /\ feed' \in Seq(EventRecord)
<1>1. turn \in Nat
  BY HostNumbers DEF HostInv, HostTypes
<1>2. Event(kind, turn) \in EventRecord /\ Event("turn_ended", turn) \in EventRecord
  BY <1>1 DEF Event, EventRecord
<1>3. /\ <<Event(kind, turn)>> \in Seq(EventRecord)
      /\ <<Event(kind, turn), Event("turn_ended", turn)>> \in Seq(EventRecord)
  BY <1>2
<1>4. feed' \in Seq(EventRecord)
  BY <1>3, ConcatProperties DEF ReportAndEndTurn, Emitted, HostInv, HostTypes
<1> QED
  BY <1>4 DEF ReportAndEndTurn

\* A step after which the process table may differ, and what was reported.
LEMMA ProcessStep ==
    ASSUME HostInv, UNCHANGED <<toHost, sent, link, started, paused, held, proc, written>>,
           stopping' \in BOOLEAN,
           procs' \in Seq(ProcessRecord), Len(procs') = Len(procs),
           turns' = turns, turn' \in {None, turns}, feed' \in Seq(EventRecord)
    PROVE  HostInv'
<1>1. Taken' = Taken /\ TakenInv' /\ WireInv'
  BY WireKept
<1>2. HostTypes'
  BY DEF HostInv, HostTypes
<1>3. BoundInv'
  BY <1>1 DEF HostInv, BoundInv
<1> QED
  BY <1>1, <1>2, <1>3 DEF HostInv

LEMMA ReceiveInstructionKeeps == HostInv /\ ReceiveInstruction => HostInv'
<1> SUFFICES ASSUME HostInv, ReceiveInstruction PROVE HostInv'
  OBVIOUS
<1> DEFINE n == Head(toHost).n
<1>0. Receive("instruction") /\ UNCHANGED <<sent, link, started, paused, stopping>> /\ BeginTurn
  BY DEF ReceiveInstruction
<1>1. n = Taken + 1 /\ Taken + 1 <= sent /\ (Taken' = Taken + 1 => WireInv')
  BY <1>0, InstructionArrives
<1>2. Taken \in Nat /\ Len(written) \in Nat /\ Len(held) \in Nat /\ sent <= MaxInstructions
  BY LenProperties, HostNumbers DEF HostInv, HostTypes, Taken
<1>3. n \in Instruction
  BY <1>1, <1>2, HostNumbers DEF HostInv, HostTypes
<1>4. toHost' \in Seq(Frame)
  BY <1>0, Arrival
<1> HIDE DEF n
<1>5. CASE paused
  <2>1. held' = Append(held, n) /\ UNCHANGED <<procs, proc, written>>
    BY <1>5 DEF ReceiveInstruction, n
  <2>2. /\ held' \in Seq(Instruction)
        /\ Len(held') = Len(held) + 1
        /\ \A k \in 1 .. Len(held) : held'[k] = held[k]
        /\ held'[Len(held) + 1] = n
    BY <1>3, <2>1, AppendProperties DEF HostInv, HostTypes
  <2>3. Taken' = Taken + 1
    BY <1>2, <2>1, <2>2 DEF Taken
  <2>4. TakenInv'
    <3>0. \A k \in 1 .. Len(held') : k = Len(held) + 1 \/ k \in 1 .. Len(held)
      BY <1>2, <2>2
    <3>1. \A k \in 1 .. Len(held') : held'[k] = Len(written') + k
      <4>1. n = Len(written) + (Len(held) + 1) /\ written' = written
        BY <1>1, <1>2, <2>1 DEF Taken
      <4>2. \A k \in 1 .. Len(held) : held'[k] = Len(written) + k
        BY <2>2 DEF HostInv, TakenInv
      <4> QED
        BY <2>2, <3>0, <4>1, <4>2
    <3> QED
      BY <1>0, <1>1, <1>5, <2>1, <2>3, <3>1 DEF HostInv, TakenInv
  <2>5. HostTypes'
    BY <1>0, <1>4, <2>1, <2>2, BeginTurnTypes DEF HostInv, HostTypes
  <2>6. BoundInv'
    BY <1>0, <1>2, <2>1, <2>3, BeginTurnTypes DEF HostInv, HostTypes, BoundInv
  <2> QED
    BY <1>1, <2>3, <2>4, <2>5, <2>6 DEF HostInv
<1>6. CASE ~paused
  <2>1. Write(<<n>>) /\ UNCHANGED held
    BY <1>6 DEF ReceiveInstruction, n
  <2>2. /\ <<n>> \in Seq(Instruction)
        /\ <<n>> # <<>>
        /\ Len(<<n>>) = 1
        /\ <<n>>[1] = n
    BY <1>3
  <2>3. /\ procs' \in Seq(ProcessRecord)
        /\ proc' \in 0 .. Len(procs')
        /\ Len(procs') <= Len(procs) + 1
        /\ written' = written \o <<n>>
        /\ Len(written') = Len(written) + 1
        /\ written' \in Seq(Instruction)
    BY <2>1, <2>2, Writing
  <2>4. held = <<>> /\ Len(held) = 0
    BY <1>6, EmptySeq DEF HostInv, TakenInv
  <2>5. Taken' = Taken + 1
    BY <1>2, <2>1, <2>3 DEF Taken
  <2>6. /\ \A k \in 1 .. Len(written) : written'[k] = written[k]
        /\ written'[Len(written) + 1] = n
    BY <1>2, <2>2, <2>3, ConcatProperties DEF HostInv, HostTypes
  <2>7. TakenInv'
    <3>1. \A k \in 1 .. Len(written') : written'[k] = k
      BY <1>1, <1>2, <2>3, <2>4, <2>6 DEF HostInv, TakenInv, Taken
    <3>2. held' = <<>> /\ Len(held') = 0
      BY <2>1, <2>4
    <3> QED
      BY <1>0, <1>1, <2>5, <3>1, <3>2 DEF TakenInv
  <2>8. HostTypes'
    BY <1>0, <1>4, <2>1, <2>3, BeginTurnTypes DEF HostInv, HostTypes
  <2>9. BoundInv'
    <3>1. Len(procs) \in Nat /\ Len(procs') \in Nat
      BY <2>3, LenProperties DEF HostInv, HostTypes
    <3>2. Len(procs') <= Len(written') + (IF started' THEN 1 ELSE 0)
      <4>1. Len(procs) <= Len(written) + (IF started THEN 1 ELSE 0) /\ started' = started
        BY <1>0 DEF HostInv, BoundInv
      <4> QED
        BY <1>2, <2>3, <3>1, <4>1
    <3>3. turns' <= Taken'
      BY <1>0, <1>2, <2>5, BeginTurnTypes DEF HostInv, HostTypes, BoundInv
    <3> QED
      BY <3>2, <3>3 DEF BoundInv
  <2> QED
    BY <1>1, <2>5, <2>7, <2>8, <2>9 DEF HostInv
<1> QED
  BY <1>5, <1>6 DEF HostInv, HostTypes

LEMMA ReceiveResumeKeeps == HostInv /\ ReceiveResume => HostInv'
<1> SUFFICES ASSUME HostInv, ReceiveResume PROVE HostInv'
  OBVIOUS
<1>0. /\ Receive("resume")
      /\ UNCHANGED <<sent, link, started, stopping, host>>
      /\ paused' = FALSE
      /\ held' = <<>>
  BY DEF ReceiveResume
<1>1. toHost' \in Seq(Frame)
  BY <1>0, Arrival
<1>2. /\ Taken \in Nat
      /\ Len(written) \in Nat
      /\ Len(held) \in Nat
      /\ Len(held') = 0
      /\ held' \in Seq(Instruction)
  BY <1>0, LenProperties DEF HostInv, HostTypes, Taken
<1>3. CASE held = <<>>
  <2>1. UNCHANGED <<procs, proc, written, held>>
    BY <1>0, <1>3 DEF ReceiveResume
  <2>2. Taken' = Taken /\ TakenInv' /\ BoundInv'
    BY <1>0, <1>3, <2>1 DEF HostInv, Taken, TakenInv, BoundInv, host
  <2>3. WireInv'
    BY <1>0, <2>2, OtherFrameArrives
  <2>4. HostTypes'
    BY <1>0, <1>1, <2>1 DEF HostInv, HostTypes, host
  <2> QED
    BY <2>2, <2>3, <2>4 DEF HostInv
<1>4. CASE held # <<>>
  <2>1. Write(held)
    BY <1>4 DEF ReceiveResume
  <2>2. /\ procs' \in Seq(ProcessRecord)
        /\ proc' \in 0 .. Len(procs')
        /\ Len(procs') <= Len(procs) + 1
        /\ written' = written \o held
        /\ Len(written') = Len(written) + Len(held)
        /\ written' \in Seq(Instruction)
        /\ Len(held) >= 1
    BY <1>4, <2>1, Writing DEF HostInv, HostTypes
  <2>3. Taken' = Taken
    BY <1>2, <2>2 DEF Taken
  <2>4. TakenInv'
    <3>1. \A k \in 1 .. Len(written') : written'[k] = k
      BY <1>2, <2>2, ConcatProperties DEF HostInv, HostTypes, TakenInv
    <3> QED
      BY <1>0, <1>2, <2>3, <3>1 DEF HostInv, TakenInv
  <2>5. WireInv'
    BY <1>0, <2>3, OtherFrameArrives
  <2>6. HostTypes'
    BY <1>0, <1>1, <1>2, <2>2 DEF HostInv, HostTypes, host
  <2>7. BoundInv'
    <3>1. Len(procs) \in Nat /\ Len(procs') \in Nat
      BY <2>2, LenProperties DEF HostInv, HostTypes
    <3> QED
      BY <1>0, <1>2, <2>2, <2>3, <3>1 DEF HostInv, BoundInv, host
  <2> QED
    BY <2>3, <2>4, <2>5, <2>6, <2>7 DEF HostInv
<1> QED
  BY <1>3, <1>4

LEMMA NextHost == HostInv /\ [Next]_vars => HostInv'
<1> SUFFICES ASSUME HostInv, [Next]_vars PROVE HostInv'
  OBVIOUS
<1> USE HostNumbers
<1>1. CASE SendInstruction \/ SendControl
  BY <1>1, SendKeeps
<1>2. CASE Start
  <2>1. Taken' = Taken /\ TakenInv' /\ WireInv'
    BY <1>2, WireKept DEF Start
  <2>2. /\ procs' \in Seq(ProcessRecord)
        /\ Len(procs') = Len(procs) + 1
        /\ Len(procs) \in Nat
        /\ Len(written) \in Nat
    BY <1>2, SpawnTypes, LenProperties DEF Start, HostInv, HostTypes
  <2>3. HostTypes'
    BY <1>2, <2>2 DEF Start, HostInv, HostTypes, host
  <2>4. BoundInv'
    BY <1>2, <2>1, <2>2 DEF Start, HostInv, BoundInv, host
  <2> QED
    BY <2>1, <2>3, <2>4 DEF HostInv
<1>3. CASE ReceiveInstruction
  BY <1>3, ReceiveInstructionKeeps
<1>4. CASE ReceivePause
  <2>1. Taken' = Taken /\ TakenInv' /\ BoundInv'
    BY <1>4 DEF ReceivePause, HostInv, Taken, TakenInv, BoundInv, host
  <2>2. WireInv'
    BY <1>4, <2>1, OtherFrameArrives DEF ReceivePause
  <2>3. HostTypes'
    BY <1>4, Arrival DEF ReceivePause, HostInv, HostTypes, host
  <2> QED
    BY <2>1, <2>2, <2>3 DEF HostInv
<1>5. CASE ReceiveResume
  BY <1>5, ReceiveResumeKeeps
<1>6. CASE ReceiveEnd
  <2>1. Taken' = Taken /\ TakenInv' /\ BoundInv'
    BY <1>6 DEF ReceiveEnd, HostInv, Taken, TakenInv, BoundInv, host
  <2>2. WireInv'
    BY <1>6, <2>1, OtherFrameArrives DEF ReceiveEnd
  <2>3. HostTypes'
    BY <1>6, Arrival DEF ReceiveEnd, HostInv, HostTypes, host
  <2> QED
    BY <2>1, <2>2, <2>3 DEF HostInv
<1>7. CASE Disconnected
  <2>1. Taken' = Taken /\ TakenInv' /\ WireInv'
    BY <1>7, WireLost DEF Disconnected
  <2>2. proc \in 1 .. Len(procs) /\ procs[proc] \in ProcessRecord
    BY <1>7, ElementOfSeq DEF Disconnected, HostInv, HostTypes
  <2> DEFINE p == IF procs[proc].state = "alive" THEN Dead("killed") ELSE procs[proc]
  <2>3. p \in ProcessRecord
    BY <2>2 DEF Dead, ProcessRecord, NewProcess
  <2>4. procs' = [procs EXCEPT ![proc] = p]
    BY <1>7 DEF Disconnected
  <2>5. procs' \in Seq(ProcessRecord) /\ Len(procs') = Len(procs) /\ Len(procs) \in Nat
    BY <2>2, <2>3, <2>4, ExceptSeq, LenProperties DEF HostInv, HostTypes
  <2>6. HostTypes'
    <3>1. toHost' = <<>> /\ toHost' \in Seq(Frame) /\ proc' \in 0 .. Len(procs')
      BY <1>7, <2>5 DEF Disconnected
    <3> QED
      BY <1>7, <2>5, <3>1 DEF Disconnected, HostInv, HostTypes, host
  <2>7. BoundInv'
    BY <1>7, <2>1, <2>5 DEF Disconnected, HostInv, BoundInv, host
  <2> QED
    BY <2>1, <2>6, <2>7 DEF HostInv
<1>8. CASE LoseLink
  <2>1. Taken' = Taken /\ TakenInv' /\ WireInv'
    BY <1>8, WireLost DEF LoseLink, adapter
  <2>2. toHost' \in Seq(Frame)
    BY <1>8 DEF LoseLink
  <2>3. HostTypes' /\ BoundInv'
    BY <1>8, <2>1, <2>2 DEF LoseLink, adapter, host, HostInv, HostTypes, BoundInv
  <2> QED
    BY <2>1, <2>3 DEF HostInv
<1>9. ASSUME NEW p \in Process, Work(p) PROVE HostInv'
  <2>1. p \in 1 .. Len(procs)
    BY <1>9 DEF Work, Working, Alive, Process, HostInv, HostTypes
  <2>2. procs[p] \in ProcessRecord
    BY <2>1, ElementOfSeq DEF HostInv, HostTypes
  <2>3. procs' \in Seq(ProcessRecord) /\ Len(procs') = Len(procs)
    <3>1. [procs[p] EXCEPT !.worked = TRUE] \in ProcessRecord
      BY <2>2 DEF ProcessRecord
    <3> QED
      BY <1>9, <2>1, <3>1, ExceptSeq DEF Work, HostInv, HostTypes
  <2>4. <<Event("work", turn)>> \in Seq(EventRecord)
    BY DEF Event, EventRecord, HostInv, HostTypes
  <2>5. feed' \in Seq(EventRecord)
    BY <1>9, <2>4, ConcatProperties DEF Work, Emitted, HostInv, HostTypes
  <2> QED
    BY <1>9, <2>3, <2>5, ProcessStep DEF Work, HostInv, HostTypes
<1>10. ASSUME NEW p \in Process, Finish(p) PROVE HostInv'
  <2>1. p \in 1 .. Len(procs) /\ procs[p].inbox # <<>>
    BY <1>10 DEF Finish, Working, Alive, Process, HostInv, HostTypes
  <2>2. procs[p] \in ProcessRecord
    BY <2>1, ElementOfSeq DEF HostInv, HostTypes
  <2>3. Tail(procs[p].inbox) \in Seq(Instruction)
    BY <2>1, <2>2, HeadTailProperties DEF ProcessRecord
  <2>4. [procs[p] EXCEPT !.inbox = Tail(procs[p].inbox), !.worked = FALSE] \in ProcessRecord
    BY <2>2, <2>3 DEF ProcessRecord
  <2>5. procs' = [procs EXCEPT ![p] =
                     [procs[p] EXCEPT !.inbox = Tail(procs[p].inbox), !.worked = FALSE]]
    BY <1>10, <2>1, <2>2 DEF Finish
  <2>6. procs' \in Seq(ProcessRecord) /\ Len(procs') = Len(procs)
    BY <2>1, <2>4, <2>5, ExceptSeq DEF HostInv, HostTypes
  <2>7. turns' = turns /\ turn' = None /\ feed' \in Seq(EventRecord)
    BY <1>10, ReportTypes DEF Finish
  <2> QED
    BY <1>10, <2>6, <2>7, ProcessStep DEF Finish, HostInv, HostTypes
<1>11. ASSUME NEW p \in Process, Die(p) PROVE HostInv'
  <2>1. p \in 1 .. Len(procs)
    BY <1>11 DEF Die, Alive, Process, HostInv, HostTypes
  <2>2. PICK state \in {"exited", "killed"} : procs' = [procs EXCEPT ![p] = Dead(state)]
    BY <1>11 DEF Die
  <2>3. Dead(state) \in ProcessRecord
    BY DEF Dead, ProcessRecord, NewProcess
  <2>4. procs' \in Seq(ProcessRecord) /\ Len(procs') = Len(procs)
    BY <2>1, <2>2, <2>3, ExceptSeq DEF HostInv, HostTypes
  <2>5. turns' = turns /\ turn' \in {None, turns} /\ feed' \in Seq(EventRecord)
    BY <1>11, ReportTypes DEF Die, Exited, host, HostInv, HostTypes
  <2> QED
    BY <1>11, <2>4, <2>5, ProcessStep DEF Die, HostInv, HostTypes
<1>12. CASE UNCHANGED vars
  BY <1>12, ProcessStep DEF vars, adapter, host, HostInv, HostTypes
<1> QED
  BY <1>1, <1>2, <1>3, <1>4, <1>5, <1>6, <1>7, <1>8, <1>9, <1>10, <1>11, <1>12
  DEF Next, ReceiveFrame

LEMMA HostInvariant == Spec => []HostInv
BY InitHost, NextHost, PTL DEF Spec

\* The adapter passes on every instruction once and in order, whatever pauses,
\* respawns of the agent and frames that came early (_route, sendInstruction,
\* resume and _write), and what it has not taken is still on its way.
THEOREM EveryInstructionInOrder == Spec => []InstructionsInOrder
<1>1. HostInv => InstructionsInOrder
  <2> SUFFICES ASSUME HostInv PROVE InstructionsInOrder
    OBVIOUS
  <2>1. /\ Len(written) \in Nat
        /\ Len(held) \in Nat
        /\ Len(written \o held) = Taken
        /\ \A k \in 1 .. Taken : (written \o held)[k] =
              IF k <= Len(written) THEN written[k] ELSE held[k - Len(written)]
    BY ConcatProperties, LenProperties DEF HostInv, HostTypes, Taken
  <2>2. ASSUME NEW k \in 1 .. Taken PROVE (written \o held)[k] = k
    <3>1. CASE k <= Len(written)
      BY <2>1, <3>1 DEF HostInv, TakenInv, Taken
    <3>2. CASE k > Len(written)
      <4>1. k - Len(written) \in 1 .. Len(held)
        BY <2>1, <3>2 DEF Taken
      <4>2. held[k - Len(written)] = Len(written) + (k - Len(written))
        BY <4>1 DEF HostInv, TakenInv
      <4> QED
        BY <2>1, <3>2, <4>2
    <3> QED
      BY <2>1, <3>1, <3>2
  <2>3. link => {toHost[k].n : k \in Underway} = Taken + 1 .. sent
    BY DEF HostInv, WireInv
  <2> QED
    BY <2>1, <2>2, <2>3 DEF InstructionsInOrder, Underway
<1> QED
  BY <1>1, HostInvariant, PTL

-----------------------------------------------------------------------------
(* The turns the server sees. *)

\* No event is of a turn to come, the open turn has not been seen to end, and of
\* each turn the start comes first and the end last.
FeedInv ==
    /\ \A k \in 1 .. Len(feed) : feed[k].turn <= turns
    /\ \A k \in 1 .. Len(feed) :
          feed[k].turn = turn /\ turn # None => feed[k].kind # "turn_ended"
    /\ TurnsAreBracketed

\* What is appended to the feed follows what is there.
LEMMA FeedGrows ==
    ASSUME HostInv, FeedInv, NEW events \in Seq(EventRecord),
           feed' = Emitted(events),
           turns' \in Nat, turns <= turns', turn' \in {None, turns'},
           \A k \in 1 .. Len(events) : events[k].turn <= turns',
           turn' # None /\ turn' # turn => turns < turn',
           \A k \in 1 .. Len(events) :
              /\ events[k].turn = turn' /\ turn' # None => events[k].kind # "turn_ended"
              /\ events[k].turn # None /\ events[k].turn <= turns
                    => events[k].turn = turn /\ events[k].kind # "turn_started",
           \A j, k \in 1 .. Len(events) :
              j < k /\ events[j].turn = events[k].turn /\ events[j].turn # None
                 => events[j].kind # "turn_ended" /\ events[k].kind # "turn_started"
    PROVE  FeedInv'
<1> USE HostNumbers
<1>0. /\ Len(feed) \in Nat
      /\ turns \in Nat
      /\ turn \in Nat
      /\ turn <= turns
      /\ \A k \in 1 .. Len(feed) : feed[k].turn \in Nat /\ feed[k].turn <= turns
  <2>1. \A k \in 1 .. Len(feed) : feed[k] \in EventRecord
    BY ElementOfSeq DEF HostInv, HostTypes
  <2> QED
    BY <2>1, LenProperties DEF HostInv, HostTypes, FeedInv, EventRecord
<1>1. CASE ~link
  <2>1. feed' = feed
    BY <1>1 DEF Emitted
  <2>2. ASSUME NEW k \in 1 .. Len(feed'), feed'[k].turn = turn', turn' # None
        PROVE  feed'[k].kind # "turn_ended"
    BY <1>0, <2>1, <2>2 DEF FeedInv
  <2>3. \A k \in 1 .. Len(feed') : feed'[k].turn <= turns'
    BY <1>0, <2>1
  <2>4. TurnsAreBracketed'
    BY <1>0, <2>1 DEF FeedInv, TurnsAreBracketed
  <2> QED
    BY <2>2, <2>3, <2>4 DEF FeedInv
<1>2. CASE link
  <2>1. feed' = feed \o events
    BY <1>2 DEF Emitted
  <2>2. /\ Len(events) \in Nat
        /\ Len(feed') = Len(feed) + Len(events)
        /\ \A k \in 1 .. Len(feed') : feed'[k] =
              IF k <= Len(feed) THEN feed[k] ELSE events[k - Len(feed)]
    BY <2>1, ConcatProperties, LenProperties DEF HostInv, HostTypes
  <2>3. ASSUME NEW k \in 1 .. Len(feed')
        PROVE  \/ k \in 1 .. Len(feed) /\ feed'[k] = feed[k]
               \/ k > Len(feed) /\ k - Len(feed) \in 1 .. Len(events)
                     /\ feed'[k] = events[k - Len(feed)]
    BY <1>0, <2>2
  <2>4. ASSUME NEW k \in 1 .. Len(feed') PROVE feed'[k].turn <= turns'
    <3>1. CASE k \in 1 .. Len(feed) /\ feed'[k] = feed[k]
      <4>1. feed'[k].turn \in Nat /\ feed'[k].turn <= turns
        BY <1>0, <3>1
      <4> QED
        BY <1>0, <4>1
    <3>2. CASE k - Len(feed) \in 1 .. Len(events) /\ feed'[k] = events[k - Len(feed)]
      BY <3>2
    <3> QED
      BY <2>3, <3>1, <3>2
  <2>5. ASSUME NEW k \in 1 .. Len(feed'), feed'[k].turn = turn', turn' # None
        PROVE  feed'[k].kind # "turn_ended"
    <3>1. CASE k \in 1 .. Len(feed) /\ feed'[k] = feed[k]
      BY <1>0, <2>5, <3>1 DEF FeedInv
    <3>2. CASE k - Len(feed) \in 1 .. Len(events) /\ feed'[k] = events[k - Len(feed)]
      BY <2>5, <3>2
    <3> QED
      BY <2>3, <3>1, <3>2
  <2>6. ASSUME NEW j \in 1 .. Len(feed'), NEW k \in 1 .. Len(feed'),
               j < k, feed'[j].turn = feed'[k].turn, feed'[j].turn # None
        PROVE  feed'[j].kind # "turn_ended" /\ feed'[k].kind # "turn_started"
    <3>1. CASE k \in 1 .. Len(feed)
      <4>1. j \in 1 .. Len(feed)
        BY <1>0, <2>6, <3>1
      <4>2. feed'[j] = feed[j] /\ feed'[k] = feed[k]
        BY <1>0, <2>3, <3>1, <4>1
      <4> QED
        BY <2>6, <3>1, <4>1, <4>2 DEF FeedInv, TurnsAreBracketed
    <3>2. CASE k > Len(feed) /\ j \in 1 .. Len(feed)
      <4>1. feed'[j] = feed[j] /\ k - Len(feed) \in 1 .. Len(events)
            /\ feed'[k] = events[k - Len(feed)]
        BY <1>0, <2>3, <3>2
      <4>2. feed'[k].turn <= turns /\ feed'[k].turn # None
        BY <1>0, <2>6, <3>2, <4>1
      <4>3. feed'[k].turn = turn /\ feed'[k].kind # "turn_started"
        BY <4>1, <4>2
      <4>4. feed[j].turn = turn /\ turn # None
        BY <2>6, <4>1, <4>3
      <4>5. feed[j].kind # "turn_ended"
        BY <3>2, <4>4 DEF FeedInv
      <4> QED
        BY <4>1, <4>3, <4>5
    <3>3. CASE k > Len(feed) /\ j > Len(feed)
      <4>0. k \notin 1 .. Len(feed) /\ j \notin 1 .. Len(feed)
        BY <1>0, <3>3
      <4>a. j - Len(feed) \in 1 .. Len(events) /\ feed'[j] = events[j - Len(feed)]
        BY <2>3, <4>0
      <4>b. k - Len(feed) \in 1 .. Len(events) /\ feed'[k] = events[k - Len(feed)]
        BY <2>3, <4>0
      <4>c. j - Len(feed) < k - Len(feed)
        BY <1>0, <2>6, <2>2
      <4>1. /\ j - Len(feed) \in 1 .. Len(events)
            /\ feed'[j] = events[j - Len(feed)]
            /\ k - Len(feed) \in 1 .. Len(events)
            /\ feed'[k] = events[k - Len(feed)]
            /\ j - Len(feed) < k - Len(feed)
        BY <4>a, <4>b, <4>c
      <4> QED
        BY <2>6, <4>1
    <3> QED
      BY <1>0, <2>2, <3>1, <3>2, <3>3
  <2> QED
    BY <2>4, <2>5, <2>6 DEF FeedInv, TurnsAreBracketed
<1> QED
  BY <1>1, <1>2 DEF HostInv, HostTypes

LEMMA BeginTurnFeed == HostInv /\ FeedInv /\ BeginTurn => FeedInv'
<1> SUFFICES ASSUME HostInv, FeedInv, BeginTurn PROVE FeedInv'
  OBVIOUS
<1> USE HostNumbers
<1>1. CASE turn # None
  BY <1>1 DEF BeginTurn, host, FeedInv, TurnsAreBracketed
<1>2. CASE turn = None
  <2>1. turns \in Nat
    BY DEF HostInv, HostTypes
  <2> DEFINE events == <<Event("turn_started", turns + 1)>>
  <2>2. /\ events \in Seq(EventRecord)
        /\ Len(events) = 1
        /\ events[1].turn = turns + 1
        /\ events[1].kind = "turn_started"
    BY <2>1 DEF Event, EventRecord
  <2>3. feed' = Emitted(events) /\ turns' = turns + 1 /\ turn' = turns + 1
    BY <1>2 DEF BeginTurn
  <2> HIDE DEF events
  <2> QED
    BY <1>2, <2>1, <2>2, <2>3, FeedGrows
<1> QED
  BY <1>1, <1>2

LEMMA ReportFeed ==
    ASSUME HostInv, FeedInv, NEW kind \in {"result", "exited"}, ReportAndEndTurn(kind)
    PROVE  FeedInv'
<1> USE HostNumbers
<1>0. turns \in Nat /\ turn \in Nat /\ turn <= turns
  BY DEF HostInv, HostTypes
<1> DEFINE events == IF turn = None THEN <<Event(kind, turn)>>
                     ELSE <<Event(kind, turn), Event("turn_ended", turn)>>
<1>1. feed' = Emitted(events) /\ turn' = None /\ turns' = turns
  BY DEF ReportAndEndTurn
<1>2. /\ events \in Seq(EventRecord)
      /\ \A k \in 1 .. Len(events) :
            /\ events[k].turn = turn
            /\ events[k].kind # "turn_started"
            /\ turn = None \/ k = 2 \/ events[k].kind # "turn_ended"
      /\ Len(events) <= 2
      /\ Len(events) \in Nat
  <2>1. /\ Event(kind, turn) \in EventRecord
        /\ Event("turn_ended", turn) \in EventRecord
        /\ Event(kind, turn).turn = turn
        /\ Event("turn_ended", turn).turn = turn
        /\ Event(kind, turn).kind = kind
        /\ Event("turn_ended", turn).kind = "turn_ended"
    BY <1>0 DEF Event, EventRecord
  <2>2. CASE turn = None
    BY <2>1, <2>2
  <2>3. CASE turn # None
    BY <2>1, <2>3
  <2> QED
    BY <2>2, <2>3
<1> HIDE DEF events
<1>3. \A j, k \in 1 .. Len(events) : j < k => j # 2
  BY <1>2
<1> QED
  BY <1>0, <1>1, <1>2, <1>3, FeedGrows

LEMMA NextFeed == HostInv /\ FeedInv /\ [Next]_vars => FeedInv'
<1> SUFFICES ASSUME HostInv, FeedInv, [Next]_vars PROVE FeedInv'
  OBVIOUS
<1>1. CASE UNCHANGED host
  BY <1>1 DEF host, FeedInv, TurnsAreBracketed
<1>2. CASE ReceiveInstruction
  BY <1>2, BeginTurnFeed DEF ReceiveInstruction
<1>3. ASSUME NEW p \in Process, Work(p) PROVE FeedInv'
  <2>1. turns \in Nat /\ turn \in Nat /\ turn <= turns
    BY HostNumbers DEF HostInv, HostTypes
  <2> DEFINE events == <<Event("work", turn)>>
  <2>2. /\ events \in Seq(EventRecord)
        /\ Len(events) = 1
        /\ events[1].turn = turn
        /\ events[1].kind = "work"
    BY <2>1 DEF Event, EventRecord
  <2>3. feed' = Emitted(events) /\ turns' = turns /\ turn' = turn
    BY <1>3 DEF Work
  <2>4. turn' \in {None, turns'}
    BY <2>3 DEF HostInv, HostTypes
  <2> HIDE DEF events
  <2> QED
    BY <2>1, <2>2, <2>3, <2>4, FeedGrows
<1>4. ASSUME NEW p \in Process, Finish(p) PROVE FeedInv'
  BY <1>4, ReportFeed DEF Finish
<1>5. ASSUME NEW p \in Process, Die(p) PROVE FeedInv'
  BY <1>1, <1>5, ReportFeed DEF Die, Exited
<1> QED
  BY <1>1, <1>2, <1>3, <1>4, <1>5
  DEF Next, ReceiveFrame, SendInstruction, SendControl, Send, Start, ReceivePause,
      ReceiveResume, ReceiveEnd, Disconnected, LoseLink, vars

LEMMA FeedInvariant == Spec => []FeedInv
<1>1. Init => FeedInv
  BY DEF Init, FeedInv, TurnsAreBracketed
<1> QED
  BY <1>1, HostInvariant, NextFeed, PTL DEF Spec

\* Of each turn the server first sees its start, and nothing after its end, which
\* comes once: whatever else an adapter whose agent answers out of turn, dies or
\* is respawned reports (_beginTurn, _endTurn, _onAdapterEvent).
THEOREM TurnsStartOnceAndEndOnce == Spec => []TurnsAreBracketed
<1>1. FeedInv => TurnsAreBracketed
  BY DEF FeedInv
<1> QED
  BY <1>1, FeedInvariant, PTL

\* Every variable keeps its type; there are never more processes than one per
\* instruction and the one of start(), nor more turns than instructions.
THEOREM HostTypeCorrect == Spec => []TypeOK
<1>1. HostInv /\ FeedInv => TypeOK
  <2> SUFFICES ASSUME HostInv, FeedInv PROVE TypeOK
    OBVIOUS
  <2>1. /\ Len(written) \in Nat
        /\ Len(held) \in Nat
        /\ Taken <= MaxInstructions
        /\ Len(procs) \in Nat
    BY LenProperties, HostNumbers DEF HostInv, HostTypes, TakenInv, Taken
  <2>2. turns \in 0 .. MaxInstructions /\ Len(procs) <= MaxInstructions + 1
    BY <2>1, HostNumbers DEF HostInv, HostTypes, BoundInv, Taken
  <2> DEFINE Kept == [kind: {"turn_started", "work", "result", "exited", "turn_ended"},
                      turn: 0 .. turns]
  <2>3. ASSUME NEW k \in 1 .. Len(feed) PROVE feed[k] \in Kept
    <3>1. feed[k] \in EventRecord /\ feed[k].turn <= turns /\ turns \in Nat
      BY ElementOfSeq DEF HostInv, HostTypes, FeedInv
    <3> QED
      BY <3>1 DEF EventRecord
  <2>4. feed \in Seq(Kept)
    <3>1. feed \in [1 .. Len(feed) -> EventRecord] /\ Len(feed) \in Nat
      BY LenProperties DEF HostInv, HostTypes
    <3> HIDE DEF Kept
    <3>2. feed \in [1 .. Len(feed) -> Kept]
      BY <2>3, <3>1
    <3> QED
      BY <3>1, <3>2, SeqDef
  <2> QED
    BY <2>2, <2>4 DEF HostInv, HostTypes, TypeOK, Frame, ProcessRecord
<1> QED
  BY <1>1, HostInvariant, FeedInvariant, PTL

=============================================================================
