------------------------- MODULE VersionWatchProofs -------------------------
(***************************************************************************)
(* What is proved of the watch of one escrow for every bound on versions,  *)
(* faults and buffered checkpoints.                                        *)
(***************************************************************************)
EXTENDS VersionWatch, SequenceTheorems, TLAPS

(* A reading in flight is no older than what the caller was shown: ticks are *)
(* awaited one after the other, and only a tick shows anything.              *)
ReadingFresh == read # 0 => shown <= read

IInv == TypeOK /\ ReadingFresh

LEMMA InitCheckpoints == Init => CheckpointsOK
<1>1. <<>> \in Seq(1 .. chain) /\ <<>> \in Seq(Seq(1 .. chain))
  OBVIOUS
<1> QED BY <1>1 DEF Init, CheckpointsOK

LEMMA InitInv == Init => IInv
<1>1. Init => LoopOK
  <2>1. 0 \in 0 .. MaxFaults
    BY BoundsAssumption
  <2>2. Init => /\ link = "shut" /\ mode \in {"push", "poll"} /\ pc \in {"tick", "poll"}
                /\ primed = FALSE /\ stopped = FALSE /\ faults = 0 /\ spoilt = {}
    BY DEF Init
  <2> QED BY <2>1, <2>2 DEF LoopOK
<1>2. Init => ReadingsOK /\ ReadingFresh
  BY BoundsAssumption DEF Init, ReadingsOK, ReadingFresh, Versions
<1> QED BY <1>1, <1>2, InitCheckpoints DEF IInv, TypeOK

(* The sequences keep their type when a checkpoint joins the stream, when a  *)
(* drop cuts it, and when its head is taken.                                 *)
LEMMA SeqMono ==
  ASSUME NEW S, NEW T, S \subseteq T, NEW q \in Seq(S)
  PROVE  q \in Seq(T)
OBVIOUS

LEMMA SeqSeqMono ==
  ASSUME NEW S, NEW T, S \subseteq T, NEW q \in Seq(Seq(S))
  PROVE  q \in Seq(Seq(T))
<1>1. Seq(S) \subseteq Seq(T)
  BY SeqMono
<1> QED BY <1>1, SeqMono

LEMMA PrefixType ==
  ASSUME NEW T, NEW q \in Seq(T), NEW n \in 0 .. Len(q)
  PROVE  SubSeq(q, 1, n) \in Seq(T)
BY SubSeqProperties

LEMMA CheckpointType ==
  ASSUME NEW c \in Nat, NEW k \in Nat
  PROVE  [i \in 1 .. k |-> c + i] \in Seq(1 .. (c + k))
<1>1. \A i \in 1 .. k : c + i \in 1 .. (c + k)
  OBVIOUS
<1>2. [i \in 1 .. k |-> c + i] \in [1 .. k -> 1 .. (c + k)]
  BY <1>1
<1> QED BY <1>2, IsASeq

LEMMA CheckpointKeepsSeqs ==
  ASSUME IInv, NEW k \in 0 .. 2, Checkpoint(k)
  PROVE  CheckpointsOK'
<1> DEFINE c == [i \in 1 .. k |-> chain + i]
<1>1. chain \in Nat /\ k \in Nat /\ chain' = chain + k
  BY DEF Checkpoint, IInv, TypeOK, ReadingsOK, Versions
<1>2. 1 .. chain \subseteq 1 .. chain'
  BY <1>1
<1>3. stream \in Seq(Seq(1 .. chain)) /\ held \in Seq(1 .. chain)
  BY DEF IInv, TypeOK, CheckpointsOK
<1>4. stream \in Seq(Seq(1 .. chain')) /\ held \in Seq(1 .. chain')
  BY <1>2, <1>3, SeqMono, SeqSeqMono
<1>5. c \in Seq(1 .. chain')
  BY <1>1, CheckpointType
<1>6. stream' = stream \/ stream' = Append(stream, c)
  BY DEF Checkpoint
<1>7. Append(stream, c) \in Seq(Seq(1 .. chain'))
  BY <1>4, <1>5, AppendProperties
<1>8. held' = held
  BY DEF Checkpoint, loop
<1> QED BY <1>4, <1>6, <1>7, <1>8 DEF CheckpointsOK

LEMMA CheckpointInv == ASSUME IInv, NEW k \in 0 .. 2, Checkpoint(k) PROVE IInv'
<1>1. /\ chain' = chain + k /\ chain + k <= MaxVersion
      /\ UNCHANGED <<link, mode, loop, stopped, faults, spoilt>>
  BY DEF Checkpoint
<1>2. LoopOK /\ ReadingsOK /\ ReadingFresh
  BY DEF IInv, TypeOK
<1>3. LoopOK'
  BY <1>1, <1>2 DEF LoopOK, loop
<1>4. ReadingsOK' /\ ReadingFresh'
  BY <1>1, <1>2, BoundsAssumption DEF ReadingsOK, ReadingFresh, loop, Versions
<1> QED BY <1>3, <1>4, CheckpointKeepsSeqs DEF IInv, TypeOK

LEMMA EstablishInv == IInv /\ Establish => IInv'
BY DEF IInv, TypeOK, LoopOK, CheckpointsOK, ReadingsOK, ReadingFresh, Establish, loop

LEMMA DropInv == ASSUME IInv, Drop PROVE IInv'
<1>1. PICK n \in 0 .. Len(stream) : stream' = SubSeq(stream, 1, n)
  BY DEF Drop
<1>2. CheckpointsOK'
  <2>1. stream' \in Seq(Seq(1 .. chain))
    BY <1>1, PrefixType DEF IInv, TypeOK, CheckpointsOK
  <2> QED BY <2>1 DEF Drop, loop, IInv, TypeOK, CheckpointsOK
<1>3. LoopOK'
  <2>1. faults \in 0 .. MaxFaults /\ faults < MaxFaults => faults + 1 \in 0 .. MaxFaults
    BY BoundsAssumption
  <2> QED BY <2>1 DEF Drop, Fault, loop, IInv, TypeOK, LoopOK
<1>4. ReadingsOK' /\ ReadingFresh'
  BY DEF Drop, loop, IInv, TypeOK, ReadingsOK, ReadingFresh
<1> QED BY <1>2, <1>3, <1>4 DEF IInv, TypeOK

LEMMA ServedInv == IInv /\ Served => IInv'
<1> SUFFICES ASSUME IInv, Served PROVE IInv'
  OBVIOUS
<1>1. CheckpointsOK' /\ LoopOK'
  BY DEF IInv, TypeOK, CheckpointsOK, LoopOK, Served
<1>2. ReadingsOK' /\ ReadingFresh'
  BY BoundsAssumption DEF IInv, TypeOK, ReadingsOK, ReadingFresh, Served, Versions
<1> QED BY <1>1, <1>2 DEF IInv, TypeOK

LEMMA FaultCount == LoopOK /\ faults < MaxFaults => faults + 1 \in 0 .. MaxFaults
BY BoundsAssumption DEF LoopOK

(* The steps that end a tick, a prime or a poll touch no checkpoint.         *)
LEMMA TickDoneInv == IInv /\ TickDone => IInv'
<1> SUFFICES ASSUME IInv, TickDone PROVE IInv'
  OBVIOUS
<1>1. CheckpointsOK' /\ LoopOK'
  BY DEF IInv, TypeOK, CheckpointsOK, LoopOK, TickDone, AfterTick
<1>2. ReadingsOK' /\ ReadingFresh'
  BY BoundsAssumption DEF IInv, TypeOK, ReadingsOK, ReadingFresh, TickDone, Versions
<1> QED BY <1>1, <1>2 DEF IInv, TypeOK

LEMMA FlakeInv == IInv /\ (TickFlake \/ PrimeFlake \/ PollFlake) => IInv'
<1> SUFFICES ASSUME IInv, TickFlake \/ PrimeFlake \/ PollFlake PROVE IInv'
  OBVIOUS
<1>1. /\ faults < MaxFaults /\ faults' = faults + 1
      /\ spoilt' \subseteq spoilt \cup {"flake"}
      /\ pc' \in {"scan", "asleep"} /\ read' = 0
      /\ UNCHANGED <<chain, link, stream, mode, last, primed, held, shown, stopped>>
  BY DEF TickFlake, PrimeFlake, PollFlake, Fault, AfterTick
<1>2. CheckpointsOK'
  BY <1>1 DEF IInv, TypeOK, CheckpointsOK
<1>3. LoopOK'
  BY <1>1, FaultCount DEF IInv, TypeOK, LoopOK
<1>4. ReadingsOK' /\ ReadingFresh'
  BY <1>1, BoundsAssumption DEF IInv, TypeOK, ReadingsOK, ReadingFresh, Versions
<1> QED BY <1>2, <1>3, <1>4 DEF IInv, TypeOK

LEMMA PrimeOrPollDoneInv == IInv /\ (PrimeDone \/ PollDone) => IInv'
<1> SUFFICES ASSUME IInv, PrimeDone \/ PollDone PROVE IInv'
  OBVIOUS
<1>1. /\ pc' \in {"tick", "scan", "asleep"} /\ last' = read /\ read' = 0
      /\ UNCHANGED <<chain, link, stream, mode, primed, held, shown, stopped, faults, spoilt>>
  BY DEF PrimeDone, PollDone
<1>2. CheckpointsOK' /\ LoopOK'
  BY <1>1 DEF IInv, TypeOK, CheckpointsOK, LoopOK
<1>3. ReadingsOK' /\ ReadingFresh'
  BY <1>1, BoundsAssumption DEF IInv, TypeOK, ReadingsOK, ReadingFresh, Versions
<1> QED BY <1>2, <1>3 DEF IInv, TypeOK

LEMMA OpenInv == IInv /\ Open => IInv'
BY DEF IInv, TypeOK, LoopOK, CheckpointsOK, ReadingsOK, ReadingFresh, Open, loop

LEMMA WakeInv == IInv /\ Wake => IInv'
BY DEF IInv, TypeOK, LoopOK, CheckpointsOK, ReadingsOK, ReadingFresh, Wake

LEMMA StopInv == ASSUME IInv, Stop PROVE IInv'
<1>1. <<>> \in Seq(Seq(1 .. chain))
  OBVIOUS
<1>2. CheckpointsOK'
  BY <1>1 DEF Stop, loop, IInv, TypeOK, CheckpointsOK
<1>3. LoopOK' /\ ReadingsOK' /\ ReadingFresh'
  BY DEF Stop, loop, IInv, TypeOK, LoopOK, ReadingsOK, ReadingFresh
<1> QED BY <1>2, <1>3 DEF IInv, TypeOK

LEMMA ReceiveInv == ASSUME IInv, Receive PROVE IInv'
<1>1. /\ stream # <<>> /\ held' = Head(stream) /\ stream' = Tail(stream)
      /\ pc = "idle" /\ pc' \in {"scan", "prime"} /\ primed' = TRUE
      /\ UNCHANGED <<chain, link, mode, read, last, shown, stopped, faults, spoilt>>
  BY DEF Receive
<1>2. Head(stream) \in Seq(1 .. chain) /\ Tail(stream) \in Seq(Seq(1 .. chain))
  BY <1>1, HeadTailProperties DEF IInv, TypeOK, CheckpointsOK
<1>3. CheckpointsOK'
  BY <1>1, <1>2 DEF CheckpointsOK
<1>4. LoopOK'
  BY <1>1 DEF IInv, TypeOK, LoopOK
<1>5. ReadingsOK' /\ ReadingFresh'
  BY <1>1 DEF IInv, TypeOK, ReadingsOK, ReadingFresh
<1> QED BY <1>3, <1>4, <1>5 DEF IInv, TypeOK

LEMMA ScanInv == ASSUME IInv, Scan PROVE IInv'
<1>1. /\ pc = "scan" /\ pc' \in {"idle", "tick", "scan"}
      /\ UNCHANGED <<chain, link, stream, mode, read, primed, shown, stopped, faults, spoilt>>
  BY DEF Scan
<1>2. held' \in Seq(1 .. chain) /\ last' \in 0 .. chain
  <2>1. held \in Seq(1 .. chain) /\ last \in 0 .. chain
    BY DEF IInv, TypeOK, CheckpointsOK, ReadingsOK
  <2>2. CASE held = <<>>
    BY <2>1, <2>2 DEF Scan
  <2>3. CASE held # <<>>
    <3>1. Tail(held) \in Seq(1 .. chain) /\ Head(held) \in 1 .. chain
      BY <2>1, <2>3, HeadTailProperties
    <3>2. 1 .. chain \subseteq 0 .. chain
      OBVIOUS
    <3>3. held' = Tail(held) /\ last' = Head(held)
      BY <2>3 DEF Scan
    <3> QED BY <3>1, <3>2, <3>3
  <2> QED BY <2>2, <2>3
<1>3. CheckpointsOK'
  BY <1>1, <1>2 DEF IInv, TypeOK, CheckpointsOK
<1>4. LoopOK'
  BY <1>1 DEF IInv, TypeOK, LoopOK
<1>5. ReadingsOK' /\ ReadingFresh'
  BY <1>1, <1>2 DEF IInv, TypeOK, ReadingsOK, ReadingFresh
<1> QED BY <1>3, <1>4, <1>5 DEF IInv, TypeOK

LEMMA StutterInv == IInv /\ UNCHANGED vars => IInv'
BY DEF IInv, TypeOK, LoopOK, CheckpointsOK, ReadingsOK, ReadingFresh, vars

(* Every step preserves the invariant.                                       *)
LEMMA NextInv == IInv /\ [Next]_vars => IInv'
<1> SUFFICES ASSUME IInv, [Next]_vars PROVE IInv'
  OBVIOUS
<1>1. CASE Run
  BY <1>1, ServedInv, TickDoneInv, FlakeInv, OpenInv, ReceiveInv, PrimeOrPollDoneInv,
     ScanInv, WakeInv DEF Run
<1>2. CASE Establish
  BY <1>2, EstablishInv
<1>3. CASE Drop
  BY <1>3, DropInv
<1>4. CASE Stop
  BY <1>4, StopInv
<1>5. CASE \E k \in 0 .. 2 : Checkpoint(k)
  BY <1>5, CheckpointInv
<1>6. CASE UNCHANGED vars
  BY <1>6, StutterInv
<1> QED BY <1>1, <1>2, <1>3, <1>4, <1>5, <1>6 DEF Next

(* The invariant of the watch loop holds in every reachable state.           *)
THEOREM Invariance == Spec => []IInv
BY InitInv, NextInv, PTL DEF Spec

(* Nothing received, recorded or shown is ever ahead of the chain, and a     *)
(* reading is in flight only where the loop awaits one.                      *)
THEOREM TypeCorrect == Spec => []TypeOK
<1>1. IInv => TypeOK
  BY DEF IInv
<1> QED BY <1>1, Invariance, PTL

(* Only a tick changes what the caller sees.                                 *)
LEMMA OnlyTicksShow ==
  [Next]_vars => shown' = shown \/ (TickDone /\ ~stopped /\ read # 0 /\ shown' = read)
BY DEF Next, Run, Checkpoint, Establish, Drop, Stop, Served, TickDone, TickFlake, Open,
   Receive, PrimeDone, PrimeFlake, Scan, PollDone, PollFlake, Wake, loop, vars

(* What the caller of `escrow.watch` or `cap.watch` is shown never runs      *)
(* backwards, whatever the order in which versions wake the loop.            *)
THEOREM ShownNeverRunsBackwards == Spec => ShownForward
<1>1. IInv /\ [Next]_vars => shown' >= shown
  BY OnlyTicksShow DEF IInv, TypeOK, ReadingsOK, ReadingFresh, Versions
<1> QED BY <1>1, Invariance, PTL DEF Spec, ShownForward

(* After the stop returned by `subscribeEscrowVersion` nothing is shown.     *)
THEOREM StopSilences == Spec => SilentAfterStop
<1>1. [Next]_vars /\ stopped => shown' = shown
  BY OnlyTicksShow
<1> QED BY <1>1, PTL DEF Spec, SilentAfterStop

-----------------------------------------------------------------------------
(* Nothing is lost between the first reading and the live stream.  As long   *)
(* as nothing was spoilt, a primed loop has a live stream, a tick reads no   *)
(* less than what woke it, and the current version is shown, about to be     *)
(* read, or among the versions received.                                     *)
Undisturbed == spoilt = {} /\ ~stopped
Holds(q, v) == \E j \in 1 .. Len(q) : q[j] = v
Coming == Holds(held, chain) \/ \E k \in 1 .. Len(stream) : Holds(stream[k], chain)
Showing == shown = chain \/ (pc \in {"tick", "prime"} /\ read \in {0, chain})

PollingOpensNothing ==
  /\ mode = "poll" => ~primed /\ link = "shut" /\ stream = <<>>
  /\ pc \in {"poll", "asleep"} => mode = "poll"
FirstPrimeFinds ==
  /\ pc = "idle" => held = <<>>
  /\ ~primed => held = <<>> /\ pc # "prime"
  /\ (mode = "push" /\ ~primed) \/ pc = "prime" => last = 0
LiveOncePrimed == Undisturbed /\ (primed \/ stream # <<>>) => link = "live"
TicksCatchUp ==
  Undisturbed => /\ pc = "tick" /\ read # 0 => read >= last
                 /\ pc \in {"scan", "idle"} => shown >= last
Covered == Undisturbed /\ primed => Coming \/ Showing

Setup ==
  /\ PollingOpensNothing /\ FirstPrimeFinds /\ LiveOncePrimed /\ TicksCatchUp
  /\ Covered

LEMMA SetupCovers == IInv /\ Setup => SetupGapCovered
BY DEF IInv, TypeOK, ReadingsOK, Setup, FirstPrimeFinds, Covered, Coming, Showing, Holds,
   Undisturbed, SetupGapCovered

LEMMA SetupInit == Init => Setup
BY DEF Init, Setup, PollingOpensNothing, FirstPrimeFinds, LiveOncePrimed, TicksCatchUp,
   Covered, Undisturbed

(* What the head of a sequence does not hold, its tail does.                 *)
LEMMA HoldsTail ==
  ASSUME NEW S, NEW q \in Seq(S), q # <<>>, NEW v, Holds(q, v)
  PROVE  Head(q) = v \/ Holds(Tail(q), v)
<1>1. PICK j \in 1 .. Len(q) : q[j] = v
  BY DEF Holds
<1>2. /\ Head(q) = q[1] /\ Len(Tail(q)) = Len(q) - 1 /\ Len(q) \in Nat
      /\ \A k \in 1 .. Len(Tail(q)) : Tail(q)[k] = q[k + 1]
  BY HeadTailProperties
<1>3. CASE j = 1
  BY <1>1, <1>2, <1>3
<1>4. CASE j # 1
  <2>1. j - 1 \in 1 .. Len(Tail(q)) /\ Tail(q)[j - 1] = v
    BY <1>1, <1>2, <1>4
  <2> QED BY <2>1 DEF Holds
<1> QED BY <1>3, <1>4

(* A checkpoint that changes the escrow reaches a live stream.               *)
LEMMA SetupCheckpoint == ASSUME IInv, Setup, NEW k \in 0 .. 2, Checkpoint(k) PROVE Setup'
<1> DEFINE c == [i \in 1 .. k |-> chain + i]
<1>1. /\ chain' = chain + k
      /\ UNCHANGED <<link, mode, pc, read, last, primed, held, shown, stopped, faults, spoilt>>
      /\ link # "live" => stream' = stream
      /\ link = "live" => stream' = Append(stream, c)
  BY DEF Checkpoint, loop
<1>2. chain \in Nat /\ stream \in Seq(Seq(1 .. chain))
  BY DEF IInv, TypeOK, CheckpointsOK, ReadingsOK, Versions
<1>3. PollingOpensNothing' /\ FirstPrimeFinds' /\ TicksCatchUp'
  BY <1>1 DEF Setup, PollingOpensNothing, FirstPrimeFinds, TicksCatchUp, Undisturbed
<1>4. LiveOncePrimed'
  BY <1>1 DEF Setup, LiveOncePrimed, Undisturbed
<1>5. ASSUME Undisturbed', primed' PROVE Coming' \/ Showing'
  <2>1. link = "live" /\ Undisturbed /\ primed
    BY <1>1, <1>5 DEF Setup, LiveOncePrimed, Undisturbed
  <2>2. Len(c) = k /\ \A i \in 1 .. k : c[i] = chain + i
    OBVIOUS
  <2>3. c \in Seq(1 .. (chain + k)) /\ stream \in Seq(Seq(1 .. (chain + k)))
    <3>1. 1 .. chain \subseteq 1 .. (chain + k)
      BY <1>2
    <3> QED BY <1>2, <3>1, CheckpointType, SeqSeqMono
  <2>4. stream' = Append(stream, c)
    BY <1>1, <2>1
  <2> HIDE DEF c
  <2>5. Append(stream, c) \in Seq(Seq(1 .. (chain + k)))
    BY <2>3, AppendProperties
  <2>6. /\ Len(stream) \in Nat /\ Len(stream') = Len(stream) + 1
        /\ stream'[Len(stream) + 1] = c
        /\ \A n \in 1 .. Len(stream) : stream'[n] = stream[n]
    BY <2>3, <2>4, AppendProperties
  <2>7. CASE k = 0
    <3>1. chain' = chain /\ held' = held
      BY <1>1, <1>2, <2>7
    <3>2. CASE Showing
      BY <1>1, <3>1, <3>2 DEF Showing
    <3>3. CASE Holds(held, chain)
      BY <3>1, <3>3 DEF Coming
    <3>4. CASE \E n \in 1 .. Len(stream) : Holds(stream[n], chain)
      <4>1. PICK n \in 1 .. Len(stream) : Holds(stream[n], chain)
        BY <3>4
      <4>2. n \in 1 .. Len(stream') /\ Holds(stream'[n], chain')
        BY <2>6, <3>1, <4>1
      <4> QED BY <4>2 DEF Coming
    <3> QED BY <2>1, <3>2, <3>3, <3>4 DEF Setup, Covered, Coming
  <2>8. CASE k # 0
    <3>1. Holds(c, chain')
      BY <1>1, <2>2, <2>8 DEF Holds
    <3>2. Len(stream) + 1 \in 1 .. Len(stream')
      BY <2>6
    <3> QED BY <2>6, <3>1, <3>2 DEF Coming
  <2> QED BY <2>7, <2>8
<1>6. Covered'
  BY <1>5 DEF Covered, Coming
<1> QED BY <1>3, <1>4, <1>6 DEF Setup

(* The steps that leave what was received alone, and what they must keep.    *)
LEMMA SetupLinkStep ==
  ASSUME Setup, UNCHANGED <<chain, mode, pc, read, last, primed, held, shown>>,
         Undisturbed' => Undisturbed /\ stream' = stream,
         Undisturbed' /\ link = "live" => link' = "live",
         mode = "poll" => link' = "shut" /\ stream' = <<>>
  PROVE  Setup'
<1>1. PollingOpensNothing' /\ FirstPrimeFinds' /\ LiveOncePrimed' /\ TicksCatchUp'
  BY DEF Setup, PollingOpensNothing, FirstPrimeFinds, LiveOncePrimed, TicksCatchUp, Undisturbed
<1>2. Covered'
  BY DEF Setup, Covered, Coming, Showing, Undisturbed
<1> QED BY <1>1, <1>2 DEF Setup

LEMMA SetupTransport == ASSUME IInv, Setup, Establish \/ Drop \/ Open \/ Stop PROVE Setup'
<1>1. CASE Establish
  BY <1>1, SetupLinkStep DEF Establish, loop, Undisturbed, Setup, PollingOpensNothing
<1>2. CASE Drop
  BY <1>2, SetupLinkStep DEF Drop, Fault, loop, Undisturbed, Setup, PollingOpensNothing
<1>3. CASE Open
  BY <1>3, SetupLinkStep DEF Open, loop, Undisturbed
<1>4. CASE Stop
  BY <1>4, SetupLinkStep DEF Stop, loop, Undisturbed
<1> QED BY <1>1, <1>2, <1>3, <1>4

(* The steps that consume nothing received: the reads and what ends them.    *)
LEMMA SetupServed == ASSUME IInv, Setup, Served PROVE Setup'
<1>1. last <= chain /\ pc' = pc /\ read' = chain
  BY DEF Served, IInv, TypeOK, ReadingsOK, Versions
<1>2. PollingOpensNothing' /\ FirstPrimeFinds' /\ LiveOncePrimed' /\ TicksCatchUp'
  BY <1>1 DEF Served, Setup, PollingOpensNothing, FirstPrimeFinds, LiveOncePrimed,
     TicksCatchUp, Undisturbed
<1>3. Covered'
  BY <1>1 DEF Served, Setup, Covered, Coming, Showing, Undisturbed
<1> QED BY <1>2, <1>3 DEF Setup

LEMMA SetupTickDone == ASSUME IInv, Setup, TickDone PROVE Setup'
<1>1. /\ pc = "tick" /\ read # 0 /\ read' = 0 /\ pc' \in {"scan", "asleep"}
      /\ pc' = "scan" => mode = "push"
      /\ pc' = "asleep" => mode = "poll"
      /\ Undisturbed => shown' = read
      /\ UNCHANGED <<chain, link, stream, mode, last, primed, held, stopped, faults, spoilt>>
  BY DEF TickDone, AfterTick, Undisturbed, IInv, TypeOK, LoopOK
<1>2. PollingOpensNothing' /\ FirstPrimeFinds' /\ LiveOncePrimed' /\ TicksCatchUp'
  BY <1>1 DEF Setup, PollingOpensNothing, FirstPrimeFinds, LiveOncePrimed, TicksCatchUp,
     Undisturbed
<1>3. Covered'
  <2> SUFFICES ASSUME Undisturbed', primed' PROVE Coming' \/ Showing'
    BY DEF Covered
  <2>1. Undisturbed /\ primed /\ mode = "push"
    BY <1>1 DEF Undisturbed, Setup, PollingOpensNothing, IInv, TypeOK, LoopOK
  <2>2. CASE Coming
    BY <1>1, <2>2 DEF Coming
  <2>3. CASE Showing
    <3>1. ~stopped /\ shown' = read
      BY <1>1, <2>1 DEF Undisturbed
    <3>2. shown <= read /\ read <= chain /\ shown \in Nat /\ read \in Nat /\ chain \in Nat
      BY <1>1 DEF IInv, TypeOK, ReadingsOK, ReadingFresh, Versions
    <3> QED BY <1>1, <2>3, <3>1, <3>2 DEF Showing
  <2> QED BY <2>1, <2>2, <2>3 DEF Setup, Covered
<1> QED BY <1>2, <1>3 DEF Setup

LEMMA SetupFlake == ASSUME IInv, Setup, TickFlake \/ PrimeFlake PROVE Setup'
<1>1. /\ "flake" \in spoilt' /\ pc \in {"tick", "prime"}
      /\ pc' \in {"scan", "asleep"} /\ (pc' = "asleep" => mode = "poll")
      /\ UNCHANGED <<chain, link, stream, mode, last, primed, held, shown, stopped>>
  BY DEF TickFlake, PrimeFlake, Fault, AfterTick, IInv, TypeOK, LoopOK
<1>2. ~Undisturbed'
  BY <1>1 DEF Undisturbed
<1>3. PollingOpensNothing' /\ FirstPrimeFinds'
  BY <1>1 DEF Setup, PollingOpensNothing, FirstPrimeFinds
<1> QED BY <1>2, <1>3 DEF Setup, LiveOncePrimed, TicksCatchUp, Covered

(* The polling loop: never primed, so nothing of it is covered.              *)
LEMMA SetupPoll == ASSUME IInv, Setup, PollDone \/ PollFlake \/ Wake PROVE Setup'
<1>1. /\ mode = "poll" /\ ~primed
      /\ pc' \in {"tick", "asleep", "poll"} /\ (pc' = "tick" => read' = 0)
      /\ UNCHANGED <<chain, link, stream, mode, primed, held, shown, stopped>>
  BY DEF PollDone, PollFlake, Wake, Setup, PollingOpensNothing
<1>2. stream = <<>> /\ link = "shut" /\ held = <<>>
  BY <1>1 DEF Setup, PollingOpensNothing, FirstPrimeFinds
<1> QED BY <1>1, <1>2 DEF Setup, PollingOpensNothing, FirstPrimeFinds, LiveOncePrimed,
        TicksCatchUp, Covered

(* The prime finds a version the loop has not recorded, and so it ticks.     *)
LEMMA SetupPrimeDone == ASSUME IInv, Setup, PrimeDone PROVE Setup'
<1>1. /\ pc = "prime" /\ pc' = "tick" /\ last = 0 /\ read' = 0
      /\ UNCHANGED <<chain, link, stream, mode, primed, held, shown, stopped, faults, spoilt>>
  BY DEF PrimeDone, Setup, FirstPrimeFinds
<1>2. PollingOpensNothing' /\ LiveOncePrimed' /\ TicksCatchUp' /\ Covered'
  BY <1>1 DEF Setup, PollingOpensNothing, LiveOncePrimed, TicksCatchUp, Covered, Showing,
     Undisturbed
<1>3. FirstPrimeFinds'
  <2>1. primed
    BY <1>1 DEF Setup, FirstPrimeFinds
  <2> QED BY <1>1, <2>1 DEF Setup, FirstPrimeFinds, PollingOpensNothing
<1> QED BY <1>2, <1>3 DEF Setup

LEMMA SetupReceive == ASSUME IInv, Setup, Receive PROVE Setup'
<1>1. /\ pc = "idle" /\ ~stopped /\ stream # <<>>
      /\ held' = Head(stream) /\ stream' = Tail(stream)
      /\ pc' = (IF primed THEN "scan" ELSE "prime") /\ primed' = TRUE
      /\ UNCHANGED <<chain, link, mode, read, last, shown, stopped, faults, spoilt>>
  BY DEF Receive
<1>2. mode = "push" /\ held = <<>> /\ read = 0
  BY <1>1 DEF Setup, PollingOpensNothing, FirstPrimeFinds, IInv, TypeOK, LoopOK, ReadingsOK
<1>3. PollingOpensNothing' /\ FirstPrimeFinds' /\ LiveOncePrimed' /\ TicksCatchUp'
  BY <1>1, <1>2 DEF Setup, PollingOpensNothing, FirstPrimeFinds, LiveOncePrimed,
     TicksCatchUp, Undisturbed
<1>4. ASSUME Undisturbed', primed PROVE Coming' \/ Showing'
  <2>1. Undisturbed
    BY <1>1, <1>4 DEF Undisturbed
  <2>2. CASE Showing
    BY <1>1, <2>2 DEF Showing
  <2>3. CASE Coming
    <3>1. PICK k \in 1 .. Len(stream) : Holds(stream[k], chain)
      BY <1>2, <2>3 DEF Coming, Holds
    <3>2. stream \in Seq(Seq(1 .. chain))
      BY DEF IInv, TypeOK, CheckpointsOK
    <3>3. /\ Head(stream) = stream[1] /\ Len(stream) \in Nat
          /\ Len(Tail(stream)) = Len(stream) - 1
          /\ \A n \in 1 .. Len(Tail(stream)) : Tail(stream)[n] = stream[n + 1]
      BY <1>1, <3>2, HeadTailProperties
    <3>4. CASE k = 1
      BY <1>1, <3>1, <3>3, <3>4 DEF Coming
    <3>5. CASE k # 1
      <4>1. k - 1 \in 1 .. Len(Tail(stream)) /\ Holds(Tail(stream)[k - 1], chain)
        BY <3>1, <3>3, <3>5
      <4> QED BY <1>1, <4>1 DEF Coming
    <3> QED BY <3>4, <3>5
  <2> QED BY <1>4, <2>1, <2>2, <2>3 DEF Setup, Covered
<1>5. Covered'
  <2>1. CASE primed
    BY <1>4, <2>1 DEF Covered
  <2>2. CASE ~primed
    BY <1>1, <1>2, <2>2 DEF Covered, Showing
  <2> QED BY <2>1, <2>2
<1> QED BY <1>3, <1>5 DEF Setup

LEMMA SetupScan == ASSUME IInv, Setup, Scan PROVE Setup'
<1>1. /\ pc = "scan" /\ read = 0
      /\ UNCHANGED <<chain, link, stream, mode, read, primed, shown, stopped, faults, spoilt>>
  BY DEF Scan, IInv, TypeOK, ReadingsOK
<1>2. CASE held = <<>>
  <2>1. pc' = "idle" /\ held' = held /\ last' = last
    BY <1>2 DEF Scan
  <2>2. PollingOpensNothing' /\ FirstPrimeFinds' /\ LiveOncePrimed' /\ TicksCatchUp'
    BY <1>1, <1>2, <2>1 DEF Setup, PollingOpensNothing, FirstPrimeFinds, LiveOncePrimed,
       TicksCatchUp, Undisturbed
  <2>3. Covered'
    BY <1>1, <2>1 DEF Setup, Covered, Coming, Showing, Undisturbed
  <2> QED BY <2>2, <2>3 DEF Setup
<1>3. CASE held # <<>>
  <2>1. /\ held' = Tail(held) /\ last' = Head(held)
        /\ pc' = IF Head(held) # last THEN "tick" ELSE "scan"
    BY <1>3 DEF Scan
  <2>2. primed
    BY <1>3 DEF Setup, FirstPrimeFinds
  <2>3. PollingOpensNothing' /\ FirstPrimeFinds' /\ LiveOncePrimed' /\ TicksCatchUp'
    BY <1>1, <2>1, <2>2 DEF Setup, PollingOpensNothing, FirstPrimeFinds, LiveOncePrimed,
       TicksCatchUp, Undisturbed
  <2>4. ASSUME Undisturbed' PROVE Coming' \/ Showing'
    <3>1. Undisturbed
      BY <1>1, <2>4 DEF Undisturbed
    <3>2. CASE Head(held) # last
      BY <1>1, <2>1, <3>2 DEF Showing
    <3>3. CASE Showing
      BY <1>1, <3>3 DEF Showing
    <3>4. CASE \E k \in 1 .. Len(stream) : Holds(stream[k], chain)
      BY <1>1, <3>4 DEF Coming
    <3>5. CASE Holds(held, chain) /\ Head(held) = last
      <4>1. held \in Seq(1 .. chain)
        BY DEF IInv, TypeOK, CheckpointsOK
      <4>2. Head(held) = chain \/ Holds(Tail(held), chain)
        BY <1>3, <3>5, <4>1, HoldsTail
      <4>3. CASE Head(held) = chain
        <5>1. shown >= last /\ shown <= chain /\ shown \in Nat /\ chain \in Nat
          BY <1>1, <3>1 DEF Setup, TicksCatchUp, IInv, TypeOK, ReadingsOK, Versions
        <5> QED BY <1>1, <3>5, <4>3, <5>1 DEF Showing
      <4>4. CASE Holds(Tail(held), chain)
        BY <1>1, <2>1, <4>4 DEF Coming
      <4> QED BY <4>2, <4>3, <4>4
    <3> QED BY <2>2, <3>1, <3>2, <3>3, <3>4, <3>5 DEF Setup, Covered, Coming
  <2>5. Covered'
    BY <2>4 DEF Covered
  <2> QED BY <2>3, <2>5 DEF Setup
<1> QED BY <1>2, <1>3

LEMMA SetupStutter == Setup /\ UNCHANGED vars => Setup'
<1> SUFFICES ASSUME Setup, UNCHANGED vars PROVE Setup'
  OBVIOUS
<1>1. PollingOpensNothing' /\ FirstPrimeFinds' /\ LiveOncePrimed' /\ TicksCatchUp'
  BY DEF vars, Setup, PollingOpensNothing, FirstPrimeFinds, LiveOncePrimed, TicksCatchUp,
     Undisturbed
<1>2. Covered'
  BY DEF vars, Setup, Covered, Coming, Showing, Undisturbed
<1> QED BY <1>1, <1>2 DEF Setup

LEMMA SetupNext == IInv /\ Setup /\ [Next]_vars => Setup'
<1> SUFFICES ASSUME IInv, Setup, [Next]_vars PROVE Setup'
  OBVIOUS
<1>1. CASE Run
  BY <1>1, SetupServed, SetupTickDone, SetupFlake, SetupTransport, SetupReceive,
     SetupPrimeDone, SetupScan, SetupPoll DEF Run
<1>2. CASE Establish \/ Drop \/ Stop
  BY <1>2, SetupTransport
<1>3. CASE \E k \in 0 .. 2 : Checkpoint(k)
  BY <1>3, SetupCheckpoint
<1> QED BY <1>1, <1>2, <1>3, SetupStutter DEF Next

(* The one prime of `escrowVersionChanges` closes the gap between the first  *)
(* reading and the live stream: a loop that has consumed what it received    *)
(* shows the current version, as long as no stream dropped and no reading    *)
(* failed.                                                                   *)
THEOREM SetupLosesNothing == Spec => []SetupGapCovered
<1>1. Init => Setup
  BY SetupInit
<1>2. IInv /\ Setup /\ [Next]_vars => Setup'
  BY SetupNext
<1>3. IInv /\ Setup => SetupGapCovered
  BY SetupCovers
<1> QED BY <1>1, <1>2, <1>3, Invariance, PTL DEF Spec
=============================================================================
