------------------------ MODULE PortfolioWatchProofs ------------------------
(***************************************************************************)
(* What is proved of the watch of many escrows for every set of ids and    *)
(* every bound: no signal is lost between the stream and the callback, and *)
(* nothing is remembered of an id that is not watched.                     *)
(***************************************************************************)
EXTENDS PortfolioWatch, SequenceTheorems, TLAPS

(* The invariant: the types in parts, with the shape of what was received,   *)
(* and the two promises, which need each other only through the types.       *)
Deltas == UNION {[S -> Nat] : S \in SUBSET Ids}
ChainOK == chain \in [Ids -> Versions]
StreamOK ==
  /\ stream \in Seq(Deltas)
  /\ \A k \in 1 .. Len(stream) : \A i \in DOMAIN stream[k] : stream[k][i] \in 1 .. chain[i]
LoopOK ==
  /\ link \in {"shut", "opening", "live", "broken"}
  /\ timer \in BOOLEAN /\ stopped \in BOOLEAN
  /\ stopped => ~timer /\ link = "shut" /\ stream = <<>>
  /\ pending # {} /\ ~stopped => timer
SetsOK ==
  /\ watched \subseteq Ids /\ queued \subseteq Ids /\ pending \subseteq Ids
  /\ fetches \subseteq Fetches /\ adds \in 0 .. MaxAdds
FlightsOK == IsABag(flights) /\ InFlight \subseteq Flights
MarksOK ==
  /\ seen \in [Ids -> Nat] /\ told \in [Ids -> Nat]
  /\ \A i \in Ids : seen[i] <= chain[i] /\ told[i] <= chain[i]
  /\ faults \in 0 .. MaxFaults /\ lost \in [Ids -> 0 .. MaxVersion]
Typed == ChainOK /\ StreamOK /\ LoopOK /\ SetsOK /\ FlightsOK /\ MarksOK

IInv == Typed /\ SeenOnlyWatched /\ SignalsInHand

LEMMA TypedIsTypeOK == Typed => TypeOK
<1> SUFFICES ASSUME Typed PROVE TypeOK
  OBVIOUS
<1>1. \A i \in Ids : seen[i] \in 0 .. chain[i] /\ told[i] \in 0 .. chain[i]
  <2> TAKE i \in Ids
  <2>1. seen[i] \in Nat /\ told[i] \in Nat /\ chain[i] \in Nat
    BY BoundsAssumption DEF Typed, MarksOK, ChainOK, Versions
  <2> QED BY <2>1 DEF Typed, MarksOK
<1> QED BY <1>1 DEF Typed, ChainOK, StreamOK, LoopOK, SetsOK, FlightsOK, MarksOK, TypeOK

-----------------------------------------------------------------------------
(* Bags of flights. *)

LEMMA BagPlus ==
  ASSUME NEW B, IsABag(B), NEW e
  PROVE  /\ IsABag(B (+) One(e))
         /\ BagToSet(B (+) One(e)) = BagToSet(B) \cup {e}
<1> DEFINE C == B (+) One(e)
<1>1. DOMAIN One(e) = {e} /\ One(e)[e] = 1
  BY DEF One, SetToBag
<1>2. C = [d \in DOMAIN B \cup {e} |->
             (IF d \in DOMAIN B THEN B[d] ELSE 0) + (IF d \in {e} THEN One(e)[d] ELSE 0)]
  BY <1>1 DEF (+)
<1>3. DOMAIN C = DOMAIN B \cup {e}
  BY <1>2
<1>4. \A d \in DOMAIN B : B[d] \in Nat /\ B[d] > 0
  BY DEF IsABag
<1>5. ASSUME NEW d \in DOMAIN B \cup {e} PROVE C[d] \in Nat /\ C[d] > 0
  <2>1. CASE d \in DOMAIN B /\ d = e
    BY <1>1, <1>2, <1>4, <2>1
  <2>2. CASE d \in DOMAIN B /\ d # e
    BY <1>2, <1>4, <2>2
  <2>3. CASE d \notin DOMAIN B
    BY <1>1, <1>2, <1>5, <2>3
  <2> QED BY <2>1, <2>2, <2>3
<1>6. C \in [DOMAIN C -> {n \in Nat : n > 0}]
  BY <1>2, <1>3, <1>5
<1> QED BY <1>3, <1>6 DEF IsABag, BagToSet

LEMMA BagMinus ==
  ASSUME NEW B, IsABag(B), NEW e
  PROVE  /\ IsABag(B (-) One(e))
         /\ BagToSet(B (-) One(e)) \subseteq BagToSet(B)
         /\ BagToSet(B) \subseteq BagToSet(B (-) One(e)) \cup {e}
<1> DEFINE D == [d \in DOMAIN B |-> IF d \in {e} THEN B[d] - One(e)[d] ELSE B[d]]
           C == B (-) One(e)
<1>1. DOMAIN One(e) = {e} /\ One(e)[e] = 1
  BY DEF One, SetToBag
<1>2. C = [d \in {c \in DOMAIN D : D[c] > 0} |-> D[d]]
  BY <1>1 DEF (-)
<1>3. \A d \in DOMAIN B : B[d] \in Nat /\ B[d] > 0
  BY DEF IsABag
<1>4. \A d \in DOMAIN B : D[d] \in Int /\ (d # e => D[d] = B[d])
  BY <1>1, <1>3
<1> HIDE DEF D
<1>5. DOMAIN D = DOMAIN B
  BY DEF D
<1>6. DOMAIN C = {c \in DOMAIN B : D[c] > 0}
  BY <1>2, <1>5
<1>7. C \in [DOMAIN C -> {n \in Nat : n > 0}]
  BY <1>2, <1>4, <1>5
<1>8. \A d \in DOMAIN B : d # e => d \in DOMAIN C
  BY <1>3, <1>4, <1>6
<1> QED BY <1>6, <1>7, <1>8 DEF IsABag, BagToSet

-----------------------------------------------------------------------------
(* One lemma per action: the transport first, which touches no signal.       *)

LEMMA InitInv == Init => IInv
<1> SUFFICES ASSUME Init PROVE IInv
  OBVIOUS
<1>1. ChainOK /\ LoopOK
  <2>1. ChainOK
    BY BoundsAssumption DEF Init, ChainOK, Versions
  <2>2. link = "shut" /\ timer = FALSE /\ stopped = FALSE /\ pending = {}
    BY DEF Init
  <2>3. LoopOK
    BY <2>2 DEF LoopOK
  <2> QED BY <2>1, <2>3
<1>2. StreamOK
  BY DEF Init, StreamOK
<1>3. SetsOK
  BY InitialAssumption, BoundsAssumption DEF Init, SetsOK, Fetches, Versions
<1>4. FlightsOK /\ BagToSet(flights) = {}
  BY DEF Init, FlightsOK, InFlight, EmptyBag, SetToBag, IsABag, BagToSet
<1>5. MarksOK
  BY BoundsAssumption DEF Init, MarksOK
<1>6. SeenOnlyWatched /\ SignalsInHand
  <2>1. \A i \in Ids : seen[i] = 0 /\ told[i] = 0
    BY DEF Init
  <2>2. watched \subseteq Ids
    BY InitialAssumption DEF Init
  <2> QED BY <2>1, <2>2 DEF SeenOnlyWatched, SignalsInHand
<1> QED BY <1>1, <1>2, <1>3, <1>4, <1>5, <1>6 DEF IInv, Typed

LEMMA DeltaIds ==
  ASSUME Typed, NEW k \in 1 .. Len(stream), NEW i \in DOMAIN stream[k]
  PROVE  /\ stream[k] \in Deltas /\ i \in Ids
         /\ stream[k][i] \in Nat /\ stream[k][i] <= chain[i] /\ stream[k][i] > 0
<1>1. stream \in Seq(Deltas)
  BY DEF Typed, StreamOK
<1>2. stream[k] \in Deltas
  BY <1>1
<1>3. i \in Ids
  BY <1>2 DEF Deltas
<1>4. chain[i] \in Nat /\ stream[k][i] \in 1 .. chain[i]
  BY <1>3, BoundsAssumption DEF Typed, StreamOK, ChainOK, Versions
<1> QED BY <1>2, <1>3, <1>4

(* Steps that leave the signals, the callbacks and the marks alone.          *)
LEMMA TransportStep ==
  ASSUME IInv, ChainOK', StreamOK', UNCHANGED <<signals, callbacks, stopped, lost>>,
         link' \in {"shut", "opening", "live", "broken"}, faults' \in 0 .. MaxFaults,
         stopped => link' = "shut" /\ stream' = <<>>,
         \A i \in Ids : chain'[i] >= chain[i]
  PROVE  IInv'
<1>1. /\ UNCHANGED <<watched, seen, fetches, adds, queued>>
      /\ UNCHANGED <<pending, timer, flights, told, stopped, lost>>
  BY DEF signals, callbacks
<1>2. LoopOK' /\ SetsOK' /\ FlightsOK'
  BY <1>1 DEF IInv, Typed, LoopOK, SetsOK, FlightsOK, InFlight
<1>3. MarksOK'
  <2>1. \A i \in Ids : chain[i] \in Nat /\ chain'[i] \in Nat /\ seen[i] \in Nat /\ told[i] \in Nat
    BY BoundsAssumption DEF IInv, Typed, ChainOK, MarksOK, Versions
  <2> QED BY <1>1, <2>1 DEF IInv, Typed, MarksOK
<1>4. SeenOnlyWatched' /\ SignalsInHand'
  BY <1>1 DEF IInv, SeenOnlyWatched, SignalsInHand, InHand, InFlight
<1> QED BY <1>2, <1>3, <1>4 DEF IInv, Typed

LEMMA CheckpointInv ==
  ASSUME IInv, NEW S \in (SUBSET Ids) \ {{}}, Checkpoint(S)
  PROVE  IInv'
<1>1. /\ \A i \in S : chain[i] < MaxVersion
      /\ chain' = [i \in Ids |-> IF i \in S THEN chain[i] + 1 ELSE chain[i]]
      /\ UNCHANGED <<link, signals, callbacks, stopped, lost>> /\ faults' = faults
      /\ link # "live" => stream' = stream
      /\ link = "live" => stream' = Append(stream, [i \in S |-> chain[i] + 1])
  BY DEF Checkpoint, failures
<1>2. \A i \in Ids : chain[i] \in Nat /\ chain[i] > 0 /\ chain[i] <= MaxVersion
  BY BoundsAssumption DEF IInv, Typed, ChainOK, Versions
<1>3. ChainOK' /\ \A i \in Ids : chain'[i] >= chain[i] /\ chain'[i] \in Nat
  BY <1>1, <1>2, BoundsAssumption DEF ChainOK, Versions
<1> DEFINE c == [i \in S |-> chain[i] + 1]
<1>4. c \in Deltas /\ DOMAIN c = S /\ \A i \in S : c[i] = chain'[i] /\ chain'[i] > 0
  <2>1. c \in [S -> Nat]
    BY <1>2
  <2> QED BY <1>1, <1>2, <2>1 DEF Deltas
<1> HIDE DEF c
<1>5. stream \in Seq(Deltas)
  BY DEF IInv, Typed, StreamOK
<1>6. \A k \in 1 .. Len(stream) : \A i \in DOMAIN stream[k] : stream[k][i] \in 1 .. chain'[i]
  <2> TAKE k \in 1 .. Len(stream)
  <2> TAKE i \in DOMAIN stream[k]
  <2>1. i \in Ids /\ stream[k][i] \in Nat /\ stream[k][i] <= chain[i] /\ stream[k][i] > 0
    BY DeltaIds DEF IInv
  <2> QED BY <1>2, <1>3, <2>1
<1>7. StreamOK'
  <2>1. CASE link # "live"
    BY <1>1, <1>5, <1>6, <2>1 DEF StreamOK
  <2>2. CASE link = "live"
    <3>1. stream' = Append(stream, c)
      BY <1>1, <2>2 DEF c
    <3>2. /\ stream' \in Seq(Deltas) /\ Len(stream') = Len(stream) + 1
          /\ \A k \in 1 .. Len(stream) : stream'[k] = stream[k]
          /\ stream'[Len(stream) + 1] = c
      BY <1>4, <1>5, <3>1, AppendProperties
    <3>3. ASSUME NEW k \in 1 .. Len(stream'), NEW i \in DOMAIN stream'[k]
          PROVE  stream'[k][i] \in 1 .. chain'[i]
      <4>1. Len(stream) \in Nat
        BY <1>5
      <4>2. CASE k = Len(stream) + 1
        BY <1>3, <1>4, <3>2, <3>3, <4>2
      <4>3. CASE k # Len(stream) + 1
        <5>1. k \in 1 .. Len(stream)
          BY <3>2, <4>1, <4>3
        <5> QED BY <1>6, <3>2, <3>3, <5>1
      <4> QED BY <4>2, <4>3
    <3> QED BY <3>2, <3>3 DEF StreamOK
  <2> QED BY <2>1, <2>2
<1>8. stopped => link' = "shut" /\ stream' = <<>>
  BY <1>1 DEF IInv, Typed, LoopOK
<1>9. link' \in {"shut", "opening", "live", "broken"} /\ faults' \in 0 .. MaxFaults
  BY <1>1 DEF IInv, Typed, LoopOK, MarksOK
<1> QED BY <1>1, <1>3, <1>7, <1>8, <1>9, TransportStep

LEMMA FaultCount == IInv /\ Fault => faults' \in 0 .. MaxFaults
BY BoundsAssumption DEF IInv, Typed, MarksOK, Fault

LEMMA EstablishOrOpenInv == ASSUME IInv, Establish \/ Open PROVE IInv'
<1>1. /\ UNCHANGED <<chain, stream, signals, callbacks, stopped, lost>> /\ faults' = faults
      /\ link' \in {"live", "opening"} /\ ~stopped
  BY DEF Establish, Open, failures, IInv, Typed, LoopOK
<1>2. ChainOK' /\ StreamOK' /\ \A i \in Ids : chain'[i] >= chain[i]
  BY <1>1, BoundsAssumption DEF IInv, Typed, ChainOK, StreamOK, Versions
<1> QED BY <1>1, <1>2, TransportStep DEF IInv, Typed, MarksOK

LEMMA DropInv == ASSUME IInv, Drop PROVE IInv'
<1>1. /\ UNCHANGED <<chain, signals, callbacks, stopped, lost>> /\ link' = "broken" /\ ~stopped
  BY DEF Drop, IInv, Typed, LoopOK
<1>2. PICK n \in 0 .. Len(stream) : stream' = SubSeq(stream, 1, n)
  BY DEF Drop
<1>3. stream \in Seq(Deltas)
  BY DEF IInv, Typed, StreamOK
<1>4. /\ stream' \in Seq(Deltas) /\ Len(stream') = n /\ n <= Len(stream) /\ Len(stream) \in Nat
      /\ \A k \in 1 .. n : stream'[k] = stream[k]
  BY <1>2, <1>3, SubSeqProperties
<1>5. StreamOK'
  BY <1>1, <1>4 DEF IInv, Typed, StreamOK
<1>6. ChainOK' /\ \A i \in Ids : chain'[i] >= chain[i]
  BY <1>1, BoundsAssumption DEF IInv, Typed, ChainOK, Versions
<1>7. faults' \in 0 .. MaxFaults
  BY FaultCount DEF Drop
<1> QED BY <1>1, <1>5, <1>6, <1>7, TransportStep

-----------------------------------------------------------------------------
(* The watched set and its signals.                                          *)

LEMMA Marks ==
  ASSUME Typed, NEW i \in Ids
  PROVE  /\ chain[i] \in Nat /\ seen[i] \in Nat /\ told[i] \in Nat /\ lost[i] \in Nat
         /\ chain[i] \in Versions /\ chain[i] \in 0 .. MaxVersion
         /\ seen[i] <= chain[i] /\ told[i] <= chain[i]
BY BoundsAssumption DEF Typed, ChainOK, MarksOK, Versions

LEMMA AddInv == ASSUME IInv, NEW i \in Ids, Add(i) PROVE IInv'
<1>1. /\ i \notin watched /\ watched' = watched \cup {i} /\ ~stopped
      /\ adds' = adds + 1 /\ adds < MaxAdds
      /\ fetches' = fetches \cup {[id |-> i, call |-> adds', from |-> chain[i]]}
      /\ UNCHANGED <<chain, link, stream, seen, queued>>
      /\ UNCHANGED <<pending, timer, flights, told, stopped, faults, lost>>
  BY DEF Add, transport, callbacks, failures
<1>2. ChainOK' /\ StreamOK' /\ LoopOK' /\ FlightsOK' /\ MarksOK'
  BY <1>1 DEF IInv, Typed, ChainOK, StreamOK, LoopOK, FlightsOK, InFlight, MarksOK
<1>3. SetsOK'
  <2>1. adds' \in 0 .. MaxAdds
    BY <1>1, BoundsAssumption DEF IInv, Typed, SetsOK
  <2>2. [id |-> i, call |-> adds', from |-> chain[i]] \in Fetches
    BY <2>1, Marks DEF IInv, Fetches
  <2> QED BY <1>1, <2>1, <2>2 DEF IInv, Typed, SetsOK
<1>4. SeenOnlyWatched'
  BY <1>1 DEF IInv, SeenOnlyWatched
<1>5. SignalsInHand'
  <2>1. seen[i] = 0 /\ told[i] \in Nat
    BY <1>1, Marks DEF IInv, SeenOnlyWatched
  <2> QED BY <1>1, <2>1 DEF IInv, SignalsInHand, InHand, InFlight
<1> QED BY <1>2, <1>3, <1>4, <1>5 DEF IInv, Typed

(* A read that returns records a version of an id that is still watched, and *)
(* signals it unless the watch is stopped.                                   *)
LEMMA FetchDoneInv == ASSUME IInv, NEW f \in fetches, FetchDone(f) PROVE IInv'
<1>1. /\ fetches' = fetches \ {f}
      /\ UNCHANGED <<chain, link, stream, watched, adds>>
      /\ UNCHANGED <<pending, timer, flights, told, stopped, faults, lost>>
  BY DEF FetchDone, FetchReturns, transport, callbacks, failures
<1>2. f.id \in Ids /\ f.from \in Versions
  BY DEF IInv, Typed, SetsOK, Fetches
<1>3. CASE f.id \notin watched
  <2>1. UNCHANGED <<seen, queued>>
    BY <1>3 DEF FetchDone, FetchReturns
  <2>2. Typed'
    BY <1>1, <2>1 DEF IInv, Typed, ChainOK, StreamOK, LoopOK, SetsOK, FlightsOK, InFlight, MarksOK
  <2>3. SeenOnlyWatched' /\ SignalsInHand'
    BY <1>1, <2>1 DEF IInv, SeenOnlyWatched, SignalsInHand, InHand, InFlight
  <2> QED BY <2>2, <2>3 DEF IInv
<1>4. CASE f.id \in watched
  <2>1. PICK v \in f.from .. chain[f.id] : seen' = [seen EXCEPT ![f.id] = v]
    BY <1>4 DEF FetchDone, FetchReturns
  <2>2. queued' = queued \cup (IF stopped THEN {} ELSE {f.id})
    BY <1>4 DEF FetchDone, FetchReturns
  <2>3. v \in Nat /\ v <= chain[f.id]
    BY <1>2, <2>1, Marks DEF IInv, Versions
  <2>4. seen \in [Ids -> Nat]
    BY DEF IInv, Typed, MarksOK
  <2>5. /\ seen' \in [Ids -> Nat] /\ seen'[f.id] = v
        /\ \A i \in Ids \ {f.id} : seen'[i] = seen[i]
    BY <1>2, <2>1, <2>3, <2>4
  <2>6. MarksOK'
    BY <1>1, <1>2, <2>3, <2>5 DEF IInv, Typed, MarksOK
  <2>7. SetsOK'
    BY <1>1, <1>2, <2>2 DEF IInv, Typed, SetsOK
  <2>8. ChainOK' /\ StreamOK' /\ LoopOK' /\ FlightsOK'
    BY <1>1 DEF IInv, Typed, ChainOK, StreamOK, LoopOK, FlightsOK, InFlight
  <2>9. SeenOnlyWatched'
    BY <1>1, <1>4, <2>5 DEF IInv, SeenOnlyWatched
  <2>10. SignalsInHand'
    <3> SUFFICES ASSUME ~stopped', NEW i \in watched',
                        seen'[i] > told'[i], seen'[i] > lost'[i]
                 PROVE  i \in InHand'
      BY DEF SignalsInHand
    <3>1. i \in Ids /\ i \in watched /\ InFlight' = InFlight
      BY <1>1 DEF IInv, Typed, SetsOK, InFlight
    <3>2. CASE i = f.id
      BY <1>1, <2>2, <3>2 DEF InHand
    <3>3. CASE i # f.id
      <4>1. i \in InHand
        BY <1>1, <2>5, <3>1, <3>3 DEF IInv, SignalsInHand
      <4> QED BY <1>1, <2>2, <3>1, <4>1 DEF InHand
    <3> QED BY <3>2, <3>3
  <2> QED BY <2>6, <2>7, <2>8, <2>9, <2>10 DEF IInv, Typed
<1> QED BY <1>3, <1>4

(* A read that fails marks its id, whose version is not ahead of the mark.   *)
LEMMA LostMark ==
  ASSUME IInv, NEW i \in Ids, Loses(i)
  PROVE  /\ lost' \in [Ids -> 0 .. MaxVersion] /\ lost'[i] = chain[i]
         /\ \A j \in Ids \ {i} : lost'[j] = lost[j]
         /\ faults' \in 0 .. MaxFaults
<1>1. lost \in [Ids -> 0 .. MaxVersion] /\ chain[i] \in 0 .. MaxVersion
  BY Marks DEF IInv, Typed, MarksOK
<1>2. lost' = [lost EXCEPT ![i] = chain[i]] /\ Fault
  BY DEF Loses
<1> QED BY <1>1, <1>2, FaultCount

LEMMA FetchFailInv == ASSUME IInv, NEW f \in fetches, FetchFail(f) PROVE IInv'
<1>1. /\ fetches' = fetches \ {f} /\ Loses(f.id)
      /\ UNCHANGED <<chain, link, stream, watched, seen, adds, queued>>
      /\ UNCHANGED <<pending, timer, flights, told, stopped>>
  BY DEF FetchFail, transport, callbacks
<1>2. f.id \in Ids
  BY DEF IInv, Typed, SetsOK, Fetches
<1>3. /\ lost' \in [Ids -> 0 .. MaxVersion] /\ lost'[f.id] = chain[f.id]
      /\ \A j \in Ids \ {f.id} : lost'[j] = lost[j]
      /\ faults' \in 0 .. MaxFaults
  BY <1>1, <1>2, LostMark
<1>4. Typed'
  BY <1>1, <1>3 DEF IInv, Typed, ChainOK, StreamOK, LoopOK, SetsOK, FlightsOK, InFlight, MarksOK
<1>5. SeenOnlyWatched'
  BY <1>1 DEF IInv, SeenOnlyWatched
<1>6. SignalsInHand'
  <2>1. seen[f.id] <= chain[f.id] /\ seen[f.id] \in Nat /\ chain[f.id] \in Nat
    BY <1>2, Marks DEF IInv
  <2>2. watched \subseteq Ids
    BY DEF IInv, Typed, SetsOK
  <2> QED BY <1>1, <1>3, <2>1, <2>2 DEF IInv, SignalsInHand, InHand, InFlight
<1> QED BY <1>4, <1>5, <1>6 DEF IInv

LEMMA RemoveInv == ASSUME IInv, NEW i \in Ids, Remove(i) PROVE IInv'
<1>1. /\ pending' = pending \ {i} /\ watched' = watched \ {i}
      /\ seen' = [seen EXCEPT ![i] = 0]
      /\ UNCHANGED <<chain, link, stream, fetches, adds, queued>>
      /\ UNCHANGED <<timer, flights, told, stopped, faults, lost>>
  BY DEF Remove, transport, failures
<1>2. /\ seen' \in [Ids -> Nat] /\ seen'[i] = 0
      /\ \A j \in Ids \ {i} : seen'[j] = seen[j]
  BY <1>1 DEF IInv, Typed, MarksOK
<1>3. MarksOK'
  <2>1. chain[i] \in Nat
    BY Marks DEF IInv
  <2> QED BY <1>1, <1>2, <2>1 DEF IInv, Typed, MarksOK
<1>4. ChainOK' /\ StreamOK' /\ LoopOK' /\ SetsOK' /\ FlightsOK'
  BY <1>1 DEF IInv, Typed, ChainOK, StreamOK, LoopOK, SetsOK, FlightsOK, InFlight
<1>5. SeenOnlyWatched'
  BY <1>1, <1>2 DEF IInv, SeenOnlyWatched
<1>6. SignalsInHand'
  <2>1. watched \subseteq Ids
    BY DEF IInv, Typed, SetsOK
  <2> QED BY <1>1, <1>2, <2>1 DEF IInv, SignalsInHand, InHand, InFlight
<1> QED BY <1>3, <1>4, <1>5, <1>6 DEF IInv, Typed

(* A checkpoint that is consumed signals what it changes.                    *)
LEMMA DemuxInv == ASSUME IInv, Demux PROVE IInv'
<1> DEFINE c == Head(stream)
           hits == {i \in DOMAIN c \cap watched : c[i] # seen[i]}
<1>1. /\ ~stopped /\ stream # <<>> /\ stream' = Tail(stream)
      /\ seen' = [i \in Ids |-> IF i \in hits THEN c[i] ELSE seen[i]]
      /\ queued' = queued \cup hits
      /\ UNCHANGED <<chain, link, watched, fetches, adds>>
      /\ UNCHANGED <<pending, timer, flights, told, stopped, faults, lost>>
  BY DEF Demux, callbacks, failures
<1>2. stream \in Seq(Deltas)
  BY DEF IInv, Typed, StreamOK
<1>3. /\ c = stream[1] /\ 1 \in 1 .. Len(stream)
      /\ stream' \in Seq(Deltas) /\ Len(stream') = Len(stream) - 1
      /\ \A k \in 1 .. Len(stream') : stream'[k] = stream[k + 1] /\ k + 1 \in 1 .. Len(stream)
  BY <1>1, <1>2, HeadTailProperties
<1>4. \A i \in DOMAIN c : i \in Ids /\ c[i] \in Nat /\ c[i] <= chain[i]
  BY <1>3, DeltaIds DEF IInv
<1>5. StreamOK'
  BY <1>1, <1>3 DEF IInv, Typed, StreamOK
<1> HIDE DEF c
<1>6. /\ seen' \in [Ids -> Nat] /\ \A i \in Ids : seen'[i] <= chain[i]
      /\ \A i \in Ids \ hits : seen'[i] = seen[i]
  BY <1>1, <1>4, Marks DEF IInv
<1>7. hits \subseteq watched /\ watched \subseteq Ids
  BY DEF IInv, Typed, SetsOK
<1> HIDE DEF hits
<1>8. MarksOK'
  BY <1>1, <1>6 DEF IInv, Typed, MarksOK
<1>9. ChainOK' /\ LoopOK' /\ SetsOK' /\ FlightsOK'
  BY <1>1, <1>7 DEF IInv, Typed, ChainOK, LoopOK, SetsOK, FlightsOK, InFlight
<1>10. SeenOnlyWatched'
  BY <1>1, <1>6, <1>7 DEF IInv, SeenOnlyWatched
<1>11. SignalsInHand'
  <2> SUFFICES ASSUME NEW i \in watched', seen'[i] > told'[i], seen'[i] > lost'[i]
               PROVE  i \in InHand'
    BY DEF SignalsInHand
  <2>1. CASE i \in hits
    BY <1>1, <2>1 DEF InHand
  <2>2. CASE i \notin hits
    <3>1. i \in InHand /\ InFlight' = InFlight
      BY <1>1, <1>6, <1>7, <2>2 DEF IInv, SignalsInHand, InFlight
    <3> QED BY <1>1, <3>1 DEF InHand
  <2> QED BY <2>1, <2>2
<1> QED BY <1>5, <1>8, <1>9, <1>10, <1>11 DEF IInv, Typed

-----------------------------------------------------------------------------
(* The emitter: a signal becomes a dirty mark, the marks become a flight.    *)

LEMMA EmitInv == ASSUME IInv, NEW i \in Ids, Emit(i) PROVE IInv'
<1>1. /\ ~stopped /\ i \in queued
      /\ queued' = queued \ {i} /\ pending' = pending \cup {i} /\ timer' = TRUE
      /\ UNCHANGED <<chain, link, stream, watched, seen, fetches, adds>>
      /\ UNCHANGED <<flights, told, stopped, faults, lost>>
  BY DEF Emit, transport, failures
<1>2. Typed'
  <2>1. LoopOK'
    BY <1>1 DEF IInv, Typed, LoopOK
  <2> QED BY <1>1, <2>1
          DEF IInv, Typed, ChainOK, StreamOK, SetsOK, FlightsOK, InFlight, MarksOK
<1>3. SeenOnlyWatched' /\ SignalsInHand'
  BY <1>1 DEF IInv, SeenOnlyWatched, SignalsInHand, InHand, InFlight
<1> QED BY <1>2, <1>3 DEF IInv

LEMMA FlushInv == ASSUME IInv, Flush PROVE IInv'
<1>1. /\ timer /\ timer' = FALSE /\ pending' = {}
      /\ UNCHANGED <<chain, link, stream, watched, seen, fetches, adds, queued>>
      /\ UNCHANGED <<told, stopped, faults, lost>>
  BY DEF Flush, transport, signals, failures
<1> DEFINE fl == [ids |-> pending, singly |-> FALSE]
<1>2. FlightsOK' /\ InFlight \subseteq InFlight' /\ pending \subseteq InHand'
  <2>1. IsABag(flights) /\ InFlight \subseteq Flights
    BY DEF IInv, Typed, FlightsOK
  <2>2. CASE pending = {}
    <3>1. flights' = flights
      BY <2>2 DEF Flush
    <3> QED BY <2>1, <2>2, <3>1 DEF FlightsOK, InFlight
  <2>3. CASE pending # {}
    <3>1. fl \in Flights /\ fl.ids = pending
      BY <2>3 DEF IInv, Typed, SetsOK, Flights
    <3>2. flights' = flights (+) One(fl)
      BY <2>3 DEF Flush
    <3> HIDE DEF fl
    <3>3. IsABag(flights') /\ BagToSet(flights') = BagToSet(flights) \cup {fl}
      BY <2>1, <3>2, BagPlus
    <3> QED BY <2>1, <3>1, <3>3 DEF FlightsOK, InFlight, InHand
  <2> QED BY <2>2, <2>3
<1> HIDE DEF fl
<1>3. Typed'
  <2>1. LoopOK'
    BY <1>1 DEF IInv, Typed, LoopOK
  <2> QED BY <1>1, <1>2, <2>1 DEF IInv, Typed, ChainOK, StreamOK, SetsOK, MarksOK
<1>4. SeenOnlyWatched'
  BY <1>1 DEF IInv, SeenOnlyWatched
<1>5. SignalsInHand'
  <2>1. InHand \subseteq InHand'
    BY <1>1, <1>2 DEF InHand
  <2> QED BY <1>1, <2>1 DEF IInv, SignalsInHand
<1> QED BY <1>3, <1>4, <1>5 DEF IInv

-----------------------------------------------------------------------------
(* The reads of a flight.  The ids that leave the flights are told of, or    *)
(* marked as lost, at the version of the chain, which no signal exceeds.     *)
LEMMA FlightStep ==
  ASSUME IInv, NEW gone, UNCHANGED <<transport, signals, pending, timer, stopped>>,
         FlightsOK', InHand \subseteq InHand' \cup gone,
         told' \in [Ids -> Nat], lost' \in [Ids -> 0 .. MaxVersion],
         faults' \in 0 .. MaxFaults,
         \A i \in Ids : told'[i] \in {told[i], chain[i]} /\ lost'[i] \in {lost[i], chain[i]},
         \A i \in gone \cap Ids : stopped \/ told'[i] = chain[i] \/ lost'[i] = chain[i]
  PROVE  IInv'
<1>1. /\ UNCHANGED <<chain, link, stream, watched, seen, fetches, adds, queued>>
      /\ UNCHANGED <<pending, timer, stopped>>
  BY DEF transport, signals
<1>2. Typed'
  <2>1. MarksOK'
    BY <1>1, Marks DEF IInv, Typed, MarksOK
  <2> QED BY <1>1, <2>1 DEF IInv, Typed, ChainOK, StreamOK, LoopOK, SetsOK
<1>3. SeenOnlyWatched'
  BY <1>1 DEF IInv, SeenOnlyWatched
<1>4. SignalsInHand'
  <2> SUFFICES ASSUME ~stopped', NEW i \in watched', seen'[i] > told'[i], seen'[i] > lost'[i]
               PROVE  i \in InHand'
    BY DEF SignalsInHand
  <2>1. i \in Ids /\ i \in watched /\ ~stopped
    BY <1>1 DEF IInv, Typed, SetsOK
  <2>2. /\ chain[i] \in Nat /\ seen[i] \in Nat /\ seen[i] <= chain[i]
        /\ told[i] \in Nat /\ lost[i] \in Nat
    BY <2>1, Marks DEF IInv
  <2>3. told'[i] # chain[i] /\ lost'[i] # chain[i]
    BY <1>1, <2>2
  <2>4. i \in InHand
    BY <1>1, <2>1, <2>3 DEF IInv, SignalsInHand
  <2> QED BY <2>1, <2>3, <2>4
<1> QED BY <1>2, <1>3, <1>4 DEF IInv

LEMMA LandsOnly ==
  ASSUME IInv, NEW fl, flights' = flights (-) One(fl)
  PROVE  FlightsOK' /\ InFlight \subseteq InFlight' \cup {fl}
<1>1. IsABag(flights) /\ InFlight \subseteq Flights
  BY DEF IInv, Typed, FlightsOK
<1> QED BY <1>1, BagMinus DEF FlightsOK, InFlight

LEMMA LandsAs ==
  ASSUME IInv, NEW fl, NEW g \in Flights, flights' = flights (-) One(fl) (+) One(g)
  PROVE  FlightsOK' /\ InFlight \subseteq InFlight' \cup {fl} /\ g \in InFlight'
<1>1. IsABag(flights) /\ InFlight \subseteq Flights
  BY DEF IInv, Typed, FlightsOK
<1> DEFINE B == flights (-) One(fl)
<1>2. /\ IsABag(B) /\ BagToSet(B) \subseteq InFlight
      /\ InFlight \subseteq BagToSet(B) \cup {fl}
  BY <1>1, BagMinus DEF InFlight
<1>3. flights' = B (+) One(g)
  OBVIOUS
<1> HIDE DEF B
<1>4. IsABag(flights') /\ BagToSet(flights') = BagToSet(B) \cup {g}
  BY <1>2, <1>3, BagPlus
<1> QED BY <1>1, <1>2, <1>4 DEF FlightsOK, InFlight

LEMMA CallbackTells ==
  ASSUME IInv, NEW S, Callback(S)
  PROVE  /\ told' \in [Ids -> Nat]
         /\ \A i \in Ids : told'[i] = IF i \in S THEN chain[i] ELSE told[i]
<1>1. \A i \in Ids : chain[i] \in Nat /\ told[i] \in Nat
  BY Marks DEF IInv
<1> QED BY <1>1 DEF Callback

LEMMA MarksStay ==
  IInv => /\ told \in [Ids -> Nat] /\ lost \in [Ids -> 0 .. MaxVersion]
          /\ faults \in 0 .. MaxFaults
BY DEF IInv, Typed, MarksOK

LEMMA BatchDoneInv == ASSUME IInv, NEW fl \in InFlight, BatchDone(fl) PROVE IInv'
<1> DEFINE S == IF stopped THEN {} ELSE fl.ids
<1>1. /\ Callback(S) /\ flights' = flights (-) One(fl)
      /\ UNCHANGED <<transport, signals, pending, timer, stopped>> /\ UNCHANGED <<faults, lost>>
  BY DEF BatchDone, failures
<1>2. FlightsOK' /\ InFlight \subseteq InFlight' \cup {fl}
  BY <1>1, LandsOnly
<1>3. InHand \subseteq InHand' \cup fl.ids
  BY <1>1, <1>2 DEF InHand, signals
<1> HIDE DEF S
<1>4. /\ told' \in [Ids -> Nat]
      /\ \A i \in Ids : told'[i] = IF i \in S THEN chain[i] ELSE told[i]
  BY <1>1, CallbackTells
<1>5. \A i \in fl.ids \cap Ids : stopped \/ told'[i] = chain[i] \/ lost'[i] = chain[i]
  BY <1>4 DEF S
<1>6. \A i \in Ids : told'[i] \in {told[i], chain[i]} /\ lost'[i] \in {lost[i], chain[i]}
  BY <1>1, <1>4
<1>7. lost' \in [Ids -> 0 .. MaxVersion] /\ faults' \in 0 .. MaxFaults
  BY <1>1, MarksStay
<1> QED BY <1>1, <1>2, <1>3, <1>4, <1>5, <1>6, <1>7, FlightStep

LEMMA BatchFailInv == ASSUME IInv, NEW fl \in InFlight, BatchFail(fl) PROVE IInv'
<1> DEFINE g == [fl EXCEPT !.singly = TRUE]
<1>1. /\ flights' = flights (-) One(fl) (+) One(g)
      /\ UNCHANGED <<transport, signals, pending, timer, stopped>>
      /\ UNCHANGED <<told, lost>> /\ faults' \in 0 .. MaxFaults
  BY FaultCount DEF BatchFail
<1>2. g \in Flights /\ g.ids = fl.ids
  BY DEF IInv, Typed, FlightsOK, Flights
<1> HIDE DEF g
<1>3. FlightsOK' /\ InFlight \subseteq InFlight' \cup {fl} /\ g \in InFlight'
  BY <1>1, <1>2, LandsAs
<1>4. InHand \subseteq InHand' \cup {}
  BY <1>1, <1>2, <1>3 DEF InHand, signals
<1>5. told' \in [Ids -> Nat] /\ lost' \in [Ids -> 0 .. MaxVersion]
  BY <1>1, MarksStay
<1>6. \A i \in Ids : told'[i] \in {told[i], chain[i]} /\ lost'[i] \in {lost[i], chain[i]}
  BY <1>1
<1>7. \A i \in {} \cap Ids : stopped \/ told'[i] = chain[i] \/ lost'[i] = chain[i]
  OBVIOUS
<1> QED BY <1>1, <1>3, <1>4, <1>5, <1>6, <1>7, FlightStep

(* One escrow of a flight that goes one at a time leaves it.                 *)
LEMMA WithoutOne ==
  ASSUME IInv, NEW fl \in InFlight, NEW i \in fl.ids, flights' = Without(fl, i),
         UNCHANGED <<signals, pending>>
  PROVE  FlightsOK' /\ InHand \subseteq InHand' \cup {i}
<1>1. fl \in Flights
  BY DEF IInv, Typed, FlightsOK
<1>2. CASE fl.ids = {i}
  <2>1. flights' = flights (-) One(fl)
    BY <1>2 DEF Without
  <2>2. FlightsOK' /\ InFlight \subseteq InFlight' \cup {fl}
    BY <2>1, LandsOnly
  <2> QED BY <1>2, <2>2 DEF InHand, signals
<1>3. CASE fl.ids # {i}
  <2> DEFINE g == [fl EXCEPT !.ids = fl.ids \ {i}]
  <2>1. g \in Flights /\ g.ids = fl.ids \ {i}
    BY <1>1, <1>3 DEF Flights
  <2>2. flights' = flights (-) One(fl) (+) One(g)
    BY <1>3 DEF Without
  <2> HIDE DEF g
  <2>3. FlightsOK' /\ InFlight \subseteq InFlight' \cup {fl} /\ g \in InFlight'
    BY <2>1, <2>2, LandsAs
  <2> QED BY <2>1, <2>3 DEF InHand, signals
<1> QED BY <1>2, <1>3

LEMMA SingleDoneInv ==
  ASSUME IInv, NEW fl \in InFlight, NEW i \in fl.ids, SingleDone(fl, i)
  PROVE  IInv'
<1> DEFINE S == IF stopped THEN {} ELSE {i}
<1>1. /\ Callback(S) /\ flights' = Without(fl, i)
      /\ UNCHANGED <<transport, signals, pending, timer, stopped>> /\ UNCHANGED <<faults, lost>>
  BY DEF SingleDone, failures
<1>2. FlightsOK' /\ InHand \subseteq InHand' \cup {i}
  BY <1>1, WithoutOne
<1> HIDE DEF S
<1>3. /\ told' \in [Ids -> Nat]
      /\ \A j \in Ids : told'[j] = IF j \in S THEN chain[j] ELSE told[j]
  BY <1>1, CallbackTells
<1>4. \A j \in {i} \cap Ids : stopped \/ told'[j] = chain[j] \/ lost'[j] = chain[j]
  BY <1>3 DEF S
<1>5. \A j \in Ids : told'[j] \in {told[j], chain[j]} /\ lost'[j] \in {lost[j], chain[j]}
  BY <1>1, <1>3
<1>6. lost' \in [Ids -> 0 .. MaxVersion] /\ faults' \in 0 .. MaxFaults
  BY <1>1, MarksStay
<1> QED BY <1>1, <1>2, <1>3, <1>4, <1>5, <1>6, FlightStep

LEMMA SingleFailInv ==
  ASSUME IInv, NEW fl \in InFlight, NEW i \in fl.ids, SingleFail(fl, i)
  PROVE  IInv'
<1>1. /\ Loses(i) /\ flights' = Without(fl, i)
      /\ UNCHANGED <<transport, signals, pending, timer, stopped>> /\ told' = told
  BY DEF SingleFail
<1>2. FlightsOK' /\ InHand \subseteq InHand' \cup {i}
  BY <1>1, WithoutOne
<1>3. i \in Ids
  BY DEF IInv, Typed, FlightsOK, Flights
<1>4. /\ lost' \in [Ids -> 0 .. MaxVersion] /\ lost'[i] = chain[i]
      /\ \A j \in Ids \ {i} : lost'[j] = lost[j]
      /\ faults' \in 0 .. MaxFaults
  BY <1>1, <1>3, LostMark
<1>5. \A j \in Ids : told'[j] \in {told[j], chain[j]} /\ lost'[j] \in {lost[j], chain[j]}
  BY <1>1, <1>4
<1>6. told' \in [Ids -> Nat]
  BY <1>1, MarksStay
<1>7. \A j \in {i} \cap Ids : stopped \/ told'[j] = chain[j] \/ lost'[j] = chain[j]
  BY <1>4
<1> QED BY <1>1, <1>2, <1>4, <1>5, <1>6, <1>7, FlightStep

LEMMA StopInv == ASSUME IInv, Stop PROVE IInv'
<1>1. /\ stopped' = TRUE /\ timer' = FALSE /\ link' = "shut" /\ stream' = <<>>
      /\ UNCHANGED <<chain, watched, seen, fetches, adds, queued>>
      /\ UNCHANGED <<pending, flights, told, faults, lost>>
  BY DEF Stop, signals, failures
<1>2. Typed'
  <2>1. LoopOK'
    BY <1>1 DEF LoopOK
  <2>2. StreamOK'
    BY <1>1 DEF StreamOK
  <2> QED BY <1>1, <2>1, <2>2
          DEF IInv, Typed, ChainOK, SetsOK, FlightsOK, InFlight, MarksOK
<1> QED BY <1>1, <1>2 DEF IInv, SeenOnlyWatched, SignalsInHand

LEMMA StutterInv == ASSUME IInv, UNCHANGED vars PROVE IInv'
<1>1. /\ UNCHANGED <<chain, link, stream, watched, seen, fetches, adds, queued>>
      /\ UNCHANGED <<pending, timer, flights, told, stopped, faults, lost>>
  BY DEF vars, transport, signals, callbacks, failures
<1>2. Typed'
  BY <1>1 DEF IInv, Typed, ChainOK, StreamOK, LoopOK, SetsOK, FlightsOK, InFlight, MarksOK
<1>3. SeenOnlyWatched' /\ SignalsInHand'
  BY <1>1 DEF IInv, SeenOnlyWatched, SignalsInHand, InHand, InFlight
<1> QED BY <1>2, <1>3 DEF IInv

LEMMA NextInv == ASSUME IInv, [Next]_vars PROVE IInv'
<1>1. CASE Run
  BY <1>1, EstablishOrOpenInv, DemuxInv, EmitInv, FlushInv DEF Run
<1>2. CASE Reads
  <2>1. ASSUME NEW f \in fetches, FetchDone(f) \/ FetchFail(f) PROVE IInv'
    BY <2>1, FetchDoneInv, FetchFailInv
  <2>2. ASSUME NEW fl \in InFlight, BatchDone(fl) \/ BatchFail(fl) PROVE IInv'
    BY <2>2, BatchDoneInv, BatchFailInv
  <2>3. ASSUME NEW fl \in InFlight, NEW i \in fl.ids, SingleDone(fl, i) \/ SingleFail(fl, i)
        PROVE  IInv'
    BY <2>3, SingleDoneInv, SingleFailInv
  <2> QED BY <1>2, <2>1, <2>2, <2>3 DEF Reads
<1>3. CASE Caller
  BY <1>3, StopInv, AddInv, RemoveInv DEF Caller
<1>4. CASE Establish \/ Drop
  BY <1>4, EstablishOrOpenInv, DropInv
<1>5. CASE \E S \in (SUBSET Ids) \ {{}} : Checkpoint(S)
  BY <1>5, CheckpointInv
<1> QED BY <1>1, <1>2, <1>3, <1>4, <1>5, StutterInv DEF Next

-----------------------------------------------------------------------------
(* The theorems. *)

(* The invariant of the watch of many escrows: of watch-many.ts's emitter    *)
(* and of the demultiplexer of escrowVersionChangesMany under it.            *)
THEOREM Invariance == Spec => []IInv
<1>1. Init => IInv
  BY InitInv
<1>2. IInv /\ [Next]_vars => IInv'
  BY NextInv
<1> QED BY <1>1, <1>2, PTL DEF Spec

(* The maps, the channel and the timer of the watch keep their types; what   *)
(* is signalled or told never runs ahead of the chain, and nothing stays     *)
(* scheduled or subscribed after `stop`.                                     *)
THEOREM TypeCorrect == Spec => []TypeOK
<1>1. IInv => TypeOK
  BY TypedIsTypeOK DEF IInv
<1> QED BY <1>1, Invariance, PTL

(* `add` and `remove` against the reads in flight: a first read that returns *)
(* after its id was removed does not bring the id's version back.            *)
THEOREM NothingSeenUnwatched == Spec => []SeenOnlyWatched
<1>1. IInv => SeenOnlyWatched
  BY DEF IInv
<1> QED BY <1>1, Invariance, PTL

(* "A single bad escrow never skips the others" (watch-many.ts): between the *)
(* stream and the callback a signal is always in hand, whatever batch or     *)
(* read of another escrow fails.                                             *)
THEOREM NoSignalLost == Spec => []SignalsInHand
<1>1. IInv => SignalsInHand
  BY DEF IInv
<1> QED BY <1>1, Invariance, PTL

(* `stop` of watchMany: a flush that was awaiting its reads when the watch   *)
(* was stopped calls nobody back.                                            *)
THEOREM StopSilences == Spec => SilentAfterStop
<1>1. ASSUME IInv, [Next]_vars, stopped PROVE told' = told
  <2>1. told = [i \in Ids |-> told[i]] /\ ~timer
    BY <1>1 DEF IInv, Typed, MarksOK, LoopOK
  <2>2. CASE Run \/ Caller \/ Establish \/ Drop \/ (\E S \in (SUBSET Ids) \ {{}} : Checkpoint(S))
    BY <1>1, <2>1, <2>2 DEF Run, Caller, Open, Demux, Emit, Flush, Stop, Add, Remove,
       Establish, Drop, Checkpoint, callbacks
  <2>3. CASE Reads
    <3>1. ASSUME NEW f \in fetches, FetchDone(f) \/ FetchFail(f) PROVE told' = told
      BY <3>1 DEF FetchDone, FetchReturns, FetchFail, callbacks
    <3>2. ASSUME Callback({}) PROVE told' = told
      BY <2>1, <3>2 DEF Callback
    <3>3. ASSUME NEW fl \in InFlight, BatchDone(fl) \/ BatchFail(fl) PROVE told' = told
      BY <1>1, <3>2, <3>3 DEF BatchDone, BatchFail
    <3>4. ASSUME NEW fl \in InFlight, NEW i \in fl.ids, SingleDone(fl, i) \/ SingleFail(fl, i)
          PROVE  told' = told
      BY <1>1, <3>2, <3>4 DEF SingleDone, SingleFail
    <3> QED BY <2>3, <3>1, <3>3, <3>4 DEF Reads
  <2>4. CASE UNCHANGED vars
    BY <2>4 DEF vars, callbacks
  <2> QED BY <1>1, <2>2, <2>3, <2>4 DEF Next
<1>2. IInv /\ [Next]_vars => [stopped => told' = told]_vars
  BY <1>1
<1> QED BY <1>2, Invariance, PTL DEF Spec, SilentAfterStop
=============================================================================
