--------------------------- MODULE PortfolioWatch ---------------------------
(***************************************************************************)
(* Watching a set of escrows over one checkpoint stream: `watchMany` of    *)
(* highlevel/watch-many.ts with a gRPC client, over                        *)
(* `escrowVersionChangesMany` of primitives/grpc-source.ts.                *)
(*                                                                         *)
(* The stream is demultiplexed by id; a signal marks its escrow dirty and  *)
(* sets a timer; the timer's flush takes the dirty set, resolves it in one *)
(* batch and calls the caller back.  A handle reads the chain whenever it  *)
(* is asked, so a callback tells the version of its moment.                *)
(***************************************************************************)
EXTENDS Integers, Sequences, Bags

CONSTANTS
  Ids,         \* the escrows
  Initial,     \* those watched from the start
  MaxVersion,  \* bound: the versions of an escrow
  MaxFaults,   \* bound: reads that fail and streams that drop
  MaxBuffer,   \* bound: checkpoints received and not yet consumed
  MaxAdds      \* bound: the calls of `add`

ASSUME InitialAssumption == Initial \subseteq Ids
ASSUME BoundsAssumption ==
  /\ MaxVersion \in Nat \ {0} /\ MaxFaults \in Nat /\ MaxBuffer \in Nat
  /\ MaxAdds \in Nat

VARIABLES
  chain,    \* the version of each escrow on chain
  link,     \* the checkpoint subscription: not open, being opened, live, dropped
  stream,   \* checkpoints received: each the new versions of the ids it changes
  watched,  \* the watched ids
  seen,     \* the last version signalled of each id, 0 for none
  fetches,  \* first reads in flight, of added ids
  adds,     \* calls of `add` so far
  queued,   \* ids with a signal in the channel
  pending,  \* ids with a signal not yet flushed
  timer,    \* a flush is scheduled
  flights,  \* flushes that await their reads, a bag
  told,     \* the version each id had at its last callback, 0 for none
  stopped,  \* the caller stopped the watch
  faults,   \* faults so far
  lost      \* the version each id had when a read of it last failed, 0 for none

transport == <<chain, link, stream>>
signals == <<watched, seen, fetches, adds, queued>>
callbacks == <<pending, timer, flights, told>>
failures == <<faults, lost>>
vars == <<transport, signals, callbacks, stopped, failures>>

Versions == 1 .. MaxVersion
Fetches == [id : Ids, call : 0 .. MaxAdds, from : Versions]
Flights == [ids : (SUBSET Ids) \ {{}}, singly : BOOLEAN]
Seed(f) == f.call = 0

(* The initial ids are added before anything else runs.                      *)
Init ==
  /\ chain = [i \in Ids |-> 1]
  /\ link = "shut" /\ stream = <<>>
  /\ watched = Initial
  /\ fetches = {[id |-> i, call |-> 0, from |-> 1] : i \in Initial}
  /\ adds = 0
  /\ seen = [i \in Ids |-> 0] /\ queued = {}
  /\ pending = {} /\ timer = FALSE /\ flights = EmptyBag /\ told = [i \in Ids |-> 0]
  /\ stopped = FALSE
  /\ faults = 0 /\ lost = [i \in Ids |-> 0]

-----------------------------------------------------------------------------
(* The chain and the transport. *)

(* A checkpoint that changes the escrows of S.                               *)
Checkpoint(S) ==
  /\ \A i \in S : chain[i] < MaxVersion
  /\ chain' = [i \in Ids |-> IF i \in S THEN chain[i] + 1 ELSE chain[i]]
  /\ IF link = "live"
     THEN /\ Len(stream) < MaxBuffer
          /\ stream' = Append(stream, [i \in S |-> chain[i] + 1])
     ELSE UNCHANGED stream
  /\ UNCHANGED <<link, signals, callbacks, stopped, failures>>

Establish ==
  /\ link = "opening"
  /\ link' = "live"
  /\ UNCHANGED <<chain, stream, signals, callbacks, stopped, failures>>

Fault == faults < MaxFaults /\ faults' = faults + 1

(* A read of one escrow fails: what was signalled of it is not reported.     *)
Loses(i) == Fault /\ lost' = [lost EXCEPT ![i] = chain[i]]

(* What was received before the drop may still be consumed, or be lost.      *)
Drop ==
  /\ link \in {"opening", "live"}
  /\ Fault
  /\ link' = "broken"
  /\ \E n \in 0 .. Len(stream) : stream' = SubSeq(stream, 1, n)
  /\ UNCHANGED <<chain, signals, callbacks, stopped, lost>>

-----------------------------------------------------------------------------
(* escrowVersionChangesMany: the watched set and its signals. *)

Add(i) ==
  /\ ~stopped /\ i \notin watched
  /\ adds < MaxAdds
  /\ watched' = watched \cup {i}
  /\ adds' = adds + 1
  /\ fetches' = fetches \cup {[id |-> i, call |-> adds', from |-> chain[i]]}
  /\ UNCHANGED <<transport, seen, queued, callbacks, stopped, failures>>

(* The first read is served at some moment since the call.  An id removed    *)
(* during it is left alone.                                                  *)
FetchReturns(f, keep, signal) ==
  /\ f \in fetches
  /\ fetches' = fetches \ {f}
  /\ IF keep
     THEN /\ \E v \in f.from .. chain[f.id] : seen' = [seen EXCEPT ![f.id] = v]
          /\ queued' = queued \cup signal
     ELSE UNCHANGED <<seen, queued>>
  /\ UNCHANGED <<transport, watched, adds, callbacks, stopped, failures>>

(* Slips: the id is not looked up again after the read; its first version is *)
(* recorded without a signal.                                                *)
FetchDoneUnchecked(f) == FetchReturns(f, TRUE, IF stopped THEN {} ELSE {f.id})
FetchDoneSilent(f) == FetchReturns(f, f.id \in watched, {})

FetchDone(f) == FetchReturns(f, f.id \in watched, IF stopped THEN {} ELSE {f.id})

FetchFail(f) ==
  /\ f \in fetches
  /\ Loses(f.id)
  /\ fetches' = fetches \ {f}
  /\ UNCHANGED <<transport, watched, seen, adds, queued, callbacks, stopped>>

(* `remove` of the watch forgets the id's dirty mark, then unwatches it.     *)
Remove(i) ==
  /\ ~stopped /\ i \in watched
  /\ pending' = pending \ {i}
  /\ watched' = watched \ {i}
  /\ seen' = [seen EXCEPT ![i] = 0]
  /\ UNCHANGED <<transport, fetches, adds, queued, timer, flights, told, stopped, failures>>

(* The background loop opens a stream once the initial reads are settled,    *)
(* and another one after a drop.                                             *)
Open ==
  /\ ~stopped
  /\ \A f \in fetches : ~Seed(f)
  /\ link \in {"shut", "broken"} /\ stream = <<>>
  /\ link' = "opening"
  /\ UNCHANGED <<chain, stream, signals, callbacks, stopped, failures>>

(* A slip: an id whose first read is still out is passed over.               *)
DemuxSeenOnly ==
  /\ ~stopped /\ stream # <<>>
  /\ LET c == Head(stream)
         hits == {i \in DOMAIN c : seen[i] # 0 /\ c[i] # seen[i]}
     IN  /\ seen' = [i \in Ids |-> IF i \in hits THEN c[i] ELSE seen[i]]
         /\ queued' = queued \cup hits
  /\ stream' = Tail(stream)
  /\ UNCHANGED <<chain, link, watched, fetches, adds, callbacks, stopped, failures>>

Demux ==
  /\ ~stopped /\ stream # <<>>
  /\ LET c == Head(stream)
         hits == {i \in DOMAIN c \cap watched : c[i] # seen[i]}
     IN  /\ seen' = [i \in Ids |-> IF i \in hits THEN c[i] ELSE seen[i]]
         /\ queued' = queued \cup hits
  /\ stream' = Tail(stream)
  /\ UNCHANGED <<chain, link, watched, fetches, adds, callbacks, stopped, failures>>

-----------------------------------------------------------------------------
(* watchMany: the coalescing emitter. *)

Emit(i) ==
  /\ ~stopped /\ i \in queued
  /\ queued' = queued \ {i}
  /\ pending' = pending \cup {i} /\ timer' = TRUE
  /\ UNCHANGED <<transport, watched, seen, fetches, adds, flights, told, stopped, failures>>

One(fl) == SetToBag({fl})
InFlight == BagToSet(flights)

Flush ==
  /\ timer
  /\ timer' = FALSE /\ pending' = {}
  /\ flights' = IF pending = {} THEN flights
                ELSE flights (+) One([ids |-> pending, singly |-> FALSE])
  /\ UNCHANGED <<transport, signals, told, stopped, failures>>

Callback(S) == told' = [i \in Ids |-> IF i \in S THEN chain[i] ELSE told[i]]

(* A slip: the batch is reported without asking whether the watch runs.      *)
BatchDoneUnchecked(fl) ==
  /\ fl \in InFlight /\ ~fl.singly
  /\ Callback(fl.ids)
  /\ flights' = flights (-) One(fl)
  /\ UNCHANGED <<transport, signals, pending, timer, stopped, failures>>

BatchDone(fl) ==
  /\ fl \in InFlight /\ ~fl.singly
  /\ Callback(IF stopped THEN {} ELSE fl.ids)
  /\ flights' = flights (-) One(fl)
  /\ UNCHANGED <<transport, signals, pending, timer, stopped, failures>>

(* A slip: a failed batch is not taken up escrow by escrow.                  *)
BatchFailDropsAll(fl) ==
  /\ fl \in InFlight /\ ~fl.singly
  /\ Fault
  /\ flights' = flights (-) One(fl)
  /\ UNCHANGED <<transport, signals, pending, timer, told, stopped, lost>>

BatchFail(fl) ==
  /\ fl \in InFlight /\ ~fl.singly
  /\ Fault
  /\ flights' = flights (-) One(fl) (+) One([fl EXCEPT !.singly = TRUE])
  /\ UNCHANGED <<transport, signals, pending, timer, told, stopped, lost>>

(* After a failed batch, one escrow at a time, in some order.                *)
Without(fl, i) ==
  IF fl.ids = {i} THEN flights (-) One(fl)
                  ELSE flights (-) One(fl) (+) One([fl EXCEPT !.ids = fl.ids \ {i}])

SingleDone(fl, i) ==
  /\ fl \in InFlight /\ fl.singly /\ i \in fl.ids
  /\ Callback(IF stopped THEN {} ELSE {i})
  /\ flights' = Without(fl, i)
  /\ UNCHANGED <<transport, signals, pending, timer, stopped, failures>>

SingleFail(fl, i) ==
  /\ fl \in InFlight /\ fl.singly /\ i \in fl.ids
  /\ Loses(i)
  /\ flights' = Without(fl, i)
  /\ UNCHANGED <<transport, signals, pending, timer, told, stopped>>

(* A slip: the scheduled flush is not cancelled.                             *)
StopKeepsTimer ==
  /\ ~stopped /\ stopped' = TRUE
  /\ link' = "shut" /\ stream' = <<>>
  /\ UNCHANGED <<chain, signals, callbacks, failures>>

(* The timer is cleared, the stream aborted, the channel closed.             *)
Stop ==
  /\ ~stopped /\ stopped' = TRUE
  /\ timer' = FALSE
  /\ link' = "shut" /\ stream' = <<>>
  /\ UNCHANGED <<chain, signals, pending, flights, told, failures>>

-----------------------------------------------------------------------------
Reads ==
  \/ \E f \in fetches : FetchDone(f) \/ FetchFail(f)
  \/ \E fl \in InFlight :
       BatchDone(fl) \/ BatchFail(fl) \/ (\E i \in fl.ids : SingleDone(fl, i) \/ SingleFail(fl, i))

Run == Open \/ Demux \/ (\E i \in Ids : Emit(i)) \/ Flush

Caller == Stop \/ (\E i \in Ids : Add(i) \/ Remove(i))

Next ==
  \/ Run \/ Reads \/ Caller \/ Establish \/ Drop
  \/ \E S \in (SUBSET Ids) \ {{}} : Checkpoint(S)

(***************************************************************************)
(* The runtime takes each of its own turns, every read returns, a stream   *)
(* being opened becomes live or is dropped.  Nobody is obliged to change   *)
(* an escrow, to edit the set, to drop a stream or to stop.                *)
(***************************************************************************)
Fairness ==
  /\ WF_vars(Open) /\ WF_vars(Demux) /\ WF_vars(Flush) /\ WF_vars(Establish)
  /\ WF_vars(Reads)
  /\ \A i \in Ids : WF_vars(Emit(i))

Spec == Init /\ [][Next]_vars /\ Fairness

-----------------------------------------------------------------------------
(* Types; nothing of a stopped watch is scheduled or subscribed, and what is *)
(* signalled or told never runs ahead of the chain.                          *)
TypeOK ==
  /\ chain \in [Ids -> Versions]
  /\ link \in {"shut", "opening", "live", "broken"}
  /\ \A k \in 1 .. Len(stream) : \A i \in DOMAIN stream[k] : stream[k][i] \in 1 .. chain[i]
  /\ watched \subseteq Ids /\ queued \subseteq Ids /\ pending \subseteq Ids
  /\ fetches \subseteq Fetches /\ IsABag(flights) /\ InFlight \subseteq Flights
  /\ adds \in 0 .. MaxAdds
  /\ \A i \in Ids : seen[i] \in 0 .. chain[i] /\ told[i] \in 0 .. chain[i]
  /\ timer \in BOOLEAN /\ stopped \in BOOLEAN
  /\ stopped => ~timer /\ link = "shut" /\ stream = <<>>
  /\ pending # {} /\ ~stopped => timer
  /\ faults \in 0 .. MaxFaults /\ lost \in [Ids -> 0 .. MaxVersion]

(* No version is remembered of an id that is not watched, so that one added  *)
(* again is not compared with what an earlier watch of it saw: a read that   *)
(* returns after a removal must not bring the entry back.                    *)
SeenOnlyWatched == \A i \in Ids : seen[i] # 0 => i \in watched

(* After `stop` nobody is called back, whatever was in flight.               *)
SilentAfterStop == [][stopped => told' = told]_vars

(* A signal is never dropped on the way: whatever was signalled of a watched *)
(* escrow and not told yet is in the channel, dirty, or in a flush, unless a *)
(* read of this very escrow failed.  A failed batch, or a failed read of     *)
(* another escrow, costs nothing (watch-many.ts:12, "a single bad escrow     *)
(* never skips the others").                                                 *)
InHand == queued \cup pending \cup UNION {fl.ids : fl \in InFlight}
SignalsInHand ==
  ~stopped => \A i \in watched : seen[i] > told[i] /\ seen[i] > lost[i] => i \in InHand

(* A version received on the stream, of an id that is watched and has not    *)
(* signalled it, reaches the caller, unless the id is removed, the watch     *)
(* stopped, the stream dropped, or a read of this very escrow fails at v or  *)
(* later.                                                                    *)
News(i, v) == \E k \in 1 .. Len(stream) : i \in DOMAIN stream[k] /\ stream[k][i] = v
DeltasReachCaller ==
  \A i \in Ids, v \in Versions :
    (i \in watched /\ News(i, v) /\ seen[i] < v)
      ~> (told[i] >= v \/ i \notin watched \/ stopped \/ link = "broken" \/ lost[i] >= v)

(* An id that is added is reported once even if nothing changes it, unless   *)
(* it is removed, the watch stopped or a read of it fails.                   *)
AddedIsReported ==
  \A i \in Ids : i \in watched ~> (told[i] > 0 \/ i \notin watched \/ stopped \/ lost[i] > 0)

(* watch-many.ts:26, of `remove`: "Stop watching one escrow (no further      *)
(* emissions for it)."                                                       *)
NoEmissionAfterRemove == [][\A i \in Ids : told'[i] # told[i] => i \in watched]_vars
=============================================================================
