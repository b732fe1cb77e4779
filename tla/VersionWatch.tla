---------------------------- MODULE VersionWatch ----------------------------
(***************************************************************************)
(* Watching one escrow: the loop `subscribeEscrowVersion` of               *)
(* highlevel/watch.ts over the version stream `escrowVersionChanges` of    *)
(* primitives/grpc-source.ts, and its polling fallback.                    *)
(*                                                                         *)
(* The chain commits checkpoints.  One that changes the escrow carries its *)
(* new versions, and a stream that is live when it is committed receives   *)
(* it.  A stream may be dropped at any time; the generator opens another,  *)
(* which starts at the checkpoints committed after it is live.             *)
(*                                                                         *)
(* A version only wakes the loop: the tick reads the escrow again and      *)
(* shows the caller what it read.                                          *)
(***************************************************************************)
EXTENDS Integers, Sequences

CONSTANTS
  MaxVersion,  \* bound: the versions of the escrow
  MaxFaults,   \* bound: reads that fail and streams that drop
  MaxBuffer    \* bound: checkpoints received and not yet consumed

ASSUME BoundsAssumption == MaxVersion \in Nat \ {0} /\ MaxFaults \in Nat /\ MaxBuffer \in Nat

VARIABLES
  chain,    \* the version of the escrow on chain
  link,     \* the checkpoint subscription: not open, being opened, live, dropped
  stream,   \* checkpoints received, each the versions it gives the escrow
  mode,     \* server push, or polling when there is no gRPC client
  pc,       \* where the loop waits
  read,     \* what the read in flight was served, 0 before
  last,     \* lastVersion, 0 for null
  primed,   \* the current version was asked for once
  held,     \* the rest of the checkpoint being scanned
  shown,    \* the version the caller was last shown, 0 for none
  stopped,  \* the caller stopped the watch
  faults,   \* faults so far
  spoilt    \* which faults concerned a change: "drop", "flake"

vars == <<chain, link, stream, mode, pc, read, last, primed, held, shown, stopped,
          faults, spoilt>>
loop == <<pc, read, last, primed, held, shown>>

Versions == 1 .. MaxVersion

Init ==
  /\ chain \in Versions
  /\ link = "shut" /\ stream = <<>>
  /\ mode \in {"push", "poll"}
  /\ pc = IF mode = "push" THEN "tick" ELSE "poll"
  /\ read = 0 /\ last = 0 /\ primed = FALSE /\ held = <<>> /\ shown = 0
  /\ stopped = FALSE /\ faults = 0 /\ spoilt = {}

-----------------------------------------------------------------------------
(* The chain and the transport. *)

(* A checkpoint with k transactions that change the escrow.                  *)
Checkpoint(k) ==
  /\ chain + k <= MaxVersion
  /\ IF link = "live"
     THEN /\ Len(stream) < MaxBuffer
          /\ stream' = Append(stream, [i \in 1 .. k |-> chain + i])
     ELSE k > 0 /\ UNCHANGED stream
  /\ chain' = chain + k
  /\ UNCHANGED <<link, mode, loop, stopped, faults, spoilt>>

Establish ==
  /\ link = "opening"
  /\ link' = "live"
  /\ UNCHANGED <<chain, stream, mode, loop, stopped, faults, spoilt>>

Fault(kinds) ==
  /\ faults < MaxFaults
  /\ faults' = faults + 1
  /\ spoilt' = spoilt \cup kinds

(* What was received before the drop may still be consumed, or be lost.      *)
Drop ==
  /\ link \in {"opening", "live"}
  /\ link' = "broken"
  /\ \E n \in 0 .. Len(stream) : stream' = SubSeq(stream, 1, n)
  /\ Fault({"drop"})
  /\ UNCHANGED <<chain, mode, loop, stopped>>

(* A read of the escrow is answered with its version at some moment between  *)
(* the call and the return.                                                  *)
Served ==
  /\ pc \in {"tick", "prime", "poll"}
  /\ pc = "tick" => ~stopped
  /\ read = 0
  /\ read' = chain
  /\ UNCHANGED <<chain, link, stream, mode, pc, last, primed, held, shown, stopped,
                 faults, spoilt>>

-----------------------------------------------------------------------------
(* tick: run the caller's reading, show it unless stopped; a flake skips it. *)

AfterTick == IF mode = "push" THEN "scan" ELSE "asleep"

(* Slips: what woke the loop is shown instead of what was read; the check    *)
(* that the watch still runs is left out.                                    *)
TickShows(v, allowed) ==
  /\ pc = "tick" /\ read # 0
  /\ shown' = IF allowed THEN v ELSE shown
  /\ pc' = AfterTick /\ read' = 0
  /\ UNCHANGED <<chain, link, stream, mode, last, primed, held, stopped, faults, spoilt>>
TickDoneWithSignal == TickShows(IF last = 0 THEN read ELSE last, ~stopped)
TickDoneUnchecked == TickShows(read, TRUE)

TickDone ==
  /\ pc = "tick" /\ read # 0
  /\ shown' = IF stopped THEN shown ELSE read
  /\ pc' = AfterTick /\ read' = 0
  /\ UNCHANGED <<chain, link, stream, mode, last, primed, held, stopped, faults, spoilt>>

(* Slips: the failed reading is kept for the next tick; the watch ends.      *)
TickFails(next, keep) ==
  /\ pc = "tick" /\ ~stopped
  /\ Fault({"flake"})
  /\ pc' = next /\ read' = keep
  /\ UNCHANGED <<chain, link, stream, mode, last, primed, held, shown, stopped>>
TickFlakeKeepsRead == TickFails(AfterTick, read)
TickFlakeEndsWatch == TickFails("ended", 0)

TickFlake ==
  /\ pc = "tick" /\ ~stopped
  /\ Fault({"flake"})
  /\ pc' = AfterTick /\ read' = 0
  /\ UNCHANGED <<chain, link, stream, mode, last, primed, held, shown, stopped>>

-----------------------------------------------------------------------------
(* escrowVersionChanges.  The generator runs while the loop awaits its next  *)
(* value, and waits at a yield while the loop ticks.                         *)

(* The first subscription, and another after a drop or a clean end, once     *)
(* what the old one had delivered is consumed.                               *)
Open ==
  /\ mode = "push" /\ pc = "idle" /\ ~stopped
  /\ link \in {"shut", "broken"} /\ stream = <<>>
  /\ link' = "opening"
  /\ UNCHANGED <<chain, stream, mode, loop, stopped, faults, spoilt>>

(* A slip: a pure delta stream that never asks for the current version.      *)
ReceiveUnprimed ==
  /\ pc = "idle" /\ ~stopped /\ stream # <<>>
  /\ held' = Head(stream) /\ stream' = Tail(stream)
  /\ pc' = "scan" /\ primed' = TRUE
  /\ UNCHANGED <<chain, link, mode, read, last, shown, stopped, faults, spoilt>>

(* The first checkpoint of all shows that the stream is live; only then is   *)
(* the current version asked for, once.                                      *)
Receive ==
  /\ pc = "idle" /\ ~stopped /\ stream # <<>>
  /\ held' = Head(stream) /\ stream' = Tail(stream)
  /\ pc' = IF primed THEN "scan" ELSE "prime"
  /\ primed' = TRUE
  /\ UNCHANGED <<chain, link, mode, read, last, shown, stopped, faults, spoilt>>

PrimeDone ==
  /\ pc = "prime" /\ read # 0
  /\ pc' = IF read # last THEN "tick" ELSE "scan"
  /\ last' = read /\ read' = 0
  /\ UNCHANGED <<chain, link, stream, mode, primed, held, shown, stopped, faults, spoilt>>

PrimeFlake ==
  /\ pc = "prime"
  /\ Fault({"flake"})
  /\ pc' = "scan" /\ read' = 0
  /\ UNCHANGED <<chain, link, stream, mode, last, primed, held, shown, stopped>>

(* The next change of the checkpoint; one of a version other than the last   *)
(* is yielded, which wakes the loop for a tick.                              *)
Scan ==
  /\ pc = "scan" /\ ~stopped
  /\ IF held = <<>>
     THEN pc' = "idle" /\ UNCHANGED <<held, last>>
     ELSE /\ held' = Tail(held) /\ last' = Head(held)
          /\ pc' = IF Head(held) # last THEN "tick" ELSE "scan"
  /\ UNCHANGED <<chain, link, stream, mode, read, primed, shown, stopped, faults, spoilt>>

-----------------------------------------------------------------------------
(* The polling fallback. *)

PollDone ==
  /\ pc = "poll" /\ read # 0
  /\ pc' = IF read # last THEN "tick" ELSE "asleep"
  /\ last' = read /\ read' = 0
  /\ UNCHANGED <<chain, link, stream, mode, primed, held, shown, stopped, faults, spoilt>>

(* A slip: a failed poll ends the loop.                                      *)
PollFlakeEndsWatch ==
  /\ pc = "poll"
  /\ Fault({})
  /\ pc' = "ended" /\ read' = 0
  /\ UNCHANGED <<chain, link, stream, mode, last, primed, held, shown, stopped>>

PollFlake ==
  /\ pc = "poll"
  /\ Fault({})
  /\ pc' = "asleep" /\ read' = 0
  /\ UNCHANGED <<chain, link, stream, mode, last, primed, held, shown, stopped>>

Wake ==
  /\ pc = "asleep" /\ ~stopped
  /\ pc' = "poll"
  /\ UNCHANGED <<chain, link, stream, mode, read, last, primed, held, shown, stopped,
                 faults, spoilt>>

(* The caller stops the watch; a subscription is aborted.                    *)
Stop ==
  /\ ~stopped
  /\ stopped' = TRUE
  /\ link' = "shut" /\ stream' = <<>>
  /\ UNCHANGED <<chain, mode, loop, faults, spoilt>>

-----------------------------------------------------------------------------
Run ==
  \/ Served \/ TickDone \/ TickFlake
  \/ Open \/ Receive \/ PrimeDone \/ PrimeFlake \/ Scan
  \/ PollDone \/ PollFlake \/ Wake

Next == Run \/ Establish \/ Drop \/ Stop \/ (\E k \in 0 .. 2 : Checkpoint(k))

(***************************************************************************)
(* The runtime resumes what can be resumed and reads return; a stream that *)
(* is being opened becomes live or is dropped; the chain goes on to commit *)
(* checkpoints, if only empty ones.  Nobody is obliged to change the       *)
(* escrow, to drop a stream or to stop.                                    *)
(***************************************************************************)
Fairness == WF_vars(Run) /\ WF_vars(Establish) /\ WF_vars(Checkpoint(0))

Spec == Init /\ [][Next]_vars /\ Fairness

-----------------------------------------------------------------------------
CheckpointsOK == stream \in Seq(Seq(1 .. chain)) /\ held \in Seq(1 .. chain)

LoopOK ==
  /\ link \in {"shut", "opening", "live", "broken"}
  /\ mode \in {"push", "poll"}
  /\ pc \in {"tick", "scan", "idle", "prime", "poll", "asleep"}
  /\ primed \in BOOLEAN /\ stopped \in BOOLEAN
  /\ faults \in 0 .. MaxFaults /\ spoilt \subseteq {"drop", "flake"}

ReadingsOK ==
  /\ chain \in Versions
  /\ read \in 0 .. chain /\ last \in 0 .. chain /\ shown \in 0 .. chain
  /\ read # 0 => pc \in {"tick", "prime", "poll"}

(* Types; a reading is in flight only where the loop awaits one, and nothing *)
(* received, read, recorded or shown is ahead of the chain.                  *)
TypeOK == CheckpointsOK /\ LoopOK /\ ReadingsOK

(* What the caller is shown never runs backwards, although the versions that *)
(* wake the loop do: a prime served early is followed by older checkpoints.  *)
ShownForward == [][shown' >= shown]_vars

(* The caller is shown nothing after it stopped the watch, whatever was in   *)
(* flight (`alive()` in the callbacks of `escrow.watch` and `cap.watch`).    *)
SilentAfterStop == [][stopped => shown' = shown]_vars

(* Nothing is lost between the first reading and the live stream: on a       *)
(* stream never dropped, with no reading failed, a loop that has consumed    *)
(* what it received since it was primed has shown the current version.       *)
SetupGapCovered ==
  spoilt = {} /\ primed /\ pc = "idle" /\ stream = <<>> /\ ~stopped => shown = chain

(* As long as no stream drops and no tick or prime fails, every change is    *)
(* shown in the end, or a later one, unless the caller stops; a failed poll  *)
(* costs nothing.                                                            *)
ChangesAreShown ==
  \A v \in Versions : chain = v ~> (shown >= v \/ stopped \/ spoilt # {})

(* No fault ends the watch (watch.ts:9): a newer version received after any  *)
(* of them is shown, unless there is another fault first.  One that was      *)
(* already recorded when its tick failed is not.                             *)
Received(v) == \E i \in 1 .. Len(stream) : \E j \in 1 .. Len(stream[i]) : stream[i][j] = v
WatchSurvivesFaults ==
  \A v \in Versions, f \in 0 .. MaxFaults :
    Received(v) /\ last < v /\ faults = f ~> (shown >= v \/ stopped \/ faults > f)

(* grpc-source.ts:94, of the reconnect schedule: "the stream is resumable    *)
(* without gaps"; SPEC.md:274: "a dropped stream re-opens with bounded       *)
(* backoff (resumable without gaps".  A drop alone costs no change.          *)
ResumableWithoutGaps ==
  \A v \in Versions : chain = v ~> (shown >= v \/ stopped \/ "flake" \in spoilt)
=============================================================================
