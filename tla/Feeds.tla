------------------------------- MODULE Feeds --------------------------------
(***************************************************************************)
(* `Source.subscribe` for one consumer, in its three forms: chainSource    *)
(* polls the object; grpcSource fetches it once, then whenever a checkpoint*)
(* of its stream names a version it has not yielded; memorySource is told  *)
(* of every change of its store and buffers what its consumer has not taken*)
(* yet (`channel`).  All yield the states of the escrow by version, and    *)
(* drop a version they have just yielded.                                  *)
(***************************************************************************)
EXTENDS Chain, Integers

CONSTANT
  FeedAttempts  \* attempts of the client under the polling and the pushed feed

VARIABLE feed
feedVars == <<feed>>

NoVersion == -1

(* Pushing what the store holds: what is waiting to be taken grows.          *)
Pumped(f, version) ==
  IF version = f.last \/ f.closed THEN f
  ELSE [f EXCEPT !.last = version, !.buffer = Append(@, version)]

(* A subscription of memorySource pumps the current state at once.           *)
FeedInit(kind, allowed) ==
  LET f == [ kind |-> kind, pc |-> IF kind = "none" THEN "ended" ELSE "asking",
             last |-> NoVersion, tries |-> 0, faults |-> allowed, live |-> FALSE,
             heard |-> NoVersion, closed |-> FALSE, buffer |-> <<>>, shown |-> <<>> ]
  IN  feed = IF kind = "memory" THEN Pumped(f, 0) ELSE f

-----------------------------------------------------------------------------
(* chainSource.subscribe, and the requests of grpcSource.subscribe           *)

(* A slip: every answer is yielded.                                          *)
FetchedAll ==
  /\ feed.kind \in {"poll", "push"} /\ feed.pc = "asking" /\ ~chain.claimed
  /\ feed' = [feed EXCEPT !.pc = "waiting", !.tries = 0, !.last = moment,
                          !.shown = Append(@, moment)]

(* The answer is compared with the last version; the object may be gone,     *)
(* and then the request throws out of the stream.                            *)
Fetched ==
  /\ feed.kind \in {"poll", "push"} /\ feed.pc = "asking"
  /\ feed' = IF chain.claimed THEN [feed EXCEPT !.pc = "ended"]
             ELSE [feed EXCEPT !.pc = "waiting", !.tries = 0, !.last = moment,
                               !.shown = IF moment = feed.last THEN @ ELSE Append(@, moment)]

FetchFails ==
  /\ feed.kind \in {"poll", "push"} /\ feed.pc = "asking" /\ feed.faults > 0
  /\ feed' = [feed EXCEPT !.faults = @ - 1, !.tries = @ + 1,
                          !.pc = IF feed.tries + 1 >= FeedAttempts THEN "ended" ELSE @]

(* The signal is looked at after a yield and after the sleep.                *)
Slept ==
  /\ feed.kind = "poll" /\ feed.pc = "waiting"
  /\ feed' = [feed EXCEPT !.pc = IF feed.closed THEN "ended" ELSE "asking"]

-----------------------------------------------------------------------------
(* grpcSource.subscribe: a generator that awaits a fetch takes no checkpoint *)
(* from its stream, so those received wait in `buffer`.                      *)

(* Only checkpoints from now on are received; what an earlier stream left is *)
(* taken first.                                                              *)
Connected ==
  /\ feed.kind = "push" /\ feed.pc = "waiting" /\ ~feed.live /\ ~feed.closed /\ feed.buffer = <<>>
  /\ feed' = [feed EXCEPT !.live = TRUE]

(* The stream drops, perhaps with the last it received; it is opened again   *)
(* without asking what happened meanwhile.                                   *)
Dropped ==
  /\ feed.live /\ feed.faults > 0
  /\ \E n \in 0 .. Len(feed.buffer) :
       feed' = [feed EXCEPT !.live = FALSE, !.faults = @ - 1, !.buffer = SubSeq(@, 1, n),
                            !.heard = IF n < Len(feed.buffer) THEN NoVersion ELSE @]

(* A checkpoint that names another version than the last has it fetched.     *)
Touched ==
  /\ feed.kind = "push" /\ feed.pc = "waiting" /\ ~feed.closed /\ feed.buffer # <<>>
  /\ feed' = [feed EXCEPT !.buffer = Tail(@),
                          !.pc = IF Head(feed.buffer) = feed.last THEN @ ELSE "asking"]

Aborted ==
  /\ feed.kind = "push" /\ feed.pc = "waiting" /\ feed.closed
  /\ feed' = [feed EXCEPT !.pc = "ended", !.live = FALSE]

-----------------------------------------------------------------------------
(* memorySource.subscribe                                                    *)

(* A slip: what the consumer is not waiting for is not kept.                 *)
NotifiedWhenEmpty(f, version, claimed) ==
  IF f.buffer # <<>> THEN f
  ELSE IF f.kind = "memory" /\ ~claimed THEN Pumped(f, version)
  ELSE f

(* `set` wakes the listeners, which read the store; `delete` wakes nobody.   *)
(* A checkpoint reaches a live stream.                                       *)
Notified(f, version, claimed) ==
  CASE f.kind = "memory" /\ ~claimed -> Pumped(f, version)
    [] f.kind = "push" /\ f.live     -> [f EXCEPT !.buffer = Append(@, version), !.heard = version]
    [] OTHER                         -> f

Taken ==
  /\ feed.kind = "memory" /\ feed.buffer # <<>>
  /\ feed' = [feed EXCEPT !.shown = Append(@, Head(feed.buffer)), !.buffer = Tail(@)]

(* The consumer learns of the end once it has taken what was buffered.       *)
Drained ==
  /\ feed.kind = "memory" /\ feed.pc = "asking" /\ feed.closed /\ feed.buffer = <<>>
  /\ feed' = [feed EXCEPT !.pc = "ended"]

(* The consumer's signal aborts.                                             *)
Unsubscribe ==
  /\ ~feed.closed /\ feed.pc # "ended"
  /\ feed' = [feed EXCEPT !.closed = TRUE]

FeedAdvance ==
  Fetched \/ Slept \/ Connected \/ Touched \/ Aborted \/ Taken \/ Drained
FeedNext == FeedAdvance \/ FetchFails \/ Dropped \/ Unsubscribe

-----------------------------------------------------------------------------
(* A consumer sees states in the order they came about, none twice.          *)
(* (source.ts, grpc-source.ts, memory-source.ts)                         *)
FeedForward ==
  \A i, j \in DOMAIN feed.shown : i < j => feed.shown[i] < feed.shown[j]

(* A subscription that neither ended nor was aborted comes to show the       *)
(* latest state of an escrow that is still there; a pushed one the latest    *)
(* its stream received, or a later one.                                      *)
FeedCatchesUp ==
  <>[](feed.pc # "ended" /\ ~feed.closed /\ ~chain.claimed
         => /\ feed.shown # <<>>
            /\ Last(feed.shown) >= IF feed.kind = "push" THEN feed.heard ELSE moment)
=============================================================================
