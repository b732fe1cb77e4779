------------------------------- MODULE Client -------------------------------
(***************************************************************************)
(* The SDK's clients on one escrow: callers of the handles and a           *)
(* subscriber, while other parties rent, displace, update, collect, retire *)
(* and burn.  What the SDK promises its callers in that company.           *)
(***************************************************************************)
EXTENDS Handles, Feeds

CONSTANT
  Scenarios  \* where the escrow stands, who calls what, what feed is open, and
             \* how often others may move and requests fail

ASSUME ScenariosAssumption ==
  \A s \in Scenarios :
    /\ s.start \in DOMAIN History /\ s.calls \in [Proc -> Seq(CallType)]
    /\ s.moves \in Nat /\ s.faults \in Nat
    /\ s.feed \in {"none", "poll", "push", "memory"}

vars == <<chainVars, handleVars, feedVars>>

(* A cap is asked about or sent by its id once it was minted.                *)
OfCap == {"capState", "usufructCap", "burnIfStale", "borrow", "burn", "refund"}
Minted == \A p \in Proc : \A call \in Range(todo[p]) : \A part \in Range(call) :
            part.verb \in OfCap => part.cap \in Caps(chain)

Init ==
  \E s \in Scenarios :
    /\ ChainInit(s.start, s.moves)
    /\ HandlesInit(s.calls, s.faults)
    /\ FeedInit(s.feed, s.faults)
    /\ Minted

(* memorySource tells its subscriber in the step that changes its store.     *)
Told == feed' = IF moment' = moment THEN feed ELSE Notified(feed, moment', chain'.claimed)

Others_ == OthersMove /\ Told /\ UNCHANGED handleVars
Calls_ == HandlesNext /\ Told
Feed_ == FeedNext /\ UNCHANGED <<chainVars, handleVars>>

Next == Others_ \/ Calls_ \/ Feed_

(* The event loop runs what is ready, and a request that is not failed is    *)
(* answered; other parties owe nobody a move.                                *)
Fairness ==
  /\ \A p \in Proc : WF_vars(Advance(p) /\ Told)
  /\ WF_vars(FeedAdvance /\ UNCHANGED <<chainVars, handleVars>>)

Spec == Init /\ [][Next]_vars /\ Fairness

-----------------------------------------------------------------------------
Started == {p \in Proc : task[p].pc # "ready"}
Parts(t, verb) == {i \in DOMAIN t.call : t.call[i].verb = verb}

(* Every value a verb works with was decoded from the returns of that view's *)
(* own calls, however many views shared the simulation (runSpecs), and was   *)
(* the chain's at a moment of the call itself: nothing is served from before.*)
ReadsAreTrue ==
  \A p \in Started : \A i \in DOMAIN task[p].got : \A name \in DOMAIN task[p].got[i] :
    LET answer == task[p].got[i][name] IN answer.own /\ answer.at >= task[p].began

(* What a caller is told fits what happened: a transaction runs at most once *)
(* whatever fails and is retried, a call that came back ran it exactly when  *)
(* there was something to send, and an abort or a failed build left nothing  *)
(* behind, though a failure after the execution does.  (plan.ts, send.ts,    *)
(* retry.ts NON_RETRYABLE_METHODS)                                           *)
OutcomeMatchesChain ==
  \A p \in Started :
    LET t == task[p]
        idle == \A i \in DOMAIN t.call : Idles(t.call[i], t.got[i])
    IN  /\ t.ran <= 1
        /\ t.pc = "done" => t.ran = IF idle THEN 0 ELSE 1
        /\ t.pc = "failed" /\ t.during = "building" => t.ran = 0
        /\ t.pc = "failed" /\ t.why \in {"abort", "notConnected", "unbound", "noBalance"}
             => t.ran = 0
        /\ t.pc = "failed" /\ t.during = "decoding" /\ ~idle => t.ran = 1

(* What a write reports is what its transaction did, whatever others did in  *)
(* between: a rent returns the cap it minted at the price that cap was       *)
(* rented for, a collect the sum it took.  At most one rent in a batch, two  *)
(* caps cannot be told apart by their type, and one collect of the inbox.    *)
(* (escrow.ts rent, inbox.ts collect, usufruct.ts batch)                     *)
ReceiptTruthful ==
  \A p \in {q \in Started : task[q].pc = "done"} :
    LET t == task[p] IN
      /\ Cardinality(Parts(t, "rent")) <= 1 => \A i \in Parts(t, "rent") :
           LET receipt == Body(t.call[i], t.got[i], t.effect)
           IN  /\ receipt.cap \in Range(t.effect.caps)
               /\ receipt.paid = chain.stakes[receipt.cap]
      /\ Cardinality(Parts(t, "collect")) <= 1 => \A i \in Parts(t, "collect") :
           Body(t.call[i], t.got[i], t.effect).sum = t.effect.taken

-----------------------------------------------------------------------------
(* A call that builds on what it read.                                       *)
Relies(part) ==
  \/ part.verb \in {"collect", "burnIfStale"}
  \/ part.verb = "rent" /\ part.pay = None

(* Some party moved after a read the call built on.                          *)
Overtaken(t) == \E i \in DOMAIN t.got : \E name \in DOMAIN t.got[i] : t.got[i][name].at < moment

(* The requests, and the reads around them, of t that failed in the step to  *)
(* u; one that failed all its attempts in a row; a read through a reader     *)
(* nobody wrapped.                                                           *)
Struck(t, u) ==
  {s \in Wants(t) \X {"request", "read"} :
     Misses(u, Key(s[1], s[2])) > Misses(t, Key(s[1], s[2]))}
AllTried(u, want, kind) == Misses(u, Key(want, kind)) >= Attempts
Unwrapped(want, kind) == kind = "read" /\ want[2].via = "kernel"

(* No call is ever bound to a function of the contract with arguments it     *)
(* does not declare; a read fails on its transport only when that request,   *)
(* or that read, has failed all of its attempts in a row, the truncated      *)
(* answers of the readers nobody wrapped excepted (updateMarket, claim and   *)
(* governs, and the sampled curves); and a rent at the floor, a collect or a *)
(* burn-if-stale aborts only because somebody moved between its reads and    *)
(* its execution, or the escrow rents no more, or the cap was burned before  *)
(* it was asked about; in a batch, of one rent and one collect: a second     *)
(* finds what the first left.  (read/spec.ts, withRetry, escrow.ts:271)      *)
FailsOnlyForCause ==
  [][\A p \in Proc :
       task[p].pc # "failed" /\ task'[p].pc = "failed" =>
         /\ task'[p].why # "unbound"
         /\ task'[p].why = "fault" => \E s \in Struck(task[p], task'[p]) :
              AllTried(task'[p], s[1], s[2]) \/ Unwrapped(s[1], s[2])
         /\ task'[p].why = "abort"
            /\ Cardinality(Parts(task[p], "rent")) <= 1
            /\ Cardinality(Parts(task[p], "collect")) <= 1
            /\ (\A i \in DOMAIN task[p].call : Relies(task[p].call[i]))
            => \/ Overtaken(task[p]) \/ chain.retiring \/ chain.retired
               \/ \E i \in DOMAIN task[p].call : task[p].call[i].cap \in chain.burned]_vars

(* The market patch of an updateMarket that is executed.                     *)
Patches(p) ==
  /\ task[p].pc = "sending" /\ task'[p].ran > task[p].ran
  /\ Len(task[p].call) = 1 /\ task[p].call[1].verb = "updateMarket"

KeepsRest(p) == Latest(chain') = Overlay(Latest(chain), task[p].call[1].patch)

(* updateMarket(changes) leaves what it was not asked to change as it was,   *)
(* although it sends a whole ensemble: unless another revision is scheduled, *)
(* or came between its reads and its execution.  (governanceCap.ts:130)      *)
PatchKeepsRest ==
  [][\A p \in Proc :
       Patches(p) /\ chain.scheduled = None /\ revised <= task[p].began => KeepsRest(p)]_vars

(* The same of an update made while an earlier one is scheduled: scripts and *)
(* comments say the rest of the market is preserved.                         *)
UpdateKeepsEarlierPatch ==
  [][\A p \in Proc : Patches(p) /\ revised <= task[p].began => KeepsRest(p)]_vars

(* Every call comes back, with a result or a failure: no verb waits for what *)
(* nobody will answer.  (plan.ts send, retry.ts withRetry)                   *)
CallsEnd == \A p \in Proc : <>[](todo[p] = <<>> /\ task[p].pc \in Over)

(* escrow.ts:113 calls an asset state "a coherent, timestamped photo": its   *)
(* parts belong to the same state of the escrow.                             *)
PhotoIsCoherent(t) ==
  \A i \in Parts(t, "assetState") :
    LET photo == Body(t.call[i], t.got[i], t.effect)
    IN  /\ photo.kind \in {"occupied", "demand"} => photo.cap # None
        /\ photo.kind = "demand"  => photo.challenger # None
        /\ photo.kind = "descent" => photo.from # None

(* cap.ts:85, of a cap state: the seat numbers "are populated only when THIS *)
(* cap holds that seat", and a displaced cap asked for its stake gets null,  *)
(* "not another seat's".                                                     *)
CapShowsItsOwnSeat(t) ==
  \A i \in Parts(t, "capState") :
    Body(t.call[i], t.got[i], t.effect).stake \in {None, chain.stakes[t.call[i].cap]}

(* retry.ts:4: the module "makes reads reliable **by default**", truncated   *)
(* simulations (retry.ts:12) among the failures meant, so that "reads ride   *)
(* through" (retry.ts:19): a call that a fault has ended had a request, or a *)
(* read, all of whose attempts failed in a row.                              *)
RodeThrough(t) ==
  t.why = "fault" => \E key \in DOMAIN t.missed : t.missed[key] >= Attempts

(* Of the three promises made of reads, not all are broken at once: the one  *)
(* state that breaks this shows each of them broken, by callers that read    *)
(* side by side.                                                             *)
ReadsKeepAPromise ==
  LET done == {p \in Started : task[p].pc = "done"}
  IN  \/ \A p \in done : PhotoIsCoherent(task[p])
      \/ \A p \in done : CapShowsItsOwnSeat(task[p])
      \/ \A p \in Started \ done : task[p].pc = "failed" => RodeThrough(task[p])
=============================================================================
