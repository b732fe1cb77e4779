------------------------------- MODULE Handles ------------------------------
(***************************************************************************)
(* The handles of highlevel/: what each verb asks of the chain, in which   *)
(* order and in parallel with what, what it makes of the answers, and how  *)
(* a write goes from its build over its execution to its decoding (a       *)
(* `Plan`).  Several callers run at once beside the other parties of       *)
(* Chain; requests fail and are retried as highlevel/retry.ts has it.      *)
(*                                                                         *)
(* A call is the sequence of its parts: one for a verb, several for        *)
(* `u.batch`.  What a part has read so far says what it asks next, so a    *)
(* caller's state is what it has got, not where its code stands.           *)
(***************************************************************************)
EXTENDS Chain, ReadSpecs, Transactions

CONSTANTS
  Proc,         \* the callers
  Signers,      \* the callers connected to a signer or an executor
  Purse,        \* what a caller owns of the escrow's coin; None when that is SUI
  MarketViews,  \* the views of a market that are read one by one
  Attempts      \* RetryOptions.attempts

ASSUME MarketViewsAssumption ==
  /\ {"restPrice", "tenureDuration"} \subseteq MarketViews
  /\ MarketViews \subseteq {PolicySpecs[i].name : i \in DOMAIN PolicySpecs}
ASSUME AttemptsAssumption == Attempts \in Nat \ {0}

VARIABLES
  todo,     \* the calls each caller has yet to make
  task,     \* the call each caller is in, or was in last
  faults    \* bound: how many requests may still fail

handleVars == <<todo, task, faults>>

-----------------------------------------------------------------------------
(* Requests.  "client" is one request, retried on a status; "reader" a       *)
(* simulation whose truncated answers are retried too; "kernel" one whose    *)
(* are not: a reader nobody wrapped, or a curve sampled without a reader.    *)

Sim(via, names, supplied) == [via |-> via, names |-> names, supplied |-> supplied]
View(name) == Sim("reader", <<name>>, {})
ViewNow(name) == Sim("reader", <<name>>, {"now"})
ViewOf(name) == Sim("reader", <<name>>, {"probe"})
Kernel(name) == Sim("kernel", <<name>>, {})
Get(what) == Sim("client", <<what>>, {})

Sampled == {"creditSamples", "descentSamples", "ladder"}

(* A job with nothing outstanding lets the next ones start.                  *)
Then(got, jobs, rest) ==
  LET open == {j \in jobs : ~(Range(j.names) \subseteq DOMAIN got)}
  IN  IF open # {} THEN open ELSE rest

Value(got, name) == got[name].val

-----------------------------------------------------------------------------
(* The reads of an escrow (highlevel/escrow.ts, escrowRead.ts).              *)

(* SCALAR_READS by what the caller passes.                                   *)
ScalarAt ==
  {"transitionIsReady", "nextTransitionMs", "activeUsufructuaryTimeRemainingMs",
   "handoverExpiryIfBidAt", "retireCommitmentRemainingMs", "ensembleCommitmentRemainingMs",
   "floorPriceMist", "accruedCreditMist", "activeStakeBalanceRemainingMist"}
ScalarProbes ==
  {"governanceCapIsValid", "usufructCapIsActive", "usufructCapIsPending", "usufructCapIsStale"}
ScalarReads ==
  Range([i \in DOMAIN StatusSpecs |-> StatusSpecs[i].name])
  \cup Range([i \in DOMAIN IdentitySpecs |-> IdentitySpecs[i].name])
  \cup Range([i \in DOMAIN SeatSpecs |-> SeatSpecs[i].name])
  \cup Range([i \in DOMAIN TemporalSpecs |-> TemporalSpecs[i].name])
  \cup Range([i \in DOMAIN CommitmentSpecs |-> CommitmentSpecs[i].name])
  \cup Range([i \in DOMAIN CreditSpecs |-> CreditSpecs[i].name])
  \cup {"protocolFeeBps", "bpsDenominator"} \cup ScalarAt \cup ScalarProbes

Scalar(name, got) ==
  IF name \in ScalarAt THEN Then(got, {Get("clock")}, Then(got, {ViewNow(name)}, {}))
  ELSE Then(got, {IF name \in ScalarProbes THEN ViewOf(name) ELSE View(name)}, {})

StatusNames == <<"isRetired", "isOccupied", "isDemand", "isDescending", "floorPriceMist">>
SeatNames ==
  <<"activeUsufructCapId", "activeUsufructuaryAddr", "activeStakeBalanceMist", "tenureExpiryMs">>
BidNames ==
  <<"pendingUsufructCapId", "pendingUsufructuaryAddr", "pendingStakeBalanceMist",
    "handoverExpiryMs">>

Status(got) ==
  IF Value(got, "isRetired") THEN "retired"
  ELSE IF Value(got, "isOccupied") THEN "occupied"
  ELSE IF Value(got, "isDemand") THEN "demand"
  ELSE IF Value(got, "isDescending") THEN "descent" ELSE "idle"

AssetState(got) ==
  Then(got, {Get("clock")}, Then(got, {Sim("reader", StatusNames, {"now"})},
    CASE Status(got) = "descent" ->
           Then(got, {View("lastRentPriceMist"), View("descentExpiryMs")}, {})
      [] Status(got) = "occupied" -> Then(got, {Sim("reader", SeatNames, {"now"})}, {})
      [] Status(got) = "demand" ->
           Then(got, {Sim("reader", SeatNames, {"now"})},
           Then(got, {Sim("reader", BidNames, {"now"})}, {}))
      [] OTHER -> {}))

AssetStateBody(got) ==
  LET kind == Status(got)
  IN  [ kind       |-> kind,
        from       |-> IF kind = "descent" THEN Value(got, "lastRentPriceMist") ELSE None,
        cap        |-> IF kind \in {"occupied", "demand"} THEN Value(got, "activeUsufructCapId")
                       ELSE None,
        challenger |-> IF kind = "demand" THEN Value(got, "pendingUsufructCapId") ELSE None ]

Cycle(got) ==
  Then(got, {View("cycleParams"), View("activeCeilingTotalMs"), View("activeHandoverTotalMs")}, {})

(* Curves: the parameters in parallel, then the samples.                     *)
CreditCurve(got) ==
  Then(got, {View(n) : n \in {"isOccupied", "activeStakeBalanceMist", "phaseStartMs",
                              "activeCeilingTotalMs", "creditShape", "activeUsufructCapId"}},
  IF ~Value(got, "isOccupied") \/ Value(got, "activeStakeBalanceMist") = None THEN {}
  ELSE Then(got, {Kernel("creditSamples")}, {}))
DescentCurve(got) ==
  Then(got, {View(n) : n \in {"isDescending", "lastRentPriceMist", "phaseStartMs",
                              "cycleParams", "auctionShape"}},
  IF ~Value(got, "isDescending") \/ Value(got, "lastRentPriceMist") = None THEN {}
  ELSE Then(got, {Kernel("descentSamples")}, {}))
EscalationLadder(got) ==
  Then(got, {View("priceEscalation")}, Then(got, {Get("clock")},
  Then(got, {ViewNow("floorPriceMist")}, Then(got, {Kernel("ladder")}, {}))))

Settlement(name, got) ==
  IF name = "handoverSettlement"
  THEN Then(got, {Get("clock")}, Then(got, {Sim("reader", <<name>>, {"boundary"})}, {}))
  ELSE Then(got, {Sim("reader", <<name>>, {"nextFloor"})}, {})

(* readMarket, over a reader that retries truncated answers or does not.     *)
ReadMarket(via, got) == Then(got, {Sim(via, <<n>>, {}) : n \in MarketViews}, {})
MarketRead(got) == [price |-> Value(got, "restPrice"), tenure |-> Value(got, "tenureDuration")]

-----------------------------------------------------------------------------
(* The reads of a cap (highlevel/cap.ts).                                    *)

RoleNames == <<"activeUsufructCapId", "pendingUsufructCapId", "usufructCapIsStale">>
ActiveNames ==
  <<"activeUsufructuaryAddr", "activeStakeBalanceMist", "activeStakeBalanceRemainingMist",
    "accruedCreditMist", "activeCommittedTenures", "activeUsufructuaryTimeRemainingMs",
    "creditIsAccruing", "creditCappedAtMs">>
PendingNames == <<"pendingUsufructuaryAddr", "pendingStakeBalanceMist", "pendingCommittedTenures">>

(* A cap a caller asks about is a cap of this escrow, so it is seated or     *)
(* stale: the third answer, neither, at which `state` throws, never comes.   *)
Role(cap, got) ==
  IF Value(got, "activeUsufructCapId") = cap THEN "active"
  ELSE IF Value(got, "pendingUsufructCapId") = cap THEN "pending" ELSE "stale"

CapState(cap, got) ==
  Then(got, {Get("clock"), Sim("reader", RoleNames, {"probe"})},
    CASE Role(cap, got) = "active"  -> Then(got, {Sim("reader", ActiveNames, {"now"})}, {})
      [] Role(cap, got) = "pending" -> Then(got, {Sim("reader", PendingNames, {})}, {})
      [] OTHER                      -> {})

CapStateBody(cap, got) ==
  [ status |-> Role(cap, got),
    stake  |-> CASE Role(cap, got) = "active"  -> Value(got, "activeStakeBalanceMist")
                 [] Role(cap, got) = "pending" -> Value(got, "pendingStakeBalanceMist")
                 [] OTHER                      -> None ]

-----------------------------------------------------------------------------
(* What a part reads before it is built, or answered when it only reads, and *)
(* what it reads to decode its execution.                                    *)

Ref(got, rest) == Then(got, {Get("typeArgs")}, rest)

RentReads(part, got) ==
  LET coins == IF Purse = None THEN {} ELSE {Get("coins")}
  IN  IF part.pay # None THEN Then(got, coins, {})
      ELSE Then(got, {Get("clock")}, Then(got, {ViewNow("floorPriceMist")}, Then(got, coins, {})))

BuildReads(part, got) ==
  CASE part.verb = "scalar"        -> Scalar(part.name, got)
    [] part.verb = "assetState"    -> AssetState(got)
    [] part.verb = "cycle"         -> Cycle(got)
    [] part.verb = "creditCurve"   -> CreditCurve(got)
    [] part.verb = "descentCurve"  -> DescentCurve(got)
    [] part.verb = "ladder"        -> EscalationLadder(got)
    [] part.verb = "settlement"    -> Settlement(part.name, got)
    [] part.verb = "market"        -> ReadMarket("reader", got)
    [] part.verb = "everything"    ->
         Then(got, {Sim("reader", Snapshot({"now", "probe"}), {"now", "probe"})}, {})
    [] part.verb = "capState"      -> CapState(part.cap, got)
    [] part.verb = "escrow"        -> Ref(got, {})
    [] part.verb = "escrows"       -> Then(got, {Get("objects")}, {})
    [] part.verb = "usufructCap"   -> Then(got, {Get("cap")}, Ref(got, {}))
    [] part.verb = "feeInbox"      -> Then(got, {Get("feeRef")}, {})
    [] part.verb = "balance"       -> Then(got, {Get("messages")}, {})
    [] part.verb = "governs"       ->
         Ref(got, Then(got, {Sim("kernel", <<"governanceCapIsValid">>, {"probe"})}, {}))
    [] part.verb = "rent"          -> RentReads(part, got)
    [] part.verb = "updateMarket"  -> Ref(got, ReadMarket("kernel", got))
    [] part.verb = "claim"         -> Ref(got, Then(got, {Kernel("assetId")}, {}))
    [] part.verb \in {"retire", "extendRetire", "extendEnsemble"} -> Ref(got, {})
    [] part.verb \in {"integrate", "integrateIntoPortfolio"} -> Then(got, {Get("assetType")}, {})
    [] part.verb = "collect"       -> Then(got, {Get("messages")}, {})
    [] part.verb = "burnIfStale"   -> Then(got, {ViewOf("usufructCapIsStale")}, {})
    [] OTHER                       -> {}

DecodeReads(part, got) ==
  CASE part.verb = "rent" -> Then(got, {View("tenureExpiryMs")}, {})
    [] part.verb \in {"integrate", "integrateIntoPortfolio"} -> Ref(got, {})
    [] OTHER -> {}

Reads ==
  {"scalar", "assetState", "cycle", "creditCurve", "descentCurve", "ladder", "settlement",
   "market", "everything", "capState", "balance", "governs", "escrow", "escrows", "usufructCap",
   "feeInbox"}

Writes ==
  {"rent", "updateMarket", "retire", "extendRetire", "extendEnsemble", "claim", "collect",
   "burnIfStale", "integrate", "integrateIntoPortfolio", "applyPending", "borrow", "burn",
   "refund", "renounce", "transfer"}

-----------------------------------------------------------------------------
(* What may be called: a verb with its arguments, and of the writes that are *)
(* a `Plan`, which burnIfStale is not, several in a batch.                   *)

ShapeKinds == {"linear", "smoothstep", "logistic", "powerLaw", "exponential"}
CommitmentKinds == {"immediate", "deferred"}
ConfigType ==
  [ multi : BOOLEAN, handover : {"off", "fullTenure", "fixed"}, descent : {"off", "fixed"},
    creditShape : ShapeKinds, auctionShape : ShapeKinds,
    escalation : {"fixedDelta", "compoundDelta"}, retire : CommitmentKinds, lock : CommitmentKinds ]

PatchType ==
  {<<>>} \cup [{"price"} -> Nat] \cup [{"tenure"} -> Nat] \cup [{"price", "tenure"} -> Nat]

Settlements == {"nextFloorPriceMist", "handoverSettlement", "tenureSettlement"}
PartType ==
  [ verb : Reads \cup Writes, pay : Nat \cup {None}, count : Nat \ {0}, cap : Nat,
    patch : PatchType, cfg : ConfigType, kind : {"earnings", "fees"}, name : ScalarReads \cup Settlements \cup {None} ]

CallType ==
  { call \in Seq(PartType) :
      /\ call # <<>>
      /\ \A i \in DOMAIN call :
           /\ call[i].verb = "scalar" => call[i].name \in ScalarReads
           /\ call[i].verb = "settlement" => call[i].name \in Settlements
           /\ Len(call) > 1 => call[i].verb \in Writes \ {"burnIfStale"} }

-----------------------------------------------------------------------------
(* What a part sends: its calls of the contract, and what they do there.     *)

(* A slip: what was not changed comes from the changes.                      *)
MergedBackwards(part, got) == Overlay(part.patch, MarketRead(got))

(* toEnsembleConfig's ensemble: the commitments that `changes` may name too  *)
(* are split off from it and not sent.                                       *)
Merged(part, got) == Overlay(MarketRead(got), part.patch)

Paid(part, got) ==
  IF part.pay # None THEN part.pay ELSE Value(got, "floorPriceMist") * part.count

(* A part that sends nothing: an empty collect, a cap that is not stale.     *)
Idles(part, got) ==
  \/ part.verb \in Reads
  \/ part.verb = "collect" /\ Value(got, "messages") = {}
  \/ part.verb = "burnIfStale" /\ ~Value(got, "usufructCapIsStale")

Ptb(part, got) ==
  IF Idles(part, got) THEN <<>> ELSE
  CASE part.verb = "rent"            -> RentPtb
    [] part.verb = "updateMarket"    -> UpdateEnsemblePtb(part.cfg)
    [] part.verb = "retire"          -> RetirePtb
    [] part.verb = "extendRetire"    -> ExtendRetireCommitmentPtb(part.cfg.retire)
    [] part.verb = "extendEnsemble"  -> ExtendEnsembleCommitmentPtb(part.cfg.lock)
    [] part.verb = "claim"           -> ClaimAssetPtb
    [] part.verb = "collect"         -> CollectPtb(part.kind, {"coin"})
    [] part.verb = "burnIfStale"     -> BurnStalePtb
    [] part.verb = "integrate"       -> IntegratePtb(part.cfg)
    [] part.verb = "integrateIntoPortfolio" -> IntegrateIntoPortfolioPtb(part.cfg)
    [] part.verb = "applyPending"    -> ApplyPtb
    [] part.verb = "borrow"          -> WithBorrowedAsset(<<>>)
    [] part.verb = "burn"            -> BurnCapPtb
    [] part.verb = "refund"          -> UpdateRefundAddressPtb
    [] part.verb = "renounce"        -> RenouncePtb
    [] part.verb = "transfer"        -> <<>>

(* A slip: collect takes what is there, not what it found and reports.       *)
AllThere(got) == chain.inbox

Found(got) == Value(got, "messages")

Sends(part, got) ==
  IF Idles(part, got) THEN Step("nothing") ELSE
  CASE part.verb = "rent"         ->
         [fn |-> "rent", pay |-> Paid(part, got), count |-> part.count]
    [] part.verb = "updateMarket" -> [fn |-> "update", market |-> Merged(part, got)]
    [] part.verb = "collect"      -> [fn |-> "collect", messages |-> Found(got)]
    [] part.verb = "burnIfStale"  -> [fn |-> "burnStale", cap |-> part.cap]
    [] part.verb \in {"borrow", "burn", "refund"} -> [fn |-> part.verb, cap |-> part.cap]
    [] OTHER                      -> Step(part.verb)

(* createdIdByType: the first object of the type among those created.        *)
Body(part, got, effect) ==
  CASE part.verb = "assetState" -> AssetStateBody(got)
    [] part.verb = "capState"   -> CapStateBody(part.cap, got)
    [] part.verb = "market"     -> MarketRead(got)
    [] part.verb = "rent"       -> [cap |-> Head(effect.caps), paid |-> Paid(part, got)]
    [] part.verb = "collect"    -> [sum |-> SumSet(Value(got, "messages"))]
    [] OTHER                    -> [sent |-> ~Idles(part, got)]

-----------------------------------------------------------------------------
(* What the escrow answers, and what a request is.                           *)

Sees(s, name, cap) ==
  CASE name = "isRetired"      -> s.retired
    [] name = "isOccupied"     -> s.tenant # None /\ s.challenger = None
    [] name = "isDemand"       -> s.challenger # None
    [] name = "isDescending"   -> s.auction # None
    [] name = "floorPriceMist" -> Floor(s)
    [] name = "lastRentPriceMist"     -> s.auction
    [] name = "activeUsufructCapId"   -> s.tenant
    [] name = "pendingUsufructCapId"  -> s.challenger
    [] name = "activeStakeBalanceMist"  -> IF s.tenant = None THEN None ELSE s.stakes[s.tenant]
    [] name = "pendingStakeBalanceMist" ->
         IF s.challenger = None THEN None ELSE s.stakes[s.challenger]
    [] name = "usufructCapIsStale"   -> Stale(s, cap)
    [] name = "usufructCapIsActive"  -> s.tenant = cap
    [] name = "usufructCapIsPending" -> s.challenger = cap
    [] name = "restPrice"      -> s.market.price
    [] name = "tenureDuration" -> s.market.tenure
    [] name = "messages"       -> s.inbox
    [] OTHER                   -> None

Multiple == {StatusNames, SeatNames, BidNames, RoleNames, ActiveNames, PendingNames,
             Snapshot({"now", "probe"})}
Chunked == [names \in Multiple |-> Chunks(names)]

(* A simulation answers each of its views from that view's own calls.        *)
DecodesOwn ==
  [ request \in {<<name>> : name \in Views} \cup UNION {Range(Chunked[names]) : names \in Multiple} |->
      Len(Issued(request)) <= ChunkCalls /\ \A i \in DOMAIN request : DecodedOwn(request, i) ]

(* The next request of a job: a chunk it has no answer to yet.               *)
Request(got, j) ==
  IF Len(j.names) = 1 THEN j.names
  ELSE LET chunks == Chunked[j.names]
       IN  chunks[Min({k \in DOMAIN chunks : ~(Range(chunks[k]) \subseteq DOMAIN got)})]

IsSampled(j) == Range(j.names) \subseteq Sampled

JobBinds(part, j) ==
  CASE j.via = "client" -> TRUE
    [] j.names = <<"creditSamples">>  -> WellBound(Samples(part.cfg.creditShape, CreditSample, 2))
    [] j.names = <<"descentSamples">> -> WellBound(Samples(part.cfg.auctionShape, DescentSample, 2))
    [] j.names = <<"ladder">>         -> WellBound(EscalationLadderPtb(part.cfg.escalation, 2))
    [] OTHER -> \A name \in Range(j.names) : SpecBinds(name, j.supplied)

(* What the request reads is gone: the escrow once its asset was claimed, a  *)
(* cap once it was burned, a tenure to settle on an escrow not rented (the   *)
(* view aborts, spec.ts:316).                                                *)
Gone(part, j) ==
  IF j.via = "client"
  THEN \/ j.names = <<"cap">> /\ part.cap \in chain.burned
       \/ j.names \in {<<"typeArgs">>, <<"objects">>} /\ chain.claimed
          /\ part.verb \notin {"integrate", "integrateIntoPortfolio"}
  ELSE \/ j.names = <<"tenureSettlement">> /\ chain.tenant = None
       \/ /\ ~IsSampled(j) /\ chain.claimed
          /\ \E name \in Range(j.names) : SpecOf[name].args # <<>>

Answers(part, j, request) ==
  [name \in Range(request) |->
     [ at  |-> moment,
       own |-> j.via = "client" \/ IsSampled(j) \/ DecodesOwn[request],
       val |-> Sees(chain, name, part.cap) ]]

-----------------------------------------------------------------------------
(* A call under way.  got[i] is what part i was answered, tries how often    *)
(* the retries counted a request or a whole read to fail in a row, missed    *)
(* how often it did (an observer's count, no step reads it), effect what its *)
(* transaction minted and took.                                              *)

Fresh(call) ==
  [ pc |-> "building", why |-> None, during |-> None, call |-> call, nth |-> 1,
    got |-> [i \in DOMAIN call |-> <<>>], tries |-> <<>>, missed |-> <<>>,
    began |-> moment, ran |-> 0, effect |-> [caps |-> <<>>, taken |-> 0] ]
Unused == [Fresh(<<>>) EXCEPT !.pc = "ready", !.began = 0]
Over == {"ready", "done", "failed"}

Wants(t) ==
  CASE t.pc = "building" -> {<<t.nth, j>> : j \in BuildReads(t.call[t.nth], t.got[t.nth])}
    [] t.pc = "decoding" ->
         IF t.ran > 0 /\ "indexed" \notin DOMAIN t.got[1] THEN {<<1, Get("indexed")>>}
         ELSE UNION {{<<i, j>> : j \in DecodeReads(t.call[i], t.got[i])} : i \in DOMAIN t.call}
    [] OTHER -> {}

AllOps(t) == [i \in DOMAIN t.call |-> Sends(t.call[i], t.got[i])]

Without(f, keys) == [k \in DOMAIN f \ keys |-> f[k]]
Onto(new, f) == [k \in DOMAIN new \cup DOMAIN f |-> IF k \in DOMAIN new THEN new[k] ELSE f[k]]
Counted(t, key, n) == Onto([k \in {key} |-> n], t.tries)
Misses(t, key) == IF key \in DOMAIN t.missed THEN t.missed[key] ELSE 0

(* A slip: one count for all the requests of a call.                         *)
TriedInAll(t, key) == FoldFunction(+, 0, t.tries)

Tried(t, key) == IF key \in DOMAIN t.tries THEN t.tries[key] ELSE 0

Key(want, kind) == <<want[1], want[2].names, kind>>
Hit(t, key) == [t EXCEPT !.missed = Onto([k \in {key} |-> Misses(t, key) + 1], @)]
Reached(t, want) ==
  [t EXCEPT !.tries = Without(@, {Key(want, "request")}),
            !.missed = Without(@, {Key(want, "request")})]

(* withRetry: the last attempt rethrows.                                     *)
GivesUp(n) == n >= Attempts

Failed(t, why) == [t EXCEPT !.pc = "failed", !.why = why, !.during = t.pc]
Becomes(p, t) == task' = [task EXCEPT ![p] = t]

(* send() asks for an executor before it builds; burnIfStale reads first.    *)
Begin(p) ==
  /\ task[p].pc \in Over /\ todo[p] # <<>>
  /\ todo' = [todo EXCEPT ![p] = Tail(@)]
  /\ LET call == Head(todo[p])
         plan == \A i \in DOMAIN call : call[i].verb \notin Reads \cup {"burnIfStale"}
     IN  Becomes(p, IF plan /\ p \notin Signers THEN Failed(Fresh(call), "notConnected")
                    ELSE Fresh(call))
  /\ UNCHANGED <<chainVars, faults>>

(* An answer is kept beside those there are, and the request is done.        *)
WithAnswer(t, i, j, answers) ==
  [Reached(t, <<i, j>>) EXCEPT !.got[i] = Onto(answers, @)]

Receive(p) ==
  \E want \in Wants(task[p]) :
    LET t == task[p]  i == want[1]  j == want[2]  part == t.call[i]
    IN  /\ \E answers \in {Answers(part, j, Request(t.got[i], j))} :
             Becomes(p, IF ~JobBinds(part, j) THEN Failed(t, "unbound")
                        ELSE IF Gone(part, j) THEN Failed(t, "gone")
                        ELSE WithAnswer(t, i, j, answers))
        /\ UNCHANGED <<chainVars, todo, faults>>

(* A request fails on its status: the client sends it again.                 *)
Transient(p) ==
  /\ faults > 0 /\ faults' = faults - 1
  /\ \E want \in Wants(task[p]) :
       LET key == Key(want, "request")
           t == Hit(task[p], key)
           n == Tried(t, key) + 1
       IN  Becomes(p, IF GivesUp(n) THEN Failed(t, "fault")
                      ELSE [t EXCEPT !.tries = Counted(t, key, n)])
  /\ UNCHANGED <<chainVars, todo>>

(* A simulation comes back empty and its decoding throws: a wrapped reader   *)
(* reads all of its views again, a kernel reader passes the failure on.      *)
Truncated(p) ==
  /\ faults > 0 /\ faults' = faults - 1
  /\ \E want \in {w \in Wants(task[p]) : w[2].via # "client"} :
       LET i == want[1]  j == want[2]
           key == Key(want, "read")
           t == Hit(Reached(task[p], want), key)
           n == Tried(t, key) + 1
       IN  Becomes(p, IF j.via = "kernel" \/ GivesUp(n) THEN Failed(t, "fault")
                      ELSE [t EXCEPT !.got[i] = Without(@, Range(j.names)),
                                     !.tries = Counted(t, key, n)])
  /\ UNCHANGED <<chainVars, todo>>

(* A part has read what it needs and is appended; after the last one a plan  *)
(* is sent, unless it has no command.                                        *)
Build(p) ==
  LET t == task[p]  part == t.call[t.nth]  got == t.got[t.nth]
      idle == \A i \in DOMAIN t.call : Idles(t.call[i], t.got[i])
  IN  /\ t.pc = "building" /\ Wants(t) = {}
      /\ Becomes(p,
           IF ~WellBound(Ptb(part, got)) THEN Failed(t, "unbound")
           ELSE IF part.verb = "rent" /\ Purse # None /\ Paid(part, got) > Purse
           THEN Failed(t, "noBalance")
           ELSE IF t.nth < Len(t.call) THEN [t EXCEPT !.nth = @ + 1]
           ELSE IF part.verb \in Reads THEN [t EXCEPT !.pc = "done"]
           ELSE IF idle THEN [t EXCEPT !.pc = "decoding"]
           ELSE IF p \notin Signers THEN Failed(t, "notConnected")
           ELSE [t EXCEPT !.pc = "sending"])
      /\ UNCHANGED <<chainVars, todo, faults>>

Sent(t) ==
  [t EXCEPT !.ran = @ + 1,
            !.effect = [ caps  |-> [k \in 1 .. Len(chain'.stakes) - Len(chain.stakes) |->
                                     Len(chain.stakes) + k],
                         taken |-> SumSet(chain.inbox \ chain'.inbox) ]]

Execute(p) ==
  /\ task[p].pc = "sending"
  /\ Change(AllOps(task[p]))
  /\ Becomes(p, [Sent(task[p]) EXCEPT !.pc = "decoding"])
  /\ UNCHANGED <<todo, faults, moves>>

(* An operation refuses: nothing of the transaction happens.                 *)
Abort(p) ==
  /\ task[p].pc = "sending"
  /\ ~Runs(chain, AllOps(task[p]))
  /\ Becomes(p, Failed(task[p], "abort"))
  /\ UNCHANGED <<chainVars, todo, faults>>

(* The submission fails before the network has it, or its answer is lost.    *)
NeverSent(p) ==
  /\ faults > 0 /\ faults' = faults - 1
  /\ task[p].pc = "sending"
  /\ Becomes(p, Failed(task[p], "lost"))
  /\ UNCHANGED <<chainVars, todo>>

(* A slip: the client retries the submission as it does a read.              *)
AnswerLostAndRetried(p) ==
  /\ faults > 0 /\ faults' = faults - 1
  /\ task[p].pc = "sending"
  /\ Change(AllOps(task[p]))
  /\ Becomes(p, Sent(task[p]))
  /\ UNCHANGED <<todo, moves>>

AnswerLost(p) ==
  /\ faults > 0 /\ faults' = faults - 1
  /\ task[p].pc = "sending"
  /\ Change(AllOps(task[p]))
  /\ Becomes(p, Failed(Sent(task[p]), "lost"))
  /\ UNCHANGED <<todo, moves>>

(* A slip: a decode with nothing left to read waits for more.                *)
DecodeAfterReads(p) ==
  /\ task[p].pc = "decoding" /\ Wants(task[p]) = {} /\ task[p].ran > 0
  /\ Becomes(p, [task[p] EXCEPT !.pc = "done"])
  /\ UNCHANGED <<chainVars, todo, faults>>

Decode(p) ==
  /\ task[p].pc = "decoding" /\ Wants(task[p]) = {}
  /\ Becomes(p, [task[p] EXCEPT !.pc = "done"])
  /\ UNCHANGED <<chainVars, todo, faults>>

HandlesInit(calls, allowed) ==
  /\ todo = calls
  /\ task = [p \in Proc |-> Unused]
  /\ faults = allowed

Advance(p) == Begin(p) \/ Receive(p) \/ Build(p) \/ Execute(p) \/ Abort(p) \/ Decode(p)
Disturb(p) == Transient(p) \/ Truncated(p) \/ NeverSent(p) \/ AnswerLost(p)
HandlesNext == \E p \in Proc : Advance(p) \/ Disturb(p)
=============================================================================
