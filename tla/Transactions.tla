---------------------------- MODULE Transactions ----------------------------
(***************************************************************************)
(* The transaction builders (actions/*.ts, config/ensemble.ts and          *)
(* read/curve.ts): the calls of the contract each one appends, in order,   *)
(* with the kinds of the arguments it passes.  "value" is the result of an *)
(* earlier command.                                                        *)
(***************************************************************************)
EXTENDS Bindings, SequencesExt

Call(fn, args) == [fn |-> fn, args |-> args]
Unit(fn) == <<Call(fn, <<"int">>)>>
Made(fn) == <<Call(fn, <<>>)>>
MadeFrom(fn, args) == <<Call(fn, args)>>

WellBound(tx) == \A i \in DOMAIN tx : Binds(tx[i].fn, tx[i].args)

-----------------------------------------------------------------------------
(* Policies.  Of a market only the variants count: which constructor runs.   *)

ShapePtb(shape) ==
  CASE shape = "linear"      -> Made("newLinear")
    [] shape = "smoothstep"  -> Made("newSmoothstep")
    [] shape = "logistic"    -> Made("newLogistic")
    [] shape = "powerLaw"    -> MadeFrom("newPowerLaw", <<"int", "int">>)
    [] shape = "exponential" -> MadeFrom("newExponential", <<"int", "bool">>)

HandoverPtb(kind) ==
  CASE kind = "off"        -> Made("newHandoverOff")
    [] kind = "fullTenure" -> Made("newHandoverFullTenure")
    [] kind = "fixed"      -> Unit("duration") \o MadeFrom("newHandoverFixed", <<"value">>)

DescentPtb(kind) ==
  IF kind = "off" THEN Made("newDescentOff")
  ELSE Unit("duration") \o MadeFrom("newDescentFixed", <<"value">>)

EscalationPtb(kind) ==
  IF kind = "fixedDelta" THEN Unit("price") \o MadeFrom("newPriceFixedDelta", <<"value">>)
  ELSE Unit("basisPoints") \o Unit("price")
       \o MadeFrom("newPriceCompoundDelta", <<"value", "value">>)

EnsemblePtb(cfg) ==
  Unit("price") \o MadeFrom("newRestPriceFixed", <<"value">>)
  \o Unit("duration") \o MadeFrom("newTenureDurationFixed", <<"value">>)
  \o Made(IF cfg.multi THEN "newTenureMulti" ELSE "newTenureSingle")
  \o HandoverPtb(cfg.handover) \o DescentPtb(cfg.descent)
  \o ShapePtb(cfg.creditShape) \o ShapePtb(cfg.auctionShape) \o EscalationPtb(cfg.escalation)
  \o MadeFrom("newEnsemble", [i \in 1 .. 8 |-> "value"])

CommitmentPtb(kind, immediate, deferred) ==
  IF kind = "immediate" THEN Made(immediate)
  ELSE Unit("duration") \o MadeFrom(deferred, <<"value">>)

RetireCommitmentPtb(kind) ==
  CommitmentPtb(kind, "newRetireCommitmentImmediate", "newRetireCommitmentDeferred")
EnsembleCommitmentPtb(kind) ==
  CommitmentPtb(kind, "newEnsembleCommitmentImmediate", "newEnsembleCommitmentDeferred")

-----------------------------------------------------------------------------
(* Writes.                                                                   *)

Listing(cfg) ==
  EnsemblePtb(cfg) \o RetireCommitmentPtb(cfg.retire) \o EnsembleCommitmentPtb(cfg.lock)

IntegratePtb(cfg) ==
  Listing(cfg) \o MadeFrom("integrate", <<"value", "value", "value", "value", "name">>)
IntegrateIntoPortfolioPtb(cfg) ==
  Listing(cfg) \o MadeFrom("integrateIntoPortfolio",
                           <<"value", "value", "value", "value", "name", "name", "name">>)

RentPtb == Unit("tenures") \o MadeFrom("rent", <<"name", "value", "value">>)

(* withBorrowedAsset: what it borrows it returns in the same transaction.    *)
BorrowPtb == MadeFrom("borrowAsset", <<"name", "name">>)
ReturnPtb == MadeFrom("returnAsset", <<"value", "value", "value">>)
WithBorrowedAsset(uses) == BorrowPtb \o uses \o ReturnPtb

ApplyPtb == MadeFrom("applyPendingTransitionStates", <<"name">>)
RetirePtb == MadeFrom("retire", <<"name", "name">>)
ClaimAssetPtb == MadeFrom("claimAsset", <<"name", "name">>)

ExtendRetireCommitmentPtb(kind) ==
  RetireCommitmentPtb(kind) \o MadeFrom("extendRetireCommitment", <<"name", "name", "value">>)
ExtendEnsembleCommitmentPtb(kind) ==
  EnsembleCommitmentPtb(kind) \o MadeFrom("extendEnsembleCommitment", <<"name", "name", "value">>)
UpdateEnsemblePtb(cfg) ==
  EnsemblePtb(cfg) \o MadeFrom("updateEnsemble", <<"name", "name", "value">>)

UpdateRefundAddressPtb ==
  MadeFrom("refundAddress", <<"name">>)
  \o MadeFrom("updateUsufructuaryRefundAddress", <<"name", "name", "value">>)
BurnStalePtb == MadeFrom("burnStaleUsufructCap", <<"name", "name">>)
RenouncePtb == MadeFrom("renounceGovernance", <<"name">>)
BurnCapPtb == MadeFrom("burnUsufructCap", <<"name">>)

(* One call for each coin that has messages.                                 *)
CollectPtb(kind, coins) ==
  [i \in 1 .. Cardinality(coins) |->
     Call(IF kind = "earnings" THEN "collectEarningsMessages" ELSE "collectFeeMessages",
          <<"name", "value">>)]

-----------------------------------------------------------------------------
(* Curves: a policy is built once, then a view is called for each point.     *)

PointsPerSim == 39

Samples(construct, view, n) ==
  ShapePtb(construct) \o [k \in 1 .. n |-> view]
DescentSample == Call("descentFloorAt", <<"int", "int", "int", "int", "value", "int">>)
CreditSample == Call("usedCreditAt", <<"int", "int", "int", "value", "int">>)

(* The points of each simulation; the policy takes the first command of each.*)
SampleGroups(n) ==
  [g \in 1 .. (n + PointsPerSim - 1) \div PointsPerSim |->
    IF g * PointsPerSim <= n THEN PointsPerSim ELSE n - (g - 1) * PointsPerSim]

(* Each rung takes the one before it; the first takes the starting price.    *)
EscalationLadderPtb(kind, steps) ==
  EscalationPtb(kind)
  \o [k \in 1 .. steps |->
       Call("ascendingFloorWith", <<IF k = 1 THEN "int" ELSE "value", "int", "value">>)]
=============================================================================
