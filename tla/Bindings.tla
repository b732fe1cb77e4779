------------------------------ MODULE Bindings ------------------------------
(***************************************************************************)
(* The generated calls of codegen/usufruct: for each function of the       *)
(* contract, the kinds of the arguments it declares, and what of the       *)
(* caller's arguments `normalizeMoveArguments` accepts for them.  A call   *)
(* builder takes its wrapper and its arguments from two places and nothing *)
(* types the pair (read/spec.ts: `Wrapper = (opts: any) => ...`), so an    *)
(* argument too few or of the wrong kind shows only when a call is built.  *)
(***************************************************************************)
EXTENDS Naturals, Sequences, FiniteSets

(* The kinds a binding declares are those with a value encoding, `object`    *)
(* for everything without one, and the clock, which no caller supplies.      *)
Inserted == {"clock", "random", "denyList", "system"}

Takes(names, kinds) == [names |-> names, kinds |-> kinds]
Nothing == <<>>
Here == <<"object">>
HereWith(kind) == <<"object", kind>>
Objects(n) == [i \in 1 .. n |-> "object"]

-----------------------------------------------------------------------------
(* escrow.ts                                                                 *)

ListAndEnd ==
  {Takes({"integrate"}, Append(Objects(5), "clock")),
   Takes({"integrateIntoPortfolio"}, Append(Objects(7), "clock")),
   Takes({"claimAsset", "retire"}, Append(Objects(2), "clock"))}

GovernAndRent ==
  {Takes({"extendRetireCommitment", "extendEnsembleCommitment",
         "updateEnsemble", "rent"}, Append(Objects(3), "clock"))}

HoldSeat ==
  {Takes({"borrowAsset", "burnStaleUsufructCap"}, Append(Objects(2), "clock")),
   Takes({"returnAsset"}, Objects(3)),
   Takes({"updateUsufructuaryRefundAddress"}, Append(Objects(3), "clock"))}

SettleAndPhase ==
  {Takes({"applyPendingTransitionStates"}, <<"object", "clock">>),
   Takes({"isIdle", "isDescending", "isOccupied", "isDemand"}, Here)}

StatusFlags ==
  {Takes({"isLive", "isRetired", "isRented", "auctionWindowIsOff",
         "auctionWindowIsFixed"}, Here)}

PolicyFlags ==
  {Takes({"retireCommitmentIsImmediate", "retireCommitmentIsDeferred",
         "handoverIsOff", "handoverIsFullTenure", "handoverIsFixed"}, Here)}

Identity ==
  {Takes({"isRetiring", "assetId", "assetTypeName", "coinTypeName",
         "governanceCapId"}, Here)}

SeatIds ==
  {Takes({"activeUsufructuaryAddr", "activeUsufructCapId",
         "pendingUsufructuaryAddr", "pendingUsufructCapId",
         "activeStakeBalanceMist"}, Here)}

SeatAmounts ==
  {Takes({"pendingStakeBalanceMist", "activeUsufructuaryCommittedTenures",
         "pendingUsufructuaryCommittedTenures", "phaseStartMs",
         "tenureExpiryMs"}, Here)}

CycleTerms ==
  {Takes({"cycleFloorPriceMist", "cycleCeilingMs", "cycleHandoverMs",
         "cycleDescentMs", "activeCeilingTotalMs"}, Here)}

PendingTerms ==
  {Takes({"activeHandoverTotalMs", "pendingEnsembleFloorPriceMist",
         "pendingEnsembleCeilingMs", "pendingEnsembleHandoverMs",
         "pendingEnsembleDescentMs"}, Here)}

Boundaries ==
  {Takes({"handoverExpiryMs", "descentExpiryMs"}, Here),
   Takes({"activeUsufructuaryTimeRemainingMs",
         "activeStakeBalanceRemainingMist", "handoverExpiryIfBidAt"}, HereWith("u64"))}

RetireLockViews ==
  {Takes({"tenureCeilingMs", "integratedAtMs",
         "retireCommitmentUnlocksAtMs", "retireCommitmentAnchorMs"}, Here),
   Takes({"retireCommitmentRemainingMs"}, HereWith("u64"))}

Probes ==
  {Takes({"governanceCapIsValid", "usufructCapIsActive",
         "usufructCapIsPending", "usufructCapIsStale"}, HereWith("address")),
   Takes({"transitionIsReady"}, HereWith("u64"))}

Agenda ==
  {Takes({"nextTransitionMs", "accruedCreditMist", "floorPriceMist"}, HereWith("u64")),
   Takes({"nextBoundaryMs"}, Here),
   Takes({"nextFloorPriceMist"}, <<"object", "u64", "u64">>)}

PureMath ==
  {Takes({"descentFloorAt"}, <<"u64", "u64", "u64", "u64", "object", "u64">>),
   Takes({"usedCreditAt"}, <<"u64", "u64", "u64", "object", "u64">>),
   Takes({"ascendingFloorWith"}, <<"u64", "u64", "object">>),
   Takes({"lastRentPriceMist"}, Here)}

CreditViews ==
  {Takes({"creditIsAccruing", "creditIsCapped", "creditCappedAtMs",
         "tenureSettlement"}, Here),
   Takes({"handoverSettlement"}, HereWith("u64"))}

Contents ==
  {Takes({"earningsInboxId", "activeEnsemble", "feeInboxId",
         "hasPendingEnsembleUpdate", "pendingEnsemble"}, Here),
   Takes({"protocolFeeBps"}, Nothing)}

Floors ==
  {Takes({"bpsDenominator"}, Nothing),
   Takes({"restPriceFloorMist", "descentCeilingMs", "handoverFloorMs",
         "retireCommitmentFloorMs", "creditShape"}, Here)}

PolicyParts ==
  {Takes({"auctionShape", "priceFn", "tenureDurationIsFixed",
         "tenureCeilingFixedMs", "restPriceFloorFixedMist"}, Here)}

CreditFlags ==
  {Takes({"creditShapeIsLinear", "creditShapeIsSmoothstep",
         "creditShapeIsLogistic", "creditShapeIsPowerLaw",
         "creditShapeIsExponential"}, Here)}

CreditAlphas ==
  {Takes({"creditShapePowerLawAlphaNum", "creditShapePowerLawAlphaDen",
         "creditShapeExponentialAlphaAbs",
         "creditShapeExponentialAlphaNeg", "auctionShapeIsLinear"}, Here)}

AuctionFlags ==
  {Takes({"auctionShapeIsSmoothstep", "auctionShapeIsLogistic",
         "auctionShapeIsPowerLaw", "auctionShapeIsExponential",
         "auctionShapePowerLawAlphaNum"}, Here)}

AuctionAlphas ==
  {Takes({"auctionShapePowerLawAlphaDen",
         "auctionShapeExponentialAlphaAbs",
         "auctionShapeExponentialAlphaNeg", "priceFnIsFixedDelta",
         "priceFnIsCompoundDelta"}, Here)}

PriceParts ==
  {Takes({"priceFnFixedDelta", "priceFnCompoundDeltaBps",
         "priceFnCompoundDeltaDelta", "restPriceKind",
         "tenureDurationKind"}, Here)}

PolicyKinds ==
  {Takes({"tenureExtendKind", "handoverKind", "auctionWindowKind",
         "creditShapeKind", "auctionShapeKind"}, Here)}

RetireLockKinds ==
  {Takes({"priceFnKind", "priceFnDeltaMist", "retireCommitmentKind",
         "ensembleCommitmentIsImmediate", "ensembleCommitmentIsDeferred"}, Here)}

EnsembleLockViews ==
  {Takes({"ensembleCommitmentUnlocksAtMs", "ensembleCommitmentAnchorMs",
         "ensembleCommitmentFloorMs", "ensembleCommitmentKind"}, Here),
   Takes({"ensembleCommitmentRemainingMs"}, HereWith("u64"))}

-----------------------------------------------------------------------------
(* ensemble.ts, cap.ts, earnings.ts, fees.ts, refund.ts                      *)

Units ==
  {Takes({"price", "duration", "tenures", "basisPoints"}, <<"u64">>),
   Takes({"newDescentOff", "newRetireCommitmentImmediate"}, Nothing),
   Takes({"newDescentFixed"}, Here)}

Shapes ==
  {Takes({"newRetireCommitmentDeferred", "newEnsembleCommitmentDeferred"}, Here),
   Takes({"newEnsembleCommitmentImmediate", "newLinear", "newSmoothstep",
         "newLogistic"}, Nothing),
   Takes({"newPowerLaw"}, <<"u8", "u8">>),
   Takes({"newExponential"}, <<"u8", "bool">>)}

Policies ==
  {Takes({"newHandoverOff", "newHandoverFullTenure"}, Nothing),
   Takes({"newHandoverFixed", "newPriceFixedDelta", "newRestPriceFixed",
         "newTenureDurationFixed"}, Here),
   Takes({"newPriceCompoundDelta"}, Objects(2))}

Ensemble ==
  {Takes({"newTenureSingle", "newTenureMulti"}, Nothing),
   Takes({"newEnsemble"}, Objects(8))}

CapCalls ==
  {Takes({"renounceGovernance", "burnUsufructCap", "usufructCapEscrowId"}, Here)}

CollectEarnings ==
  {Takes({"collectEarningsMessages"}, Objects(2))}

CollectFees ==
  {Takes({"collectFeeMessages"}, Objects(2)),
   Takes({"inboxId"}, Here)}

RefundAddress ==
  {Takes({"refundAddress"}, <<"address">>)}

Rows ==
  ListAndEnd \cup GovernAndRent \cup HoldSeat \cup SettleAndPhase \cup StatusFlags
  \cup PolicyFlags \cup Identity \cup SeatIds \cup SeatAmounts \cup CycleTerms
  \cup PendingTerms \cup Boundaries \cup RetireLockViews \cup Probes \cup Agenda
  \cup PureMath \cup CreditViews \cup Contents \cup Floors \cup PolicyParts
  \cup CreditFlags \cup CreditAlphas \cup AuctionFlags \cup AuctionAlphas
  \cup PriceParts \cup PolicyKinds \cup RetireLockKinds \cup EnsembleLockViews
  \cup Units \cup Shapes \cup Policies \cup Ensemble \cup CapCalls
  \cup CollectEarnings \cup CollectFees \cup RefundAddress

Wrappers == UNION {row.names : row \in Rows}
Declares == [fn \in Wrappers |-> (CHOOSE row \in Rows : fn \in row.names).kinds]

-----------------------------------------------------------------------------
(* What the caller passes: "name", an id or an address as a string, "int" a  *)
(* bigint or number, "bool", "value" a result or argument of the same        *)
(* transaction, and "missing" for what was never set.                        *)

Encodes(kind, given) ==
  \/ kind \in {"u8", "u64"} /\ given = "int"
  \/ kind = "bool" /\ given = "bool"
  \/ kind = "address" /\ given = "name"

(* Results pass unread, values are encoded, a string names an object; the    *)
(* rest throws, as does a missing argument or one too many.                  *)
Accepts(kind, given) ==
  given = "value" \/ Encodes(kind, given) \/ (kind = "object" /\ given = "name")

Binds(fn, args) ==
  LET kinds == Declares[fn]
      asked == {i \in DOMAIN kinds : kinds[i] \notin Inserted}
      place(i) == Cardinality({k \in asked : k <= i})
  IN  Len(args) = Cardinality(asked) /\ \A i \in asked : Accepts(kinds[i], args[place(i)])
=============================================================================
