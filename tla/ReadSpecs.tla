----------------------------- MODULE ReadSpecs ------------------------------
(***************************************************************************)
(* The table of views behind every read (read/spec.ts, read/reader.ts):    *)
(* which calls of the contract each view makes, with which of the read's   *)
(* arguments, how many views share one simulation, and which command of    *)
(* its response each view is decoded from.                                 *)
(***************************************************************************)
EXTENDS Bindings, SequencesExt

-----------------------------------------------------------------------------
(* VIEW_SPECS.  A view is its name, the functions it calls in order, the     *)
(* arguments each is given, and what a snapshot must supply to include it.   *)

ViewSpec(name, calls, args, needs) == [name |-> name, calls |-> calls, args |-> args, needs |-> needs]

One(name)        == ViewSpec(name, <<name>>, <<"escrowId">>, {})
OneWithNow(name) == ViewSpec(name, <<name>>, <<"escrowId", "nowMs">>, {"now"})
Probing(name)    == ViewSpec(name, <<name>>, <<"escrowId", "probeCapId">>, {"probe"})
Unrolled(name, calls) == ViewSpec(name, calls, <<"escrowId">>, {})
Constant(name)   == ViewSpec(name, <<name>>, <<>>, {})

Ones(names) == [i \in DOMAIN names |-> One(names[i])]

StatusSpecs ==
  Ones(<<"isIdle", "isDescending", "isOccupied", "isDemand", "isLive", "isRetired", "isRented",
         "isRetiring">>)

IdentitySpecs ==
  Ones(<<"assetId", "governanceCapId", "assetTypeName", "coinTypeName",
         "activeUsufructuaryAddr", "activeUsufructCapId", "pendingUsufructuaryAddr",
         "pendingUsufructCapId", "earningsInboxId", "feeInboxId">>)

SeatSpecs ==
  Ones(<<"activeStakeBalanceMist", "pendingStakeBalanceMist">>)
  \o <<Unrolled("activeCommittedTenures", <<"activeUsufructuaryCommittedTenures">>),
       Unrolled("pendingCommittedTenures", <<"pendingUsufructuaryCommittedTenures">>)>>

ProbeSpecs ==
  <<Probing("governanceCapIsValid"), Probing("usufructCapIsActive"),
    Probing("usufructCapIsPending"), Probing("usufructCapIsStale")>>

TemporalSpecs ==
  Ones(<<"phaseStartMs", "tenureExpiryMs">>)
  \o <<OneWithNow("transitionIsReady"), OneWithNow("nextTransitionMs")>>
  \o Ones(<<"nextBoundaryMs", "handoverExpiryMs", "descentExpiryMs">>)
  \o <<OneWithNow("activeUsufructuaryTimeRemainingMs"), OneWithNow("handoverExpiryIfBidAt")>>
  \o Ones(<<"tenureCeilingMs", "integratedAtMs">>)

CommitmentSpecs ==
  Ones(<<"retireCommitmentUnlocksAtMs", "retireCommitmentAnchorMs">>)
  \o <<OneWithNow("retireCommitmentRemainingMs")>>
  \o Ones(<<"ensembleCommitmentUnlocksAtMs", "ensembleCommitmentAnchorMs">>)
  \o <<OneWithNow("ensembleCommitmentRemainingMs")>>

CreditSpecs ==
  Ones(<<"lastRentPriceMist", "creditIsAccruing", "creditIsCapped", "creditCappedAtMs",
         "hasPendingEnsembleUpdate">>)

CycleSpecs ==
  <<Unrolled("cycleParams", <<"cycleFloorPriceMist", "cycleCeilingMs", "cycleHandoverMs",
                              "cycleDescentMs">>),
    Unrolled("pendingCycleParams",
             <<"pendingEnsembleFloorPriceMist", "pendingEnsembleCeilingMs",
               "pendingEnsembleHandoverMs", "pendingEnsembleDescentMs">>)>>
  \o Ones(<<"activeCeilingTotalMs", "activeHandoverTotalMs">>)

ShapeSpec(name, kind, num, den, abs, neg) == Unrolled(name, <<kind, num, den, abs, neg>>)

PolicySpecs ==
  <<Unrolled("auctionWindow", <<"auctionWindowKind", "descentCeilingMs">>),
    Unrolled("handover", <<"handoverKind", "handoverFloorMs">>),
    Unrolled("restPrice", <<"restPriceKind", "restPriceFloorMist">>),
    Unrolled("tenureDuration", <<"tenureDurationKind", "tenureCeilingFixedMs">>),
    Unrolled("tenureExtend", <<"tenureExtendKind">>),
    Unrolled("priceEscalation", <<"priceFnKind", "priceFnFixedDelta",
                                  "priceFnCompoundDeltaBps", "priceFnCompoundDeltaDelta">>),
    Unrolled("priceEscalationDeltaMist", <<"priceFnDeltaMist">>),
    Unrolled("retireCommitment", <<"retireCommitmentKind", "retireCommitmentFloorMs">>),
    Unrolled("ensembleCommitment", <<"ensembleCommitmentKind", "ensembleCommitmentFloorMs">>),
    ShapeSpec("creditShape", "creditShapeKind", "creditShapePowerLawAlphaNum",
              "creditShapePowerLawAlphaDen", "creditShapeExponentialAlphaAbs",
              "creditShapeExponentialAlphaNeg"),
    ShapeSpec("auctionShape", "auctionShapeKind", "auctionShapePowerLawAlphaNum",
              "auctionShapePowerLawAlphaDen", "auctionShapeExponentialAlphaAbs",
              "auctionShapeExponentialAlphaNeg")>>

SettlementSpecs ==
  <<OneWithNow("floorPriceMist"), OneWithNow("accruedCreditMist"),
    OneWithNow("activeStakeBalanceRemainingMist"),
    ViewSpec("nextFloorPriceMist", <<"nextFloorPriceMist">>,
         <<"escrowId", "totalBidMist", "tenures">>, {"nextFloor"}),
    ViewSpec("handoverSettlement", <<"handoverSettlement">>, <<"escrowId", "boundaryMs">>, {"boundary"}),
    ViewSpec("tenureSettlement", <<"tenureSettlement">>, <<"escrowId">>, {"rented"})>>

ConstantSpecs == <<Constant("protocolFeeBps"), Constant("bpsDenominator")>>

ViewSpecs ==
  StatusSpecs \o IdentitySpecs \o SeatSpecs \o ProbeSpecs \o TemporalSpecs \o CommitmentSpecs
  \o CreditSpecs \o CycleSpecs \o PolicySpecs \o SettlementSpecs \o ConstantSpecs

Views == {ViewSpecs[i].name : i \in DOMAIN ViewSpecs}
SpecOf == [name \in Views |-> CHOOSE s \in Range(ViewSpecs) : s.name = name]
Calls == [name \in Views |-> Len(SpecOf[name].calls)]

-----------------------------------------------------------------------------
(* One read: what the reader supplies is an id, and the time, the probe and  *)
(* the rest when its caller does.                                            *)

Given(supplied, arg) ==
  CASE arg = "escrowId"   -> "name"
    [] arg = "probeCapId" -> IF "probe" \in supplied THEN "name" ELSE "missing"
    [] arg = "nowMs"      -> IF "now" \in supplied THEN "int" ELSE "missing"
    [] arg = "boundaryMs" -> IF "boundary" \in supplied THEN "int" ELSE "missing"
    [] OTHER              -> IF "nextFloor" \in supplied THEN "int" ELSE "missing"

SpecBinds(name, supplied) ==
  \A i \in DOMAIN SpecOf[name].calls :
    Binds(SpecOf[name].calls[i],
          [k \in DOMAIN SpecOf[name].args |-> Given(supplied, SpecOf[name].args[k])])

Including(names, spec, supplied) ==
  IF spec.needs \subseteq supplied THEN Append(names, spec.name) ELSE names
Snapshot(supplied) ==
  LET upTo[n \in 0 .. Len(ViewSpecs)] ==
        IF n = 0 THEN <<>> ELSE Including(upTo[n - 1], ViewSpecs[n], supplied)
  IN  upTo[Len(ViewSpecs)]

-----------------------------------------------------------------------------
(* runSpecs: the views in order, in simulations of up to `ChunkCalls` calls; *)
(* a view is never split over two.                                           *)

ChunkCalls == 40

(* How many calls the first n views make.                                    *)
Cursor(names) ==
  LET after[n \in 0 .. Len(names)] == IF n = 0 THEN 0 ELSE after[n - 1] + Calls[names[n]]
  IN  after
CallsIn(names) == Cursor(names)[Len(names)]

(* The view joins the last simulation, or begins one.                        *)
Packed(chunks, name) ==
  IF chunks # <<>> /\ CallsIn(Last(chunks)) + Calls[name] <= ChunkCalls
  THEN [chunks EXCEPT ![Len(chunks)] = Append(@, name)]
  ELSE Append(chunks, <<name>>)
Chunks(names) ==
  LET upTo[n \in 0 .. Len(names)] == IF n = 0 THEN <<>> ELSE Packed(upTo[n - 1], names[n])
  IN  upTo[Len(names)]

(* The commands of a simulation, each with the view it was issued for.       *)
WithCallsOf(cmds, name) == cmds \o [k \in 1 .. Calls[name] |-> <<name, k>>]
Issued(names) ==
  LET upTo[n \in 0 .. Len(names)] == IF n = 0 THEN <<>> ELSE WithCallsOf(upTo[n - 1], names[n])
  IN  upTo[Len(names)]

(* A slip: the cursor moves one command per view.                            *)
CommandsByView(names, i) == [k \in 1 .. Calls[names[i]] |-> i - 1 + k]

(* flattenReturns: the commands the i-th view of a simulation is decoded     *)
(* from, those after the ones before it.                                     *)
Commands(names, i) ==
  [k \in 1 .. Calls[names[i]] |-> Cursor(names)[i - 1] + k]

(* A view is decoded from the returns of its own calls.                      *)
DecodedOwn(names, i) ==
  LET cmds == Commands(names, i)
  IN  \A k \in DOMAIN cmds :
        cmds[k] <= Len(Issued(names)) /\ Issued(names)[cmds[k]] = <<names[i], k>>
=============================================================================
