------------------------------ MODULE MCClient ------------------------------
(* Instances of Client: what one or two callers do in a run.                 *)
EXTENDS Client

CONSTANTS p1, p2, p3

Plain == [ multi |-> FALSE, handover |-> "fixed", descent |-> "fixed", creditShape |-> "linear",
           auctionShape |-> "smoothstep", escalation |-> "fixedDelta", retire |-> "immediate",
           lock |-> "deferred" ]
Fancy == [ multi |-> TRUE, handover |-> "fullTenure", descent |-> "off", creditShape |-> "powerLaw",
           auctionShape |-> "exponential", escalation |-> "compoundDelta", retire |-> "deferred",
           lock |-> "immediate" ]
Odd == [Plain EXCEPT !.handover = "off", !.creditShape = "logistic"]

Part(verb) == [ verb |-> verb, pay |-> None, count |-> 1, cap |-> 1, patch |-> [price |-> 2],
                cfg |-> Plain, kind |-> "earnings", name |-> None ]
With(verb, cfg) == [Part(verb) EXCEPT !.cfg = cfg]
Named(verb, name) == [Part(verb) EXCEPT !.name = name]
Rents == {Part("rent"), [Part("rent") EXCEPT !.count = 2], [Part("rent") EXCEPT !.pay = 2]}
FeesCollect == [Part("collect") EXCEPT !.kind = "fees"]
Patch(field) == [Part("updateMarket") EXCEPT !.patch = field :> 3]

Calling(call) == [p \in Proc |-> IF p = p1 THEN <<call>> ELSE <<>>]
Alone(part) == Calling(<<part>>)
Nobody == [p \in Proc |-> <<>>]
Both(one, other) == [p \in Proc |-> IF p = p1 THEN <<one>> ELSE IF p = p2 THEN <<other>> ELSE <<>>]
InTurn(one, other) == [p \in Proc |-> IF p = p1 THEN <<one, other>> ELSE <<>>]

From(start, calls, m, f) ==
  [start |-> start, calls |-> calls, moves |-> m, faults |-> f, feed |-> "none"]
Watched(kind, start, m, f) ==
  [start |-> start, calls |-> Nobody, moves |-> m, faults |-> f, feed |-> kind]

Scalars ==
  {From("demand", Alone(Named("scalar", name)), 0, 2) : name \in ScalarReads}
  \cup {From("idle", Alone(Named("scalar", "protocolFeeBps")), 1, 2)}

Photos ==
  {From(s, Alone(Part(v)), 1, 1) : s \in {"demand", "descent", "occupied", "ended", "idle"},
                                      v \in {"assetState", "capState"}}
Answered ==
  {From(s, Alone(part), 1, 1) : s \in {"occupied", "descent"}, part \in
     {Part(v) : v \in {"cycle", "market", "governs"}}
     \cup {Named("settlement", n) : n \in {"nextFloorPriceMist", "handoverSettlement",
                                           "tenureSettlement"}}}
  \cup {From(s, Alone(With(v, c)), 0, 1) :
           s \in {"occupied", "descent", "idle"},
           v \in {"creditCurve", "descentCurve", "ladder"}, c \in {Plain, Fancy, Odd}}
  \cup {From(s, Alone(Part(v)), 1, 2) :
           s \in {"handed", "ended"},
           v \in {"balance", "everything", "escrow", "escrows", "usufructCap", "feeInbox"}}

Written ==
  {From(s, Alone(part), 1, 2) : s \in {"idle", "occupied", "descent"}, part \in Rents}
  \cup {From(s, Alone(Part("updateMarket")), 1, 2) : s \in {"idle", "occupied"}}
  \cup {From("handed", Alone(part), 1, 2) :
           part \in {Part(v) : v \in {"collect", "burnIfStale", "applyPending", "borrow", "burn",
                                      "refund"}} \cup {FeesCollect}}
  \cup {From(s, Alone(Part(v)), 1, 1) : s \in {"ended", "occupied"},
                                           v \in {"retire", "claim", "renounce", "transfer"}}
  \cup {From("idle", Alone(With(v, c)), 0, 2) :
           v \in {"extendRetire", "extendEnsemble", "integrate", "integrateIntoPortfolio",
                  "updateMarket"}, c \in {Plain, Fancy, Odd}}

ByReader == {From("handed", [p \in Proc |-> IF p = p3 THEN <<<<Part(v)>>>> ELSE <<>>], 1, 0) :
               v \in {"rent", "burnIfStale", "assetState"}}

Together ==
  { From("idle", Both(<<Part("rent")>>, <<Part("rent")>>), 1, 0),
    From("idle", Both(<<Patch("price")>>, <<Patch("tenure")>>), 0, 0),
    From("idle", InTurn(<<Patch("price")>>, <<Patch("tenure")>>), 1, 1),
    From("occupied", InTurn(<<Patch("price")>>, <<Patch("tenure")>>), 0, 1),
    From("handed", Both(<<Part("collect")>>, <<Part("collect")>>), 0, 1),
    From("handed", Both(<<Part("rent"), Part("collect")>>, <<Part("burnIfStale")>>), 0, 0),
    From("handed", Calling(<<Part("rent"), Part("collect")>>), 1, 2),
    From("idle", Calling(<<Part("rent"), Part("rent")>>), 1, 1),
    From("handed", Both(<<Part("rent")>>, <<Part("assetState")>>), 0, 1) }

Feeding ==
  {Watched(kind, start, 2, 2) : kind \in {"poll", "push", "memory"}, start \in {"idle", "demand", "ended"}}

Everything == Scalars \cup Photos \cup Answered \cup Written \cup ByReader \cup Together \cup Feeding
InTurnOnly == {From("occupied", InTurn(<<Patch("price")>>, <<Patch("tenure")>>), 0, 0)}
ReadingOnly ==
  {From("demand", [p \in Proc |-> <<<<Part(IF p = p1 THEN "assetState"
                                          ELSE IF p = p2 THEN "updateMarket"
                                          ELSE "capState")>>>>], 1, 1)}
=============================================================================
