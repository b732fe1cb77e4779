------------------------------ MODULE MCEscrow ------------------------------
(***************************************************************************)
(* A small instance of the escrow: two ensembles that differ in every      *)
(* policy, one and two tenures, three rents, a clock that lets three       *)
(* boundaries pass in one settlement.                                      *)
(***************************************************************************)
EXTENDS EscrowViews

MCScale == 100

(* A short tenure with a one-tick handover and an auction after it.          *)
Plain == [ restPrice |-> 10, tenureMs |-> 2,
           handover |-> [kind |-> "fixed", ms |-> 1], descent |-> [kind |-> "fixed", ms |-> 2],
           creditShape |-> "linear", auctionShape |-> "smoothstep", bps |-> 0, delta |-> 1,
           multi |-> TRUE ]

(* A dearer, shorter one: full-tenure handover, no auction, compound step.   *)
Steep == [ restPrice |-> 20, tenureMs |-> 1,
           handover |-> [kind |-> "fullTenure", ms |-> 0], descent |-> [kind |-> "off", ms |-> 0],
           creditShape |-> "smoothstep", auctionShape |-> "linear", bps |-> 5000, delta |-> 0,
           multi |-> FALSE ]

MCEnsembles == {Plain, Steep}
MCShapes == {"linear", "smoothstep"}

(* evalLinear and evalSmoothstep, at a small scale.                          *)
MCHeight ==
  [shape \in MCShapes |-> [t \in 1 .. MaxMs |-> [dur \in 1 .. MaxMs |->
    LET x == MulDiv(Least(t, dur), MCScale, dur)
    IN  IF shape = "linear" THEN x
        ELSE (x * x * (3 * MCScale - 2 * x)) \div (MCScale * MCScale)]]]
=============================================================================
