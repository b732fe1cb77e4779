---------------------------- MODULE EscrowViews -----------------------------
(***************************************************************************)
(* The mirror's temporal, seat and cycle views (packages/sim/src/views):   *)
(* pure projections that recompute, from the state alone, when the steps   *)
(* of Escrow will move it.  A view throws while the asset is borrowed, so  *)
(* every property here is about a Live escrow.                             *)
(***************************************************************************)
EXTENDS Escrow

(* A view that answers null is told apart from one that answers zero.         *)
ASSUME NullAssumption == None \notin Nat

Saturating(boundary, now) == IF now >= boundary THEN 0 ELSE boundary - now

PhaseStartMs(s) ==
  IF Renting(s) THEN s.terms.start ELSE IF s.phase = "Descent" THEN s.start ELSE None

TenureExpiryMs(s) == IF Renting(s) THEN TenureEnd(s.terms) ELSE None
HandoverExpiryMs(s) == IF s.phase = "Demand" THEN s.bid.expiry ELSE None

(* A slip: a challenger waits for the tenure's end.                          *)
BoundaryAtTenureEnd(s) ==
  IF s.phase = "Descent" THEN s.start + s.cycle.descent ELSE TenureExpiryMs(s)

(* The boundary the state is heading for, whether or not it has passed.      *)
BoundaryOf(s) ==
  IF s.phase = "Descent" THEN s.start + s.cycle.descent
  ELSE IF s.phase = "Occupied" THEN TenureExpiryMs(s)
  ELSE HandoverExpiryMs(s)

NextTransitionMs(s, t) ==
  IF BoundaryOf(s) # None /\ t >= BoundaryOf(s) THEN BoundaryOf(s) ELSE None

(* A slip: the tenant counts down to its tenure's end under a challenge too. *)
TimeRemainingToTenureEnd(s, t) ==
  IF ~Renting(s) THEN None ELSE Saturating(TenureEnd(s.terms), t)

ActiveUsufructuaryTimeRemainingMs(s, t) ==
  IF ~Renting(s) THEN None ELSE Saturating(BoundaryOf(s), t)

(* A slip: the notice is not cut short by the tenure's end.                  *)
HandoverExpiryUncapped(s, bidTime) ==
  IF s.phase # "Occupied" THEN None ELSE bidTime + s.terms.handover

HandoverExpiryIfBidAt(s, bidTime) ==
  IF s.phase # "Occupied" THEN None
  ELSE Least(bidTime + s.terms.handover, TenureExpiryMs(s))

UsufructCapIsActive(s, c) == Renting(s) /\ s.terms.seat.cap = c
UsufructCapIsPending(s, c) == s.phase = "Demand" /\ s.bid.seat.cap = c

(* A slip: a challenger's cap counts as stale.                               *)
NotActiveIsStale(s, c) == ~UsufructCapIsActive(s, c)

UsufructCapIsStale(s, c) == ~UsufructCapIsActive(s, c) /\ ~UsufructCapIsPending(s, c)

-----------------------------------------------------------------------------
(* The agenda view and `apply` agree, at every time a keeper may ask about:  *)
(* a transition is announced exactly when settling would move the escrow,    *)
(* and the boundary announced is where the settled phase begins              *)
(* (`nextTransitionMs` repeats the boundary arithmetic of `apply.step`).     *)
AgendaMatchesSettlement ==
  Live(escrow) =>
    \A t \in clock .. MaxTime + MaxMs :
      LET s    == escrow.state
          next == NextTransitionMs(s, t)
          once == StepAuctionExpiry(StepTenureExpiry(StepHandover(escrow, next), next), next)
      IN  /\ (next # None) <=> (Settle(escrow, t) # escrow)
          /\ next # None => /\ next <= t
                            /\ Settle(once, t) = Settle(escrow, t)
                            /\ PhaseStartMs(once.state) \in {next, None}

(* The countdown shown to a tenant reaches zero at the very instant from     *)
(* which settling takes the seat away, challenged or not.                    *)
CountdownIsExact ==
  Live(escrow) /\ Renting(escrow.state) =>
    \A t \in clock .. MaxTime + MaxMs :
      (ActiveUsufructuaryTimeRemainingMs(escrow.state, t) > 0)
        <=> UsufructCapIsActive(Settle(escrow, t).state, escrow.state.terms.seat.cap)

(* A bid gets the handover expiry the preview promised for that time, and    *)
(* keeps it however often it is superseded.                                  *)
BidPreviewHonoured ==
  [][ minted' # minted /\ escrow'.state.phase = "Demand" =>
        HandoverExpiryMs(escrow'.state) =
          IF escrow.state.phase = "Occupied" THEN HandoverExpiryIfBidAt(escrow.state, clock)
          ELSE HandoverExpiryMs(escrow.state) ]_vars

(* A cap seen stale stays stale: what `burnIfStale` reads before it sends    *)
(* the burn is still true when the burn executes.                            *)
StaleIsFinal ==
  [][ \A c \in 1 .. minted :
        Live(escrow) /\ UsufructCapIsStale(escrow.state, c) =>
          UsufructCapIsStale(Held', c) ]_vars
=============================================================================
