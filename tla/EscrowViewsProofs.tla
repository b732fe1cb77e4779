------------------------- MODULE EscrowViewsProofs --------------------------
(***************************************************************************)
(* What is proved of the views of the mirror for every set of ensembles,   *)
(* curve and bound: they announce what the steps will do, and a cap seen   *)
(* stale stays stale.                                                      *)
(***************************************************************************)
EXTENDS EscrowViews, EscrowPromises

(* A boundary of the escrow x lies at or before t.                           *)
Due(x, t) == HandoverDue(x, t) \/ TenureExpiryDue(x, t) \/ AuctionExpiryDue(x, t)

LEMMA NotDueStays ==
  ASSUME NEW x, NEW t, ~Due(x, t)
  PROVE  Settle(x, t) = x
<1>1. StepHandover(x, t) = x /\ StepTenureExpiry(x, t) = x /\ StepAuctionExpiry(x, t) = x
  BY DEF Due, StepHandover, StepTenureExpiry, StepAuctionExpiry
<1> QED BY <1>1 DEF Settle

(* Where one step at a time takes a state whose boundary is due.             *)
LEMMA HandoverPhase ==
  ASSUME NEW x \in Escrows, NEW t, HandoverDue(x, t)
  PROVE  LET h == StepHandover(x, t) IN
         /\ h.state.phase = "Occupied" /\ h.state.terms.start = x.state.bid.expiry
         /\ h.state.terms.seat = x.state.bid.seat
BY DEF StepHandover, Escrows, Occupied

LEMMA TenurePhase ==
  ASSUME NEW x \in Escrows, NEW t, TenureExpiryDue(x, t)
  PROVE  LET e == StepTenureExpiry(x, t) IN
         /\ e.state.phase \in {"Retired", "Descent"}
         /\ e.state.phase = "Descent" => e.state.start = TenureEnd(x.state.terms)
<1>1. CASE x.state.terms.retiring
  <2>1. StepTenureExpiry(x, t).state = Retired
    BY <1>1 DEF StepTenureExpiry, Escrows
  <2> QED BY <2>1 DEF Retired
<1>2. CASE ~x.state.terms.retiring
  <2>1. StepTenureExpiry(x, t).state =
          Descent(x.state.cycle, x.state.terms.seat.stake \div x.state.terms.tenures,
                  TenureEnd(x.state.terms))
    BY <1>2 DEF StepTenureExpiry, Escrows
  <2> QED BY <2>1 DEF Descent
<1> QED BY <1>1, <1>2

LEMMA AuctionPhase ==
  ASSUME NEW x \in Escrows, NEW t
  PROVE  LET y == StepAuctionExpiry(x, t) IN
         /\ y = x \/ y.state.phase = "Idle"
         /\ AuctionExpiryDue(x, t) => y.state.phase = "Idle"
BY DEF StepAuctionExpiry, Escrows, Idle

LEMMA TenureSettled ==
  ASSUME NEW x, NEW t \in Nat, SoundEscrow(x, t), TenureExpiryDue(x, t)
  PROVE  LET y == Settle(x, t) IN
         /\ y.state.phase \in {"Retired", "Descent", "Idle"}
         /\ y.state.phase = "Descent" => y.state.start = TenureEnd(x.state.terms)
<1> DEFINE e == StepTenureExpiry(x, t)
<1>1. StepHandover(x, t) = x
  BY DEF TenureExpiryDue, StepHandover, HandoverDue
<1>2. Settle(x, t) = StepAuctionExpiry(e, t)
  BY <1>1 DEF Settle
<1>3. x \in Escrows /\ e \in Escrows
  BY TenureExpiryStep DEF SoundEscrow
<1>4. /\ e.state.phase \in {"Retired", "Descent"}
      /\ e.state.phase = "Descent" => e.state.start = TenureEnd(x.state.terms)
  BY <1>3, TenurePhase
<1> HIDE DEF e
<1> QED BY <1>2, <1>3, <1>4, AuctionPhase

LEMMA AuctionSettled ==
  ASSUME NEW x \in Escrows, NEW t, AuctionExpiryDue(x, t)
  PROVE  Settle(x, t).state.phase = "Idle"
<1>1. StepHandover(x, t) = x /\ StepTenureExpiry(x, t) = x
  BY DEF AuctionExpiryDue, StepHandover, HandoverDue, StepTenureExpiry, TenureExpiryDue
<1> QED BY <1>1, AuctionPhase DEF Settle

(* The challenger's tenancy starts at its expiry; it may be over by t too.   *)
LEMMA HandoverSettled ==
  ASSUME NEW x, NEW t \in Nat, SoundEscrow(x, t), HandoverDue(x, t)
  PROVE  LET y == Settle(x, t) IN
         /\ y.state.phase \in {"Occupied", "Retired", "Descent", "Idle"}
         /\ y.state.phase = "Occupied" => /\ y.state.terms.start = x.state.bid.expiry
                                          /\ y.state.terms.seat = x.state.bid.seat
         /\ t = x.state.bid.expiry => y.state.phase = "Occupied"
<1> DEFINE h == StepHandover(x, t)
<1>1. SoundEscrow(h, t) /\ h \in Escrows
  BY HandoverStep DEF SoundEscrow
<1>2. /\ h.state.phase = "Occupied" /\ h.state.terms.start = x.state.bid.expiry
      /\ h.state.terms.seat = x.state.bid.seat
  BY HandoverPhase DEF SoundEscrow
<1>3. Settle(x, t) = StepAuctionExpiry(StepTenureExpiry(h, t), t)
  BY DEF Settle
<1> HIDE DEF h
<1>4. StepHandover(h, t) = h
  BY <1>2 DEF StepHandover, HandoverDue
<1>5. Settle(x, t) = Settle(h, t)
  BY <1>3, <1>4 DEF Settle
<1>6. h.state.terms.ceiling \in Nat \ {0} /\ h.state.terms.start \in Nat
  <2>1. h.state.terms \in Terms /\ h.state.cycle = ResolveCycle(h.active)
    BY <1>1, <1>2, RentingTerms DEF SoundEscrow, Sound, Renting, Retired
  <2>2. h.state.terms.ceiling = h.state.cycle.ceiling * h.state.terms.tenures
    BY <1>1, <1>2 DEF SoundEscrow, Sound, Renting
  <2>3. h.state.cycle.ceiling \in Nat \ {0}
    BY <1>1, <2>1, ResolvedCycle, BoundsAssumption DEF SoundEscrow, Escrows
  <2>4. h.state.terms.tenures \in Nat \ {0} /\ h.state.terms.start \in Nat
    BY <2>1, TenuresAssumption DEF Terms
  <2>5. \A p \in Nat \ {0}, q \in Nat \ {0} : p * q \in Nat \ {0}
    OBVIOUS
  <2> QED BY <2>2, <2>3, <2>4, <2>5
<1>7. CASE ~TenureExpiryDue(h, t)
  <2>1. ~Due(h, t)
    BY <1>2, <1>7 DEF Due, HandoverDue, AuctionExpiryDue
  <2> QED BY <1>2, <1>5, <2>1, NotDueStays
<1>8. CASE TenureExpiryDue(h, t)
  <2>1. t # x.state.bid.expiry
    BY <1>2, <1>6, <1>8 DEF TenureExpiryDue, TenureEnd
  <2>2. Settle(h, t).state.phase \in {"Retired", "Descent", "Idle"}
    BY <1>1, <1>8, TenureSettled
  <2> QED BY <1>5, <2>1, <2>2
<1> QED BY <1>7, <1>8

(* A sound escrow whose boundary has passed is moved by settling.            *)
LEMMA DueMoves ==
  ASSUME NEW x, NEW t \in Nat, SoundEscrow(x, t), Due(x, t)
  PROVE  Settle(x, t) # x
<1>1. CASE HandoverDue(x, t)
  BY <1>1, HandoverSettled DEF HandoverDue
<1>2. CASE TenureExpiryDue(x, t)
  BY <1>2, TenureSettled DEF TenureExpiryDue
<1>3. CASE AuctionExpiryDue(x, t)
  BY <1>3, AuctionSettled DEF AuctionExpiryDue, SoundEscrow
<1> QED BY <1>1, <1>2, <1>3 DEF Due

LEMMA SoundLater ==
  ASSUME NEW x, NEW t \in Nat, SoundEscrow(x, t), NEW u \in Nat, u >= t
  PROVE  SoundEscrow(x, u)
<1>1. Renting(x.state) => x.state.terms.start \in Nat
  BY RentingTerms DEF Terms
<1> QED BY <1>1 DEF SoundEscrow, Sound

-----------------------------------------------------------------------------
(* The agenda. *)

LEMMA TimeIsNotNone == \A n \in Nat : n # None
BY NullAssumption

(* The boundary of a state is a time in three of its phases, and settling is *)
(* due when it has passed; in the others there is none.                      *)
LEMMA BoundaryFacts ==
  ASSUME NEW x, NEW t \in Nat, SoundEscrow(x, t)
  PROVE  /\ x.state.phase \in {"Demand", "Occupied", "Descent"} => BoundaryOf(x.state) \in Nat
         /\ x.state.phase \notin {"Demand", "Occupied", "Descent"} => BoundaryOf(x.state) = None
         /\ \A u : Due(x, u) <=> BoundaryOf(x.state) # None /\ u >= BoundaryOf(x.state)
         /\ BoundaryOf(x.state) # None => SoundEscrow(x, BoundaryOf(x.state))
                                          \/ x.state.phase = "Descent"
<1> DEFINE s == x.state
<1>1. CASE s.phase = "Demand"
  <2>1. BoundaryOf(s) = s.bid.expiry /\ s.bid \in Bids
    BY <1>1, RentingTerms DEF BoundaryOf, HandoverExpiryMs, Renting
  <2>2. s.bid.expiry \in Nat
    BY <2>1 DEF Bids
  <2>3. SoundEscrow(x, s.bid.expiry)
    <3>1. s.terms.start \in Nat /\ TenureEnd(s.terms) \in Nat
      BY <1>1, RentingTerms DEF Renting, Terms
    <3>2. s.bid.expiry \in s.terms.start .. TenureEnd(s.terms)
      BY <1>1 DEF SoundEscrow, Sound
    <3>3. s.terms.start <= s.bid.expiry
      BY <2>2, <3>1, <3>2
    <3> QED BY <3>3 DEF SoundEscrow, Sound
  <2>4. \A u : Due(x, u) <=> u >= s.bid.expiry
    BY <1>1 DEF Due, HandoverDue, TenureExpiryDue, AuctionExpiryDue
  <2>5. BoundaryOf(s) \in Nat /\ BoundaryOf(s) # None
    BY <2>1, <2>2, TimeIsNotNone
  <2> QED BY <1>1, <2>1, <2>3, <2>4, <2>5
<1>2. CASE s.phase = "Occupied"
  <2>1. BoundaryOf(s) = TenureEnd(s.terms) /\ TenureEnd(s.terms) \in Nat
    BY <1>2, RentingTerms DEF BoundaryOf, TenureExpiryMs, Renting
  <2>2. SoundEscrow(x, TenureEnd(s.terms))
    <3>1. s.terms.start \in Nat /\ s.terms.ceiling \in Nat
      BY <1>2, RentingTerms DEF Renting, Terms
    <3>2. s.terms.start <= TenureEnd(s.terms)
      BY <3>1 DEF TenureEnd
    <3> QED BY <3>2 DEF SoundEscrow, Sound
  <2>3. \A u : Due(x, u) <=> u >= TenureEnd(s.terms)
    BY <1>2 DEF Due, HandoverDue, TenureExpiryDue, AuctionExpiryDue
  <2>4. BoundaryOf(s) \in Nat /\ BoundaryOf(s) # None
    BY <2>1, TimeIsNotNone
  <2> QED BY <1>2, <2>1, <2>2, <2>3, <2>4
<1>3. CASE s.phase = "Descent"
  <2>1. s \in DescentStates
    BY <1>3, StateByPhase DEF SoundEscrow, Sound
  <2>2. BoundaryOf(s) = s.start + s.cycle.descent /\ s.start + s.cycle.descent \in Nat
    BY <1>3, <2>1 DEF BoundaryOf, DescentStates, Cycles
  <2>3. \A u : Due(x, u) <=> u >= s.start + s.cycle.descent
    BY <1>3 DEF Due, HandoverDue, TenureExpiryDue, AuctionExpiryDue
  <2>4. BoundaryOf(s) \in Nat /\ BoundaryOf(s) # None
    BY <2>2, TimeIsNotNone
  <2> HIDE DEF s
  <2> QED BY <1>3, <2>2, <2>3, <2>4 DEF s
<1>4. CASE s.phase \notin {"Demand", "Occupied", "Descent"}
  <2>1. BoundaryOf(s) = None
    BY <1>4 DEF BoundaryOf, HandoverExpiryMs
  <2> QED BY <1>4, <2>1 DEF Due, HandoverDue, TenureExpiryDue, AuctionExpiryDue
<1> QED BY <1>1, <1>2, <1>3, <1>4

(* Settling at the boundary already, and again later, settles what settling  *)
(* once does, and the phase it leads to begins there.                        *)
LEMMA AtTheBoundary ==
  ASSUME NEW x, NEW t \in Nat, SoundEscrow(x, t), BoundaryOf(x.state) # None,
         NEW u \in Nat, u >= BoundaryOf(x.state)
  PROVE  LET once == Settle(x, BoundaryOf(x.state)) IN
         /\ Settle(once, u) = Settle(x, u)
         /\ PhaseStartMs(once.state) \in {BoundaryOf(x.state), None}
<1> DEFINE n == BoundaryOf(x.state)
<1>1. x.state.phase \in {"Demand", "Occupied", "Descent"} /\ n \in Nat /\ x \in Escrows
  BY BoundaryFacts DEF SoundEscrow
<1>2. Due(x, n)
  BY <1>1, BoundaryFacts
<1>3. CASE x.state.phase = "Demand"
  <2>1. n = x.state.bid.expiry /\ HandoverDue(x, n) /\ SoundEscrow(x, n)
    BY <1>1, <1>2, <1>3, BoundaryFacts
    DEF BoundaryOf, HandoverExpiryMs, Due, TenureExpiryDue, AuctionExpiryDue
  <2> HIDE DEF n
  <2>2. Lazy(x, x, n, u)
    BY <1>1, <1>3, <2>1, LazyDemand DEF n
  <2>3. Settle(x, n).state.phase = "Occupied" /\ Settle(x, n).state.terms.start = n
    BY <1>1, <2>1, HandoverSettled
  <2>4. PhaseStartMs(Settle(x, n).state) = n
    BY <2>3 DEF PhaseStartMs, Renting
  <2> QED BY <2>2, <2>4 DEF Lazy, n
<1>4. CASE x.state.phase = "Occupied"
  <2>1. n = TenureEnd(x.state.terms) /\ TenureExpiryDue(x, n) /\ SoundEscrow(x, n)
    BY <1>1, <1>2, <1>4, BoundaryFacts
    DEF BoundaryOf, TenureExpiryMs, Renting, Due, HandoverDue, AuctionExpiryDue
  <2>2. x.state \in OccupiedStates
    BY <1>4, StateByPhase DEF SoundEscrow, Sound
  <2> HIDE DEF n
  <2>3. Lazy(x, x, n, u)
    BY <1>1, <2>2, LazyOccupied DEF n
  <2>4. /\ Settle(x, n).state.phase \in {"Retired", "Descent", "Idle"}
        /\ Settle(x, n).state.phase = "Descent" => Settle(x, n).state.start = n
    BY <1>1, <2>1, TenureSettled
  <2>5. PhaseStartMs(Settle(x, n).state) \in {n, None}
    BY <2>4 DEF PhaseStartMs, Renting
  <2> QED BY <2>3, <2>5 DEF Lazy, n
<1>5. CASE x.state.phase = "Descent"
  <2>1. AuctionExpiryDue(x, n)
    BY <1>2, <1>5 DEF Due, HandoverDue, TenureExpiryDue
  <2>2. x.state \in WaitingStates
    BY <1>5, StateByPhase DEF SoundEscrow, Sound, WaitingStates
  <2> HIDE DEF n
  <2>3. Lazy(x, x, n, u)
    BY <1>1, <2>2, LazyWaiting DEF n
  <2>4. PhaseStartMs(Settle(x, n).state) = None
    BY <1>1, <2>1, AuctionSettled DEF PhaseStartMs, Renting
  <2> QED BY <2>3, <2>4 DEF Lazy, n
<1> QED BY <1>1, <1>3, <1>4, <1>5

(* `nextTransitionMs` (views/temporal) announces a transition exactly when   *)
(* `apply.step` would make one, at the boundary it makes it at.              *)
THEOREM AgendaAgrees == Spec => []AgendaMatchesSettlement
<1>1. IInv => AgendaMatchesSettlement
  <2> SUFFICES ASSUME IInv, Live(escrow), NEW t \in clock .. MaxTime + MaxMs
               PROVE  LET next == NextTransitionMs(escrow.state, t)
                          once == Settle(escrow, next)
                      IN  /\ (next # None) <=> (Settle(escrow, t) # escrow)
                          /\ next # None => /\ next <= t
                                            /\ Settle(once, t) = Settle(escrow, t)
                                            /\ PhaseStartMs(once.state) \in {next, None}
    BY DEF AgendaMatchesSettlement, Settle
  <2> DEFINE n == NextTransitionMs(escrow.state, t)
             b == BoundaryOf(escrow.state)
  <2>1. SoundEscrow(escrow, clock) /\ clock \in Nat /\ t \in Nat /\ clock <= t
    BY LiveIsSound, BoundsAssumption
  <2>2. SoundEscrow(escrow, t)
    BY <2>1, SoundLater
  <2>3. Due(escrow, t) <=> b # None /\ t >= b
    BY <2>2, <2>1, BoundaryFacts
  <2>4. /\ (n # None) <=> Due(escrow, t)
        /\ n # None => n = b /\ b # None /\ t >= b
    BY <2>3 DEF NextTransitionMs
  <2>5. Due(escrow, t) <=> Settle(escrow, t) # escrow
    BY <2>1, <2>2, DueMoves, NotDueStays
  <2>6. ASSUME n # None
        PROVE  /\ n <= t
               /\ Settle(Settle(escrow, n), t) = Settle(escrow, t)
               /\ PhaseStartMs(Settle(escrow, n).state) \in {n, None}
    <3>1. b # None /\ t >= b /\ n = b /\ b \in Nat
      BY <2>1, <2>2, <2>4, <2>6, BoundaryFacts
    <3>2. /\ Settle(Settle(escrow, b), t) = Settle(escrow, t)
          /\ PhaseStartMs(Settle(escrow, b).state) \in {b, None}
      BY <2>1, <2>2, <3>1, AtTheBoundary
    <3> QED BY <2>1, <3>1, <3>2
  <2> HIDE DEF n, b
  <2>7. QED BY <2>4, <2>5, <2>6 DEF n
<1> QED BY <1>1, Invariance, PTL

(* The countdown of `activeUsufructuaryTimeRemainingMs` is zero from the     *)
(* instant on at which settling takes the seat away, and not before.         *)
THEOREM CountdownAgrees == Spec => []CountdownIsExact
<1>1. Kept => CountdownIsExact
  <2> SUFFICES ASSUME Kept, Live(escrow), Renting(escrow.state),
                      NEW t \in clock .. MaxTime + MaxMs
               PROVE  (ActiveUsufructuaryTimeRemainingMs(escrow.state, t) > 0) <=>
                        UsufructCapIsActive(Settle(escrow, t).state, escrow.state.terms.seat.cap)
    BY DEF CountdownIsExact
  <2> DEFINE s == escrow.state
             b == BoundaryOf(s)
             y == Settle(escrow, t)
  <2>1. /\ SoundEscrow(escrow, clock) /\ clock \in Nat /\ t \in Nat /\ clock <= t
        /\ Held = s
    BY LiveIsSound, BoundsAssumption DEF Kept
  <2>2. SoundEscrow(escrow, t)
    BY <2>1, SoundLater
  <2>3. /\ b \in Nat /\ b # None
        /\ Due(escrow, t) <=> t >= b
    BY <2>1, <2>2, BoundaryFacts, TimeIsNotNone DEF Renting
  <2>4. (ActiveUsufructuaryTimeRemainingMs(s, t) > 0) <=> t < b
    <3>1. ActiveUsufructuaryTimeRemainingMs(s, t) = IF t >= b THEN 0 ELSE b - t
      BY DEF ActiveUsufructuaryTimeRemainingMs, Saturating
    <3> HIDE DEF b
    <3> QED BY <2>1, <2>3, <3>1
  <2>5. CASE ~Due(escrow, t)
    <3>1. y = escrow
      BY <2>5, NotDueStays
    <3>2. UsufructCapIsActive(y.state, s.terms.seat.cap)
      BY <3>1 DEF UsufructCapIsActive
    <3>3. t < b
      BY <2>1, <2>3, <2>5
    <3> QED BY <2>4, <3>2, <3>3
  <2>6. CASE Due(escrow, t)
    <3>1. ~(t < b)
      BY <2>1, <2>3, <2>6
    <3>2. ~UsufructCapIsActive(y.state, s.terms.seat.cap)
      <4>1. CASE HandoverDue(escrow, t)
        <5>1. /\ y.state.phase \in {"Occupied", "Retired", "Descent", "Idle"}
              /\ y.state.phase = "Occupied" => y.state.terms.seat = s.bid.seat
          BY <2>1, <2>2, <4>1, HandoverSettled
        <5>2. s.bid.seat.cap # s.terms.seat.cap
          BY <2>1, <4>1 DEF Kept, Orderly, HandoverDue
        <5> HIDE DEF y
        <5> QED BY <5>1, <5>2 DEF UsufructCapIsActive, Renting
      <4>2. CASE TenureExpiryDue(escrow, t)
        <5>1. y.state.phase \in {"Retired", "Descent", "Idle"}
          BY <2>1, <2>2, <4>2, TenureSettled
        <5> HIDE DEF y
        <5> QED BY <5>1 DEF UsufructCapIsActive, Renting
      <4> QED BY <2>6, <4>1, <4>2 DEF Due, AuctionExpiryDue, Renting
    <3> QED BY <2>4, <3>1, <3>2
  <2> QED BY <2>5, <2>6
<1> QED BY <1>1, KeptAlways, PTL

-----------------------------------------------------------------------------
(* The caps and the bids. *)

(* `burnIfStale` (highlevel/cap.ts) reads `isStale` and burns in a later     *)
(* transaction: whatever others do in between, the cap is still stale.       *)
THEOREM StaleStaysStale == Spec => StaleIsFinal
<1> DEFINE A == \A c \in 1 .. minted :
                  Live(escrow) /\ UsufructCapIsStale(escrow.state, c) =>
                    UsufructCapIsStale(Held', c)
<1>1. Kept /\ [Next]_vars => A
  <2> SUFFICES ASSUME Kept, [Next]_vars, NEW c \in 1 .. minted,
                      Live(escrow), UsufructCapIsStale(escrow.state, c)
               PROVE  UsufructCapIsStale(Held', c)
    OBVIOUS
  <2>1. SeatMoves(Held, Held', minted, minted') /\ Held = escrow.state
    BY NextPromised, LiveIsSound DEF Promised, Kept
  <2>2. c # None /\ c # minted + 1 /\ minted \in Nat
    <3>1. minted \in 0 .. MaxCaps
      BY DEF Kept, IInv, TypeOK
    <3>2. c \in Caps /\ minted \in Nat
      BY <3>1, BoundsAssumption DEF Caps
    <3> QED BY <3>2, BoundsAssumption
  <2>3. Holder(Held) # c /\ Challenger(Held) # c
    BY <2>1, <2>2
    DEF UsufructCapIsStale, UsufructCapIsActive, UsufructCapIsPending, Holder, Challenger
  <2>4. /\ Holder(Held') \in {Holder(Held), Challenger(Held), None, minted + 1}
        /\ Challenger(Held') \in {Challenger(Held), None, minted + 1}
    BY <2>1 DEF SeatMoves
  <2>5. Holder(Held') # c /\ Challenger(Held') # c
    BY <2>2, <2>3, <2>4
  <2> QED BY <2>5
      DEF UsufructCapIsStale, UsufructCapIsActive, UsufructCapIsPending, Holder, Challenger
<1> QED BY <1>1, KeptAlways, PTL DEF Spec, StaleIsFinal

LEMMA OnlyRentsMint ==
  ASSUME [Next]_vars, minted' # minted
  PROVE  Rent
<1>1. ASSUME NEW x, Settling(x) PROVE minted' = minted
  BY <1>1 DEF Settling
<1>2. CASE Tick \/ ReturnAsset \/ UNCHANGED vars
  BY <1>2 DEF Tick, ReturnAsset, vars
<1>3. CASE Apply \/ Governor
  BY <1>1, <1>3 DEF Apply, Governor, Retire, ClaimAsset, ExtendRetireCommitment,
     ExtendEnsembleCommitment, UpdateEnsemble
<1>4. CASE CapHolder
  BY <1>1, <1>4 DEF CapHolder, BorrowAsset, BurnStaleCap, UpdateRefundAddress
<1> QED BY <1>2, <1>3, <1>4 DEF Next

(* `handoverExpiryIfBidAt` (views/temporal) against `placeBid` and           *)
(* `supersede` of rent.ts: the previewed expiry is the one the bid gets, and *)
(* no later challenger moves it.                                             *)
THEOREM PreviewHonoured == Spec => BidPreviewHonoured
<1> DEFINE A == minted' # minted /\ escrow'.state.phase = "Demand" =>
                  HandoverExpiryMs(escrow'.state) =
                    IF escrow.state.phase = "Occupied"
                    THEN HandoverExpiryIfBidAt(escrow.state, clock)
                    ELSE HandoverExpiryMs(escrow.state)
<1>1. IInv /\ [Next]_vars => A
  <2> SUFFICES ASSUME IInv, [Next]_vars, minted' # minted, escrow'.state.phase = "Demand"
               PROVE  A
    OBVIOUS
  <2>1. PICK n \in Tenures, over \in Overpay, a \in Addresses :
          Install(n, over, a) \/ PlaceBid(n, over, a) \/ Supersede(n, over, a)
    BY OnlyRentsMint DEF Rent
  <2>2. escrow.state.phase \in {"Idle", "Descent", "Occupied", "Demand"} /\ Live(escrow)
    BY <2>1 DEF Install, PlaceBid, Supersede, Live
  <2>3. SoundEscrow(escrow, clock) /\ escrow \in Escrows
    BY <2>2, LiveIsSound DEF SoundEscrow
  <2>4. CASE Install(n, over, a)
    BY <2>3, <2>4 DEF Install, Escrows, Occupied
  <2>5. CASE PlaceBid(n, over, a)
    <3>1. /\ escrow.state.phase = "Occupied" /\ escrow'.state.phase = "Demand"
          /\ escrow'.state.bid.expiry = Least(clock + escrow.state.terms.handover,
                                              TenureEnd(escrow.state.terms))
      BY <2>3, <2>5 DEF PlaceBid, Escrows, Demand
    <3> QED BY <3>1 DEF HandoverExpiryMs, HandoverExpiryIfBidAt, TenureExpiryMs, Renting
  <2>6. CASE Supersede(n, over, a)
    <3>1. escrow.state.phase = "Demand" /\ escrow.state \in DemandStates
      BY <2>3, <2>6, StateByPhase DEF Supersede, SoundEscrow, Sound
    <3>2. escrow'.state.bid.expiry = escrow.state.bid.expiry
      BY <2>3, <2>6, <3>1 DEF Supersede, Escrows, DemandStates, Bids
    <3> QED BY <3>1, <3>2 DEF HandoverExpiryMs
  <2> QED BY <2>1, <2>4, <2>5, <2>6
<1> QED BY <1>1, Invariance, PTL DEF Spec, BidPreviewHonoured
=============================================================================
