---------------------------- MODULE EscrowProofs ----------------------------
(***************************************************************************)
(* What is proved of the escrow machine for every set of ensembles, every  *)
(* curve with heights in 0 .. Scale and every bound.  The invariant IInv   *)
(* adds to the type that the state in force -- behind a borrow bracket,    *)
(* the one in the receipt -- is Sound at the time of the clock.            *)
(***************************************************************************)
EXTENDS Escrow, TLAPS

(* The arithmetic of prices and durations: shares of a natural number are    *)
(* natural numbers no larger than it, and rescaling a whole multiple is exact. *)

LEMMA MulDivNat ==
  ASSUME NEW a \in Nat, NEW b \in Nat, NEW c \in Nat \ {0}
  PROVE  MulDiv(a, b, c) \in Nat
<1>1. a * b \in Nat
  OBVIOUS
<1>2. \A p \in Nat : p \div c \in Nat
  OBVIOUS
<1> QED BY <1>1, <1>2 DEF MulDiv

LEMMA MulDivBound ==
  ASSUME NEW a \in Nat, NEW b \in Nat, NEW c \in Nat \ {0}, b <= c
  PROVE  MulDiv(a, b, c) <= a
<1>1. a * b <= a * c
  OBVIOUS
<1>2. \A p, q \in Nat : p <= q * c => p \div c <= q
  OBVIOUS
<1>3. a * b \in Nat
  OBVIOUS
<1> QED BY <1>1, <1>2, <1>3 DEF MulDiv

LEMMA MulDivExact ==
  ASSUME NEW a \in Nat, NEW m \in Nat, NEW k \in Nat \ {0}
  PROVE  MulDiv(a * k, m, k) = a * m
<1>1. (a * k) * m = (a * m) * k
  OBVIOUS
<1>2. \A p \in Nat : (p * k) \div k = p
  OBVIOUS
<1>3. a * m \in Nat
  OBVIOUS
<1> QED BY <1>1, <1>2, <1>3 DEF MulDiv

LEMMA RescaleExact ==
  ASSUME NEW a \in Nat, NEW from \in Nat \ {0}, NEW to \in Nat,
         NEW total, total = a * from
  PROVE  RescaledDuration(total, from, to) = a * to
BY MulDivExact DEF RescaledDuration

-----------------------------------------------------------------------------
(* What is true of a state that is not behind a borrow bracket, at time t    *)
(* under the active ensemble e.                                              *)
Sound(e, s, t) ==
  /\ s \in RentingStates \cup WaitingStates
  /\ s # Retired => s.cycle = ResolveCycle(e)
  /\ Renting(s) =>
       /\ s.terms.ceiling = s.cycle.ceiling * s.terms.tenures
       /\ s.terms.handover = s.cycle.handover * s.terms.tenures
       /\ s.terms.start <= t
  /\ s.phase = "Demand" => s.bid.expiry \in s.terms.start .. TenureEnd(s.terms)

SoundEscrow(x, t) ==
  /\ x \in Escrows
  /\ Sound(x.active, x.state, t)

LEMMA StateByPhase ==
  ASSUME NEW s \in RentingStates \cup WaitingStates
  PROVE  /\ s.phase = "Demand"   => s \in DemandStates
         /\ s.phase = "Occupied" => s \in OccupiedStates
         /\ s.phase = "Descent"  => s \in DescentStates
         /\ s.phase = "Idle"     => s \in IdleStates
         /\ s.phase = "Retired"  => s = Retired
         /\ s.phase \in {"Demand", "Occupied", "Descent", "Idle", "Retired"}
BY DEF RentingStates, WaitingStates, DemandStates, OccupiedStates, DescentStates, IdleStates, Retired

LEMMA ResolvedCycle ==
  ASSUME NEW e \in Ensembles
  PROVE  /\ ResolveCycle(e) \in Cycles
         /\ ResolveCycle(e).ceiling = e.tenureMs
         /\ ResolveCycle(e).ceiling \in 1 .. MaxMs
         /\ ResolveCycle(e).descent \in 0 .. MaxMs
BY EnsemblesAssumption, BoundsAssumption DEF Policies, ResolveCycle, Cycles

LEMMA CurveHeightBound ==
  ASSUME NEW shape \in Shapes, NEW elapsed \in Nat, NEW dur \in 0 .. MaxMs
  PROVE  CurveHeight(shape, elapsed, dur) \in 0 .. Scale
BY HeightAssumption, BoundsAssumption DEF CurveHeight

LEMMA HandoverStep ==
  ASSUME NEW x, NEW t \in Nat, SoundEscrow(x, t)
  PROVE  SoundEscrow(StepHandover(x, t), t)
<1> DEFINE s == x.state
           n == s.bid.tenures
<1>1. CASE ~HandoverDue(x, t)
  BY <1>1 DEF StepHandover
<1>2. CASE HandoverDue(x, t)
  <2>1. s \in DemandStates
    BY <1>2, StateByPhase DEF SoundEscrow, Sound, HandoverDue
  <2>2. /\ s.cycle \in Cycles /\ s.terms \in Terms /\ s.bid \in Bids
        /\ s.terms.tenures \in Nat \ {0} /\ n \in Nat \ {0}
    BY <2>1, TenuresAssumption DEF DemandStates, Terms, Bids
  <2>3. /\ RescaledDuration(s.terms.ceiling, s.terms.tenures, n) = s.cycle.ceiling * n
        /\ RescaledDuration(s.terms.handover, s.terms.tenures, n) = s.cycle.handover * n
    <3>1. /\ s.terms.ceiling = s.cycle.ceiling * s.terms.tenures
          /\ s.terms.handover = s.cycle.handover * s.terms.tenures
      BY <1>2 DEF SoundEscrow, Sound, HandoverDue, Renting
    <3>2. s.cycle.ceiling \in Nat /\ s.cycle.handover \in Nat
      BY <2>2 DEF Cycles
    <3>3. s.terms.tenures \in Nat \ {0} /\ s.bid.tenures \in Nat
      BY <2>2
    <3>4. RescaledDuration(s.terms.ceiling, s.terms.tenures, n) = s.cycle.ceiling * n
      BY <3>1, <3>2, <3>3, RescaleExact
    <3>5. RescaledDuration(s.terms.handover, s.terms.tenures, n) = s.cycle.handover * n
      BY <3>1, <3>2, <3>3, RescaleExact
    <3> QED BY <3>4, <3>5
  <2> DEFINE terms2 == [ start |-> s.bid.expiry,
                         ceiling |-> s.cycle.ceiling * n, handover |-> s.cycle.handover * n,
                         tenures |-> n, seat |-> s.bid.seat, retiring |-> s.terms.retiring ]
             y == [x EXCEPT !.state = Occupied(s.cycle, terms2)]
  <2>4. StepHandover(x, t) = y
    BY <1>2, <2>3 DEF StepHandover
  <2>5. terms2 \in Terms
    BY <2>2 DEF Terms, Bids, Cycles
  <2>6. Occupied(s.cycle, terms2) \in OccupiedStates
    BY <2>2, <2>5 DEF Occupied, OccupiedStates
  <2>7. y \in Escrows /\ y.state = Occupied(s.cycle, terms2) /\ y.active = x.active
    BY <2>6 DEF SoundEscrow, Escrows, States, RentingStates
  <2>8. Sound(x.active, Occupied(s.cycle, terms2), t)
    <3>1. s.cycle = ResolveCycle(x.active)
      BY <1>2 DEF SoundEscrow, Sound, HandoverDue, Retired
    <3>2. s.bid.expiry <= t
      BY <1>2, <2>2 DEF HandoverDue, Bids
    <3> QED BY <2>6, <3>1, <3>2 DEF Sound, Occupied, RentingStates, Renting
  <2> QED BY <2>4, <2>7, <2>8 DEF SoundEscrow
<1> QED BY <1>1, <1>2

LEMMA TenureExpiryStep ==
  ASSUME NEW x, NEW t \in Nat, SoundEscrow(x, t)
  PROVE  SoundEscrow(StepTenureExpiry(x, t), t)
<1> DEFINE s == x.state
<1>1. CASE ~TenureExpiryDue(x, t)
  BY <1>1 DEF StepTenureExpiry
<1>2. CASE TenureExpiryDue(x, t) /\ s.terms.retiring
  <2>1. StepTenureExpiry(x, t) = [x EXCEPT !.state = Retired, !.pending = None]
    BY <1>2 DEF StepTenureExpiry
  <2>2. Retired \in WaitingStates
    BY DEF WaitingStates
  <2>3. /\ [x EXCEPT !.state = Retired, !.pending = None] \in Escrows
        /\ [x EXCEPT !.state = Retired, !.pending = None].state = Retired
    BY <2>2 DEF SoundEscrow, Escrows, States
  <2>4. Sound([x EXCEPT !.state = Retired, !.pending = None].active, Retired, t)
    BY <2>2 DEF Sound, Retired, Renting
  <2> QED BY <2>1, <2>3, <2>4 DEF SoundEscrow
<1>3. CASE TenureExpiryDue(x, t) /\ ~s.terms.retiring
  <2> DEFINE d == Descent(s.cycle, s.terms.seat.stake \div s.terms.tenures, TenureEnd(s.terms))
             y == [x EXCEPT !.state = d]
  <2>1. StepTenureExpiry(x, t) = y
    BY <1>3 DEF StepTenureExpiry
  <2>2. s \in OccupiedStates
    BY <1>3, StateByPhase DEF SoundEscrow, Sound, TenureExpiryDue
  <2>3. s.cycle \in Cycles /\ s.terms \in Terms
    BY <2>2 DEF OccupiedStates
  <2>4. s.terms.seat.stake \div s.terms.tenures \in Nat
    <3>1. s.terms.seat.stake \in Nat /\ s.terms.tenures \in Nat \ {0}
      BY <2>3, TenuresAssumption DEF Terms, Seats
    <3>2. \A a \in Nat, b \in Nat \ {0} : a \div b \in Nat
      OBVIOUS
    <3> QED BY <3>1, <3>2
  <2>5. TenureEnd(s.terms) \in Nat
    BY <2>3 DEF Terms, TenureEnd
  <2>6. d \in DescentStates
    BY <2>3, <2>4, <2>5 DEF Descent, DescentStates
  <2>7. y \in Escrows /\ y.state = d /\ y.active = x.active
    BY <2>6 DEF SoundEscrow, Escrows, States, WaitingStates
  <2>8. s.cycle = ResolveCycle(x.active)
    BY <1>3 DEF SoundEscrow, Sound, TenureExpiryDue, Retired
  <2>9. d.cycle = s.cycle /\ d.phase = "Descent"
    BY DEF Descent
  <2>10. Sound(x.active, d, t)
    BY <2>6, <2>8, <2>9 DEF Sound, Renting, WaitingStates
  <2> QED BY <2>1, <2>7, <2>10 DEF SoundEscrow
<1> QED BY <1>1, <1>2, <1>3

LEMMA IdleSound ==
  ASSUME NEW e \in Ensembles, NEW t
  PROVE  Idle(ResolveCycle(e)) \in WaitingStates /\ Sound(e, Idle(ResolveCycle(e)), t)
<1>1. Idle(ResolveCycle(e)) \in IdleStates
  BY ResolvedCycle DEF Idle, IdleStates
<1>2. Idle(ResolveCycle(e)).phase = "Idle" /\ Idle(ResolveCycle(e)).cycle = ResolveCycle(e)
  BY DEF Idle
<1> QED BY <1>1, <1>2 DEF Sound, WaitingStates, Renting

LEMMA AuctionExpiryStep ==
  ASSUME NEW x, NEW t \in Nat, SoundEscrow(x, t)
  PROVE  SoundEscrow(StepAuctionExpiry(x, t), t)
<1>1. CASE ~AuctionExpiryDue(x, t)
  BY <1>1 DEF StepAuctionExpiry
<1>2. CASE AuctionExpiryDue(x, t) /\ x.pending = None
  <2> DEFINE i == Idle(ResolveCycle(x.active))
             y == [x EXCEPT !.state = i]
  <2>1. x.state.cycle = ResolveCycle(x.active)
    BY <1>2 DEF SoundEscrow, Sound, AuctionExpiryDue, Retired
  <2>2. StepAuctionExpiry(x, t) = y
    BY <1>2, <2>1 DEF StepAuctionExpiry
  <2>3. x.active \in Ensembles
    BY DEF SoundEscrow, Escrows
  <2>4. i \in WaitingStates /\ Sound(x.active, i, t)
    BY <2>3, IdleSound
  <2>5. y \in Escrows /\ y.state = i /\ y.active = x.active
    BY <2>4 DEF SoundEscrow, Escrows, States
  <2> QED BY <2>2, <2>4, <2>5 DEF SoundEscrow
<1>3. CASE AuctionExpiryDue(x, t) /\ x.pending # None
  <2> DEFINE i == Idle(ResolveCycle(x.pending))
             y == [x EXCEPT !.state = i, !.active = x.pending, !.pending = None]
  <2>1. StepAuctionExpiry(x, t) = y
    BY <1>3 DEF StepAuctionExpiry
  <2>2. x.pending \in Ensembles
    BY <1>3 DEF SoundEscrow, Escrows
  <2>3. i \in WaitingStates /\ Sound(x.pending, i, t)
    BY <2>2, IdleSound
  <2>4. y \in Escrows /\ y.state = i /\ y.active = x.pending
    BY <2>2, <2>3 DEF SoundEscrow, Escrows, States
  <2> QED BY <2>1, <2>3, <2>4 DEF SoundEscrow
<1> QED BY <1>1, <1>2, <1>3

(* `apply` takes a sound escrow to a sound escrow.                           *)
LEMMA SettleSound ==
  ASSUME NEW x, NEW t \in Nat, SoundEscrow(x, t)
  PROVE  SoundEscrow(Settle(x, t), t)
BY HandoverStep, TenureExpiryStep, AuctionExpiryStep DEF Settle

-----------------------------------------------------------------------------
(* Settlements enter natural amounts: no share and no refund is negative.    *)

LEMMA FeeBound ==
  ASSUME NEW a \in Nat
  PROVE  Fee(a) \in Nat /\ Fee(a) <= a
BY MulDivNat, MulDivBound DEF Fee, FeeBps, Bps

LEMMA EnterType ==
  ASSUME NEW b \in [Caps -> Entries], NEW c \in Caps, NEW used \in Nat, NEW refund \in Nat
  PROVE  Enter(b, c, used, refund) \in [Caps -> Entries]
<1>1. Fee(used) \in Nat /\ used - Fee(used) \in Nat
  BY FeeBound
<1> DEFINE r == [b[c] EXCEPT !.fee = b[c].fee + Fee(used),
                             !.governor = b[c].governor + (used - Fee(used)),
                             !.refund = b[c].refund + refund,
                             !.challenged = 0]
<1>2. b[c] \in Entries
  OBVIOUS
<1>3. /\ b[c].fee + Fee(used) \in Nat
      /\ b[c].governor + (used - Fee(used)) \in Nat
      /\ b[c].refund + refund \in Nat
  BY <1>1, <1>2 DEF Entries
<1>4. r \in Entries
  BY <1>2, <1>3 DEF Entries
<1>5. Enter(b, c, used, refund) = [b EXCEPT ![c] = r]
  BY DEF Enter
<1> QED BY <1>4, <1>5

LEMMA UsedCreditBound ==
  ASSUME NEW e \in Ensembles, NEW stake \in Nat, NEW start \in Nat, NEW now \in Nat,
         NEW total \in 0 .. MaxMs
  PROVE  /\ UsedCredit(e, stake, start, total, now) \in Nat
         /\ UsedCredit(e, stake, start, total, now) <= stake
<1> DEFINE h == CurveHeight(e.creditShape, Elapsed(now, start), total)
<1>1. e.creditShape \in Shapes
  BY EnsemblesAssumption DEF Policies
<1>2. Elapsed(now, start) \in Nat
  BY DEF Elapsed
<1>3. h \in 0 .. Scale
  BY <1>1, <1>2, CurveHeightBound
<1>4. h \in Nat /\ h <= Scale /\ Scale \in Nat \ {0}
  BY <1>3, BoundsAssumption
<1>5. MulDiv(stake, h, Scale) \in Nat /\ MulDiv(stake, h, Scale) <= stake
  BY <1>4, MulDivNat, MulDivBound
<1> QED BY <1>5 DEF UsedCredit

(* The schedule of a seat stays within the durations the curves are read on. *)
LEMMA ScheduleBound ==
  ASSUME NEW e \in Ensembles, NEW s, NEW t, Sound(e, s, t), Renting(s)
  PROVE  s.terms \in Terms /\ s.terms.ceiling \in 0 .. MaxMs
<1>1. s.terms \in Terms
  BY StateByPhase DEF Sound, Renting, OccupiedStates, DemandStates
<1>2. s.terms.tenures \in Tenures /\ s.terms.ceiling \in Nat
  BY <1>1 DEF Terms
<1>3. s.terms.ceiling = e.tenureMs * s.terms.tenures
  BY ResolvedCycle DEF Sound, Renting, Retired
<1>4. e.tenureMs * s.terms.tenures <= MaxMs
  BY <1>2, BoundsAssumption
<1> QED BY <1>1, <1>2, <1>3, <1>4, BoundsAssumption

LEMMA EnterHandoverType ==
  ASSUME NEW x, NEW t \in Nat, SoundEscrow(x, t), NEW b \in [Caps -> Entries]
  PROVE  EnterHandover(b, x, t) \in [Caps -> Entries]
<1> DEFINE terms == x.state.terms
           used  == UsedCredit(x.active, terms.seat.stake, terms.start,
                               terms.ceiling, x.state.bid.expiry)
<1>1. CASE ~HandoverDue(x, t)
  BY <1>1 DEF EnterHandover
<1>2. CASE HandoverDue(x, t)
  <2>1. x.active \in Ensembles
    BY DEF SoundEscrow, Escrows
  <2>2. Renting(x.state)
    BY <1>2 DEF HandoverDue, Renting
  <2>3. terms \in Terms /\ terms.ceiling \in 0 .. MaxMs
    BY <2>1, <2>2, ScheduleBound DEF SoundEscrow
  <2>4. x.state.bid.expiry \in Nat
    BY <1>2, StateByPhase DEF HandoverDue, SoundEscrow, Sound, DemandStates, Bids
  <2>5. terms.seat.stake \in Nat /\ terms.seat.cap \in Caps /\ terms.start \in Nat
    BY <2>3 DEF Terms, Seats
  <2>6. used \in Nat /\ used <= terms.seat.stake
    BY <2>1, <2>3, <2>4, <2>5, UsedCreditBound
  <2>7. terms.seat.stake - used \in Nat
    BY <2>5, <2>6
  <2>8. Enter(b, terms.seat.cap, used, terms.seat.stake - used) \in [Caps -> Entries]
    BY <2>5, <2>6, <2>7, EnterType
  <2> QED BY <1>2, <2>8 DEF EnterHandover
<1> QED BY <1>1, <1>2

LEMMA EnterTenureExpiryType ==
  ASSUME NEW x, NEW t \in Nat, SoundEscrow(x, t), NEW b \in [Caps -> Entries]
  PROVE  EnterTenureExpiry(b, x, t) \in [Caps -> Entries]
<1>1. CASE ~TenureExpiryDue(x, t)
  BY <1>1 DEF EnterTenureExpiry
<1>2. CASE TenureExpiryDue(x, t)
  <2>1. x.state.terms \in Terms
    BY <1>2, StateByPhase DEF TenureExpiryDue, SoundEscrow, Sound, OccupiedStates
  <2>2. x.state.terms.seat.stake \in Nat /\ x.state.terms.seat.cap \in Caps
    BY <2>1 DEF Terms, Seats
  <2>3. Enter(b, x.state.terms.seat.cap, x.state.terms.seat.stake, 0) \in [Caps -> Entries]
    BY <2>2, EnterType
  <2> QED BY <1>2, <2>3 DEF EnterTenureExpiry
<1> QED BY <1>1, <1>2

LEMMA SettleBooksType ==
  ASSUME NEW x, NEW t \in Nat, SoundEscrow(x, t), NEW b \in [Caps -> Entries]
  PROVE  SettleBooks(b, x, t) \in [Caps -> Entries]
<1>1. EnterHandover(b, x, t) \in [Caps -> Entries]
  BY EnterHandoverType
<1>2. SoundEscrow(StepHandover(x, t), t)
  BY HandoverStep
<1> QED BY <1>1, <1>2, EnterTenureExpiryType DEF SettleBooks

-----------------------------------------------------------------------------
(* The inductive invariant: types, and a sound state -- in the slot, or in   *)
(* the receipt that will refill it.                                          *)
IInv ==
  /\ TypeOK
  /\ Held # Claimed => Sound(escrow.active, Held, clock)

LEMMA LiveIsSound ==
  ASSUME IInv, Live(escrow)
  PROVE  /\ SoundEscrow(escrow, clock)
         /\ Held = escrow.state /\ receipt = None /\ clock \in Nat
<1>1. escrow.state # Borrowed /\ escrow.state # Claimed
  BY DEF Live, Borrowed, Claimed
<1> QED BY <1>1, BoundsAssumption DEF IInv, TypeOK, SoundEscrow, Held, Times

LEMMA SoundIsLive ==
  ASSUME NEW x, NEW t, SoundEscrow(x, t)
  PROVE  Live(x) /\ x.state # Borrowed /\ x.state # Claimed /\ x.active \in Ensembles
<1>1. x.state.phase \in {"Demand", "Occupied", "Descent", "Idle", "Retired"}
  BY StateByPhase DEF SoundEscrow, Sound
<1> QED BY <1>1 DEF Live, Borrowed, Claimed, SoundEscrow, Escrows

(* A step that leaves a sound escrow in place, mints nothing and keeps the   *)
(* other types restores the invariant.                                       *)
LEMMA SoundStep ==
  ASSUME IInv, NEW x, SoundEscrow(x, clock), escrow' = x,
         clock' = clock, receipt' = None,
         minted' \in 0 .. MaxCaps, burned' \subseteq Caps, books' \in [Caps -> Entries]
  PROVE  IInv'
<1>1. x.state # Borrowed /\ x.state # Claimed
  BY SoundIsLive
<1>2. TypeOK'
  BY <1>1 DEF IInv, TypeOK, SoundEscrow
<1>3. Held' = x.state
  BY <1>1 DEF Held
<1> QED BY <1>2, <1>3 DEF IInv, SoundEscrow

LEMMA SettlingStep ==
  ASSUME IInv, NEW x, SoundEscrow(x, clock), Settling(x),
         receipt' = receipt, burned' \subseteq Caps
  PROVE  IInv'
<1>1. Live(escrow)
  BY DEF Settling
<1>2. SoundEscrow(escrow, clock) /\ receipt = None /\ clock \in Nat
  BY <1>1, LiveIsSound
<1>3. books' \in [Caps -> Entries]
  BY <1>2, SettleBooksType DEF Settling, IInv, TypeOK
<1>4. minted' \in 0 .. MaxCaps
  BY DEF Settling, IInv, TypeOK
<1> QED BY <1>2, <1>3, <1>4, SoundStep DEF Settling

LEMMA SettledIsSound ==
  ASSUME IInv, Live(escrow)
  PROVE  SoundEscrow(Settle(escrow, clock), clock)
BY LiveIsSound, SettleSound

LEMMA MintStep ==
  ASSUME IInv, Live(escrow), NEW pay \in Nat, NEW n \in Nat, NEW b \in [Caps -> Entries],
         Mint(pay, n, b), NEW x, escrow' = x, SoundEscrow(x, clock)
  PROVE  IInv'
<1>1. minted' \in 0 .. MaxCaps /\ minted + 1 \in Caps
  BY BoundsAssumption DEF Mint, IInv, TypeOK, Caps
<1>2. [NoEntry EXCEPT !.paid = pay, !.tenures = n] \in Entries
  BY DEF NoEntry, Entries
<1>3. books' \in [Caps -> Entries]
  BY <1>1, <1>2 DEF Mint
<1>4. receipt' = None /\ clock' = clock /\ burned' \subseteq Caps
  BY LiveIsSound DEF Mint, IInv, TypeOK
<1> QED BY <1>1, <1>3, <1>4, SoundStep

LEMMA ChallengedType ==
  ASSUME IInv, NEW c \in Caps
  PROVE  Challenged(c) \in [Caps -> Entries]
<1>1. books \in [Caps -> Entries] /\ clock \in Nat
  BY BoundsAssumption DEF IInv, TypeOK, Times
<1> DEFINE r == [books[c] EXCEPT !.challenged = clock]
<1>2. r \in Entries
  BY <1>1 DEF Entries
<1>3. Challenged(c) = [books EXCEPT ![c] = r]
  BY DEF Challenged
<1> QED BY <1>1, <1>2, <1>3

LEMMA AscendingFloorNat ==
  ASSUME NEW e \in Ensembles, NEW price \in Nat
  PROVE  AscendingFloor(e, price) \in Nat
<1>1. e.bps \in Nat /\ e.delta \in Nat
  BY EnsemblesAssumption DEF Policies
<1>2. Bps + e.bps \in Nat /\ Bps \in Nat \ {0}
  BY <1>1 DEF Bps
<1>3. MulDiv(price, Bps + e.bps, Bps) \in Nat
  BY <1>2, MulDivNat
<1> QED BY <1>1, <1>3 DEF AscendingFloor

LEMMA DescendingFloorNat ==
  ASSUME NEW e \in Ensembles, NEW last \in Nat, NEW start \in Nat, NEW now \in Nat,
         NEW cycle \in Cycles, cycle.descent \in 0 .. MaxMs, last >= cycle.floor
  PROVE  DescendingFloor(e, last, start, cycle, now) \in Nat
<1> DEFINE h == CurveHeight(e.auctionShape, Elapsed(now, start), cycle.descent)
<1>1. e.auctionShape \in Shapes
  BY EnsemblesAssumption DEF Policies
<1>2. Elapsed(now, start) \in Nat
  BY DEF Elapsed
<1>3. h \in 0 .. Scale
  BY <1>1, <1>2, CurveHeightBound
<1>4. h \in Nat /\ h <= Scale /\ Scale \in Nat \ {0}
  BY <1>3, BoundsAssumption
<1>5. cycle.floor \in Nat
  BY DEF Cycles
<1>6. last - cycle.floor \in Nat
  BY <1>5
<1>7. /\ MulDiv(last - cycle.floor, h, Scale) \in Nat
      /\ MulDiv(last - cycle.floor, h, Scale) <= last - cycle.floor
  BY <1>4, <1>6, MulDivNat, MulDivBound
<1>8. last - MulDiv(last - cycle.floor, h, Scale) \in Nat
  BY <1>5, <1>6, <1>7
<1> QED BY <1>8 DEF DescendingFloor

-----------------------------------------------------------------------------
(* One lemma per action: it preserves the invariant.                         *)

LEMMA InitInv == Init => IInv
<1> SUFFICES ASSUME Init PROVE IInv
  OBVIOUS
<1>1. PICK e \in Ensembles, r \in Delays, u \in Delays : escrow = Integrated(e, r, u, 0)
  BY DEF Init
<1>2. /\ escrow.state = Idle(ResolveCycle(e)) /\ escrow.active = e
      /\ escrow.state.phase = "Idle"
  BY <1>1 DEF Integrated, Idle
<1>3. escrow.state \in WaitingStates /\ Sound(e, escrow.state, 0)
  BY <1>2, IdleSound
<1>4. escrow \in Escrows
  <2>1. r \in Nat /\ u \in Nat
    BY BoundsAssumption
  <2>2. [anchor |-> 0, floor |-> r] \in Locks /\ [anchor |-> 0, floor |-> u] \in Locks
    BY <2>1 DEF Locks
  <2> QED BY <1>1, <1>2, <1>3, <2>2 DEF Integrated, Escrows, States
<1>5. escrow.state # Borrowed
  BY <1>2 DEF Borrowed
<1>6. NoEntry \in Entries
  BY DEF NoEntry, Entries
<1>7. TypeOK
  BY <1>4, <1>5, <1>6, BoundsAssumption DEF Init, TypeOK, Times
<1>8. Held = escrow.state
  BY <1>5 DEF Held
<1> QED BY <1>2, <1>3, <1>7, <1>8 DEF Init, IInv

LEMMA TickInv == IInv /\ Tick => IInv'
<1> SUFFICES ASSUME IInv, Tick PROVE IInv'
  OBVIOUS
<1>1. clock \in Nat /\ clock' = clock + 1
  BY BoundsAssumption DEF Tick, IInv, TypeOK, Times
<1>2. TypeOK'
  BY BoundsAssumption DEF Tick, IInv, TypeOK, Times
<1>3. Held' = Held /\ escrow' = escrow
  BY DEF Tick, Held
<1>4. ASSUME NEW e, NEW s, Sound(e, s, clock) PROVE Sound(e, s, clock')
  <2>1. Renting(s) => s.terms.start \in Nat
    BY <1>4, StateByPhase DEF Sound, Renting, OccupiedStates, DemandStates, Terms
  <2> QED BY <1>1, <1>4, <2>1 DEF Sound
<1> QED BY <1>2, <1>3, <1>4 DEF IInv

LEMMA ReturnAssetInv == IInv /\ ReturnAsset => IInv'
<1> SUFFICES ASSUME IInv, ReturnAsset PROVE IInv'
  OBVIOUS
<1>1. receipt \in RentingStates /\ Held = receipt
  BY DEF ReturnAsset, IInv, TypeOK, Held
<1>2. receipt # Borrowed /\ receipt # Claimed /\ receipt \in RentingStates \cup WaitingStates
  BY <1>1 DEF Borrowed, Claimed, RentingStates, OccupiedStates, DemandStates
<1> DEFINE y == [escrow EXCEPT !.state = receipt]
<1>3. y \in Escrows /\ y.state = receipt /\ y.active = escrow.active
  BY <1>1 DEF IInv, TypeOK, Escrows, States
<1>4. SoundEscrow(y, clock)
  BY <1>1, <1>2, <1>3 DEF IInv, SoundEscrow
<1>5. minted' \in 0 .. MaxCaps /\ burned' \subseteq Caps /\ books' \in [Caps -> Entries]
  BY DEF ReturnAsset, IInv, TypeOK
<1>6. escrow' = y /\ clock' = clock /\ receipt' = None
  BY DEF ReturnAsset
<1> QED BY <1>4, <1>5, <1>6, SoundStep

LEMMA ApplyInv == IInv /\ Apply => IInv'
<1> SUFFICES ASSUME IInv, Apply PROVE IInv'
  OBVIOUS
<1>1. SoundEscrow(Settle(escrow, clock), clock)
  BY SettledIsSound DEF Apply, Settling
<1>2. receipt' = receipt /\ burned' \subseteq Caps
  BY DEF Apply, IInv, TypeOK
<1> QED BY <1>1, <1>2, SettlingStep DEF Apply

LEMMA BurnStaleCapInv ==
  ASSUME IInv, NEW c \in (1 .. minted) \ burned, BurnStaleCap(c)
  PROVE  IInv'
<1>1. SoundEscrow(Settle(escrow, clock), clock)
  BY SettledIsSound DEF BurnStaleCap, Settling
<1>2. c \in Caps
  BY BoundsAssumption DEF IInv, TypeOK, Caps
<1>3. receipt' = receipt /\ burned' \subseteq Caps
  BY <1>2 DEF BurnStaleCap, IInv, TypeOK
<1> QED BY <1>1, <1>3, SettlingStep DEF BurnStaleCap

LEMMA ClaimAssetInv == IInv /\ ClaimAsset => IInv'
<1> SUFFICES ASSUME IInv, ClaimAsset PROVE IInv'
  OBVIOUS
<1> DEFINE x == Settle(escrow, clock)
           y == [x EXCEPT !.state = Claimed]
<1>1. Live(escrow)
  BY DEF ClaimAsset, Settling
<1>2. SoundEscrow(escrow, clock) /\ SoundEscrow(x, clock) /\ clock \in Nat /\ receipt = None
  BY <1>1, LiveIsSound, SettledIsSound
<1>3. y \in Escrows /\ y.state = Claimed
  BY <1>2 DEF SoundEscrow, Escrows, States
<1>4. books' \in [Caps -> Entries]
  BY <1>2, SettleBooksType DEF ClaimAsset, Settling, IInv, TypeOK
<1>5. escrow' = y /\ clock' = clock /\ receipt' = None /\ minted' = minted /\ burned' = burned
  BY <1>2 DEF ClaimAsset, Settling
<1>6. Claimed # Borrowed
  BY DEF Claimed, Borrowed
<1>7. TypeOK'
  BY <1>3, <1>4, <1>5, <1>6 DEF IInv, TypeOK
<1>8. Held' = Claimed
  BY <1>3, <1>5, <1>6 DEF Held
<1> QED BY <1>7, <1>8 DEF IInv

LEMMA BorrowAssetInv ==
  ASSUME IInv, NEW c, BorrowAsset(c)
  PROVE  IInv'
<1> DEFINE x == Settle(escrow, clock)
           y == [x EXCEPT !.state = Borrowed]
<1>1. Live(escrow)
  BY DEF BorrowAsset, Settling
<1>2. SoundEscrow(escrow, clock) /\ SoundEscrow(x, clock) /\ clock \in Nat
  BY <1>1, LiveIsSound, SettledIsSound
<1>3. y \in Escrows /\ y.state = Borrowed /\ y.active = x.active
  BY <1>2 DEF SoundEscrow, Escrows, States
<1>4. x.state \in RentingStates /\ x.state # Claimed /\ x.state # None
  <2>1. Renting(x.state)
    BY DEF BorrowAsset
  <2>2. x.state \in RentingStates
    BY <1>2, <2>1, StateByPhase DEF SoundEscrow, Sound, Renting, RentingStates
  <2> QED BY <2>1, <2>2, NoneAssumption DEF Renting, Claimed
<1>5. books' \in [Caps -> Entries]
  BY <1>2, SettleBooksType DEF BorrowAsset, Settling, IInv, TypeOK
<1>6. /\ escrow' = y /\ receipt' = x.state
      /\ clock' = clock /\ minted' = minted /\ burned' = burned
  BY DEF BorrowAsset, Settling
<1>7. TypeOK'
  BY <1>3, <1>4, <1>5, <1>6 DEF IInv, TypeOK
<1>8. Held' = x.state
  BY <1>3, <1>6 DEF Held
<1> QED BY <1>2, <1>3, <1>6, <1>7, <1>8 DEF IInv, SoundEscrow

LEMMA ExtendLockType ==
  ASSUME NEW lock \in Locks, NEW d \in Delays
  PROVE  ExtendLock(lock, d) \in Locks
BY BoundsAssumption DEF ExtendLock, UnlocksAt, Locks

LEMMA ExtendRetireCommitmentInv ==
  ASSUME IInv, NEW d \in Delays, ExtendRetireCommitment(d)
  PROVE  IInv'
<1> DEFINE x == Settle(escrow, clock)
           y == [x EXCEPT !.retireLock = ExtendLock(x.retireLock, d)]
<1>1. SoundEscrow(x, clock)
  BY SettledIsSound DEF ExtendRetireCommitment, Settling
<1>2. ExtendLock(x.retireLock, d) \in Locks
  BY <1>1, ExtendLockType DEF SoundEscrow, Escrows
<1>3. SoundEscrow(y, clock)
  BY <1>1, <1>2 DEF SoundEscrow, Escrows
<1>4. Settling(y) /\ receipt' = receipt /\ burned' \subseteq Caps
  BY DEF ExtendRetireCommitment, IInv, TypeOK
<1> QED BY <1>3, <1>4, SettlingStep

LEMMA ExtendEnsembleCommitmentInv ==
  ASSUME IInv, NEW d \in Delays, ExtendEnsembleCommitment(d)
  PROVE  IInv'
<1> DEFINE x == Settle(escrow, clock)
           y == [x EXCEPT !.ensembleLock = ExtendLock(x.ensembleLock, d)]
<1>1. SoundEscrow(x, clock)
  BY SettledIsSound DEF ExtendEnsembleCommitment, Settling
<1>2. ExtendLock(x.ensembleLock, d) \in Locks
  BY <1>1, ExtendLockType DEF SoundEscrow, Escrows
<1>3. SoundEscrow(y, clock)
  BY <1>1, <1>2 DEF SoundEscrow, Escrows
<1>4. Settling(y) /\ receipt' = receipt /\ burned' \subseteq Caps
  BY DEF ExtendEnsembleCommitment, IInv, TypeOK
<1> QED BY <1>3, <1>4, SettlingStep

(* Replacing the terms of a renting state by others that keep its schedule.  *)
LEMMA TermsStep ==
  ASSUME NEW x, NEW t, SoundEscrow(x, t), Renting(x.state), NEW terms \in Terms,
         terms.start = x.state.terms.start, terms.ceiling = x.state.terms.ceiling,
         terms.handover = x.state.terms.handover, terms.tenures = x.state.terms.tenures
  PROVE  SoundEscrow([x EXCEPT !.state = [x.state EXCEPT !.terms = terms]], t)
<1> DEFINE s == x.state
           z == [s EXCEPT !.terms = terms]
           y == [x EXCEPT !.state = z]
<1>1. s \in RentingStates
  BY StateByPhase DEF SoundEscrow, Sound, Renting, RentingStates
<1>2. CASE s \in OccupiedStates
  <2>1. /\ z \in OccupiedStates
        /\ z.phase = "Occupied" /\ z.cycle = s.cycle /\ z.terms = terms
    BY <1>2 DEF OccupiedStates
  <2>2. Sound(x.active, z, t)
    BY <1>2, <2>1 DEF SoundEscrow, Sound, Renting, Retired, RentingStates, OccupiedStates
  <2> QED BY <2>1, <2>2 DEF SoundEscrow, Escrows, States, RentingStates
<1>3. CASE s \in DemandStates
  <2>1. /\ z \in DemandStates
        /\ z.phase = "Demand" /\ z.cycle = s.cycle /\ z.terms = terms /\ z.bid = s.bid
    BY <1>3 DEF DemandStates
  <2>2. Sound(x.active, z, t)
    BY <1>3, <2>1 DEF SoundEscrow, Sound, Renting, Retired, RentingStates, DemandStates, TenureEnd
  <2> QED BY <2>1, <2>2 DEF SoundEscrow, Escrows, States, RentingStates
<1> QED BY <1>1, <1>2, <1>3 DEF RentingStates

LEMMA PendingStep ==
  ASSUME NEW x, NEW t, SoundEscrow(x, t), NEW p \in Ensembles \cup {None}
  PROVE  SoundEscrow([x EXCEPT !.pending = p], t)
BY DEF SoundEscrow, Escrows

LEMMA RetireInv == IInv /\ Retire => IInv'
<1> SUFFICES ASSUME IInv, Retire PROVE IInv'
  OBVIOUS
<1> DEFINE x == Settle(escrow, clock)
<1>1. SoundEscrow(x, clock)
  BY SettledIsSound DEF Retire, Settling
<1>2. receipt' = receipt /\ burned' \subseteq Caps
  BY DEF Retire, IInv, TypeOK
<1>3. CASE Renting(x.state)
  <2> DEFINE terms == [x.state.terms EXCEPT !.retiring = TRUE]
             y == [x EXCEPT !.state = [x.state EXCEPT !.terms = terms]]
             z == [y EXCEPT !.pending = None]
  <2>1. x.state.terms \in Terms
    BY <1>1, <1>3, StateByPhase DEF SoundEscrow, Sound, Renting, OccupiedStates, DemandStates
  <2>2. /\ terms \in Terms
        /\ terms.start = x.state.terms.start /\ terms.ceiling = x.state.terms.ceiling
        /\ terms.handover = x.state.terms.handover /\ terms.tenures = x.state.terms.tenures
    BY <2>1 DEF Terms
  <2>3. SoundEscrow(y, clock)
    BY <1>1, <1>3, <2>2, TermsStep
  <2>4. SoundEscrow(z, clock)
    BY <2>3, PendingStep
  <2>5. z = [x EXCEPT !.state.terms.retiring = TRUE, !.pending = None]
    BY <1>1 DEF SoundEscrow, Escrows
  <2>6. Settling(z)
    BY <1>3, <2>5 DEF Retire
  <2> QED BY <1>2, <2>4, <2>6, SettlingStep
<1>4. CASE ~Renting(x.state)
  <2> DEFINE z == [x EXCEPT !.state = Retired, !.pending = None]
  <2>1. Retired \in WaitingStates
    BY DEF WaitingStates
  <2>2. z \in Escrows /\ z.state = Retired
    BY <1>1, <2>1 DEF SoundEscrow, Escrows, States
  <2>3. SoundEscrow(z, clock)
    BY <2>1, <2>2 DEF SoundEscrow, Sound, Retired, Renting
  <2>4. Settling(z)
    BY <1>4 DEF Retire
  <2> QED BY <1>2, <2>3, <2>4, SettlingStep
<1> QED BY <1>3, <1>4

LEMMA UpdateEnsembleInv ==
  ASSUME IInv, NEW e \in Ensembles, UpdateEnsemble(e)
  PROVE  IInv'
<1> DEFINE x == Settle(escrow, clock)
<1>1. SoundEscrow(x, clock)
  BY SettledIsSound DEF UpdateEnsemble, Settling
<1>2. receipt' = receipt /\ burned' \subseteq Caps
  BY DEF UpdateEnsemble, IInv, TypeOK
<1>3. CASE x.state.phase = "Idle"
  <2> DEFINE y == [x EXCEPT !.state = Idle(ResolveCycle(e)), !.active = e, !.pending = None]
  <2>1. Idle(ResolveCycle(e)) \in WaitingStates /\ Sound(e, Idle(ResolveCycle(e)), clock)
    BY IdleSound
  <2>2. y \in Escrows /\ y.state = Idle(ResolveCycle(e)) /\ y.active = e
    BY <1>1, <2>1 DEF SoundEscrow, Escrows, States
  <2>3. SoundEscrow(y, clock)
    BY <2>1, <2>2 DEF SoundEscrow
  <2>4. Settling(y)
    BY <1>3 DEF UpdateEnsemble
  <2> QED BY <1>2, <2>3, <2>4, SettlingStep
<1>4. CASE x.state.phase # "Idle"
  <2>1. SoundEscrow([x EXCEPT !.pending = e], clock)
    BY <1>1, PendingStep
  <2>2. Settling([x EXCEPT !.pending = e])
    BY <1>4 DEF UpdateEnsemble
  <2> QED BY <1>2, <2>1, <2>2, SettlingStep
<1> QED BY <1>3, <1>4

(* Replacing the seat of the bid keeps its expiry and tenures.               *)
LEMMA BidSeatStep ==
  ASSUME NEW x, NEW t, SoundEscrow(x, t), x.state.phase = "Demand", NEW seat \in Seats
  PROVE  SoundEscrow([x EXCEPT !.state.bid.seat = seat], t)
<1> DEFINE s == x.state
           z == [s EXCEPT !.bid = [s.bid EXCEPT !.seat = seat]]
           y == [x EXCEPT !.state = z]
<1>1. s \in DemandStates
  BY StateByPhase DEF SoundEscrow, Sound
<1>2. s.bid \in Bids /\ [s.bid EXCEPT !.seat = seat] \in Bids
      /\ [s.bid EXCEPT !.seat = seat].expiry = s.bid.expiry
  BY <1>1 DEF DemandStates, Bids
<1>3. /\ z \in DemandStates
      /\ z.phase = "Demand" /\ z.cycle = s.cycle /\ z.terms = s.terms
      /\ z.bid = [s.bid EXCEPT !.seat = seat]
  BY <1>1, <1>2 DEF DemandStates
<1>4. Sound(x.active, z, t)
  BY <1>1, <1>2, <1>3 DEF SoundEscrow, Sound, Renting, Retired, RentingStates, DemandStates
<1>5. y \in Escrows /\ y.state = z /\ y.active = x.active
  BY <1>3 DEF SoundEscrow, Escrows, States, RentingStates
<1>6. y = [x EXCEPT !.state.bid.seat = seat]
  OBVIOUS
<1> QED BY <1>4, <1>5, <1>6 DEF SoundEscrow

LEMMA UpdateRefundAddressInv ==
  ASSUME IInv, NEW c, NEW a \in Addresses, UpdateRefundAddress(c, a)
  PROVE  IInv'
<1> DEFINE x == Settle(escrow, clock)
<1>1. SoundEscrow(x, clock)
  BY SettledIsSound DEF UpdateRefundAddress, Settling
<1>2. receipt' = receipt /\ burned' \subseteq Caps
  BY DEF UpdateRefundAddress, IInv, TypeOK
<1>3. CASE Renting(x.state) /\ Settling([x EXCEPT !.state.terms.seat.addr = a])
  <2> DEFINE seat == [x.state.terms.seat EXCEPT !.addr = a]
             terms == [x.state.terms EXCEPT !.seat = seat]
             y == [x EXCEPT !.state = [x.state EXCEPT !.terms = terms]]
  <2>1. x.state.terms \in Terms
    BY <1>1, <1>3, StateByPhase DEF SoundEscrow, Sound, Renting, OccupiedStates, DemandStates
  <2>2. seat \in Seats
    BY <2>1 DEF Terms, Seats
  <2>3. /\ terms \in Terms
        /\ terms.start = x.state.terms.start /\ terms.ceiling = x.state.terms.ceiling
        /\ terms.handover = x.state.terms.handover /\ terms.tenures = x.state.terms.tenures
    BY <2>1, <2>2 DEF Terms
  <2>4. SoundEscrow(y, clock)
    BY <1>1, <1>3, <2>3, TermsStep
  <2>5. y = [x EXCEPT !.state.terms.seat.addr = a]
    OBVIOUS
  <2> QED BY <1>2, <1>3, <2>4, <2>5, SettlingStep
<1>4. CASE x.state.phase = "Demand" /\ Settling([x EXCEPT !.state.bid.seat.addr = a])
  <2> DEFINE seat == [x.state.bid.seat EXCEPT !.addr = a]
  <2>1. x.state.bid \in Bids
    BY <1>1, <1>4, StateByPhase DEF SoundEscrow, Sound, DemandStates
  <2>2. seat \in Seats
    BY <2>1 DEF Bids, Seats
  <2>3. SoundEscrow([x EXCEPT !.state.bid.seat = seat], clock)
    BY <1>1, <1>4, <2>2, BidSeatStep
  <2>4. [x EXCEPT !.state.bid.seat = seat] = [x EXCEPT !.state.bid.seat.addr = a]
    OBVIOUS
  <2> QED BY <1>2, <1>4, <2>3, <2>4, SettlingStep
<1> QED BY <1>3, <1>4 DEF UpdateRefundAddress

LEMMA NewSeatType ==
  ASSUME IInv, minted < MaxCaps, NEW pay \in Nat, NEW a \in Addresses
  PROVE  NewSeat(pay, a) \in Seats
BY BoundsAssumption DEF IInv, TypeOK, NewSeat, Seats, Caps

LEMMA InstallInv ==
  ASSUME IInv, NEW n \in Tenures, NEW over \in Overpay, NEW a \in Addresses,
         Install(n, over, a)
  PROVE  IInv'
<1> DEFINE s == escrow.state
           pay == WaitingFloor(escrow, clock) * n + over
           terms == [ start |-> clock, ceiling |-> TotalDuration(s.cycle.ceiling, n),
                      handover |-> TotalDuration(s.cycle.handover, n), tenures |-> n,
                      seat |-> NewSeat(pay, a), retiring |-> FALSE ]
           z == Occupied(s.cycle, terms)
           y == [escrow EXCEPT !.state = z]
<1>1. s.phase \in {"Idle", "Descent"} /\ minted < MaxCaps
      /\ Mint(pay, n, books) /\ escrow' = y
  BY DEF Install, Mint
<1>2. Live(escrow)
  BY <1>1 DEF Live
<1>3. SoundEscrow(escrow, clock) /\ clock \in Nat
  BY <1>2, LiveIsSound
<1>4. /\ s.cycle \in Cycles /\ s.cycle = ResolveCycle(escrow.active)
      /\ escrow.active \in Ensembles
  BY <1>1, <1>3, StateByPhase DEF SoundEscrow, Sound, Retired, IdleStates, DescentStates, Escrows
<1>5. n \in Nat \ {0} /\ over \in Nat
  BY TenuresAssumption, BoundsAssumption
<1>6. WaitingFloor(escrow, clock) \in Nat
  <2>1. CASE s.phase = "Idle"
    BY <1>4, <2>1 DEF WaitingFloor, Cycles
  <2>2. CASE s.phase = "Descent"
    <3>1. s.lastAcq \in Nat /\ s.start \in Nat
      BY <1>3, <2>2, StateByPhase DEF SoundEscrow, Sound, DescentStates
    <3>2. s.lastAcq >= s.cycle.floor
      BY <2>2 DEF Install
    <3>3. s.cycle.descent \in 0 .. MaxMs
      BY <1>4, ResolvedCycle
    <3>4. DescendingFloor(escrow.active, s.lastAcq, s.start, s.cycle, clock) \in Nat
      BY <1>3, <1>4, <3>1, <3>2, <3>3, DescendingFloorNat
    <3> QED BY <2>2, <3>4 DEF WaitingFloor
  <2> QED BY <1>1, <2>1, <2>2
<1>7. pay \in Nat
  BY <1>5, <1>6
<1>8. NewSeat(pay, a) \in Seats
  BY <1>1, <1>7, NewSeatType
<1>9. /\ TotalDuration(s.cycle.ceiling, n) = s.cycle.ceiling * n
      /\ TotalDuration(s.cycle.handover, n) = s.cycle.handover * n
      /\ s.cycle.ceiling * n \in Nat /\ s.cycle.handover * n \in Nat
  <2>1. \A p \in Nat : p * n \in Nat /\ (p * n) \div 1 = p * n
    BY <1>5
  <2>2. s.cycle.ceiling \in Nat /\ s.cycle.handover \in Nat
    BY <1>4 DEF Cycles
  <2> QED BY <2>1, <2>2 DEF TotalDuration, MulDiv
<1>10. terms \in Terms
  BY <1>3, <1>8, <1>9 DEF Terms
<1>11. /\ z \in OccupiedStates
       /\ z.phase = "Occupied" /\ z.cycle = s.cycle /\ z.terms = terms
  BY <1>4, <1>10 DEF Occupied, OccupiedStates
<1>12. y \in Escrows /\ y.state = z /\ y.active = escrow.active
  BY <1>3, <1>11 DEF SoundEscrow, Escrows, States, RentingStates
<1>13. Sound(escrow.active, z, clock)
  BY <1>3, <1>4, <1>9, <1>11 DEF Sound, Renting, RentingStates
<1>14. SoundEscrow(y, clock)
  BY <1>12, <1>13 DEF SoundEscrow
<1>15. books \in [Caps -> Entries] /\ n \in Nat
  BY <1>5 DEF IInv, TypeOK
<1> QED BY <1>1, <1>2, <1>7, <1>14, <1>15, MintStep

LEMMA BidPriceNat ==
  ASSUME NEW e \in Ensembles, NEW stake \in Nat, NEW count \in Tenures,
         NEW n \in Tenures, NEW over \in Overpay
  PROVE  AscendingFloor(e, StakePerTenure(stake, count)) * n + over \in Nat
<1>1. n \in Nat /\ over \in Nat /\ count \in Nat \ {0}
  BY TenuresAssumption, BoundsAssumption
<1>2. StakePerTenure(stake, count) \in Nat
  BY <1>1, MulDivNat DEF StakePerTenure
<1>3. AscendingFloor(e, StakePerTenure(stake, count)) \in Nat
  BY <1>2, AscendingFloorNat
<1> QED BY <1>1, <1>3

LEMMA PlaceBidInv ==
  ASSUME IInv, NEW n \in Tenures, NEW over \in Overpay, NEW a \in Addresses,
         PlaceBid(n, over, a)
  PROVE  IInv'
<1> DEFINE s == escrow.state
           terms == s.terms
           pay == AscendingFloor(escrow.active,
                    StakePerTenure(terms.seat.stake, terms.tenures)) * n + over
           bid == [ seat |-> NewSeat(pay, a),
                    expiry |-> Least(clock + terms.handover, TenureEnd(terms)),
                    tenures |-> n ]
           z == Demand(s.cycle, terms, bid)
           y == [escrow EXCEPT !.state = z]
<1>1. /\ s.phase = "Occupied" /\ minted < MaxCaps /\ escrow' = y
      /\ Mint(pay, n, Challenged(terms.seat.cap))
  BY DEF PlaceBid, Mint
<1>2. Live(escrow)
  BY <1>1 DEF Live
<1>3. SoundEscrow(escrow, clock) /\ clock \in Nat
  BY <1>2, LiveIsSound
<1>4. s.cycle \in Cycles /\ terms \in Terms /\ escrow.active \in Ensembles
  BY <1>1, <1>3, StateByPhase DEF SoundEscrow, Sound, OccupiedStates, Escrows
<1>5. /\ terms.start \in Nat /\ terms.ceiling \in Nat /\ terms.handover \in Nat
      /\ terms.tenures \in Tenures /\ terms.seat.stake \in Nat /\ terms.seat.cap \in Caps
  BY <1>4 DEF Terms, Seats
<1>6. pay \in Nat
  BY <1>4, <1>5, BidPriceNat
<1>7. NewSeat(pay, a) \in Seats
  BY <1>1, <1>6, NewSeatType
<1>8. /\ s.cycle = ResolveCycle(escrow.active)
      /\ terms.ceiling = s.cycle.ceiling * terms.tenures
      /\ terms.handover = s.cycle.handover * terms.tenures
      /\ terms.start <= clock
  BY <1>1, <1>3 DEF SoundEscrow, Sound, Retired, Renting
<1>9. bid.expiry \in terms.start .. TenureEnd(terms)
  BY <1>3, <1>5, <1>8 DEF Least, TenureEnd
<1>10. bid \in Bids
  <2>1. bid.expiry \in Nat
    BY <1>3, <1>5 DEF Least, TenureEnd
  <2> QED BY <1>7, <2>1 DEF Bids
<1>11. /\ z \in DemandStates
       /\ z.phase = "Demand" /\ z.cycle = s.cycle /\ z.terms = terms /\ z.bid = bid
  BY <1>4, <1>10 DEF Demand, DemandStates
<1>12. y \in Escrows /\ y.state = z /\ y.active = escrow.active
  BY <1>3, <1>11 DEF SoundEscrow, Escrows, States, RentingStates
<1>13. Sound(escrow.active, z, clock)
  BY <1>8, <1>9, <1>11 DEF Sound, Renting, RentingStates
<1>14. SoundEscrow(y, clock)
  BY <1>12, <1>13 DEF SoundEscrow
<1>15. Challenged(terms.seat.cap) \in [Caps -> Entries] /\ n \in Nat
  BY <1>5, TenuresAssumption, ChallengedType
<1> QED BY <1>1, <1>2, <1>6, <1>14, <1>15, MintStep

LEMMA SupersedeInv ==
  ASSUME IInv, NEW n \in Tenures, NEW over \in Overpay, NEW a \in Addresses,
         Supersede(n, over, a)
  PROVE  IInv'
<1> DEFINE bid == escrow.state.bid
           pay == AscendingFloor(escrow.active,
                    StakePerTenure(bid.seat.stake, bid.tenures)) * n + over
           b == Enter(books, bid.seat.cap, 0, bid.seat.stake)
           y == [escrow EXCEPT !.state.bid.seat = NewSeat(pay, a)]
<1>1. escrow.state.phase = "Demand" /\ minted < MaxCaps /\ Mint(pay, n, b) /\ escrow' = y
  BY DEF Supersede, Mint
<1>2. Live(escrow)
  BY <1>1 DEF Live
<1>3. SoundEscrow(escrow, clock)
  BY <1>2, LiveIsSound
<1>4. bid \in Bids /\ escrow.active \in Ensembles
  BY <1>1, <1>3, StateByPhase DEF SoundEscrow, Sound, DemandStates, Escrows
<1>5. bid.tenures \in Tenures /\ bid.seat.stake \in Nat /\ bid.seat.cap \in Caps
  BY <1>4 DEF Bids, Seats
<1>6. pay \in Nat
  BY <1>4, <1>5, BidPriceNat
<1>7. NewSeat(pay, a) \in Seats
  BY <1>1, <1>6, NewSeatType
<1>8. SoundEscrow(y, clock)
  BY <1>1, <1>3, <1>7, BidSeatStep
<1>9. books \in [Caps -> Entries] /\ n \in Nat
  BY TenuresAssumption DEF IInv, TypeOK
<1>10. b \in [Caps -> Entries]
  BY <1>5, <1>9, EnterType
<1> QED BY <1>1, <1>2, <1>6, <1>8, <1>9, <1>10, MintStep

LEMMA StutterInv == IInv /\ UNCHANGED vars => IInv'
BY DEF IInv, TypeOK, Held, vars, Sound

(* Every step preserves the invariant.                                       *)
LEMMA NextInv == IInv /\ [Next]_vars => IInv'
<1> SUFFICES ASSUME IInv, [Next]_vars PROVE IInv'
  OBVIOUS
<1>1. CASE Tick
  BY <1>1, TickInv
<1>2. CASE Rent
  BY <1>2, InstallInv, PlaceBidInv, SupersedeInv DEF Rent
<1>3. CASE Apply
  BY <1>3, ApplyInv
<1>4. CASE ReturnAsset
  BY <1>4, ReturnAssetInv
<1>5. CASE CapHolder
  BY <1>5, BorrowAssetInv, BurnStaleCapInv, UpdateRefundAddressInv DEF CapHolder
<1>6. CASE Governor
  BY <1>6, RetireInv, ClaimAssetInv, ExtendRetireCommitmentInv,
     ExtendEnsembleCommitmentInv, UpdateEnsembleInv DEF Governor
<1>7. CASE UNCHANGED vars
  BY <1>7, StutterInv
<1> QED BY <1>1, <1>2, <1>3, <1>4, <1>5, <1>6, <1>7 DEF Next

(* The invariant of the steps of `packages/sim/src/sim/actions` holds in     *)
(* every reachable state.                                                    *)
THEOREM Invariance == Spec => []IInv
BY InitInv, NextInv, PTL DEF Spec

(* Every reachable state is well typed: in particular no settlement pays a   *)
(* negative share or refund, at any price, schedule, curve or tenure count.  *)
THEOREM TypeCorrect == Spec => []TypeOK
<1>1. IInv => TypeOK
  BY DEF IInv
<1> QED BY <1>1, Invariance, PTL

(* The schedule a tenant sits under is its tenure count times the cycle of   *)
(* the active ensemble, after any number of handovers.                       *)
THEOREM TermsStayInForce == Spec => []TermsInForce
<1>1. IInv => TermsInForce
  BY DEF IInv, TermsInForce, Sound, Retired, Claimed, Renting
<1> QED BY <1>1, Invariance, PTL

(* No challenger takes over before the tenure began or after it ends.        *)
THEOREM HandoverStaysWithinTenure == Spec => []HandoverWithinTenure
<1>1. IInv => HandoverWithinTenure
  BY DEF IInv, HandoverWithinTenure, Sound, Claimed
<1> QED BY <1>1, Invariance, PTL
=============================================================================
