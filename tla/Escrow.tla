------------------------------- MODULE Escrow -------------------------------
(***************************************************************************)
(* The escrow state machine of the off-chain mirror: every `Action.step`   *)
(* under packages/sim/src/sim/actions, over one escrow.                    *)
(*                                                                         *)
(* An escrow rents one asset.  It is Idle (for hire at the floor),         *)
(* Occupied (a tenant holds the seat), in Demand (a tenant sits and a      *)
(* challenger waits out the handover window), in Descent (a Dutch auction  *)
(* after a tenure ran out) or Retired.  While the asset is on loan inside  *)
(* a borrow bracket the state slot is empty and the receipt holds the      *)
(* renting state.                                                          *)
(*                                                                         *)
(* Nothing moves by itself: a boundary that has passed is only acted on    *)
(* when a step settles it, so the machine runs behind the clock.           *)
(***************************************************************************)
EXTENDS Integers

CONSTANTS
  Ensembles,   \* the policy bundles a governor may configure
  Shapes,      \* the credit and auction curves an ensemble names
  Height,      \* Height[shape][elapsed][duration]: the curve strictly inside its window
  Scale,       \* the height of a completed curve (SCALE)
  Tenures,     \* tenure counts a renter may ask for
  Overpay,     \* amounts a renter may add to the price asked
  Addresses,   \* refund addresses
  Delays,      \* commitment floors, in clock units; 0 stands for the Immediate policy
  None,        \* no ensemble scheduled, no cap
  MaxCaps,     \* bound: rents (each mints one cap)
  MaxTime,     \* bound: the clock
  MaxStake,    \* bound: the stake of one rent
  MaxUnlock,   \* bound: how far a commitment is extended
  MaxMs        \* bound: durations, the domain of Height

Bps == 10000
FeeBps == 1000
Caps == 1 .. MaxCaps
Times == 0 .. MaxTime

(***************************************************************************)
(* An ensemble is the record of policies the steps read.  A fixed price    *)
(* step is the compound one with bps = 0.                                  *)
(***************************************************************************)
Policies ==
  [ restPrice : Nat, tenureMs : 1 .. MaxMs,
    handover  : [kind : {"off", "fullTenure", "fixed"}, ms : 0 .. MaxMs],
    descent   : [kind : {"off", "fixed"}, ms : 0 .. MaxMs],
    creditShape : Shapes, auctionShape : Shapes,
    bps : Nat, delta : Nat,
    multi : BOOLEAN ]   \* tenure_extend: more than one tenure may be bought

ASSUME EnsemblesAssumption == Ensembles \subseteq Policies /\ None \notin Ensembles
ASSUME TenuresAssumption == Tenures \subseteq Nat \ {0}
ASSUME BoundsAssumption ==
  /\ Scale \in Nat \ {0} /\ MaxMs \in Nat /\ MaxCaps \in Nat /\ MaxTime \in Nat
  /\ MaxStake \in Nat /\ MaxUnlock \in Nat
  /\ Delays \subseteq Nat /\ Overpay \subseteq Nat /\ None \notin Caps
  /\ \A e \in Ensembles, n \in Tenures : e.tenureMs * n <= MaxMs
ASSUME HeightAssumption == Height \in [Shapes -> [1 .. MaxMs -> [1 .. MaxMs -> 0 .. Scale]]]

VARIABLES
  clock,    \* the `t` every step is given
  escrow,   \* the decoded escrow: asset state and core
  receipt,  \* the renting state a borrow bracket carries, None outside one
  minted,   \* caps minted so far: 1 .. minted
  burned,   \* caps consumed by burn
  books     \* what each cap paid in, what settlements paid out for it, and
            \* when its seat was first bid against

vars == <<clock, escrow, receipt, minted, burned, books>>

-----------------------------------------------------------------------------
(* The pricing, credit and duration arithmetic the steps call. *)

MulDiv(a, b, c) == (a * b) \div c
Least(a, b) == IF a < b THEN a ELSE b
Elapsed(now, start) == IF now >= start THEN now - start ELSE 0

CurveHeight(shape, elapsed, dur) ==
  IF elapsed = 0 THEN 0
  ELSE IF elapsed >= dur THEN Scale
  ELSE Height[shape][elapsed][dur]

Fee(amount) == MulDiv(amount, FeeBps, Bps)

AscendingFloor(e, price) == MulDiv(price, Bps + e.bps, Bps) + e.delta
StakePerTenure(stake, count) == MulDiv(stake, 1, count)
TotalDuration(ms, count) == MulDiv(ms, count, 1)
RescaledDuration(ms, from, to) == MulDiv(ms, to, from)

DescendingFloor(e, lastAcq, start, cycle, now) ==
  lastAcq - MulDiv(lastAcq - cycle.floor,
                   CurveHeight(e.auctionShape, Elapsed(now, start), cycle.descent), Scale)

UsedCredit(e, stake, start, total, now) ==
  MulDiv(stake, CurveHeight(e.creditShape, Elapsed(now, start), total), Scale)

ResolveCycle(e) ==
  [ floor    |-> e.restPrice,
    ceiling  |-> e.tenureMs,
    handover |-> IF e.handover.kind = "off" THEN 0
                 ELSE IF e.handover.kind = "fullTenure" THEN e.tenureMs
                 ELSE e.handover.ms,
    descent  |-> IF e.descent.kind = "off" THEN 0 ELSE e.descent.ms ]

-----------------------------------------------------------------------------
(* The variants of the asset state. *)

Borrowed == [phase |-> "Borrowed"]   \* the state slot is null
Claimed  == [phase |-> "Claimed"]    \* the escrow object is gone
Retired  == [phase |-> "Retired"]
Idle(cycle) == [phase |-> "Idle", cycle |-> cycle]
Descent(cycle, lastAcq, start) ==
  [phase |-> "Descent", cycle |-> cycle, lastAcq |-> lastAcq, start |-> start]
Occupied(cycle, terms) == [phase |-> "Occupied", cycle |-> cycle, terms |-> terms]
Demand(cycle, terms, bid) ==
  [phase |-> "Demand", cycle |-> cycle, terms |-> terms, bid |-> bid]

Renting(s) == s.phase \in {"Occupied", "Demand"}
Live(x) == x.state.phase \notin {"Borrowed", "Claimed"}
NotRetired(x) == Live(x) /\ x.state.phase # "Retired"
TenureEnd(terms) == terms.start + terms.ceiling

-----------------------------------------------------------------------------
(* apply_pending_transition_states: handover, then tenure expiry, then      *)
(* auction expiry, each at the boundary that was crossed and not at t.      *)

HandoverDue(x, t) == x.state.phase = "Demand" /\ t >= x.state.bid.expiry

(* Slips: the new tenancy starts when somebody settles, or forgets a retire  *)
(* begun under the departing tenant.                                         *)
StepHandoverFrom(x, start, retiring) ==
  LET terms == x.state.terms
      bid   == x.state.bid
  IN  [x EXCEPT !.state = Occupied(x.state.cycle,
        [ start    |-> start,
          ceiling  |-> RescaledDuration(terms.ceiling, terms.tenures, bid.tenures),
          handover |-> RescaledDuration(terms.handover, terms.tenures, bid.tenures),
          tenures  |-> bid.tenures, seat |-> bid.seat, retiring |-> retiring ])]
StepHandoverAtCall(x, t) ==
  IF ~HandoverDue(x, t) THEN x ELSE StepHandoverFrom(x, t, x.state.terms.retiring)
StepHandoverForgetsRetire(x, t) ==
  IF ~HandoverDue(x, t) THEN x ELSE StepHandoverFrom(x, x.state.bid.expiry, FALSE)

StepHandover(x, t) ==
  IF ~HandoverDue(x, t) THEN x
  ELSE LET terms == x.state.terms
           bid   == x.state.bid
       IN  [x EXCEPT !.state = Occupied(x.state.cycle,
             [ start    |-> bid.expiry,
               ceiling  |-> RescaledDuration(terms.ceiling, terms.tenures, bid.tenures),
               handover |-> RescaledDuration(terms.handover, terms.tenures, bid.tenures),
               tenures  |-> bid.tenures,
               seat     |-> bid.seat,
               retiring |-> terms.retiring ])]

TenureExpiryDue(x, t) == x.state.phase = "Occupied" /\ t >= TenureEnd(x.state.terms)

StepTenureExpiry(x, t) ==
  IF ~TenureExpiryDue(x, t) THEN x
  ELSE LET terms == x.state.terms
       IN  IF terms.retiring
           THEN [x EXCEPT !.state = Retired, !.pending = None]
           ELSE [x EXCEPT !.state = Descent(x.state.cycle,
                                            terms.seat.stake \div terms.tenures,
                                            TenureEnd(terms))]

AuctionExpiryDue(x, t) ==
  x.state.phase = "Descent" /\ t >= x.state.start + x.state.cycle.descent

(* A slip: the scheduled ensemble is adopted, its cycle is not resolved.     *)
StepAuctionExpiryKeepsCycle(x, t) ==
  IF ~AuctionExpiryDue(x, t) THEN x
  ELSE IF x.pending = None THEN [x EXCEPT !.state = Idle(x.state.cycle)]
  ELSE [x EXCEPT !.state = Idle(x.state.cycle), !.active = x.pending, !.pending = None]

StepAuctionExpiry(x, t) ==
  IF ~AuctionExpiryDue(x, t) THEN x
  ELSE IF x.pending = None
       THEN [x EXCEPT !.state = Idle(x.state.cycle)]
       ELSE [x EXCEPT !.state = Idle(ResolveCycle(x.pending)),
                      !.active = x.pending, !.pending = None]

Settle(x, t) == StepAuctionExpiry(StepTenureExpiry(StepHandover(x, t), t), t)

(***************************************************************************)
(* The settlements `apply` reports, entered in the books of the cap whose  *)
(* stake they consume: the handover's used credit and refund, the whole    *)
(* stake at a tenure's expiry.  A cap paid out has no notice left to wait. *)
(***************************************************************************)
Enter(b, cap, used, refund) ==
  [b EXCEPT ![cap].fee = @ + Fee(used),
            ![cap].governor = @ + (used - Fee(used)),
            ![cap].refund = @ + refund,
            ![cap].challenged = 0]

EnterHandover(b, x, t) ==
  IF ~HandoverDue(x, t) THEN b
  ELSE LET terms == x.state.terms
           used  == UsedCredit(x.active, terms.seat.stake, terms.start,
                               terms.ceiling, x.state.bid.expiry)
       IN  Enter(b, terms.seat.cap, used, terms.seat.stake - used)

(* A slip: one tenure's share of the stake is settled, not the whole.        *)
EnterOneTenure(b, x, t) ==
  IF ~TenureExpiryDue(x, t) THEN b
  ELSE LET terms == x.state.terms
       IN  Enter(b, terms.seat.cap, StakePerTenure(terms.seat.stake, terms.tenures), 0)

EnterTenureExpiry(b, x, t) ==
  IF ~TenureExpiryDue(x, t) THEN b
  ELSE Enter(b, x.state.terms.seat.cap, x.state.terms.seat.stake, 0)

SettleBooks(b, x, t) == EnterTenureExpiry(EnterHandover(b, x, t), StepHandover(x, t), t)

-----------------------------------------------------------------------------
(* integrate: one escrow, idle at its first ensemble, both commitments       *)
(* anchored at the time of the call.                                         *)

Integrated(e, retireFloor, ensembleFloor, t) ==
  [ state |-> Idle(ResolveCycle(e)), active |-> e, pending |-> None,
    retireLock   |-> [anchor |-> t, floor |-> retireFloor],
    ensembleLock |-> [anchor |-> t, floor |-> ensembleFloor] ]

NoEntry == [paid |-> 0, tenures |-> 0, governor |-> 0, fee |-> 0, refund |-> 0, challenged |-> 0]

Init ==
  /\ clock = 0
  /\ \E e \in Ensembles, r \in Delays, u \in Delays : escrow = Integrated(e, r, u, 0)
  /\ receipt = None
  /\ minted = 0
  /\ burned = {}
  /\ books = [c \in Caps |-> NoEntry]

Tick ==
  /\ clock < MaxTime
  /\ clock' = clock + 1
  /\ UNCHANGED <<escrow, receipt, minted, burned, books>>

-----------------------------------------------------------------------------
(* rent, by the branch the stored state selects.  It reads the state as it   *)
(* is stored: no boundary is settled first.                                  *)

Mint(pay, n, b) ==
  /\ minted < MaxCaps
  /\ pay <= MaxStake
  /\ minted' = minted + 1
  /\ books' = [b EXCEPT ![minted + 1] = [NoEntry EXCEPT !.paid = pay, !.tenures = n]]
  /\ UNCHANGED <<clock, receipt, burned>>

NewSeat(pay, a) == [cap |-> minted + 1, addr |-> a, stake |-> pay]

WaitingFloor(x, t) ==
  IF x.state.phase = "Idle" THEN x.state.cycle.floor
  ELSE DescendingFloor(x.active, x.state.lastAcq, x.state.start, x.state.cycle, t)

Install(n, over, a) ==
  LET s   == escrow.state
      pay == WaitingFloor(escrow, clock) * n + over
  IN  /\ s.phase \in {"Idle", "Descent"}
      /\ s.phase = "Descent" => s.lastAcq >= s.cycle.floor
      /\ Mint(pay, n, books)
      /\ escrow' = [escrow EXCEPT !.state = Occupied(s.cycle,
           [ start    |-> clock,
             ceiling  |-> TotalDuration(s.cycle.ceiling, n),
             handover |-> TotalDuration(s.cycle.handover, n),
             tenures  |-> n,
             seat     |-> NewSeat(pay, a),
             retiring |-> FALSE ])]

(* The tenant's notice runs from here: the first bid against its cap.        *)
Challenged(cap) == [books EXCEPT ![cap].challenged = clock]

(* Slips: the handover window is not cut at the end of the tenure, or is     *)
(* counted from the tenancy's start.                                         *)
PlaceBidUntil(n, over, a, expiry) ==
  LET s   == escrow.state
      pay == AscendingFloor(escrow.active,
               StakePerTenure(s.terms.seat.stake, s.terms.tenures)) * n + over
  IN  /\ s.phase = "Occupied"
      /\ ~s.terms.retiring
      /\ Mint(pay, n, Challenged(s.terms.seat.cap))
      /\ escrow' = [escrow EXCEPT !.state = Demand(s.cycle, s.terms,
           [seat |-> NewSeat(pay, a), expiry |-> expiry, tenures |-> n])]
PlaceBidUncapped(n, over, a) ==
  PlaceBidUntil(n, over, a, clock + escrow.state.terms.handover)
PlaceBidFromStart(n, over, a) ==
  PlaceBidUntil(n, over, a, Least(escrow.state.terms.start + escrow.state.terms.handover,
                                  TenureEnd(escrow.state.terms)))

PlaceBid(n, over, a) ==
  LET s     == escrow.state
      terms == s.terms
      floor == AscendingFloor(escrow.active, StakePerTenure(terms.seat.stake, terms.tenures))
      pay   == floor * n + over
  IN  /\ s.phase = "Occupied"
      /\ ~terms.retiring
      /\ Mint(pay, n, Challenged(terms.seat.cap))
      /\ escrow' = [escrow EXCEPT !.state = Demand(s.cycle, terms,
           [ seat    |-> NewSeat(pay, a),
             expiry  |-> Least(clock + terms.handover, TenureEnd(terms)),
             tenures |-> n ])]

(***************************************************************************)
(* The payment is checked for the new tenure count, and only the seat is   *)
(* replaced: the first bid's count and expiry stay.  The displaced stake   *)
(* is entered as refunded; the step itself does not report it.             *)
(***************************************************************************)
Supersede(n, over, a) ==
  LET s     == escrow.state
      bid   == s.bid
      floor == AscendingFloor(escrow.active, StakePerTenure(bid.seat.stake, bid.tenures))
      pay   == floor * n + over
  IN  /\ s.phase = "Demand"
      /\ Mint(pay, n, Enter(books, bid.seat.cap, 0, bid.seat.stake))
      /\ escrow' = [escrow EXCEPT !.state.bid.seat = NewSeat(pay, a)]

Rent ==
  \E n \in Tenures, over \in Overpay, a \in Addresses :
    Install(n, over, a) \/ PlaceBid(n, over, a) \/ Supersede(n, over, a)

-----------------------------------------------------------------------------
(* The steps that settle first.  A step that throws changes nothing.         *)

Settling(x) ==
  /\ Live(escrow)
  /\ escrow' = x
  /\ books' = SettleBooks(books, escrow, clock)
  /\ UNCHANGED <<clock, minted>>

Apply ==
  /\ Settling(Settle(escrow, clock))
  /\ UNCHANGED <<receipt, burned>>

UnlocksAt(lock) == lock.anchor + lock.floor

(* Slips: the scheduled ensemble survives the retire; the commitment's floor *)
(* is forgotten; a Demand is rebuilt as an Occupied.                         *)
RetireAs(x, pending, opens, renting) ==
  /\ NotRetired(x)
  /\ clock >= opens
  /\ Renting(x.state) => ~x.state.terms.retiring
  /\ Settling(IF Renting(x.state) THEN [x EXCEPT !.state = renting, !.pending = pending]
              ELSE [x EXCEPT !.state = Retired, !.pending = pending])
  /\ UNCHANGED <<receipt, burned>>
RetireKeepsPending ==
  LET x == Settle(escrow, clock)
  IN  RetireAs(x, x.pending, UnlocksAt(x.retireLock), [x.state EXCEPT !.terms.retiring = TRUE])
RetireFromAnchor ==
  LET x == Settle(escrow, clock)
  IN  RetireAs(x, None, x.retireLock.anchor, [x.state EXCEPT !.terms.retiring = TRUE])
RetireDropsChallenger ==
  LET x == Settle(escrow, clock)
  IN  RetireAs(x, None, UnlocksAt(x.retireLock),
               Occupied(x.state.cycle, [x.state.terms EXCEPT !.retiring = TRUE]))

Retire ==
  LET x == Settle(escrow, clock)
  IN  /\ NotRetired(x)
      /\ clock >= UnlocksAt(x.retireLock)
      /\ Renting(x.state) => ~x.state.terms.retiring
      /\ Settling(IF Renting(x.state)
                  THEN [x EXCEPT !.state.terms.retiring = TRUE, !.pending = None]
                  ELSE [x EXCEPT !.state = Retired, !.pending = None])
      /\ UNCHANGED <<receipt, burned>>

ClaimAsset ==
  LET x == Settle(escrow, clock)
  IN  /\ x.state.phase = "Retired"
      /\ Settling([x EXCEPT !.state = Claimed])
      /\ UNCHANGED <<receipt, burned>>

BorrowAsset(c) ==
  LET x == Settle(escrow, clock)
  IN  /\ Renting(x.state)
      /\ x.state.terms.seat.cap = c
      /\ receipt' = x.state
      /\ Settling([x EXCEPT !.state = Borrowed])
      /\ UNCHANGED burned

(* A slip: the receipt outlives the bracket.                                 *)
ReturnKeepsReceipt ==
  /\ escrow.state = Borrowed
  /\ escrow' = [escrow EXCEPT !.state = receipt]
  /\ UNCHANGED <<clock, receipt, minted, burned, books>>

(* The bracket's own receipt comes back.  The step checks only the empty     *)
(* slot and the receipt's escrow id (borrow.ts:95-127): a receipt kept from  *)
(* an earlier bracket would pass too, and no caller here keeps one.          *)
ReturnAsset ==
  /\ escrow.state = Borrowed
  /\ escrow' = [escrow EXCEPT !.state = receipt]
  /\ receipt' = None
  /\ UNCHANGED <<clock, minted, burned, books>>

ExtendLock(lock, d) == [anchor |-> UnlocksAt(lock), floor |-> d]

ExtendRetireCommitment(d) ==
  LET x == Settle(escrow, clock)
  IN  /\ NotRetired(x)
      /\ d > 0
      /\ UnlocksAt(x.retireLock) + d <= MaxUnlock
      /\ Settling([x EXCEPT !.retireLock = ExtendLock(x.retireLock, d)])
      /\ UNCHANGED <<receipt, burned>>

ExtendEnsembleCommitment(d) ==
  LET x == Settle(escrow, clock)
  IN  /\ NotRetired(x)
      /\ d > 0
      /\ UnlocksAt(x.ensembleLock) + d <= MaxUnlock
      /\ Settling([x EXCEPT !.ensembleLock = ExtendLock(x.ensembleLock, d)])
      /\ UNCHANGED <<receipt, burned>>

(* A slip: the new ensemble is adopted under a sitting tenant.               *)
UpdateEnsembleAtOnce(e) ==
  LET x == Settle(escrow, clock)
  IN  /\ clock >= UnlocksAt(escrow.ensembleLock)
      /\ NotRetired(x)
      /\ Renting(x.state) => ~x.state.terms.retiring
      /\ Settling([x EXCEPT !.active = e, !.pending = None])
      /\ UNCHANGED <<receipt, burned>>

UpdateEnsemble(e) ==
  LET x == Settle(escrow, clock)
  IN  /\ clock >= UnlocksAt(escrow.ensembleLock)
      /\ NotRetired(x)
      /\ Renting(x.state) => ~x.state.terms.retiring
      /\ Settling(IF x.state.phase = "Idle"
                  THEN [x EXCEPT !.state = Idle(ResolveCycle(e)),
                                 !.active = e, !.pending = None]
                  ELSE [x EXCEPT !.pending = e])
      /\ UNCHANGED <<receipt, burned>>

UpdateRefundAddress(c, a) ==
  LET x == Settle(escrow, clock)
  IN  /\ \/ /\ Renting(x.state) /\ x.state.terms.seat.cap = c
            /\ Settling([x EXCEPT !.state.terms.seat.addr = a])
         \/ /\ x.state.phase = "Demand" /\ x.state.bid.seat.cap = c
            /\ Settling([x EXCEPT !.state.bid.seat.addr = a])
      /\ UNCHANGED <<receipt, burned>>

(* The caps the asset state seats: the active one, and the challenger.       *)
Seated(s) ==
  IF s.phase = "Demand" THEN {s.terms.seat.cap, s.bid.seat.cap}
  ELSE IF s.phase = "Occupied" THEN {s.terms.seat.cap} ELSE {}

(* A slip: a challenger's cap passes for stale.                              *)
BurnUnlessActive(c) ==
  LET x == Settle(escrow, clock)
  IN  /\ Renting(x.state) => x.state.terms.seat.cap # c
      /\ Settling(x)
      /\ burned' = burned \cup {c}
      /\ UNCHANGED receipt

BurnStaleCap(c) ==
  LET x == Settle(escrow, clock)
  IN  /\ c \notin Seated(x.state)
      /\ Settling(x)
      /\ burned' = burned \cup {c}
      /\ UNCHANGED receipt

CapHolder ==
  \E c \in (1 .. minted) \ burned :
    BorrowAsset(c) \/ BurnStaleCap(c) \/ (\E a \in Addresses : UpdateRefundAddress(c, a))

Governor ==
  \/ Retire
  \/ ClaimAsset
  \/ \E d \in Delays : ExtendRetireCommitment(d) \/ ExtendEnsembleCommitment(d)
  \/ \E e \in Ensembles : UpdateEnsemble(e)

Next == Tick \/ Rent \/ Apply \/ ReturnAsset \/ CapHolder \/ Governor

Spec == Init /\ [][Next]_vars

-----------------------------------------------------------------------------
(* What the machine promises.  A borrow bracket does not unseat anyone, so   *)
(* the properties look through it at the renting state the receipt holds.    *)

Held == IF escrow.state = Borrowed THEN receipt ELSE escrow.state

ActiveCap  == IF Renting(Held) THEN Held.terms.seat.cap ELSE None
PendingCap == IF Held.phase = "Demand" THEN Held.bid.seat.cap ELSE None
RetireBegun == IF Renting(Held) THEN Held.terms.retiring
               ELSE Held.phase \in {"Retired", "Claimed"}

Cycles == [floor : Nat, ceiling : Nat, handover : Nat, descent : Nat]
Seats == [cap : Caps, addr : Addresses, stake : Nat]
Terms == [start : Nat, ceiling : Nat, handover : Nat, tenures : Tenures,
          seat : Seats, retiring : BOOLEAN]
Bids == [seat : Seats, expiry : Nat, tenures : Tenures]
OccupiedStates == [phase : {"Occupied"}, cycle : Cycles, terms : Terms]
DemandStates == [phase : {"Demand"}, cycle : Cycles, terms : Terms, bid : Bids]
IdleStates == [phase : {"Idle"}, cycle : Cycles]
DescentStates == [phase : {"Descent"}, cycle : Cycles, lastAcq : Nat, start : Nat]
RentingStates == OccupiedStates \cup DemandStates
WaitingStates == IdleStates \cup DescentStates \cup {Retired}
ASSUME NoneAssumption == None \notin RentingStates
States == RentingStates \cup WaitingStates \cup {Borrowed, Claimed}
Locks == [anchor : Nat, floor : Nat]
Escrows == [state : States, active : Ensembles, pending : Ensembles \cup {None},
            retireLock : Locks, ensembleLock : Locks]
Entries == [paid : Nat, tenures : Nat, governor : Nat, fee : Nat, refund : Nat,
            challenged : Nat]

(* Every variable has its type; in particular no settlement pays out a       *)
(* negative share or refund, and the receipt is held exactly when the state  *)
(* slot is empty (`borrowAsset.step`, `returnAsset.step`).                   *)
TypeOK ==
  /\ clock \in Times
  /\ escrow \in Escrows
  /\ receipt \in RentingStates \cup {None}
  /\ (receipt = None) <=> (escrow.state # Borrowed)
  /\ minted \in 0 .. MaxCaps
  /\ burned \subseteq Caps
  /\ books \in [Caps -> Entries]

(* Every mist a renter pays is either still the stake of that renter's seat  *)
(* or has left exactly once, as governor share, fee and refund -- through    *)
(* supersedes, handovers and chains of transitions settled in one `apply`.   *)
BooksBalance ==
  \A c \in 1 .. minted :
    LET b == books[c] IN
    /\ b.governor + b.fee + b.refund = IF c \in Seated(Held) THEN 0 ELSE b.paid
    /\ Renting(Held) /\ Held.terms.seat.cap = c => Held.terms.seat.stake = b.paid
    /\ Held.phase = "Demand" /\ Held.bid.seat.cap = c => Held.bid.seat.stake = b.paid

(* The cycle in force is the one the active ensemble resolves to, whatever   *)
(* was scheduled or adopted since, and the schedule of a seat is exactly its *)
(* tenure count times that cycle, however often handovers rescaled it        *)
(* (`rescaledDuration` truncates).                                           *)
TermsInForce ==
  /\ Held.phase \notin {"Retired", "Claimed"} => Held.cycle = ResolveCycle(escrow.active)
  /\ Renting(Held) =>
       /\ Held.terms.ceiling = Held.cycle.ceiling * Held.terms.tenures
       /\ Held.terms.handover = Held.cycle.handover * Held.terms.tenures

(* A scheduled ensemble always has an auction to take effect after: none is  *)
(* left behind in an idle, retiring or retired escrow (`updateEnsemble`,     *)
(* `retire`, and the two expiry steps of `apply` share this duty).           *)
PendingEnsembleWaits ==
  escrow.pending # None => Held.phase \in {"Occupied", "Demand", "Descent"} /\ ~RetireBegun

(* A challenger takes over inside the sitting tenure, never before it began  *)
(* and never after it ends, so settling the handover leaves no gap.          *)
HandoverWithinTenure ==
  Held.phase = "Demand" => Held.bid.expiry \in Held.terms.start .. TenureEnd(Held.terms)

(* A cap burned as stale never holds or awaits a seat again, although the    *)
(* check reads a state that later settlements and returns replace.           *)
BurnedCapsUnseated == burned \cap Seated(Held) = {}

(* Being lazy is unobservable in `apply`: settling now and again later       *)
(* leaves the same escrow and the same books as settling once, later.        *)
LazinessUnobservable ==
  Live(escrow) =>
    \A t1 \in clock .. MaxTime + MaxMs : \A t2 \in t1 .. MaxTime + MaxMs :
      /\ Settle(Settle(escrow, t1), t2) = Settle(escrow, t2)
      /\ SettleBooks(SettleBooks(books, escrow, t1), Settle(escrow, t1), t2)
           = SettleBooks(books, escrow, t2)

(* A seat is lost only at a boundary that has passed: the end of the tenure, *)
(* or the whole handover notice counted from the first bid against the       *)
(* tenant, whoever supersedes, borrows, retires, settles late or updates the *)
(* ensemble in between.                                                      *)
NoEarlyEviction ==
  [][ ActiveCap # None /\ ActiveCap' # ActiveCap =>
        \/ clock >= TenureEnd(Held.terms)
        \/ /\ PendingCap # None
           /\ clock >= books[ActiveCap].challenged + Held.terms.handover ]_vars

(* While a tenant sits, nobody changes the terms it sits under: schedule,    *)
(* cycle, and the ensemble whose curves and price step settle it.            *)
TenantKeepsTerms ==
  [][ ActiveCap # None /\ ActiveCap' = ActiveCap =>
        /\ Held'.cycle = Held.cycle /\ escrow'.active = escrow.active
        /\ \A f \in {"start", "ceiling", "handover", "tenures"} :
             Held'.terms[f] = Held.terms[f]
        /\ Held'.terms.seat.stake = Held.terms.seat.stake ]_vars

(* Commitments bind the governor: no retire begins and no new ensemble is    *)
(* accepted before its lock opens, and no step moves an opening earlier.     *)
CommitmentsHonoured ==
  [][ /\ ~RetireBegun /\ RetireBegun' => clock >= UnlocksAt(escrow.retireLock)
      /\ {escrow'.active, escrow'.pending} \subseteq {escrow.active, escrow.pending, None}
           \/ clock >= UnlocksAt(escrow.ensembleLock)
      /\ UnlocksAt(escrow'.retireLock) >= UnlocksAt(escrow.retireLock)
      /\ UnlocksAt(escrow'.ensembleLock) >= UnlocksAt(escrow.ensembleLock) ]_vars

(* Once a retire has begun it is never undone: not by the challenger who     *)
(* inherits the seat, nor by a borrow bracket that spans it.                 *)
RetireIsFinal == [][RetireBegun => RetireBegun']_vars

(* The escrow implements the abstract tenancy: every step moves the seat as  *)
(* Tenancy allows or leaves it alone, however many boundaries it settles.    *)
Seat == INSTANCE Tenancy WITH
  Cap <- Caps, tenant <- ActiveCap, challenger <- PendingCap,
  issued <- 1 .. minted, retired <- Held.phase \in {"Retired", "Claimed"}

ImplementsTenancy == Seat!SeatSpec

-----------------------------------------------------------------------------
(* What the repository says of the machine and the mirror does not do.       *)

(* curve.ts:250, on the spread an auction consumes: "(last_acq ≥ floor)".    *)
(* It is the price per tenure of the stake that ran out, which a superseding *)
(* bid may have bought for fewer tenures than the seat records.              *)
AuctionStartsAtOrAboveFloor ==
  Held.phase = "Descent" => Held.lastAcq >= Held.cycle.floor

(* errors.ts:94, once a retire has begun: "the asset can no longer be rented *)
(* and will be retired"; errors.ts:130: "multi-tenure is off — rent a single *)
(* tenure"; faq.md:17: a lapsed transition is materialized by                *)
(* "applyPendingTransitionStates().send() (or any write)", and rent is one.  *)
(* So a rent on a retiring escrow, for more tenures than its ensemble        *)
(* allows, at a boundary it leaves unsettled would be refused three times.   *)
RentRefusals ==
  [][ minted' # minted =>
        ~ /\ RetireBegun
          /\ books'[minted'].tenures > 1 /\ ~escrow.active.multi
          /\ Settle(escrow, clock) # escrow ]_vars
=============================================================================
