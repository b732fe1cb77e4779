--------------------------- MODULE EscrowPromises ---------------------------
(***************************************************************************)
(* What the escrow machine promises its tenants and its governor, proved   *)
(* for every set of ensembles, curve and bound.  `Orderly` is what IInv    *)
(* leaves out: who is seated, and what may be scheduled.  Every step of    *)
(* the machine settles first or leaves the seat alone, so the proofs rest  *)
(* on what a settlement may do, `Outcome`.                                 *)
(***************************************************************************)
EXTENDS EscrowProofs

(* The cap that holds the seat of state s, and whether a retire has begun.   *)
Holder(s) == IF Renting(s) THEN s.terms.seat.cap ELSE None
Begun(s) == IF Renting(s) THEN s.terms.retiring ELSE s.phase \in {"Retired", "Claimed"}

(* The cap that waits for the seat, and whether nobody will sit in it again. *)
Challenger(s) == IF s.phase = "Demand" THEN s.bid.seat.cap ELSE None
Closed(s) == s.phase \in {"Retired", "Claimed"}

(* A boundary at which the tenant of s may lose its seat has passed.         *)
Lapsed(s, t) == IF s.phase = "Demand" THEN t >= s.bid.expiry ELSE t >= TenureEnd(s.terms)

(* The end of the notice of a tenant first bid against at `since`, and what  *)
(* the books b say of the challenger of s: it waits that notice out.         *)
NoticeEnd(terms, since) == Least(since + terms.handover, TenureEnd(terms))
Noticed(b, s) ==
  s.phase = "Demand" =>
    s.bid.expiry >= NoticeEnd(s.terms, b[s.terms.seat.cap].challenged)

(* In state s, with p scheduled, m caps minted and those in b burned: the    *)
(* seated caps were minted and are not burned, a challenger is not the       *)
(* tenant, and what is scheduled can be adopted.                             *)
Orderly(s, p, m, b) ==
  /\ b \subseteq 1 .. m
  /\ Seated(s) \subseteq (1 .. m) \ b
  /\ s.phase = "Demand" => s.bid.seat.cap # s.terms.seat.cap
  /\ p # None => s.phase \in {"Occupied", "Demand", "Descent"} /\ ~Begun(s)

-----------------------------------------------------------------------------
(* What a settlement may do: nothing, seat the challenger, or empty the seat. *)

Succeeds(x, y, t) ==
  /\ x.state.phase = "Demand" /\ t >= x.state.bid.expiry
  /\ y.state.phase = "Occupied"
  /\ y.state.terms.seat = x.state.bid.seat
  /\ y.state.terms.retiring = x.state.terms.retiring
  /\ y.active = x.active /\ y.pending = x.pending

Vacates(x, y, t) ==
  /\ ~Renting(y.state)
  /\ x.state.phase = "Demand" => t >= x.state.bid.expiry
  /\ x.state.phase = "Occupied" => t >= TenureEnd(x.state.terms)
  /\ Begun(y.state) <=> Begun(x.state)
  /\ {y.active, y.pending} \subseteq {x.active, x.pending, None}
  /\ y.pending # None => y.state.phase = "Descent"

Outcome(x, y, t) ==
  /\ y.retireLock = x.retireLock /\ y.ensembleLock = x.ensembleLock
  /\ y = x \/ Succeeds(x, y, t) \/ Vacates(x, y, t)

LEMMA HandoverOutcome ==
  ASSUME NEW x, NEW t \in Nat, SoundEscrow(x, t)
  PROVE  LET y == StepHandover(x, t) IN
         /\ y.retireLock = x.retireLock /\ y.ensembleLock = x.ensembleLock
         /\ y = x \/ Succeeds(x, y, t)
<1>1. CASE ~HandoverDue(x, t)
  BY <1>1 DEF StepHandover
<1>2. CASE HandoverDue(x, t)
  BY <1>2 DEF StepHandover, HandoverDue, SoundEscrow, Escrows, Occupied, Succeeds
<1> QED BY <1>1, <1>2

LEMMA TenureOutcome ==
  ASSUME NEW x, NEW t \in Nat, SoundEscrow(x, t)
  PROVE  LET y == StepTenureExpiry(x, t) IN
         /\ y.retireLock = x.retireLock /\ y.ensembleLock = x.ensembleLock
         /\ \/ y = x
            \/ x.state.phase = "Occupied" /\ Vacates(x, y, t)
<1>1. CASE ~TenureExpiryDue(x, t)
  BY <1>1 DEF StepTenureExpiry
<1>2. CASE TenureExpiryDue(x, t) /\ x.state.terms.retiring
  <2> DEFINE y == [x EXCEPT !.state = Retired, !.pending = None]
  <2>1. StepTenureExpiry(x, t) = y
    BY <1>2 DEF StepTenureExpiry
  <2>2. /\ y.state = Retired /\ y.active = x.active /\ y.pending = None
        /\ y.retireLock = x.retireLock /\ y.ensembleLock = x.ensembleLock
    BY DEF SoundEscrow, Escrows
  <2>3. Vacates(x, y, t)
    BY <1>2, <2>2 DEF TenureExpiryDue, Vacates, Retired, Renting, Begun
  <2> QED BY <1>2, <2>1, <2>2, <2>3 DEF TenureExpiryDue
<1>3. CASE TenureExpiryDue(x, t) /\ ~x.state.terms.retiring
  <2> DEFINE d == Descent(x.state.cycle, x.state.terms.seat.stake \div x.state.terms.tenures,
                          TenureEnd(x.state.terms))
             y == [x EXCEPT !.state = d]
  <2>1. StepTenureExpiry(x, t) = y
    BY <1>3 DEF StepTenureExpiry
  <2>2. /\ y.state = d /\ y.active = x.active /\ y.pending = x.pending
        /\ y.retireLock = x.retireLock /\ y.ensembleLock = x.ensembleLock
    BY DEF SoundEscrow, Escrows
  <2>3. d.phase = "Descent"
    BY DEF Descent
  <2>4. Vacates(x, y, t)
    BY <1>3, <2>2, <2>3 DEF TenureExpiryDue, Vacates, Renting, Begun
  <2> QED BY <1>3, <2>1, <2>2, <2>4 DEF TenureExpiryDue
<1> QED BY <1>1, <1>2, <1>3

LEMMA AuctionOutcome ==
  ASSUME NEW x, NEW t \in Nat, SoundEscrow(x, t)
  PROVE  LET y == StepAuctionExpiry(x, t) IN
         /\ y.retireLock = x.retireLock /\ y.ensembleLock = x.ensembleLock
         /\ \/ y = x
            \/ x.state.phase = "Descent" /\ y.state.phase = "Idle" /\ Vacates(x, y, t)
<1>1. CASE ~AuctionExpiryDue(x, t)
  BY <1>1 DEF StepAuctionExpiry
<1>2. CASE AuctionExpiryDue(x, t)
  <2> DEFINE y == StepAuctionExpiry(x, t)
  <2>1. /\ y.state.phase = "Idle" /\ y.pending = None /\ y.active \in {x.active, x.pending}
        /\ y.retireLock = x.retireLock /\ y.ensembleLock = x.ensembleLock
    BY <1>2 DEF StepAuctionExpiry, SoundEscrow, Escrows, Idle
  <2>2. x.state.phase = "Descent"
    BY <1>2 DEF AuctionExpiryDue
  <2>3. Vacates(x, y, t)
    BY <2>1, <2>2 DEF Vacates, Renting, Begun
  <2> QED BY <2>1, <2>2, <2>3
<1> QED BY <1>1, <1>2

LEMMA SettleOutcome ==
  ASSUME NEW x, NEW t \in Nat, SoundEscrow(x, t)
  PROVE  Outcome(x, Settle(x, t), t)
<1> DEFINE h == StepHandover(x, t)
           e == StepTenureExpiry(h, t)
           y == StepAuctionExpiry(e, t)
<1>1. SoundEscrow(h, t) /\ SoundEscrow(e, t)
  BY HandoverStep, TenureExpiryStep
<1>2. /\ h.retireLock = x.retireLock /\ h.ensembleLock = x.ensembleLock
      /\ h = x \/ Succeeds(x, h, t)
  BY HandoverOutcome
<1>3. /\ e.retireLock = h.retireLock /\ e.ensembleLock = h.ensembleLock
      /\ e = h \/ (h.state.phase = "Occupied" /\ Vacates(h, e, t))
  BY <1>1, TenureOutcome
<1>4. /\ y.retireLock = e.retireLock /\ y.ensembleLock = e.ensembleLock
      /\ y = e \/ (e.state.phase = "Descent" /\ y.state.phase = "Idle" /\ Vacates(e, y, t))
  BY <1>1, AuctionOutcome
<1>5. Outcome(x, e, t)
  BY <1>2, <1>3 DEF Outcome, Succeeds, Vacates, Renting, Begun
<1>6. Outcome(x, y, t)
  BY <1>4, <1>5 DEF Outcome, Succeeds, Vacates, Renting, Begun
<1> QED BY <1>6 DEF Settle

LEMMA RentingTerms ==
  ASSUME NEW x, NEW t, SoundEscrow(x, t), Renting(x.state)
  PROVE  /\ x.state.terms \in Terms
         /\ x.state.phase = "Demand" => x.state.bid \in Bids
         /\ x.state.terms.handover \in Nat
         /\ TenureEnd(x.state.terms) \in Nat
<1>1. x.state.terms \in Terms
  BY StateByPhase DEF SoundEscrow, Sound, Renting, OccupiedStates, DemandStates
<1>2. x.state.phase = "Demand" => x.state.bid \in Bids
  BY StateByPhase DEF SoundEscrow, Sound, DemandStates
<1>3. /\ x.state.terms.start \in Nat /\ x.state.terms.ceiling \in Nat
      /\ x.state.terms.handover \in Nat
  BY <1>1 DEF Terms
<1> QED BY <1>1, <1>2, <1>3 DEF TenureEnd

(* A challenger still in line after settling means that nothing was due.     *)
LEMMA StillInLine ==
  ASSUME NEW x, NEW t \in Nat, SoundEscrow(x, t), NEW b, Settle(x, t).state.phase = "Demand"
  PROVE  Settle(x, t) = x /\ SettleBooks(b, x, t) = b
<1> DEFINE h == StepHandover(x, t)
           e == StepTenureExpiry(h, t)
           y == StepAuctionExpiry(e, t)
<1>1. y.state.phase = "Demand"
  BY DEF Settle
<1>2. SoundEscrow(h, t) /\ SoundEscrow(e, t)
  BY HandoverStep, TenureExpiryStep
<1>3. y = e
  BY <1>1, <1>2, AuctionOutcome
<1>4. e = h
  BY <1>1, <1>2, <1>3, TenureOutcome DEF Vacates, Renting
<1>5. h = x
  BY <1>1, <1>3, <1>4, HandoverOutcome DEF Succeeds
<1>6. ~HandoverDue(x, t)
  <2>1. ASSUME HandoverDue(x, t) PROVE h.state.phase = "Occupied"
    BY <2>1 DEF StepHandover, SoundEscrow, Escrows, Occupied
  <2> QED BY <1>1, <1>3, <1>4, <2>1
<1>7. ~TenureExpiryDue(h, t)
  BY <1>1, <1>3, <1>4 DEF TenureExpiryDue
<1> QED BY <1>3, <1>4, <1>5, <1>6, <1>7
    DEF Settle, SettleBooks, EnterHandover, EnterTenureExpiry

-----------------------------------------------------------------------------
(* The books b of the caps 1 .. m in state s: see BooksBalance.              *)
PaidOut(b, c) == b[c].governor + b[c].fee + b[c].refund
Balanced(b, s, m) ==
  \A c \in 1 .. m :
    /\ PaidOut(b, c) = IF c \in Seated(s) THEN 0 ELSE b[c].paid
    /\ Renting(s) /\ s.terms.seat.cap = c => s.terms.seat.stake = b[c].paid
    /\ s.phase = "Demand" /\ s.bid.seat.cap = c => s.bid.seat.stake = b[c].paid

(* An entry adds what was used and refunded to one cap and touches no other. *)
LEMMA EnterBalance ==
  ASSUME NEW b \in [Caps -> Entries], NEW cap \in Caps, NEW used \in Nat, NEW refund \in Nat
  PROVE  /\ PaidOut(b, cap) \in Nat
         /\ PaidOut(Enter(b, cap, used, refund), cap) = PaidOut(b, cap) + (used + refund)
         /\ Enter(b, cap, used, refund)[cap].paid = b[cap].paid
<1> DEFINE d == Enter(b, cap, used, refund)
<1>1. b[cap] \in Entries /\ Fee(used) \in Nat
  BY FeeBound
<1>2. /\ d[cap].fee = b[cap].fee + Fee(used)
      /\ d[cap].governor = b[cap].governor + (used - Fee(used))
      /\ d[cap].refund = b[cap].refund + refund
      /\ d[cap].paid = b[cap].paid
  BY <1>1 DEF Enter, Entries
<1>3. b[cap].fee \in Nat /\ b[cap].governor \in Nat /\ b[cap].refund \in Nat
  BY <1>1 DEF Entries
<1> HIDE DEF d
<1>4. PaidOut(b, cap) \in Nat /\ PaidOut(d, cap) = PaidOut(b, cap) + (used + refund)
  BY <1>1, <1>2, <1>3 DEF PaidOut
<1> QED BY <1>2, <1>4 DEF d

LEMMA EnterElsewhere ==
  ASSUME NEW b \in [Caps -> Entries], NEW cap, NEW used, NEW refund, NEW c \in Caps, c # cap
  PROVE  Enter(b, cap, used, refund)[c] = b[c]
BY DEF Enter

(* A stake that is partly used and refunded for the rest is paid out.        *)
LEMMA StakePaidOut ==
  ASSUME NEW b \in [Caps -> Entries], NEW cap \in Caps, NEW stake \in Nat,
         NEW used \in Nat, used <= stake, NEW rest, rest = stake - used
  PROVE  /\ PaidOut(Enter(b, cap, used, rest), cap) = PaidOut(b, cap) + stake
         /\ Enter(b, cap, used, rest)[cap].paid = b[cap].paid
         /\ PaidOut(b, cap) \in Nat
<1>1. rest \in Nat /\ used + rest = stake
  OBVIOUS
<1>2. /\ PaidOut(b, cap) \in Nat
      /\ PaidOut(Enter(b, cap, used, rest), cap) = PaidOut(b, cap) + (used + rest)
      /\ Enter(b, cap, used, rest)[cap].paid = b[cap].paid
  BY <1>1, EnterBalance
<1> QED BY <1>1, <1>2

(* A handover pays the departing tenant's whole stake out: used and refunded. *)
LEMMA HandoverBalanced ==
  ASSUME NEW x, NEW t \in Nat, SoundEscrow(x, t), NEW b \in [Caps -> Entries],
         NEW m \in 0 .. MaxCaps, Balanced(b, x.state, m),
         x.state.phase = "Demand" => x.state.bid.seat.cap # x.state.terms.seat.cap
  PROVE  Balanced(EnterHandover(b, x, t), StepHandover(x, t).state, m)
<1> DEFINE s == x.state
           y == StepHandover(x, t)
           stake == s.terms.seat.stake
           cap == s.terms.seat.cap
           used == UsedCredit(x.active, stake, s.terms.start, s.terms.ceiling, s.bid.expiry)
           d == Enter(b, cap, used, stake - used)
<1>1. CASE ~HandoverDue(x, t)
  BY <1>1 DEF EnterHandover, StepHandover
<1>2. CASE HandoverDue(x, t)
  <2>1. s.phase = "Demand" /\ Renting(s) /\ x.active \in Ensembles
    BY <1>2 DEF HandoverDue, Renting, SoundEscrow, Escrows
  <2>2. s.terms \in Terms /\ s.terms.ceiling \in 0 .. MaxMs
    BY <2>1, ScheduleBound DEF SoundEscrow
  <2>3. /\ stake \in Nat /\ cap \in Caps /\ s.terms.start \in Nat
    BY <2>2 DEF Terms, Seats
  <2>4. s.bid.expiry \in Nat
    BY <2>1, RentingTerms DEF Bids
  <2>5. used \in Nat /\ used <= stake
    BY <2>1, <2>2, <2>3, <2>4, UsedCreditBound
  <2>6. stake - used \in Nat
    BY <2>3, <2>5
  <2>7. EnterHandover(b, x, t) = d
    BY <1>2 DEF EnterHandover
  <2>8. /\ y.state.phase = "Occupied" /\ y.state.terms.seat = s.bid.seat
    BY <1>2 DEF StepHandover, SoundEscrow, Escrows, Occupied
  <2>9. Seated(s) = {cap, s.bid.seat.cap} /\ Seated(y.state) = {s.bid.seat.cap}
    BY <2>1, <2>8 DEF Seated
  <2>10. PaidOut(d, cap) = PaidOut(b, cap) + stake /\ d[cap].paid = b[cap].paid
    <3> DEFINE rest == stake - used
    <3>1. d = Enter(b, cap, used, rest) /\ rest = stake - used
      OBVIOUS
    <3> HIDE DEF d, used, stake, cap, rest
    <3>2. /\ PaidOut(Enter(b, cap, used, rest), cap) = PaidOut(b, cap) + stake
          /\ Enter(b, cap, used, rest)[cap].paid = b[cap].paid
      BY <2>3, <2>5, <3>1, StakePaidOut
    <3> QED BY <3>1, <3>2
  <2>11. SUFFICES ASSUME NEW c \in 1 .. m
         PROVE  /\ PaidOut(d, c) = IF c \in Seated(y.state) THEN 0 ELSE d[c].paid
                /\ y.state.terms.seat.cap = c => y.state.terms.seat.stake = d[c].paid
    BY <2>7, <2>8 DEF Balanced
  <2>12. c \in Caps
    BY BoundsAssumption DEF Caps
  <2>13. CASE c = cap
    <3>1. PaidOut(b, cap) = 0 /\ stake = b[cap].paid
      BY <2>1, <2>9, <2>13 DEF Balanced
    <3>2. c \notin Seated(y.state) /\ y.state.terms.seat.cap # c
      BY <2>1, <2>8, <2>9, <2>13
    <3> HIDE DEF d, stake, cap
    <3> QED BY <2>3, <2>10, <2>13, <3>1, <3>2
  <2>14. CASE c # cap
    <3>1. d[c] = b[c]
      BY <2>12, <2>14, EnterElsewhere
    <3>2. c \in Seated(s) <=> c \in Seated(y.state)
      BY <2>9, <2>14
    <3> QED BY <2>1, <2>8, <3>1, <3>2 DEF Balanced, PaidOut
  <2> QED BY <2>13, <2>14
<1> QED BY <1>1, <1>2

(* A tenure's expiry pays the whole stake out.                               *)
LEMMA TenureExpiryBalanced ==
  ASSUME NEW x, NEW t \in Nat, SoundEscrow(x, t), NEW b \in [Caps -> Entries],
         NEW m \in 0 .. MaxCaps, Balanced(b, x.state, m)
  PROVE  Balanced(EnterTenureExpiry(b, x, t), StepTenureExpiry(x, t).state, m)
<1> DEFINE s == x.state
           y == StepTenureExpiry(x, t)
           stake == s.terms.seat.stake
           cap == s.terms.seat.cap
           d == Enter(b, cap, stake, 0)
<1>1. CASE ~TenureExpiryDue(x, t)
  BY <1>1 DEF EnterTenureExpiry, StepTenureExpiry
<1>2. CASE TenureExpiryDue(x, t)
  <2>1. s.phase = "Occupied" /\ Renting(s) /\ Seated(s) = {cap}
    BY <1>2 DEF TenureExpiryDue, Renting, Seated
  <2>2. stake \in Nat /\ cap \in Caps
    BY <2>1, RentingTerms DEF Terms, Seats
  <2>3. EnterTenureExpiry(b, x, t) = d
    BY <1>2 DEF EnterTenureExpiry
  <2>4. ~Renting(y.state)
    BY <1>2, TenureOutcome DEF Vacates, StepTenureExpiry, SoundEscrow, Escrows, Retired,
       Descent, Renting
  <2>5. Seated(y.state) = {}
    BY <2>4 DEF Seated, Renting
  <2>6. PaidOut(d, cap) = PaidOut(b, cap) + stake /\ d[cap].paid = b[cap].paid
    <3>1. d = Enter(b, cap, stake, 0)
      OBVIOUS
    <3> HIDE DEF d, stake, cap
    <3>2. stake <= stake /\ 0 = stake - stake
      BY <2>2
    <3>3. /\ PaidOut(Enter(b, cap, stake, 0), cap) = PaidOut(b, cap) + stake
          /\ Enter(b, cap, stake, 0)[cap].paid = b[cap].paid
      BY <2>2, <3>2, StakePaidOut
    <3> QED BY <3>1, <3>3
  <2>7. SUFFICES ASSUME NEW c \in 1 .. m
        PROVE  PaidOut(d, c) = d[c].paid
    BY <2>3, <2>4, <2>5 DEF Balanced, Renting
  <2>8. c \in Caps
    BY BoundsAssumption DEF Caps
  <2>9. CASE c = cap
    <3>1. PaidOut(b, cap) = 0 /\ stake = b[cap].paid
      BY <2>1, <2>9 DEF Balanced
    <3> HIDE DEF d, stake, cap
    <3> QED BY <2>2, <2>6, <2>9, <3>1
  <2>10. CASE c # cap
    <3>1. d[c] = b[c] /\ c \notin Seated(s)
      BY <2>1, <2>8, <2>10, EnterElsewhere
    <3> QED BY <3>1 DEF Balanced, PaidOut
  <2> QED BY <2>9, <2>10
<1> QED BY <1>1, <1>2

(* The books of a settlement balance with the state it leaves.               *)
LEMMA SettleBalanced ==
  ASSUME NEW x, NEW t \in Nat, SoundEscrow(x, t), NEW b \in [Caps -> Entries],
         NEW m \in 0 .. MaxCaps, Balanced(b, x.state, m),
         x.state.phase = "Demand" => x.state.bid.seat.cap # x.state.terms.seat.cap
  PROVE  Balanced(SettleBooks(b, x, t), Settle(x, t).state, m)
<1> DEFINE h == StepHandover(x, t)
           e == StepTenureExpiry(h, t)
           y == StepAuctionExpiry(e, t)
           c == EnterHandover(b, x, t)
           d == EnterTenureExpiry(c, h, t)
<1>1. SoundEscrow(h, t) /\ SoundEscrow(e, t) /\ c \in [Caps -> Entries]
  BY HandoverStep, TenureExpiryStep, EnterHandoverType
<1>2. Balanced(c, h.state, m)
  BY HandoverBalanced
<1>3. Balanced(d, e.state, m)
  BY <1>1, <1>2, TenureExpiryBalanced
<1>4. y = e \/ (e.state.phase = "Descent" /\ y.state.phase = "Idle")
  BY <1>1, AuctionOutcome
<1>5. Balanced(d, y.state, m)
  BY <1>3, <1>4 DEF Balanced, Seated, Renting
<1> QED BY <1>5 DEF Settle, SettleBooks

-----------------------------------------------------------------------------
(* What a step owes the tenant and what it owes the commitments, from escrow *)
(* e in state s to escrow f in state k at time t.                            *)

SameTerms(e, s, f, k) ==
  /\ k.cycle = s.cycle /\ f.active = e.active
  /\ k.terms.start = s.terms.start /\ k.terms.ceiling = s.terms.ceiling
  /\ k.terms.handover = s.terms.handover /\ k.terms.tenures = s.terms.tenures
  /\ k.terms.seat.stake = s.terms.seat.stake

Sits(s, k) == Renting(k) /\ Holder(k) = Holder(s)

TenantKept(e, s, f, k, t) ==
  Renting(s) => IF Sits(s, k) THEN SameTerms(e, s, f, k) ELSE Lapsed(s, t)

SameSeat(e, s, f, k) ==
  /\ Renting(s) <=> Renting(k)
  /\ Renting(s) => Holder(k) = Holder(s) /\ SameTerms(e, s, f, k)
  /\ Challenger(k) = Challenger(s)
  /\ k.phase = "Demand" => /\ s.phase = "Demand" /\ k.bid.expiry = s.bid.expiry
                           /\ k.bid.seat.stake = s.bid.seat.stake
  /\ s.phase = "Demand" => k.phase = "Demand"
  /\ Closed(s) => Closed(k)

(* The moves `Tenancy` allows, from state s with m caps minted to k with n.  *)
SeatMoves(s, k, m, n) ==
  \/ /\ n = m
     /\ \/ /\ Holder(k) = Holder(s) /\ Challenger(k) = Challenger(s)
           /\ Closed(k) <=> Closed(s)
        \/ /\ Challenger(s) # None /\ Holder(k) = Challenger(s)
           /\ Challenger(k) = None /\ (Closed(k) <=> Closed(s))
        \/ Holder(s) # None /\ Holder(k) = None /\ Challenger(k) = None
        \/ /\ Holder(s) = None /\ Holder(k) = None
           /\ Challenger(k) = Challenger(s) /\ Closed(k)
  \/ /\ n = m + 1
     /\ \/ /\ Holder(s) = None /\ ~Closed(s) /\ ~Closed(k)
           /\ Holder(k) = n /\ Challenger(k) = Challenger(s)
        \/ /\ Holder(s) # None /\ Holder(k) = Holder(s)
           /\ Challenger(k) = n /\ (Closed(k) <=> Closed(s))

Bound(e, s, f, k, t) ==
  /\ Begun(s) => Begun(k)
  /\ Begun(k) => Begun(s) \/ t >= UnlocksAt(e.retireLock)
  /\ \/ {f.active, f.pending} \subseteq {e.active, e.pending, None}
     \/ t >= UnlocksAt(e.ensembleLock)
  /\ UnlocksAt(f.retireLock) >= UnlocksAt(e.retireLock)
  /\ UnlocksAt(f.ensembleLock) >= UnlocksAt(e.ensembleLock)

Kept ==
  /\ IInv
  /\ Orderly(Held, escrow.pending, minted, burned)
  /\ Balanced(books, Held, minted)
  /\ Noticed(books, Held)

Promised ==
  /\ Orderly(Held', escrow'.pending, minted', burned')
  /\ Balanced(books', Held', minted')
  /\ Noticed(books', Held')
  /\ TenantKept(escrow, Held, escrow', Held', clock)
  /\ Bound(escrow, Held, escrow', Held', clock)
  /\ SeatMoves(Held, Held', minted, minted')

LEMMA HolderSeated ==
  ASSUME NEW x, NEW t, SoundEscrow(x, t), Renting(x.state)
  PROVE  Holder(x.state) # None
BY RentingTerms, BoundsAssumption DEF Holder, Terms, Seats

LEMMA LockNat ==
  ASSUME NEW x \in Escrows
  PROVE  UnlocksAt(x.retireLock) \in Nat /\ UnlocksAt(x.ensembleLock) \in Nat
BY DEF Escrows, Locks, UnlocksAt

(* Settling keeps the seats in order, unseats nobody before a boundary, and  *)
(* begins or undoes no retire.                                               *)
LEMMA SettleOrderly ==
  ASSUME NEW x, NEW t \in Nat, SoundEscrow(x, t), NEW m, NEW b,
         Orderly(x.state, x.pending, m, b)
  PROVE  LET y == Settle(x, t) IN
         /\ Orderly(y.state, y.pending, m, b)
         /\ TenantKept(x, x.state, y, y.state, t)
         /\ Bound(x, x.state, y, y.state, t)
<1> DEFINE y == Settle(x, t)
<1>1. y.retireLock = x.retireLock /\ y.ensembleLock = x.ensembleLock
  BY SettleOutcome DEF Outcome
<1>2. x \in Escrows
  BY DEF SoundEscrow
<1>3. UnlocksAt(x.retireLock) \in Nat /\ UnlocksAt(x.ensembleLock) \in Nat
  BY <1>2, LockNat
<1>4. CASE y = x
  BY <1>3, <1>4 DEF TenantKept, Sits, SameTerms, Bound
<1>5. CASE Succeeds(x, y, t)
  <2>1. Renting(x.state) /\ Renting(y.state)
    BY <1>5 DEF Succeeds, Renting
  <2>2. Begun(y.state) <=> Begun(x.state)
    BY <1>5, <2>1 DEF Succeeds, Begun
  <2>3. Seated(y.state) \subseteq Seated(x.state)
    BY <1>5 DEF Succeeds, Seated
  <2>4. Orderly(y.state, y.pending, m, b)
    BY <1>5, <2>2, <2>3 DEF Orderly, Succeeds
  <2>5. Lapsed(x.state, t)
    BY <1>5 DEF Succeeds, Lapsed
  <2>6. Holder(y.state) # Holder(x.state)
    BY <1>5, <2>1 DEF Succeeds, Orderly, Holder
  <2>7. TenantKept(x, x.state, y, y.state, t)
    BY <2>5, <2>6 DEF TenantKept, Sits
  <2>8. Bound(x, x.state, y, y.state, t)
    BY <1>1, <1>3, <1>5, <2>2 DEF Bound, Succeeds
  <2> QED BY <2>4, <2>7, <2>8
<1>6. CASE Vacates(x, y, t)
  <2>1. ~Renting(y.state) /\ (Begun(y.state) <=> Begun(x.state))
    BY <1>6 DEF Vacates
  <2>2. Seated(y.state) = {}
    BY <2>1 DEF Renting, Seated
  <2>3. y.pending # None => y.state.phase = "Descent" /\ ~Begun(y.state)
    BY <1>6, <2>1 DEF Vacates, Begun
  <2>4. Orderly(y.state, y.pending, m, b)
    BY <2>1, <2>2, <2>3 DEF Orderly, Renting
  <2>5. ASSUME Renting(x.state) PROVE Lapsed(x.state, t)
    BY <1>6, <2>5 DEF Vacates, Renting, Lapsed
  <2>6. TenantKept(x, x.state, y, y.state, t)
    BY <2>1, <2>5 DEF TenantKept, Sits
  <2>7. Bound(x, x.state, y, y.state, t)
    BY <1>1, <1>3, <1>6 DEF Bound, Vacates
  <2> QED BY <2>4, <2>6, <2>7
<1> QED BY <1>4, <1>5, <1>6, SettleOutcome DEF Outcome

LEMMA SameSeatBalanced ==
  ASSUME NEW b, NEW e, NEW s, NEW f, NEW k, NEW m, Balanced(b, s, m), SameSeat(e, s, f, k)
  PROVE  Balanced(b, k, m)
<1>1. CASE ~Renting(s)
  <2>1. Seated(s) = {} /\ Seated(k) = {} /\ ~Renting(k) /\ k.phase # "Demand"
    BY <1>1 DEF SameSeat, Seated, Renting
  <2> QED BY <2>1 DEF Balanced
<1>2. CASE Renting(s)
  <2>1. /\ Renting(k) /\ k.terms.seat.cap = s.terms.seat.cap
        /\ k.terms.seat.stake = s.terms.seat.stake
    BY <1>2 DEF SameSeat, SameTerms, Holder
  <2>2. /\ k.phase = "Demand" <=> s.phase = "Demand"
        /\ k.phase = "Demand" => /\ k.bid.seat.cap = s.bid.seat.cap
                                 /\ k.bid.seat.stake = s.bid.seat.stake
    BY DEF SameSeat, Challenger
  <2>3. Seated(k) = Seated(s)
    BY <1>2, <2>1, <2>2 DEF Seated, Renting
  <2> QED BY <1>2, <2>1, <2>2, <2>3 DEF Balanced
<1> QED BY <1>1, <1>2

(* The first bid against a cap moves no money.                               *)
LEMMA ChallengedPays ==
  ASSUME Kept, NEW cap \in Caps, NEW c \in 1 .. minted
  PROVE  /\ PaidOut(Challenged(cap), c) = PaidOut(books, c)
         /\ Challenged(cap)[c].paid = books[c].paid
<1>1. books \in [Caps -> Entries] /\ c \in Caps
  BY BoundsAssumption DEF Kept, IInv, TypeOK, Caps
<1>2. /\ Challenged(cap)[c].governor = books[c].governor
      /\ Challenged(cap)[c].fee = books[c].fee /\ Challenged(cap)[c].refund = books[c].refund
      /\ Challenged(cap)[c].paid = books[c].paid
  BY <1>1 DEF Challenged, Entries
<1> QED BY <1>2 DEF PaidOut

(* A new cap m + 1 enters the books with what was paid for its seat.         *)
LEMMA MintBalanced ==
  ASSUME NEW b \in [Caps -> Entries], NEW m \in Nat, m + 1 \in Caps, NEW k, NEW pay, NEW n,
         Balanced(b, k, m), m + 1 \in Seated(k),
         Renting(k) /\ k.terms.seat.cap = m + 1 => k.terms.seat.stake = pay,
         k.phase = "Demand" /\ k.bid.seat.cap = m + 1 => k.bid.seat.stake = pay
  PROVE  Balanced([b EXCEPT ![m + 1] = [NoEntry EXCEPT !.paid = pay, !.tenures = n]], k, m + 1)
<1> DEFINE r == [NoEntry EXCEPT !.paid = pay, !.tenures = n]
           d == [b EXCEPT ![m + 1] = r]
<1>1. SUFFICES ASSUME NEW c \in 1 .. (m + 1)
      PROVE  /\ PaidOut(d, c) = IF c \in Seated(k) THEN 0 ELSE d[c].paid
             /\ Renting(k) /\ k.terms.seat.cap = c => k.terms.seat.stake = d[c].paid
             /\ k.phase = "Demand" /\ k.bid.seat.cap = c => k.bid.seat.stake = d[c].paid
  BY DEF Balanced
<1>2. CASE c = m + 1
  <2>1. d[c] = r
    BY <1>2
  <2>2. r.governor = 0 /\ r.fee = 0 /\ r.refund = 0 /\ r.paid = pay
    BY DEF NoEntry
  <2>3. PaidOut(d, c) = 0
    <3> HIDE DEF d, r
    <3> QED BY <2>1, <2>2 DEF PaidOut
  <2> HIDE DEF d
  <2> QED BY <1>2, <2>1, <2>2, <2>3
<1>3. CASE c # m + 1
  <2>1. c \in 1 .. m
    BY <1>3
  <2>2. d[c] = b[c]
    BY <1>3
  <2> HIDE DEF d
  <2> QED BY <2>1, <2>2 DEF Balanced, PaidOut
<1> QED BY <1>2, <1>3

(* What a step does after it settled must leave the seat as it is and the    *)
(* commitments bound.                                                        *)
LEMMA SettledStep ==
  ASSUME Kept, Live(escrow), NEW z, NEW k, escrow' = z, Held' = k,
         SameSeat(Settle(escrow, clock), Settle(escrow, clock).state, z, k),
         Bound(Settle(escrow, clock), Settle(escrow, clock).state, z, k, clock),
         Orderly(k, z.pending, minted', burned'), minted' = minted,
         books' = SettleBooks(books, escrow, clock),
         z.retireLock \in Locks, z.ensembleLock \in Locks
  PROVE  Promised
<1> DEFINE x == Settle(escrow, clock)
           s == escrow.state
<1>1. SoundEscrow(escrow, clock) /\ Held = s /\ clock \in Nat
  BY LiveIsSound DEF Kept
<1>2. Orderly(s, escrow.pending, minted, burned)
  BY <1>1 DEF Kept
<1>3. TenantKept(escrow, s, x, x.state, clock) /\ Bound(escrow, s, x, x.state, clock)
  BY <1>1, <1>2, SettleOrderly
<1>4. TenantKept(escrow, s, z, k, clock)
  BY <1>3 DEF TenantKept, Sits, SameSeat, SameTerms
<1>5. Bound(escrow, s, z, k, clock)
  <2>1. SoundEscrow(x, clock)
    BY <1>1, SettleSound
  <2>2. /\ UnlocksAt(escrow.retireLock) \in Nat /\ UnlocksAt(escrow.ensembleLock) \in Nat
        /\ UnlocksAt(x.retireLock) \in Nat /\ UnlocksAt(x.ensembleLock) \in Nat
    BY <1>1, <2>1, LockNat DEF SoundEscrow
  <2>3. UnlocksAt(z.retireLock) \in Nat /\ UnlocksAt(z.ensembleLock) \in Nat
    BY DEF Locks, UnlocksAt
  <2>4. Outcome(escrow, x, clock)
    BY <1>1, SettleOutcome
  <2>5. x.retireLock = escrow.retireLock /\ x.ensembleLock = escrow.ensembleLock
    BY <2>4 DEF Outcome
  <2>6. {x.active, x.pending} \subseteq {escrow.active, escrow.pending, None}
    BY <2>4 DEF Outcome, Succeeds, Vacates
  <2>7. Begun(x.state) <=> Begun(s)
    <3>1. CASE Succeeds(escrow, x, clock)
      BY <3>1 DEF Succeeds, Begun, Renting
    <3> QED BY <2>4, <3>1 DEF Outcome, Vacates
  <2> QED BY <2>2, <2>3, <2>5, <2>6, <2>7 DEF Bound
<1>6. SeatMoves(s, k, minted, minted')
  <2>1. ASSUME Renting(s) PROVE Holder(s) # None
    BY <1>1, <2>1, HolderSeated
  <2>2. ASSUME s.phase = "Demand" PROVE Challenger(s) # None
    <3>1. s.bid \in Bids
      BY <1>1, <2>2, RentingTerms DEF Renting
    <3> QED BY <2>2, <3>1, BoundsAssumption DEF Challenger, Bids, Seats
  <2>3. CASE x = escrow
    BY <2>1, <2>3 DEF SeatMoves, SameSeat, Holder, Challenger, Closed, Renting
  <2>4. CASE Succeeds(escrow, x, clock)
    <3>1. Renting(x.state) /\ Holder(x.state) = Challenger(s) /\ Challenger(x.state) = None
      BY <2>4 DEF Succeeds, Renting, Holder, Challenger
    <3>2. ~Closed(s) /\ ~Closed(k)
      BY <2>4, <3>1 DEF Succeeds, SameSeat, Closed, Renting
    <3> QED BY <2>2, <2>4, <3>1, <3>2 DEF SeatMoves, SameSeat, Succeeds
  <2>5. CASE Vacates(escrow, x, clock)
    <3>1. ~Renting(k) /\ Holder(k) = None /\ Challenger(k) = None
      BY <2>5 DEF Vacates, SameSeat, Renting, Holder, Challenger
    <3>2. CASE Renting(s)
      BY <2>1, <3>1, <3>2 DEF SeatMoves
    <3>3. CASE ~Renting(s)
      <4>1. Holder(s) = None /\ Challenger(s) = None
        BY <3>3 DEF Holder, Challenger, Renting
      <4>2. Closed(s) => Closed(k)
        BY <2>5, <3>3 DEF Vacates, SameSeat, Begun, Closed
      <4> QED BY <3>1, <4>1, <4>2 DEF SeatMoves
    <3> QED BY <3>2, <3>3
  <2> QED BY <1>1, <2>3, <2>4, <2>5, SettleOutcome DEF Outcome
<1>7. Balanced(books', k, minted')
  <2>1. books \in [Caps -> Entries] /\ minted \in 0 .. MaxCaps /\ Balanced(books, s, minted)
    BY <1>1 DEF Kept, IInv, TypeOK
  <2>2. s.phase = "Demand" => s.bid.seat.cap # s.terms.seat.cap
    BY <1>2 DEF Orderly
  <2>3. Balanced(SettleBooks(books, escrow, clock), x.state, minted)
    BY <1>1, <2>1, <2>2, SettleBalanced
  <2> QED BY <2>3, SameSeatBalanced
<1>8. Noticed(books', k)
  <2>1. SUFFICES ASSUME k.phase = "Demand"
        PROVE  k.bid.expiry >= NoticeEnd(k.terms, books'[k.terms.seat.cap].challenged)
    BY DEF Noticed
  <2>2. /\ x.state.phase = "Demand" /\ k.bid.expiry = x.state.bid.expiry
        /\ Renting(x.state) /\ Renting(k)
    BY <2>1 DEF SameSeat, Renting
  <2>3. x = escrow /\ books' = books
    BY <1>1, <2>2, StillInLine
  <2>4. k.terms.seat.cap = s.terms.seat.cap /\ SameTerms(x, s, z, k)
    BY <2>2, <2>3 DEF SameSeat, Holder
  <2>5. s.bid.expiry >= NoticeEnd(s.terms, books[s.terms.seat.cap].challenged)
    BY <1>1, <2>2, <2>3 DEF Kept, Noticed
  <2> QED BY <2>2, <2>3, <2>4, <2>5 DEF SameTerms, NoticeEnd, TenureEnd
<1> QED BY <1>1, <1>4, <1>5, <1>6, <1>7, <1>8 DEF Promised

(* What holds of the settled escrow and of the seats of the stored one.       *)
LEMMA SettledFacts ==
  ASSUME Kept, Live(escrow)
  PROVE  LET x == Settle(escrow, clock) IN
         /\ SoundEscrow(x, clock) /\ x \in Escrows /\ clock \in Nat
         /\ Orderly(x.state, x.pending, minted, burned)
         /\ x.retireLock \in Locks /\ x.ensembleLock \in Locks
         /\ UnlocksAt(x.retireLock) \in Nat /\ UnlocksAt(x.ensembleLock) \in Nat
         /\ x.retireLock = escrow.retireLock /\ x.ensembleLock = escrow.ensembleLock
         /\ x.state # Borrowed /\ receipt = None /\ Held = escrow.state
<1> DEFINE x == Settle(escrow, clock)
<1>1. SoundEscrow(escrow, clock) /\ Held = escrow.state /\ clock \in Nat /\ receipt = None
  BY LiveIsSound DEF Kept
<1>2. SoundEscrow(x, clock)
  BY <1>1, SettleSound
<1>3. x \in Escrows
  BY <1>2 DEF SoundEscrow
<1>4. Orderly(x.state, x.pending, minted, burned)
  BY <1>1, SettleOrderly DEF Kept
<1>5. x.retireLock = escrow.retireLock /\ x.ensembleLock = escrow.ensembleLock
  BY <1>1, SettleOutcome DEF Outcome
<1>6. x.retireLock \in Locks /\ x.ensembleLock \in Locks
  BY <1>3 DEF Escrows
<1> QED BY <1>1, <1>2, <1>3, <1>4, <1>5, <1>6, LockNat, SoundIsLive

-----------------------------------------------------------------------------
(* One lemma per action.                                                     *)

LEMMA InitKept == Init => Kept
<1> SUFFICES ASSUME Init PROVE Kept
  OBVIOUS
<1>1. PICK e \in Ensembles, r \in Delays, u \in Delays : escrow = Integrated(e, r, u, 0)
  BY DEF Init
<1>2. escrow.state.phase = "Idle" /\ escrow.pending = None
  BY <1>1 DEF Integrated, Idle
<1>3. Held = escrow.state
  BY <1>2 DEF Held, Borrowed
<1>4. Orderly(Held, escrow.pending, minted, burned)
  BY <1>2, <1>3 DEF Orderly, Seated, Init
<1>5. Balanced(books, Held, minted)
  BY DEF Balanced, Init
<1>6. Noticed(books, Held)
  BY <1>2, <1>3 DEF Noticed
<1> QED BY <1>4, <1>5, <1>6, InitInv DEF Kept

(* Steps that leave escrow and seats as they are.                            *)
LEMMA SameSeatsPromised ==
  ASSUME Kept, escrow' = escrow \/ ReturnAsset, Held' = Held,
         minted' = minted, burned' = burned, books' = books
  PROVE  Promised
<1>1. /\ escrow'.pending = escrow.pending /\ escrow'.active = escrow.active
      /\ escrow'.retireLock = escrow.retireLock /\ escrow'.ensembleLock = escrow.ensembleLock
  BY DEF ReturnAsset, Kept, IInv, TypeOK, Escrows
<1>2. UnlocksAt(escrow.retireLock) \in Nat /\ UnlocksAt(escrow.ensembleLock) \in Nat
  BY LockNat DEF Kept, IInv, TypeOK
<1>3. Orderly(Held', escrow'.pending, minted', burned')
  BY <1>1 DEF Kept
<1>4. TenantKept(escrow, Held, escrow', Held', clock)
  BY <1>1 DEF TenantKept, Sits, SameTerms
<1>5. Bound(escrow, Held, escrow', Held', clock)
  BY <1>1, <1>2 DEF Bound
<1>6. SeatMoves(Held, Held', minted, minted')
  BY DEF SeatMoves
<1>7. Balanced(books', Held', minted') /\ Noticed(books', Held')
  BY DEF Kept
<1> QED BY <1>3, <1>4, <1>5, <1>6, <1>7 DEF Promised

LEMMA TickPromised == ASSUME Kept, Tick PROVE Promised
<1>1. escrow' = escrow /\ Held' = Held /\ minted' = minted /\ burned' = burned /\ books' = books
  BY DEF Tick, Held
<1> QED BY <1>1, SameSeatsPromised

LEMMA ReturnAssetPromised == ASSUME Kept, ReturnAsset PROVE Promised
<1>1. receipt \in RentingStates /\ Held = receipt
  BY DEF ReturnAsset, Kept, IInv, TypeOK, Held
<1>2. escrow'.state = receipt /\ minted' = minted /\ burned' = burned /\ books' = books
  BY DEF ReturnAsset, Kept, IInv, TypeOK, Escrows
<1>3. receipt # Borrowed
  BY <1>1 DEF RentingStates, OccupiedStates, DemandStates, Borrowed
<1>4. Held' = Held
  BY <1>1, <1>2, <1>3 DEF Held
<1> QED BY <1>2, <1>4, SameSeatsPromised

LEMMA ApplyPromised == ASSUME Kept, Apply PROVE Promised
<1> DEFINE x == Settle(escrow, clock)
<1>1. /\ Live(escrow) /\ escrow' = x /\ minted' = minted /\ burned' = burned
      /\ books' = SettleBooks(books, escrow, clock)
  BY DEF Apply, Settling
<1>2. /\ Orderly(x.state, x.pending, minted, burned)
      /\ x.retireLock \in Locks /\ x.ensembleLock \in Locks /\ x.state # Borrowed
      /\ UnlocksAt(x.retireLock) \in Nat /\ UnlocksAt(x.ensembleLock) \in Nat
  BY <1>1, SettledFacts
<1>3. Held' = x.state
  BY <1>1, <1>2 DEF Held
<1>4. SameSeat(x, x.state, x, x.state) /\ Bound(x, x.state, x, x.state, clock)
  BY <1>2 DEF SameSeat, SameTerms, Bound
<1> QED BY <1>1, <1>2, <1>3, <1>4, SettledStep

LEMMA BurnStaleCapPromised ==
  ASSUME Kept, NEW c \in (1 .. minted) \ burned, BurnStaleCap(c)
  PROVE  Promised
<1> DEFINE x == Settle(escrow, clock)
<1>1. /\ Live(escrow) /\ escrow' = x /\ minted' = minted /\ burned' = burned \cup {c}
      /\ books' = SettleBooks(books, escrow, clock)
      /\ c \notin Seated(x.state)
  BY DEF BurnStaleCap, Settling
<1>2. /\ Orderly(x.state, x.pending, minted, burned)
      /\ x.retireLock \in Locks /\ x.ensembleLock \in Locks /\ x.state # Borrowed
      /\ UnlocksAt(x.retireLock) \in Nat /\ UnlocksAt(x.ensembleLock) \in Nat
  BY <1>1, SettledFacts
<1>3. Held' = x.state
  BY <1>1, <1>2 DEF Held
<1>4. SameSeat(x, x.state, x, x.state) /\ Bound(x, x.state, x, x.state, clock)
  BY <1>2 DEF SameSeat, SameTerms, Bound
<1>5. Orderly(x.state, x.pending, minted', burned')
  BY <1>1, <1>2 DEF Orderly
<1> QED BY <1>1, <1>2, <1>3, <1>4, <1>5, SettledStep

LEMMA BorrowAssetPromised == ASSUME Kept, NEW c, BorrowAsset(c) PROVE Promised
<1> DEFINE x == Settle(escrow, clock)
           z == [x EXCEPT !.state = Borrowed]
<1>1. /\ Live(escrow) /\ escrow' = z /\ minted' = minted /\ burned' = burned
      /\ books' = SettleBooks(books, escrow, clock)
      /\ receipt' = x.state
  BY DEF BorrowAsset, Settling
<1>2. /\ Orderly(x.state, x.pending, minted, burned) /\ x \in Escrows
      /\ x.retireLock \in Locks /\ x.ensembleLock \in Locks
      /\ UnlocksAt(x.retireLock) \in Nat /\ UnlocksAt(x.ensembleLock) \in Nat
  BY <1>1, SettledFacts
<1>3. /\ z.state = Borrowed /\ z.active = x.active /\ z.pending = x.pending
      /\ z.retireLock = x.retireLock /\ z.ensembleLock = x.ensembleLock
  BY <1>2 DEF Escrows
<1>4. Held' = x.state
  BY <1>1, <1>3 DEF Held
<1>5. SameSeat(x, x.state, z, x.state) /\ Bound(x, x.state, z, x.state, clock)
  BY <1>2, <1>3 DEF SameSeat, SameTerms, Bound
<1> QED BY <1>1, <1>2, <1>3, <1>4, <1>5, SettledStep

LEMMA ClaimAssetPromised == ASSUME Kept, ClaimAsset PROVE Promised
<1> DEFINE x == Settle(escrow, clock)
           z == [x EXCEPT !.state = Claimed]
<1>1. /\ Live(escrow) /\ escrow' = z /\ minted' = minted /\ burned' = burned
      /\ books' = SettleBooks(books, escrow, clock)
      /\ x.state.phase = "Retired"
  BY DEF ClaimAsset, Settling
<1>2. /\ Orderly(x.state, x.pending, minted, burned) /\ x \in Escrows
      /\ x.retireLock \in Locks /\ x.ensembleLock \in Locks
      /\ UnlocksAt(x.retireLock) \in Nat /\ UnlocksAt(x.ensembleLock) \in Nat
  BY <1>1, SettledFacts
<1>3. /\ z.state = Claimed /\ z.active = x.active /\ z.pending = x.pending
      /\ z.retireLock = x.retireLock /\ z.ensembleLock = x.ensembleLock
  BY <1>2 DEF Escrows
<1>4. Held' = Claimed
  BY <1>1, <1>3 DEF Held, Claimed, Borrowed
<1>5. ~Renting(x.state) /\ ~Renting(Claimed) /\ Begun(x.state) /\ Begun(Claimed)
  BY <1>1 DEF Renting, Claimed, Begun
<1>6. SameSeat(x, x.state, z, Claimed) /\ Bound(x, x.state, z, Claimed, clock)
  BY <1>1, <1>2, <1>3, <1>5 DEF SameSeat, Bound, Challenger, Closed, Claimed
<1>7. Orderly(Claimed, z.pending, minted', burned')
  BY <1>1, <1>2, <1>3 DEF Orderly, Claimed, Seated
<1> QED BY <1>1, <1>2, <1>3, <1>4, <1>6, <1>7, SettledStep

LEMMA ExtendRetireCommitmentPromised ==
  ASSUME Kept, NEW d \in Delays, ExtendRetireCommitment(d)
  PROVE  Promised
<1> DEFINE x == Settle(escrow, clock)
           lock == ExtendLock(x.retireLock, d)
           z == [x EXCEPT !.retireLock = lock]
<1>1. /\ Live(escrow) /\ escrow' = z /\ minted' = minted /\ burned' = burned
      /\ books' = SettleBooks(books, escrow, clock)
  BY DEF ExtendRetireCommitment, Settling
<1>2. /\ Orderly(x.state, x.pending, minted, burned) /\ x \in Escrows
      /\ x.retireLock \in Locks /\ x.ensembleLock \in Locks /\ x.state # Borrowed
      /\ UnlocksAt(x.retireLock) \in Nat /\ UnlocksAt(x.ensembleLock) \in Nat
  BY <1>1, SettledFacts
<1>3. /\ z.state = x.state /\ z.active = x.active /\ z.pending = x.pending
      /\ z.retireLock = lock /\ z.ensembleLock = x.ensembleLock
  BY <1>2 DEF Escrows
<1>4. lock \in Locks /\ UnlocksAt(lock) >= UnlocksAt(x.retireLock)
  <2>1. d \in Nat
    BY BoundsAssumption
  <2>2. lock.anchor = UnlocksAt(x.retireLock) /\ lock.floor = d
    BY DEF ExtendLock
  <2>3. UnlocksAt(lock) = UnlocksAt(x.retireLock) + d
    BY <2>2 DEF UnlocksAt
  <2> QED BY <1>2, <2>1, <2>3, ExtendLockType
<1>5. Held' = x.state
  BY <1>1, <1>2, <1>3 DEF Held
<1>6. SameSeat(x, x.state, z, x.state) /\ Bound(x, x.state, z, x.state, clock)
  BY <1>2, <1>3, <1>4 DEF SameSeat, SameTerms, Bound
<1> QED BY <1>1, <1>2, <1>3, <1>4, <1>5, <1>6, SettledStep

LEMMA ExtendEnsembleCommitmentPromised ==
  ASSUME Kept, NEW d \in Delays, ExtendEnsembleCommitment(d)
  PROVE  Promised
<1> DEFINE x == Settle(escrow, clock)
           lock == ExtendLock(x.ensembleLock, d)
           z == [x EXCEPT !.ensembleLock = lock]
<1>1. /\ Live(escrow) /\ escrow' = z /\ minted' = minted /\ burned' = burned
      /\ books' = SettleBooks(books, escrow, clock)
  BY DEF ExtendEnsembleCommitment, Settling
<1>2. /\ Orderly(x.state, x.pending, minted, burned) /\ x \in Escrows
      /\ x.retireLock \in Locks /\ x.ensembleLock \in Locks /\ x.state # Borrowed
      /\ UnlocksAt(x.retireLock) \in Nat /\ UnlocksAt(x.ensembleLock) \in Nat
  BY <1>1, SettledFacts
<1>3. /\ z.state = x.state /\ z.active = x.active /\ z.pending = x.pending
      /\ z.ensembleLock = lock /\ z.retireLock = x.retireLock
  BY <1>2 DEF Escrows
<1>4. lock \in Locks /\ UnlocksAt(lock) >= UnlocksAt(x.ensembleLock)
  <2>1. d \in Nat
    BY BoundsAssumption
  <2>2. lock.anchor = UnlocksAt(x.ensembleLock) /\ lock.floor = d
    BY DEF ExtendLock
  <2>3. UnlocksAt(lock) = UnlocksAt(x.ensembleLock) + d
    BY <2>2 DEF UnlocksAt
  <2> QED BY <1>2, <2>1, <2>3, ExtendLockType
<1>5. Held' = x.state
  BY <1>1, <1>2, <1>3 DEF Held
<1>6. SameSeat(x, x.state, z, x.state) /\ Bound(x, x.state, z, x.state, clock)
  BY <1>2, <1>3, <1>4 DEF SameSeat, SameTerms, Bound
<1> QED BY <1>1, <1>2, <1>3, <1>4, <1>5, <1>6, SettledStep

LEMMA RetirePromised == ASSUME Kept, Retire PROVE Promised
<1> DEFINE x == Settle(escrow, clock)
<1>1. /\ Live(escrow) /\ minted' = minted /\ burned' = burned
      /\ books' = SettleBooks(books, escrow, clock)
      /\ clock >= UnlocksAt(x.retireLock)
      /\ escrow' = IF Renting(x.state)
                   THEN [x EXCEPT !.state.terms.retiring = TRUE, !.pending = None]
                   ELSE [x EXCEPT !.state = Retired, !.pending = None]
  BY DEF Retire, Settling
<1>2. /\ Orderly(x.state, x.pending, minted, burned) /\ x \in Escrows /\ SoundEscrow(x, clock)
      /\ x.retireLock \in Locks /\ x.ensembleLock \in Locks /\ x.state # Borrowed
      /\ UnlocksAt(x.retireLock) \in Nat /\ UnlocksAt(x.ensembleLock) \in Nat
  BY <1>1, SettledFacts
<1>3. CASE Renting(x.state)
  <2> DEFINE k == [x.state EXCEPT !.terms = [x.state.terms EXCEPT !.retiring = TRUE]]
             z == [x EXCEPT !.state = k, !.pending = None]
  <2>1. escrow' = z
    BY <1>1, <1>2, <1>3 DEF Escrows
  <2>2. /\ z.state = k /\ z.active = x.active /\ z.pending = None
        /\ z.retireLock = x.retireLock /\ z.ensembleLock = x.ensembleLock
    BY <1>2 DEF Escrows
  <2>3. x.state.terms \in Terms /\ x.state \in RentingStates
    BY <1>2, <1>3, StateByPhase DEF SoundEscrow, Sound, Renting, OccupiedStates, DemandStates,
       RentingStates
  <2>4. /\ k.phase = x.state.phase /\ k.cycle = x.state.cycle
        /\ k.terms = [x.state.terms EXCEPT !.retiring = TRUE]
        /\ k.phase = "Demand" => k.bid = x.state.bid
    BY <2>3 DEF RentingStates, OccupiedStates, DemandStates
  <2>5. /\ k.terms.retiring /\ k.terms.seat = x.state.terms.seat
        /\ k.terms.start = x.state.terms.start /\ k.terms.ceiling = x.state.terms.ceiling
        /\ k.terms.handover = x.state.terms.handover /\ k.terms.tenures = x.state.terms.tenures
    BY <2>3, <2>4 DEF Terms
  <2>6. Held' = k
    BY <1>3, <2>1, <2>2, <2>4 DEF Held, Renting, Borrowed
  <2>7. SameSeat(x, x.state, z, k)
    BY <1>3, <2>2, <2>4, <2>5 DEF SameSeat, SameTerms, Renting, Holder, Challenger, Closed
  <2>8. Bound(x, x.state, z, k, clock)
    BY <1>1, <1>2, <1>3, <2>2, <2>4, <2>5 DEF Bound, Begun, Renting
  <2>9. Orderly(k, z.pending, minted', burned')
    BY <1>1, <1>2, <2>2, <2>4, <2>5 DEF Orderly, Seated
  <2> QED BY <1>1, <1>2, <2>1, <2>2, <2>6, <2>7, <2>8, <2>9, SettledStep
<1>4. CASE ~Renting(x.state)
  <2> DEFINE z == [x EXCEPT !.state = Retired, !.pending = None]
  <2>1. escrow' = z
    BY <1>1, <1>4
  <2>2. /\ z.state = Retired /\ z.active = x.active /\ z.pending = None
        /\ z.retireLock = x.retireLock /\ z.ensembleLock = x.ensembleLock
    BY <1>2 DEF Escrows
  <2>3. Held' = Retired
    BY <2>1, <2>2 DEF Held, Retired, Borrowed
  <2>4. ~Renting(Retired) /\ Begun(Retired)
    BY DEF Renting, Begun, Retired
  <2>5. SameSeat(x, x.state, z, Retired) /\ Bound(x, x.state, z, Retired, clock)
    BY <1>1, <1>2, <1>4, <2>2, <2>4 DEF SameSeat, Bound, Challenger, Closed, Retired, Renting
  <2>6. Orderly(Retired, z.pending, minted', burned')
    BY <1>1, <1>2, <2>2 DEF Orderly, Retired, Seated
  <2> QED BY <1>1, <1>2, <2>1, <2>2, <2>3, <2>5, <2>6, SettledStep
<1> QED BY <1>3, <1>4

LEMMA UpdateEnsemblePromised ==
  ASSUME Kept, NEW e \in Ensembles, UpdateEnsemble(e)
  PROVE  Promised
<1> DEFINE x == Settle(escrow, clock)
<1>1. /\ Live(escrow) /\ minted' = minted /\ burned' = burned
      /\ books' = SettleBooks(books, escrow, clock)
      /\ clock >= UnlocksAt(escrow.ensembleLock)
      /\ NotRetired(x) /\ (Renting(x.state) => ~x.state.terms.retiring)
      /\ escrow' = IF x.state.phase = "Idle"
                   THEN [x EXCEPT !.state = Idle(ResolveCycle(e)), !.active = e, !.pending = None]
                   ELSE [x EXCEPT !.pending = e]
  BY DEF UpdateEnsemble, Settling
<1>2. /\ Orderly(x.state, x.pending, minted, burned) /\ x \in Escrows /\ SoundEscrow(x, clock)
      /\ x.retireLock \in Locks /\ x.ensembleLock \in Locks /\ x.state # Borrowed
      /\ UnlocksAt(x.retireLock) \in Nat /\ UnlocksAt(x.ensembleLock) \in Nat
      /\ x.ensembleLock = escrow.ensembleLock
  BY <1>1, SettledFacts
<1>3. x.state.phase \in {"Demand", "Occupied", "Descent", "Idle"}
  BY <1>1, <1>2, StateByPhase DEF SoundEscrow, Sound, NotRetired
<1>4. CASE x.state.phase = "Idle"
  <2> DEFINE k == Idle(ResolveCycle(e))
             z == [x EXCEPT !.state = k, !.active = e, !.pending = None]
  <2>1. escrow' = z
    BY <1>1, <1>4
  <2>2. /\ z.state = k /\ z.active = e /\ z.pending = None
        /\ z.retireLock = x.retireLock /\ z.ensembleLock = x.ensembleLock
    BY <1>2 DEF Escrows
  <2>3. k.phase = "Idle" /\ k # Borrowed
    BY DEF Idle, Borrowed
  <2>4. Held' = k
    BY <2>1, <2>2, <2>3 DEF Held
  <2>5. SameSeat(x, x.state, z, k) /\ Bound(x, x.state, z, k, clock)
    BY <1>1, <1>2, <1>4, <2>2, <2>3 DEF SameSeat, Bound, Renting, Begun, Challenger, Closed
  <2>6. Orderly(k, z.pending, minted', burned')
    BY <1>1, <1>2, <2>2, <2>3 DEF Orderly, Seated
  <2> QED BY <1>1, <1>2, <2>1, <2>2, <2>4, <2>5, <2>6, SettledStep
<1>5. CASE x.state.phase # "Idle"
  <2> DEFINE z == [x EXCEPT !.pending = e]
  <2>1. escrow' = z
    BY <1>1, <1>5
  <2>2. /\ z.state = x.state /\ z.active = x.active /\ z.pending = e
        /\ z.retireLock = x.retireLock /\ z.ensembleLock = x.ensembleLock
    BY <1>2 DEF Escrows
  <2>3. Held' = x.state
    BY <1>2, <2>1, <2>2 DEF Held
  <2>4. SameSeat(x, x.state, z, x.state) /\ Bound(x, x.state, z, x.state, clock)
    BY <1>1, <1>2, <2>2 DEF SameSeat, SameTerms, Bound
  <2>5. x.state.phase \in {"Occupied", "Demand", "Descent"} /\ ~Begun(x.state)
    BY <1>1, <1>3, <1>5 DEF Begun, Renting
  <2>6. Orderly(x.state, z.pending, minted', burned')
    BY <1>1, <1>2, <2>5 DEF Orderly
  <2> QED BY <1>1, <1>2, <2>1, <2>2, <2>3, <2>4, <2>6, SettledStep
<1> QED BY <1>4, <1>5

LEMMA UpdateRefundAddressPromised ==
  ASSUME Kept, NEW c, NEW a \in Addresses, UpdateRefundAddress(c, a)
  PROVE  Promised
<1> DEFINE x == Settle(escrow, clock)
<1>1. /\ Live(escrow) /\ minted' = minted /\ burned' = burned
      /\ books' = SettleBooks(books, escrow, clock)
  BY DEF UpdateRefundAddress, Settling
<1>2. /\ Orderly(x.state, x.pending, minted, burned) /\ x \in Escrows /\ SoundEscrow(x, clock)
      /\ x.retireLock \in Locks /\ x.ensembleLock \in Locks
      /\ UnlocksAt(x.retireLock) \in Nat /\ UnlocksAt(x.ensembleLock) \in Nat
  BY <1>1, SettledFacts
<1>3. CASE Renting(x.state) /\ Settling([x EXCEPT !.state.terms.seat.addr = a])
  <2> DEFINE seat == [x.state.terms.seat EXCEPT !.addr = a]
             k == [x.state EXCEPT !.terms = [x.state.terms EXCEPT !.seat = seat]]
             z == [x EXCEPT !.state = k]
  <2>1. escrow' = z
    BY <1>3 DEF Settling
  <2>2. /\ z.state = k /\ z.active = x.active /\ z.pending = x.pending
        /\ z.retireLock = x.retireLock /\ z.ensembleLock = x.ensembleLock
    BY <1>2 DEF Escrows
  <2>3. x.state.terms \in Terms /\ x.state \in RentingStates
    BY <1>2, <1>3, StateByPhase DEF SoundEscrow, Sound, Renting, OccupiedStates, DemandStates,
       RentingStates
  <2>4. /\ k.phase = x.state.phase /\ k.cycle = x.state.cycle
        /\ k.terms = [x.state.terms EXCEPT !.seat = seat]
        /\ k.phase = "Demand" => k.bid = x.state.bid
    BY <2>3 DEF RentingStates, OccupiedStates, DemandStates
  <2>5. seat.cap = x.state.terms.seat.cap /\ seat.stake = x.state.terms.seat.stake
    BY <2>3 DEF Terms, Seats
  <2>6. /\ k.terms.retiring = x.state.terms.retiring /\ k.terms.seat = seat
        /\ k.terms.start = x.state.terms.start /\ k.terms.ceiling = x.state.terms.ceiling
        /\ k.terms.handover = x.state.terms.handover /\ k.terms.tenures = x.state.terms.tenures
    BY <2>3, <2>4 DEF Terms
  <2>7. Held' = k
    BY <1>3, <2>1, <2>2, <2>4 DEF Held, Renting, Borrowed
  <2>8. SameSeat(x, x.state, z, k)
    <3>1. Renting(k) /\ Holder(k) = Holder(x.state) /\ SameTerms(x, x.state, z, k)
      BY <1>3, <2>2, <2>4, <2>5, <2>6 DEF SameTerms, Renting, Holder
    <3>2. Challenger(k) = Challenger(x.state) /\ (Closed(k) <=> Closed(x.state))
      BY <2>4 DEF Challenger, Closed
    <3> QED BY <1>3, <3>1, <3>2 DEF SameSeat
  <2>9. Bound(x, x.state, z, k, clock)
    BY <1>2, <1>3, <2>2, <2>4, <2>6 DEF Bound, Begun, Renting
  <2>10. Orderly(k, z.pending, minted', burned')
    <3>1. Begun(k) <=> Begun(x.state)
      BY <1>3, <2>4, <2>6 DEF Begun, Renting
    <3>2. Seated(k) = Seated(x.state)
      BY <2>4, <2>5, <2>6 DEF Seated
    <3> QED BY <1>1, <1>2, <2>2, <2>4, <2>5, <2>6, <3>1, <3>2 DEF Orderly
  <2> QED BY <1>1, <1>2, <2>1, <2>2, <2>7, <2>8, <2>9, <2>10, SettledStep
<1>4. CASE x.state.phase = "Demand" /\ Settling([x EXCEPT !.state.bid.seat.addr = a])
  <2> DEFINE seat == [x.state.bid.seat EXCEPT !.addr = a]
             k == [x.state EXCEPT !.bid = [x.state.bid EXCEPT !.seat = seat]]
             z == [x EXCEPT !.state = k]
  <2>1. escrow' = z
    BY <1>4 DEF Settling
  <2>2. /\ z.state = k /\ z.active = x.active /\ z.pending = x.pending
        /\ z.retireLock = x.retireLock /\ z.ensembleLock = x.ensembleLock
    BY <1>2 DEF Escrows
  <2>3. x.state \in DemandStates
    BY <1>2, <1>4, StateByPhase DEF SoundEscrow, Sound
  <2>4. /\ k.phase = "Demand" /\ k.cycle = x.state.cycle /\ k.terms = x.state.terms
        /\ k.bid.expiry = x.state.bid.expiry /\ k.bid.seat.cap = x.state.bid.seat.cap
        /\ k.bid.seat.stake = x.state.bid.seat.stake
    BY <2>3 DEF DemandStates, Bids, Seats
  <2>5. Held' = k
    BY <2>1, <2>2, <2>4 DEF Held, Borrowed
  <2>6. SameSeat(x, x.state, z, k)
    BY <1>4, <2>2, <2>4 DEF SameSeat, SameTerms, Renting, Holder, Challenger, Closed
  <2>7. Bound(x, x.state, z, k, clock)
    BY <1>2, <1>4, <2>2, <2>4 DEF Bound, Begun, Renting
  <2>8. Orderly(k, z.pending, minted', burned')
    BY <1>1, <1>2, <1>4, <2>2, <2>4 DEF Orderly, Seated, Begun, Renting
  <2> QED BY <1>1, <1>2, <2>1, <2>2, <2>5, <2>6, <2>7, <2>8, SettledStep
<1> QED BY <1>3, <1>4 DEF UpdateRefundAddress

(* A rent settles nothing: it works on the stored state, and its cap is new. *)
LEMMA RentFacts ==
  ASSUME Kept, Live(escrow), minted' = minted + 1, burned' = burned
  PROVE  /\ SoundEscrow(escrow, clock) /\ escrow \in Escrows /\ clock \in Nat
         /\ Held = escrow.state
         /\ Orderly(escrow.state, escrow.pending, minted, burned)
         /\ UnlocksAt(escrow.retireLock) \in Nat /\ UnlocksAt(escrow.ensembleLock) \in Nat
         /\ minted + 1 \notin Seated(escrow.state)
         /\ burned' \subseteq 1 .. minted'
         /\ Seated(escrow.state) \cup {minted + 1} \subseteq (1 .. minted') \ burned'
         /\ books \in [Caps -> Entries] /\ minted \in Nat /\ Balanced(books, escrow.state, minted)
         /\ Noticed(books, escrow.state)
<1>1. SoundEscrow(escrow, clock) /\ Held = escrow.state /\ clock \in Nat
  BY LiveIsSound DEF Kept
<1>2. Orderly(escrow.state, escrow.pending, minted, burned)
  BY <1>1 DEF Kept
<1>3. escrow \in Escrows
  BY <1>1 DEF SoundEscrow
<1>4. minted \in Nat
  BY BoundsAssumption DEF Kept, IInv, TypeOK
<1>5. burned \subseteq 1 .. minted /\ Seated(escrow.state) \subseteq (1 .. minted) \ burned
  BY <1>2 DEF Orderly
<1>6. 1 .. minted \subseteq 1 .. (minted + 1) /\ minted + 1 \notin 1 .. minted
  BY <1>4
<1>7. minted + 1 \in 1 .. (minted + 1)
  BY <1>4
<1>8. /\ books \in [Caps -> Entries] /\ Balanced(books, escrow.state, minted)
      /\ Noticed(books, escrow.state)
  BY <1>1 DEF Kept, IInv, TypeOK
<1> QED BY <1>1, <1>2, <1>3, <1>4, <1>5, <1>6, <1>7, <1>8, LockNat

(* A cap that is not the new one keeps its entry.                            *)
LEMMA MintElsewhere ==
  ASSUME Kept, NEW pay, NEW n, NEW b \in [Caps -> Entries], Mint(pay, n, b),
         NEW c \in Caps, c # minted + 1
  PROVE  books'[c] = b[c]
BY DEF Mint

LEMMA RentBooks ==
  ASSUME Kept, NEW pay, NEW n, NEW b \in [Caps -> Entries], Mint(pay, n, b), NEW k,
         Balanced(b, k, minted), minted + 1 \in Seated(k),
         Renting(k) /\ k.terms.seat.cap = minted + 1 => k.terms.seat.stake = pay,
         k.phase = "Demand" /\ k.bid.seat.cap = minted + 1 => k.bid.seat.stake = pay
  PROVE  Balanced(books', k, minted')
<1>1. /\ minted < MaxCaps /\ minted' = minted + 1
      /\ books' = [b EXCEPT ![minted + 1] = [NoEntry EXCEPT !.paid = pay, !.tenures = n]]
  BY DEF Mint
<1>2. minted \in Nat /\ minted + 1 \in Caps
  BY <1>1, BoundsAssumption DEF Kept, IInv, TypeOK, Caps
<1> QED BY <1>1, <1>2, MintBalanced

LEMMA InstallPromised ==
  ASSUME Kept, NEW n \in Tenures, NEW over \in Overpay, NEW a \in Addresses,
         Install(n, over, a)
  PROVE  Promised
<1> DEFINE s == escrow.state
           pay == WaitingFloor(escrow, clock) * n + over
           terms == [ start |-> clock, ceiling |-> TotalDuration(s.cycle.ceiling, n),
                      handover |-> TotalDuration(s.cycle.handover, n), tenures |-> n,
                      seat |-> NewSeat(pay, a), retiring |-> FALSE ]
           k == Occupied(s.cycle, terms)
           z == [escrow EXCEPT !.state = k]
<1>1. /\ s.phase \in {"Idle", "Descent"} /\ escrow' = z
      /\ minted' = minted + 1 /\ burned' = burned /\ Mint(pay, n, books)
  BY DEF Install, Mint
<1>2. Live(escrow)
  BY <1>1 DEF Live
<1>3. /\ escrow \in Escrows /\ Held = s /\ Orderly(s, escrow.pending, minted, burned)
      /\ UnlocksAt(escrow.retireLock) \in Nat /\ UnlocksAt(escrow.ensembleLock) \in Nat
      /\ burned' \subseteq 1 .. minted' /\ minted + 1 \in (1 .. minted') \ burned'
      /\ books \in [Caps -> Entries] /\ minted \in Nat /\ Balanced(books, s, minted)
  BY <1>1, <1>2, RentFacts
<1>4. /\ z.state = k /\ z.active = escrow.active /\ z.pending = escrow.pending
      /\ z.retireLock = escrow.retireLock /\ z.ensembleLock = escrow.ensembleLock
  BY <1>3 DEF Escrows
<1>5. /\ k.phase = "Occupied" /\ ~k.terms.retiring
      /\ k.terms.seat.cap = minted + 1 /\ k.terms.seat.stake = pay
  BY DEF Occupied, NewSeat
<1>6. Held' = k
  BY <1>1, <1>4, <1>5 DEF Held, Borrowed
<1>7. ~Renting(s) /\ ~Begun(s) /\ ~Begun(k)
  BY <1>1, <1>5 DEF Renting, Begun
<1>8. Seated(k) = {minted + 1}
  BY <1>5 DEF Seated
<1>9. Orderly(k, z.pending, minted', burned')
  BY <1>3, <1>5, <1>7, <1>8 DEF Orderly
<1>10. TenantKept(escrow, s, z, k, clock)
  BY <1>7 DEF TenantKept
<1>11. Bound(escrow, s, z, k, clock)
  BY <1>3, <1>4, <1>7 DEF Bound
<1>12. SeatMoves(s, k, minted, minted')
  BY <1>1, <1>5 DEF SeatMoves, Holder, Challenger, Closed, Renting
<1>13. Balanced(books, k, minted)
  <2>1. Seated(s) = {}
    BY <1>1 DEF Seated
  <2>2. \A c \in 1 .. minted : c # minted + 1
    BY <1>3
  <2> QED BY <1>3, <1>5, <1>8, <2>1, <2>2 DEF Balanced
<1>14. Balanced(books', k, minted')
  <2>1. minted + 1 \in Seated(k) /\ k.phase # "Demand"
    BY <1>5, <1>8
  <2> HIDE DEF k, pay
  <2> QED BY <1>1, <1>3, <1>5, <1>13, <2>1, RentBooks
<1>15. Noticed(books', k)
  BY <1>5 DEF Noticed
<1> QED BY <1>1, <1>3, <1>6, <1>9, <1>10, <1>11, <1>12, <1>14, <1>15 DEF Promised

(* The first bid starts the notice, and its expiry is the end of it.         *)
LEMMA PlaceBidPromised ==
  ASSUME Kept, NEW n \in Tenures, NEW over \in Overpay, NEW a \in Addresses,
         PlaceBid(n, over, a)
  PROVE  Promised
<1> DEFINE s == escrow.state
           terms == s.terms
           pay == AscendingFloor(escrow.active,
                    StakePerTenure(terms.seat.stake, terms.tenures)) * n + over
           bid == [ seat |-> NewSeat(pay, a),
                    expiry |-> Least(clock + terms.handover, TenureEnd(terms)),
                    tenures |-> n ]
           b == Challenged(terms.seat.cap)
           k == Demand(s.cycle, terms, bid)
           z == [escrow EXCEPT !.state = k]
<1>1. /\ s.phase = "Occupied" /\ escrow' = z /\ ~terms.retiring
      /\ minted' = minted + 1 /\ burned' = burned /\ Mint(pay, n, b)
  BY DEF PlaceBid, Mint
<1>2. Live(escrow)
  BY <1>1 DEF Live
<1>3. /\ SoundEscrow(escrow, clock) /\ clock \in Nat
      /\ escrow \in Escrows /\ Held = s /\ Orderly(s, escrow.pending, minted, burned)
      /\ UnlocksAt(escrow.retireLock) \in Nat /\ UnlocksAt(escrow.ensembleLock) \in Nat
      /\ minted + 1 \notin Seated(s)
      /\ burned' \subseteq 1 .. minted'
      /\ Seated(s) \cup {minted + 1} \subseteq (1 .. minted') \ burned'
      /\ books \in [Caps -> Entries] /\ minted \in Nat /\ Balanced(books, s, minted)
  BY <1>1, <1>2, RentFacts
<1>4. /\ z.state = k /\ z.active = escrow.active /\ z.pending = escrow.pending
      /\ z.retireLock = escrow.retireLock /\ z.ensembleLock = escrow.ensembleLock
  BY <1>3 DEF Escrows
<1>5. /\ k.phase = "Demand" /\ k.cycle = s.cycle /\ k.terms = terms
      /\ k.bid.seat.cap = minted + 1 /\ k.bid.seat.stake = pay
      /\ k.bid.expiry = bid.expiry
  BY DEF Demand, NewSeat
<1>6. Held' = k
  BY <1>1, <1>4, <1>5 DEF Held, Borrowed
<1>7. Renting(s) /\ Renting(k) /\ ~Begun(s) /\ ~Begun(k)
  BY <1>1, <1>5 DEF Renting, Begun
<1>8. Seated(s) = {terms.seat.cap} /\ Seated(k) = {terms.seat.cap, minted + 1}
  BY <1>1, <1>5 DEF Seated
<1>9. terms.seat.cap \in Caps /\ b \in [Caps -> Entries]
  BY <1>3, <1>7, RentingTerms, ChallengedType DEF Terms, Seats, Kept
<1>10. Orderly(k, z.pending, minted', burned')
  BY <1>3, <1>4, <1>5, <1>7, <1>8 DEF Orderly
<1>11. TenantKept(escrow, s, z, k, clock)
  BY <1>4, <1>5, <1>7 DEF TenantKept, Sits, Holder, SameTerms
<1>12. Bound(escrow, s, z, k, clock)
  BY <1>3, <1>4, <1>7 DEF Bound
<1>13. Holder(s) # None
  BY <1>3, <1>7, HolderSeated
<1>14. SeatMoves(s, k, minted, minted')
  BY <1>1, <1>5, <1>7, <1>13 DEF SeatMoves, Holder, Challenger, Closed
<1>15. \A c \in 1 .. minted : c # minted + 1
  BY <1>3
<1>16. Balanced(b, k, minted)
  <2>1. Balanced(books, k, minted)
    BY <1>3, <1>5, <1>7, <1>8, <1>15 DEF Balanced
  <2>2. \A c \in 1 .. minted : PaidOut(b, c) = PaidOut(books, c) /\ b[c].paid = books[c].paid
    BY <1>1, <1>3, <1>9, ChallengedPays
  <2> HIDE DEF b, k
  <2> QED BY <2>1, <2>2 DEF Balanced
<1>17. Balanced(books', k, minted')
  <2>1. minted + 1 \in Seated(k) /\ k.terms.seat.cap # minted + 1
    BY <1>3, <1>5, <1>8
  <2> HIDE DEF k, pay, b
  <2> QED BY <1>1, <1>5, <1>9, <1>16, <2>1, RentBooks
<1>18. Noticed(books', k)
  <2>1. terms.seat.cap # minted + 1
    BY <1>3, <1>8
  <2>2. b[terms.seat.cap].challenged = clock
    BY <1>3, <1>9 DEF Challenged, Entries
  <2>3. books'[terms.seat.cap].challenged = clock
    BY <1>1, <1>9, <2>1, <2>2, MintElsewhere
  <2>4. bid.expiry = NoticeEnd(terms, clock) /\ NoticeEnd(terms, clock) \in Nat
    BY <1>3, <1>7, RentingTerms DEF NoticeEnd, Least
  <2> HIDE DEF k, bid
  <2> QED BY <1>5, <2>3, <2>4 DEF Noticed
<1> QED BY <1>1, <1>3, <1>6, <1>10, <1>11, <1>12, <1>14, <1>17, <1>18 DEF Promised

LEMMA SupersedePromised ==
  ASSUME Kept, NEW n \in Tenures, NEW over \in Overpay, NEW a \in Addresses,
         Supersede(n, over, a)
  PROVE  Promised
<1> DEFINE s == escrow.state
           bid == s.bid
           pay == AscendingFloor(escrow.active,
                    StakePerTenure(bid.seat.stake, bid.tenures)) * n + over
           b == Enter(books, bid.seat.cap, 0, bid.seat.stake)
           k == [s EXCEPT !.bid = [bid EXCEPT !.seat = NewSeat(pay, a)]]
           z == [escrow EXCEPT !.state = k]
<1>1. /\ s.phase = "Demand" /\ minted' = minted + 1 /\ burned' = burned
      /\ Mint(pay, n, b)
      /\ escrow' = [escrow EXCEPT !.state.bid.seat = NewSeat(pay, a)]
  BY DEF Supersede, Mint
<1>2. Live(escrow)
  BY <1>1 DEF Live
<1>3. /\ SoundEscrow(escrow, clock)
      /\ escrow \in Escrows /\ Held = s /\ Orderly(s, escrow.pending, minted, burned)
      /\ UnlocksAt(escrow.retireLock) \in Nat /\ UnlocksAt(escrow.ensembleLock) \in Nat
      /\ minted + 1 \notin Seated(s)
      /\ burned' \subseteq 1 .. minted'
      /\ Seated(s) \cup {minted + 1} \subseteq (1 .. minted') \ burned'
      /\ books \in [Caps -> Entries] /\ minted \in Nat /\ Balanced(books, s, minted)
      /\ Noticed(books, s)
  BY <1>1, <1>2, RentFacts
<1>4. s \in DemandStates /\ bid \in Bids
  BY <1>1, <1>3, StateByPhase DEF SoundEscrow, Sound, DemandStates
<1>5. escrow' = z
  BY <1>1
<1>6. /\ z.state = k /\ z.active = escrow.active /\ z.pending = escrow.pending
      /\ z.retireLock = escrow.retireLock /\ z.ensembleLock = escrow.ensembleLock
  BY <1>3 DEF Escrows
<1>7. /\ k.phase = "Demand" /\ k.cycle = s.cycle /\ k.terms = s.terms
      /\ k.bid = [bid EXCEPT !.seat = NewSeat(pay, a)]
  BY <1>4 DEF DemandStates
<1>8. /\ k.bid.seat.cap = minted + 1 /\ k.bid.seat.stake = pay
      /\ k.bid.expiry = bid.expiry
  BY <1>4, <1>7 DEF Bids, NewSeat
<1>9. Held' = k
  BY <1>5, <1>6, <1>7 DEF Held, Borrowed
<1>10. Renting(s) /\ Renting(k) /\ (Begun(k) <=> Begun(s))
  BY <1>1, <1>7 DEF Renting, Begun
<1>11. s.terms.seat.cap \in Seated(s) /\ Seated(k) = {s.terms.seat.cap, minted + 1}
  BY <1>1, <1>7, <1>8 DEF Seated
<1>12. Orderly(k, z.pending, minted', burned')
  BY <1>1, <1>3, <1>6, <1>7, <1>8, <1>10, <1>11 DEF Orderly
<1>13. TenantKept(escrow, s, z, k, clock)
  BY <1>6, <1>7, <1>10 DEF TenantKept, Sits, Holder, SameTerms
<1>14. Bound(escrow, s, z, k, clock)
  BY <1>3, <1>6, <1>10 DEF Bound
<1>15. Holder(s) # None
  BY <1>3, <1>10, HolderSeated
<1>16. SeatMoves(s, k, minted, minted')
  BY <1>1, <1>7, <1>8, <1>10, <1>15 DEF SeatMoves, Holder, Challenger, Closed
<1>17. /\ bid.seat.cap \in Caps /\ bid.seat.stake \in Nat
       /\ bid.seat.cap # s.terms.seat.cap /\ Seated(s) = {s.terms.seat.cap, bid.seat.cap}
  BY <1>1, <1>3, <1>4 DEF Bids, Seats, Orderly, Seated
<1>18. b \in [Caps -> Entries]
  BY <1>3, <1>17, EnterType
<1>19. Balanced(b, k, minted)
  <2> DEFINE cap == bid.seat.cap
             stake == bid.seat.stake
  <2>1. PaidOut(b, cap) = PaidOut(books, cap) + stake /\ b[cap].paid = books[cap].paid
        /\ PaidOut(books, cap) \in Nat
    <3>1. b = Enter(books, cap, 0, stake) /\ cap \in Caps /\ stake \in Nat
      BY <1>17
    <3> HIDE DEF b, cap, stake
    <3>2. 0 <= stake /\ stake = stake - 0
      BY <3>1
    <3> QED BY <1>3, <3>1, <3>2, StakePaidOut
  <2>2. SUFFICES ASSUME NEW c \in 1 .. minted
        PROVE  /\ PaidOut(b, c) = IF c = s.terms.seat.cap THEN 0 ELSE b[c].paid
               /\ s.terms.seat.cap = c => s.terms.seat.stake = b[c].paid
    <3>1. \A o \in 1 .. minted : o # minted + 1
      BY <1>3
    <3> QED BY <1>3, <1>7, <1>8, <1>11, <3>1 DEF Balanced
  <2>3. CASE c = cap
    <3>1. PaidOut(books, cap) = 0 /\ stake = books[cap].paid
      BY <1>1, <1>3, <1>17, <2>3 DEF Balanced
    <3>2. c # s.terms.seat.cap /\ stake \in Nat
      BY <1>17, <2>3
    <3> HIDE DEF b, cap, stake
    <3> QED BY <2>1, <2>3, <3>1, <3>2
  <2>4. CASE c # cap
    <3>1. c \in Caps
      BY <1>1, BoundsAssumption DEF Kept, IInv, TypeOK, Caps
    <3>2. b[c] = books[c]
      BY <1>3, <2>4, <3>1, EnterElsewhere
    <3>3. c \in Seated(s) <=> c = s.terms.seat.cap
      BY <1>17, <2>4
    <3> QED BY <1>3, <1>10, <3>2, <3>3 DEF Balanced, PaidOut
  <2> QED BY <2>3, <2>4
<1>20. Balanced(books', k, minted')
  <2>1. minted + 1 \in Seated(k) /\ k.terms.seat.cap # minted + 1
    BY <1>3, <1>7, <1>11
  <2> HIDE DEF k, pay, b
  <2> QED BY <1>1, <1>8, <1>18, <1>19, <2>1, RentBooks
<1>21. Noticed(books', k)
  <2>1. s.terms.seat.cap \in Caps /\ s.terms.seat.cap # minted + 1
    BY <1>3, <1>10, <1>11, RentingTerms DEF Terms, Seats
  <2>2. books'[s.terms.seat.cap] = books[s.terms.seat.cap]
    BY <1>1, <1>3, <1>17, <1>18, <2>1, MintElsewhere, EnterElsewhere
  <2>3. s.bid.expiry >= NoticeEnd(s.terms, books[s.terms.seat.cap].challenged)
    BY <1>1, <1>3 DEF Noticed
  <2>4. k.terms = s.terms /\ k.bid.expiry = s.bid.expiry
    BY <1>7, <1>8
  <2> HIDE DEF k
  <2> QED BY <2>2, <2>3, <2>4 DEF Noticed
<1> QED BY <1>3, <1>5, <1>9, <1>12, <1>13, <1>14, <1>16, <1>20, <1>21 DEF Promised

-----------------------------------------------------------------------------
(* Every step keeps the promises, so every behaviour does.                   *)
LEMMA NextPromised == Kept /\ [Next]_vars => Promised /\ Kept'
<1> SUFFICES ASSUME Kept, [Next]_vars PROVE Promised /\ Kept'
  OBVIOUS
<1>1. Promised
  <2>1. CASE Tick
    BY <2>1, TickPromised
  <2>2. CASE Rent
    BY <2>2, InstallPromised, PlaceBidPromised, SupersedePromised DEF Rent
  <2>3. CASE Apply
    BY <2>3, ApplyPromised
  <2>4. CASE ReturnAsset
    BY <2>4, ReturnAssetPromised
  <2>5. CASE CapHolder
    BY <2>5, BorrowAssetPromised, BurnStaleCapPromised, UpdateRefundAddressPromised DEF CapHolder
  <2>6. CASE Governor
    BY <2>6, RetirePromised, ClaimAssetPromised, ExtendRetireCommitmentPromised,
       ExtendEnsembleCommitmentPromised, UpdateEnsemblePromised DEF Governor
  <2>7. CASE UNCHANGED vars
    BY <2>7, SameSeatsPromised DEF vars, Held
  <2> QED BY <2>1, <2>2, <2>3, <2>4, <2>5, <2>6, <2>7 DEF Next
<1>2. IInv'
  BY NextInv DEF Kept
<1> QED BY <1>1, <1>2 DEF Kept, Promised

(* In every reachable state the seated caps are live and distinct, a         *)
(* challenger waits out the tenant's notice, what is scheduled can be        *)
(* adopted and the books balance, whatever the steps of                      *)
(* `packages/sim/src/sim/actions` did before.                                *)
THEOREM KeptAlways == Spec => []Kept
BY InitKept, NextPromised, PTL DEF Spec

LEMMA HeldFacts ==
  ASSUME Kept
  PROVE  /\ RetireBegun <=> Begun(Held)
         /\ ActiveCap # None <=> Renting(Held)
         /\ ActiveCap = Holder(Held)
<1>1. RetireBegun <=> Begun(Held)
  BY DEF RetireBegun, Begun
<1>2. ASSUME Renting(Held) PROVE Held.terms.seat.cap \in Caps
  <2>1. Held # Claimed
    BY <1>2 DEF Claimed, Renting
  <2>2. Held \in RentingStates \cup WaitingStates
    BY <2>1 DEF Kept, IInv, Sound
  <2>3. Held.terms \in Terms
    BY <1>2, <2>2, StateByPhase DEF Renting, OccupiedStates, DemandStates
  <2> QED BY <2>3 DEF Terms, Seats
<1> QED BY <1>1, <1>2, BoundsAssumption DEF ActiveCap, Holder

(* A scheduled ensemble always has an auction to take effect after: the      *)
(* steps that retire, adopt or expire (`retire`, `updateEnsemble`, `apply`)  *)
(* leave none behind.                                                        *)
THEOREM ScheduledEnsembleWaits == Spec => []PendingEnsembleWaits
<1>1. Kept => PendingEnsembleWaits
  BY HeldFacts DEF PendingEnsembleWaits, Kept, Orderly
<1> QED BY <1>1, KeptAlways, PTL

(* No mist is lost or paid twice: what a renter paid is the stake of its     *)
(* seat, or has left once as governor share, fee and refund, through any     *)
(* chain of handovers and expiries one `apply` settles and any supersedes.   *)
THEOREM BooksAlwaysBalance == Spec => []BooksBalance
<1>1. Kept => BooksBalance
  BY DEF BooksBalance, Kept, Balanced, PaidOut
<1> QED BY <1>1, KeptAlways, PTL

(* A cap burned as stale (`burnStaleCap.step`) never holds or awaits a seat  *)
(* again, for any number of caps and through the borrow brackets that may    *)
(* follow the burn.                                                          *)
THEOREM BurnedStaysUnseated == Spec => []BurnedCapsUnseated
<1>1. Kept => BurnedCapsUnseated
  BY DEF BurnedCapsUnseated, Kept, Orderly
<1> QED BY <1>1, KeptAlways, PTL

(* A retire, once begun, is never undone: not by the challenger who inherits *)
(* the seat (`stepHandover`), nor by a borrow bracket that spans it.         *)
THEOREM RetireStaysFinal == Spec => RetireIsFinal
<1>1. Kept /\ [Next]_vars => (RetireBegun => RetireBegun')
  <2> SUFFICES ASSUME Kept, [Next]_vars, RetireBegun PROVE RetireBegun'
    OBVIOUS
  <2>1. Begun(Held)
    BY HeldFacts
  <2>2. Begun(Held')
    BY <2>1, NextPromised DEF Promised, Bound
  <2> QED BY <2>2 DEF RetireBegun, Begun
<1> QED BY <1>1, KeptAlways, PTL DEF Spec, RetireIsFinal

(* The commitments of the governor bind in every behaviour: no retire begins *)
(* and no ensemble is accepted before its lock opens (`retire.step`,         *)
(* `updateEnsemble.step`), and no step moves an opening earlier.             *)
THEOREM CommitmentsBind == Spec => CommitmentsHonoured
<1> DEFINE A ==
      /\ ~RetireBegun /\ RetireBegun' => clock >= UnlocksAt(escrow.retireLock)
      /\ {escrow'.active, escrow'.pending} \subseteq {escrow.active, escrow.pending, None}
           \/ clock >= UnlocksAt(escrow.ensembleLock)
      /\ UnlocksAt(escrow'.retireLock) >= UnlocksAt(escrow.retireLock)
      /\ UnlocksAt(escrow'.ensembleLock) >= UnlocksAt(escrow.ensembleLock)
<1>1. Kept /\ [Next]_vars => A
  <2> SUFFICES ASSUME Kept, [Next]_vars PROVE A
    OBVIOUS
  <2>1. Bound(escrow, Held, escrow', Held', clock)
    BY NextPromised DEF Promised
  <2>2. (RetireBegun <=> Begun(Held)) /\ (RetireBegun' <=> Begun(Held'))
    BY DEF RetireBegun, Begun
  <2> QED BY <2>1, <2>2 DEF Bound
<1> QED BY <1>1, KeptAlways, PTL DEF Spec, CommitmentsHonoured

(* What a tenant may rely on, in the words of the properties.                *)
LEMMA TenantStep ==
  ASSUME Kept, [Next]_vars, ActiveCap # None
  PROVE  IF ActiveCap' = ActiveCap THEN SameTerms(escrow, Held, escrow', Held')
         ELSE Lapsed(Held, clock)
<1>1. TenantKept(escrow, Held, escrow', Held', clock) /\ Kept'
  BY NextPromised DEF Promised
<1>2. Renting(Held) /\ ActiveCap = Holder(Held)
  BY HeldFacts
<1>3. ActiveCap' = Holder(Held')
  BY DEF ActiveCap, Holder
<1>4. CASE ActiveCap' = ActiveCap
  <2>1. Renting(Held')
    BY <1>4 DEF ActiveCap
  <2> QED BY <1>1, <1>2, <1>3, <1>4, <2>1 DEF TenantKept, Sits
<1>5. CASE ActiveCap' # ActiveCap
  BY <1>1, <1>2, <1>3, <1>5 DEF TenantKept, Sits
<1> QED BY <1>4, <1>5

(* While a tenant sits, no bid, retire, settlement, refund address, borrow   *)
(* bracket or scheduled ensemble changes the terms it sits under.            *)
THEOREM TenantTermsKept == Spec => TenantKeepsTerms
<1> DEFINE A ==
      ActiveCap # None /\ ActiveCap' = ActiveCap =>
        /\ Held'.cycle = Held.cycle /\ escrow'.active = escrow.active
        /\ \A f \in {"start", "ceiling", "handover", "tenures"} :
             Held'.terms[f] = Held.terms[f]
        /\ Held'.terms.seat.stake = Held.terms.seat.stake
<1>1. Kept /\ [Next]_vars => A
  BY TenantStep DEF SameTerms
<1> QED BY <1>1, KeptAlways, PTL DEF Spec, TenantKeepsTerms

(* A seat is lost only to a settlement (`stepHandover`, `stepTenureExpiry`)  *)
(* at a boundary that has passed: the end of the tenure, or the whole        *)
(* handover notice counted from the first bid against the tenant             *)
(* (`placeBid`), which no superseding bid, retire, bracket or late           *)
(* settlement shortens.                                                      *)
THEOREM NoticeHonoured == Spec => NoEarlyEviction
<1> DEFINE A ==
      ActiveCap # None /\ ActiveCap' # ActiveCap =>
        \/ clock >= TenureEnd(Held.terms)
        \/ /\ PendingCap # None
           /\ clock >= books[ActiveCap].challenged + Held.terms.handover
<1>1. Kept /\ [Next]_vars => A
  <2> SUFFICES ASSUME Kept, [Next]_vars, ActiveCap # None, ActiveCap' # ActiveCap PROVE A
    OBVIOUS
  <2>1. Lapsed(Held, clock) /\ Renting(Held) /\ ActiveCap = Held.terms.seat.cap
    BY TenantStep, HeldFacts DEF Holder
  <2>2. CASE Held.phase # "Demand"
    BY <2>1, <2>2 DEF Lapsed
  <2>3. CASE Held.phase = "Demand"
    <3> DEFINE since == books[Held.terms.seat.cap].challenged
               end == TenureEnd(Held.terms)
    <3>1. clock >= Held.bid.expiry /\ Held.bid.expiry >= NoticeEnd(Held.terms, since)
      BY <2>1, <2>3 DEF Lapsed, Kept, Noticed
    <3>2. /\ Held.terms \in Terms /\ Held.bid \in Bids
          /\ books \in [Caps -> Entries] /\ clock \in Nat
      <4>1. Held \in RentingStates \cup WaitingStates
        BY <2>1 DEF Kept, IInv, Sound, Claimed, Renting
      <4> QED BY <2>3, <4>1, StateByPhase, BoundsAssumption
          DEF DemandStates, Kept, IInv, TypeOK, Times
    <3>3. /\ since \in Nat /\ end \in Nat /\ Held.terms.handover \in Nat
          /\ Held.bid.expiry \in Nat /\ Held.bid.seat.cap \in Caps
      BY <3>2 DEF Terms, Seats, Bids, Entries, TenureEnd
    <3>4. PendingCap # None
      BY <2>3, <3>3, BoundsAssumption DEF PendingCap
    <3>5. NoticeEnd(Held.terms, since) = Least(since + Held.terms.handover, end)
      BY DEF NoticeEnd
    <3>6. clock >= end \/ clock >= since + Held.terms.handover
      <4> HIDE DEF since, end
      <4> QED BY <3>1, <3>2, <3>3, <3>5 DEF Least
    <3> QED BY <2>1, <3>4, <3>6
  <2> QED BY <2>2, <2>3
<1> QED BY <1>1, KeptAlways, PTL DEF Spec, NoEarlyEviction

(* The escrow implements the abstract tenancy: one tenant at a time, a       *)
(* successor taken only from the line, no cap seated twice, nobody seated    *)
(* after a retirement -- through any chain of boundaries one step settles.   *)
THEOREM EscrowImplementsTenancy == Spec => ImplementsTenancy
<1>1. Init => Seat!SeatInit
  <2> SUFFICES ASSUME Init PROVE Seat!SeatInit
    OBVIOUS
  <2>1. PICK e \in Ensembles, r \in Delays, u \in Delays : escrow = Integrated(e, r, u, 0)
    BY DEF Init
  <2>2. escrow.state.phase = "Idle"
    BY <2>1 DEF Integrated, Idle
  <2>3. Held.phase = "Idle"
    BY <2>2 DEF Held, Borrowed
  <2>4. 1 .. minted = {}
    BY DEF Init
  <2> QED BY <2>3, <2>4 DEF Seat!SeatInit, ActiveCap, PendingCap, Renting
<1>2. Kept /\ [Next]_vars => [Seat!SeatNext]_(Seat!seatVars)
  <2> SUFFICES ASSUME Kept, [Next]_vars PROVE [Seat!SeatNext]_(Seat!seatVars)
    OBVIOUS
  <2>1. SeatMoves(Held, Held', minted, minted') /\ Kept'
    BY NextPromised DEF Promised
  <2>2. /\ ActiveCap = Holder(Held) /\ PendingCap = Challenger(Held)
        /\ ActiveCap' = Holder(Held') /\ PendingCap' = Challenger(Held')
    BY DEF ActiveCap, PendingCap, Holder, Challenger
  <2>3. minted \in Nat /\ minted' \in 0 .. MaxCaps /\ MaxCaps \in Nat
    BY <2>1, BoundsAssumption DEF Kept, IInv, TypeOK
  <2>4. CASE minted' = minted
    BY <2>1, <2>2, <2>3, <2>4
    DEF SeatMoves, Closed, Seat!SeatNext, Seat!Succeed, Seat!Vacate, Seat!Close, Seat!seatVars
  <2>5. CASE minted' = minted + 1
    <3>1. /\ minted' \in Caps /\ minted' \notin 1 .. minted
          /\ 1 .. minted' = (1 .. minted) \cup {minted'}
      BY <2>3, <2>5 DEF Caps
    <3>2. Seat!Seat(minted') \/ Seat!Challenge(minted')
      BY <2>1, <2>2, <2>3, <2>5, <3>1
      DEF SeatMoves, Closed, Seat!Seat, Seat!Challenge
    <3> QED BY <3>1, <3>2 DEF Seat!SeatNext
  <2> QED BY <2>1, <2>4, <2>5 DEF SeatMoves
<1> QED BY <1>1, <1>2, KeptAlways, PTL DEF Spec, ImplementsTenancy, Seat!SeatSpec

-----------------------------------------------------------------------------
(* Settling twice is settling once, later: a boundary that is due stays due, *)
(* and what is done at it does not depend on when.                           *)

Lazy(b, x, t1, t2) ==
  /\ Settle(Settle(x, t1), t2) = Settle(x, t2)
  /\ SettleBooks(SettleBooks(b, x, t1), Settle(x, t1), t2) = SettleBooks(b, x, t2)

LEMMA SettleWaiting ==
  ASSUME NEW x, NEW b, NEW t, x.state.phase \notin {"Demand", "Occupied"}
  PROVE  /\ Settle(x, t) = StepAuctionExpiry(x, t)
         /\ SettleBooks(b, x, t) = b
BY DEF Settle, SettleBooks, StepHandover, StepTenureExpiry, EnterHandover, EnterTenureExpiry,
   HandoverDue, TenureExpiryDue

LEMMA SettleIdle ==
  ASSUME NEW x, NEW b, NEW t, x.state.phase \notin {"Demand", "Occupied", "Descent"}
  PROVE  Settle(x, t) = x /\ SettleBooks(b, x, t) = b
BY SettleWaiting DEF StepAuctionExpiry, AuctionExpiryDue

LEMMA LazyWaiting ==
  ASSUME NEW x \in Escrows, NEW b, NEW t1 \in Nat, NEW t2 \in Nat, t1 <= t2,
         x.state \in WaitingStates
  PROVE  Lazy(b, x, t1, t2)
<1>1. x.state.phase \in {"Idle", "Descent", "Retired"}
  BY DEF WaitingStates, IdleStates, DescentStates, Retired
<1>2. CASE x.state.phase # "Descent"
  BY <1>1, <1>2, SettleIdle DEF Lazy
<1>3. CASE x.state.phase = "Descent" /\ ~AuctionExpiryDue(x, t1)
  BY <1>3, SettleWaiting DEF Lazy, StepAuctionExpiry
<1>4. CASE AuctionExpiryDue(x, t1)
  <2> DEFINE y == StepAuctionExpiry(x, t1)
  <2>1. x.state.phase = "Descent" /\ x.state \in DescentStates
    BY <1>1, <1>4 DEF AuctionExpiryDue, WaitingStates, DescentStates, IdleStates, Retired
  <2>2. x.state.start \in Nat /\ x.state.cycle.descent \in Nat
    BY <2>1 DEF DescentStates, Cycles
  <2>3. AuctionExpiryDue(x, t2)
    BY <1>4, <2>2 DEF AuctionExpiryDue
  <2>4. StepAuctionExpiry(x, t2) = y
    BY <1>4, <2>3 DEF StepAuctionExpiry
  <2>5. y.state.phase = "Idle"
    BY <1>4 DEF StepAuctionExpiry, Escrows, Idle
  <2>6. Settle(y, t2) = y /\ SettleBooks(b, y, t2) = b
    BY <2>5, SettleIdle
  <2> QED BY <2>1, <2>4, <2>6, SettleWaiting DEF Lazy
<1> QED BY <1>1, <1>2, <1>3, <1>4

LEMMA LazyOccupied ==
  ASSUME NEW x \in Escrows, NEW b, NEW t1 \in Nat, NEW t2 \in Nat, t1 <= t2,
         x.state \in OccupiedStates
  PROVE  Lazy(b, x, t1, t2)
<1>1. x.state.phase = "Occupied" /\ x.state.terms \in Terms /\ x.state.cycle \in Cycles
  BY DEF OccupiedStates
<1>2. \A t : /\ Settle(x, t) = StepAuctionExpiry(StepTenureExpiry(x, t), t)
             /\ SettleBooks(b, x, t) = EnterTenureExpiry(b, x, t)
  BY <1>1 DEF Settle, SettleBooks, StepHandover, EnterHandover, HandoverDue
<1>3. CASE ~TenureExpiryDue(x, t1)
  <2>1. Settle(x, t1) = x /\ SettleBooks(b, x, t1) = b
    BY <1>1, <1>2, <1>3
    DEF StepTenureExpiry, StepAuctionExpiry, AuctionExpiryDue, EnterTenureExpiry
  <2> QED BY <2>1 DEF Lazy
<1>4. CASE TenureExpiryDue(x, t1)
  <2> DEFINE e == StepTenureExpiry(x, t1)
             c == EnterTenureExpiry(b, x, t1)
  <2>1. TenureEnd(x.state.terms) \in Nat
    BY <1>1 DEF TenureEnd, Terms
  <2>2. TenureExpiryDue(x, t2)
    BY <1>4, <2>1 DEF TenureExpiryDue
  <2>3. StepTenureExpiry(x, t2) = e /\ EnterTenureExpiry(b, x, t2) = c
    BY <1>4, <2>2 DEF StepTenureExpiry, EnterTenureExpiry
  <2>4. e \in Escrows /\ e.state \in WaitingStates
    <3>1. CASE x.state.terms.retiring
      <4>1. e = [x EXCEPT !.state = Retired, !.pending = None]
        BY <1>4, <3>1 DEF StepTenureExpiry
      <4>2. Retired \in WaitingStates
        BY DEF WaitingStates
      <4> QED BY <4>1, <4>2 DEF Escrows, States
    <3>2. CASE ~x.state.terms.retiring
      <4> DEFINE d == Descent(x.state.cycle, x.state.terms.seat.stake \div x.state.terms.tenures,
                              TenureEnd(x.state.terms))
      <4>1. e = [x EXCEPT !.state = d]
        BY <1>4, <3>2 DEF StepTenureExpiry
      <4>2. x.state.terms.seat.stake \div x.state.terms.tenures \in Nat
        <5>1. x.state.terms.seat.stake \in Nat /\ x.state.terms.tenures \in Nat \ {0}
          BY <1>1, TenuresAssumption DEF Terms, Seats
        <5>2. \A p \in Nat, q \in Nat \ {0} : p \div q \in Nat
          OBVIOUS
        <5> QED BY <5>1, <5>2
      <4>3. d \in DescentStates
        BY <1>1, <2>1, <4>2 DEF Descent, DescentStates
      <4>4. d \in WaitingStates
        BY <4>3 DEF WaitingStates
      <4> HIDE DEF d
      <4> QED BY <4>1, <4>4 DEF Escrows, States
    <3> QED BY <3>1, <3>2
  <2>5. e.state.phase \notin {"Demand", "Occupied"}
    BY <2>4 DEF WaitingStates, IdleStates, DescentStates, Retired
  <2>6. /\ Settle(x, t1) = Settle(e, t1) /\ Settle(x, t2) = Settle(e, t2)
        /\ SettleBooks(b, x, t1) = c /\ SettleBooks(b, x, t2) = c
        /\ SettleBooks(c, e, t1) = c /\ SettleBooks(c, e, t2) = c
    BY <1>2, <2>3, <2>5, SettleWaiting
  <2> HIDE DEF e, c
  <2>7. Lazy(c, e, t1, t2)
    BY <2>4, LazyWaiting
  <2> QED BY <2>6, <2>7 DEF Lazy
<1> QED BY <1>3, <1>4

LEMMA LazyDemand ==
  ASSUME NEW x, NEW b, NEW t0 \in Nat, SoundEscrow(x, t0), x.state.phase = "Demand",
         NEW t1 \in Nat, NEW t2 \in Nat, t0 <= t1, t1 <= t2
  PROVE  Lazy(b, x, t1, t2)
<1>1. x \in Escrows /\ x.state \in DemandStates
  BY StateByPhase DEF SoundEscrow, Sound
<1>2. CASE ~HandoverDue(x, t1)
  <2>1. Settle(x, t1) = x /\ SettleBooks(b, x, t1) = b
    <3>1. StepHandover(x, t1) = x /\ EnterHandover(b, x, t1) = b
      BY <1>2 DEF StepHandover, EnterHandover
    <3>2. StepTenureExpiry(x, t1) = x /\ EnterTenureExpiry(b, x, t1) = b
      BY DEF StepTenureExpiry, EnterTenureExpiry, TenureExpiryDue
    <3>3. StepAuctionExpiry(x, t1) = x
      BY DEF StepAuctionExpiry, AuctionExpiryDue
    <3> QED BY <3>1, <3>2, <3>3 DEF Settle, SettleBooks
  <2> QED BY <2>1 DEF Lazy
<1>3. CASE HandoverDue(x, t1)
  <2> DEFINE h == StepHandover(x, t1)
             c == EnterHandover(b, x, t1)
  <2>1. x.state.bid.expiry \in Nat
    BY <1>1 DEF DemandStates, Bids
  <2>2. HandoverDue(x, t2)
    BY <1>3, <2>1 DEF HandoverDue
  <2>3. StepHandover(x, t2) = h /\ EnterHandover(b, x, t2) = c
    BY <1>3, <2>2 DEF StepHandover, EnterHandover
  <2>4. SoundEscrow(x, t1)
    <3>1. x.state.terms.start \in Nat
      BY <1>1 DEF DemandStates, Terms
    <3> QED BY <3>1 DEF SoundEscrow, Sound
  <2>5. SoundEscrow(h, t1)
    BY <2>4, HandoverStep
  <2>6. h.state.phase = "Occupied"
    BY <1>1, <1>3 DEF StepHandover, Escrows, Occupied
  <2>7. h \in Escrows /\ h.state \in OccupiedStates
    BY <2>5, <2>6, StateByPhase DEF SoundEscrow, Sound
  <2>8. \A t : StepHandover(h, t) = h /\ EnterHandover(c, h, t) = c
    BY <2>6 DEF StepHandover, EnterHandover, HandoverDue
  <2>9. /\ Settle(x, t1) = Settle(h, t1) /\ Settle(x, t2) = Settle(h, t2)
        /\ SettleBooks(b, x, t1) = SettleBooks(c, h, t1)
        /\ SettleBooks(b, x, t2) = SettleBooks(c, h, t2)
    BY <2>3, <2>8 DEF Settle, SettleBooks
  <2> HIDE DEF h, c
  <2>10. Lazy(c, h, t1, t2)
    BY <2>7, LazyOccupied
  <2> QED BY <2>9, <2>10 DEF Lazy
<1> QED BY <1>2, <1>3

(* `apply` may be called late, early or often: settling now and again later  *)
(* leaves the escrow and the books that settling once, later, leaves, at any *)
(* two times and however many boundaries lie between them.                   *)
THEOREM SettlingIsLazy == Spec => []LazinessUnobservable
<1>1. IInv => LazinessUnobservable
  <2> SUFFICES ASSUME IInv, Live(escrow), NEW t1 \in clock .. MaxTime + MaxMs,
                      NEW t2 \in t1 .. MaxTime + MaxMs
               PROVE  Lazy(books, escrow, t1, t2)
    BY DEF LazinessUnobservable, Lazy
  <2>1. SoundEscrow(escrow, clock) /\ clock \in Nat
    BY LiveIsSound
  <2>2. t1 \in Nat /\ t2 \in Nat /\ clock <= t1 /\ t1 <= t2
    BY <2>1, BoundsAssumption
  <2>3. escrow \in Escrows /\ escrow.state \in RentingStates \cup WaitingStates
    BY <2>1 DEF SoundEscrow, Sound
  <2>4. CASE escrow.state \in WaitingStates
    BY <2>2, <2>3, <2>4, LazyWaiting
  <2>5. CASE escrow.state \in OccupiedStates
    BY <2>2, <2>3, <2>5, LazyOccupied
  <2>6. CASE escrow.state \in DemandStates
    BY <2>1, <2>2, <2>6, LazyDemand DEF DemandStates
  <2> QED BY <2>3, <2>4, <2>5, <2>6 DEF RentingStates
<1> QED BY <1>1, Invariance, PTL
=============================================================================
