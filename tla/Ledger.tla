------------------------------- MODULE Ledger -------------------------------
(***************************************************************************)
(* From the events of an escrow to its ledger: the walk of the indexer's   *)
(* transactions and the order it gives their events (`escrowTimeline` of   *)
(* indexer/source.ts), and the two folds of highlevel/ledger.ts, a cap's   *)
(* statement and the escrow's tenancies.                                   *)
(*                                                                         *)
(* The contract is not in the repository.  What it emits is modelled from  *)
(* how the folds read it: a transaction settles what is due, then rents or *)
(* not; its events carry its timestamp.  Beside the log it keeps what each *)
(* cap paid and got back, and who held the seat, for the ledger to match.  *)
(***************************************************************************)
EXTENDS Integers, FiniteSets, SequencesExt

CONSTANTS
  Prices,   \* what a rent may pay
  PageSize, \* transactions a page of the indexer holds
  MaxTime,  \* bound: the timestamps
  MaxTxs    \* bound: the transactions

ASSUME BoundsAssumption ==
  Prices \subseteq Nat /\ {PageSize, MaxTime, MaxTxs} \subseteq Nat \ {0}

VARIABLES
  clock,   \* the timestamp of the next transaction
  chain,   \* tenant, challenger, the account of each cap, and who held the seat
  log,     \* the transactions that touched the escrow
  walk     \* one walk of the log: its window, what it got, its cursor

vars == <<clock, chain, log, walk>>

Nobody == [cap |-> 0, stake |-> 0, since |-> 0]

Init ==
  /\ clock = 1 /\ log = <<>>
  /\ chain = [tenant |-> Nobody, challenger |-> Nobody, accounts |-> <<>>, held |-> <<>>,
              events |-> <<>>]
  /\ walk = [state |-> "none", after |-> 0, got |-> <<>>, cursor |-> 0]

-----------------------------------------------------------------------------
(* What a transaction does to the escrow and emits.  `in` is the cap that    *)
(* takes a place, `out` the one that leaves it.                              *)

Event(kind, in, paid, out, used, refund) ==
  [kind |-> kind, at |-> clock, in |-> in, paid |-> paid, out |-> out, used |-> used,
   refund |-> refund]

Tenure(cap, stake) ==
  [cap |-> cap, from |-> clock, until |-> 0, acquired |-> stake, used |-> 0, refund |-> 0]
Ended(held, used, refund) ==
  [held EXCEPT ![Len(held)] = [@ EXCEPT !.until = clock, !.used = used, !.refund = refund]]

Closed(c, cap, status, used, refund) ==
  [c.accounts EXCEPT ![cap] = [@ EXCEPT !.status = status, !.used = used, !.refund = refund]]

(* The challenger moved up at `since`, not later than the transaction that   *)
(* settles it.                                                               *)
HandedOver(c) ==
  IF c.challenger = Nobody THEN {}
  ELSE LET out == c.tenant
           in == c.challenger
           Moved(used, since) ==
             [tenant |-> [in EXCEPT !.since = since], challenger |-> Nobody,
              accounts |-> [Closed(c, out.cap, "displaced", used, out.stake - used)
                              EXCEPT ![in.cap].status = "active"],
              held |-> Append(Ended(c.held, used, out.stake - used), Tenure(in.cap, in.stake)),
              events |-> Append(c.events, Event("HandoverCompleted", in.cap, in.stake,
                                                out.cap, used, out.stake - used))]
       IN  {Moved(u, t) : u \in 0 .. out.stake, t \in in.since .. clock}

(* A tenure lasts.                                                           *)
Expired(c) ==
  IF c.tenant = Nobody \/ c.challenger # Nobody \/ c.tenant.since = clock THEN {}
  ELSE {[tenant |-> Nobody, challenger |-> Nobody,
         accounts |-> Closed(c, c.tenant.cap, "expired", c.tenant.stake, 0),
         held |-> Ended(c.held, c.tenant.stake, 0),
         events |-> Append(c.events, Event("TenureExpired", 0, 0, c.tenant.cap,
                                           c.tenant.stake, 0))]}

Settled(c) ==
  LET moved == HandedOver(c)
  IN  {c} \cup moved \cup Expired(c) \cup UNION {Expired(m) : m \in moved}

Rented(c, p) ==
  LET cap == Len(c.accounts) + 1
      new == [cap |-> cap, stake |-> p, since |-> clock]
      Opened(status) ==
        Append(c.accounts, [paid |-> p, used |-> 0, refund |-> 0, status |-> status])
  IN  IF c.tenant = Nobody
      THEN [c EXCEPT !.tenant = new, !.accounts = Opened("active"),
                     !.held = Append(@, Tenure(cap, p)),
                     !.events = Append(@, Event("RentStarted", cap, p, 0, 0, 0))]
      ELSE IF c.challenger = Nobody
      THEN [c EXCEPT !.challenger = new, !.accounts = Opened("pending"),
                     !.events = Append(@, Event("BidPlaced", cap, p, 0, 0, 0))]
      ELSE LET old == c.challenger
           IN  [c EXCEPT !.challenger = new,
                         !.accounts = [Opened("pending") EXCEPT
                           ![old.cap] = [@ EXCEPT !.status = "superseded", !.refund = old.stake]],
                         !.events = Append(@, Event("BidSuperseded", cap, p, old.cap, 0, old.stake))]

(* What is due is settled whenever a transaction comes; `held` keeps the     *)
(* times of the settling transactions, as the events do, not the boundaries. *)
Transaction ==
  /\ Len(log) < MaxTxs
  /\ \E c \in Settled(chain) : \E d \in {c} \cup {Rented(c, p) : p \in Prices} :
       /\ d.events # <<>>
       /\ log' = Append(log, [at |-> clock, events |-> d.events])
       /\ chain' = [d EXCEPT !.events = <<>>]
  /\ UNCHANGED <<clock, walk>>

(* Transactions of one checkpoint share its timestamp.                       *)
Tick ==
  /\ clock < MaxTime
  /\ clock' = clock + 1
  /\ UNCHANGED <<chain, log, walk>>

-----------------------------------------------------------------------------
(* escrowTimeline: page through the window, then sort. *)

(* What a sequence has at some places, in its order.                         *)
Picked(seq, places) ==
  LET upTo[n \in 0 .. Len(seq)] ==
        IF n = 0 THEN <<>>
        ELSE IF n \in places THEN Append(upTo[n - 1], seq[n]) ELSE upTo[n - 1]
  IN  upTo[Len(seq)]

Window(after) == Picked(log, {n \in DOMAIN log : log[n].at > after})

StartWalk(after) ==
  /\ walk.state = "none"
  /\ walk' = [state |-> "paging", after |-> after, got |-> <<>>, cursor |-> 0]
  /\ UNCHANGED <<clock, chain, log>>

PageFrom(from) ==
  LET end == Len(Window(walk.after))
      to == IF walk.cursor + PageSize < end THEN walk.cursor + PageSize ELSE end
  IN  /\ walk.state = "paging"
      /\ walk' = [walk EXCEPT !.got = @ \o SubSeq(Window(walk.after), from + 1, to),
                              !.cursor = to,
                              !.state = IF to < end THEN "paging" ELSE "done"]
      /\ UNCHANGED <<clock, chain, log>>

(* A slip: a page begins with the last transaction of the one before.        *)
NextPageRereads == PageFrom(IF walk.cursor = 0 THEN 0 ELSE walk.cursor - 1)

NextPage == PageFrom(walk.cursor)

Alphabet == [BidPlaced |-> 1, BidSuperseded |-> 2, HandoverCompleted |-> 3, RentStarted |-> 4,
             TenureExpired |-> 5]

Emitted(txs) ==
  LET upTo[n \in 0 .. Len(txs)] == IF n = 0 THEN <<>> ELSE upTo[n - 1] \o txs[n].events
  IN  upTo[Len(txs)]

(* Sorted by time, then by name; the sort is stable.                         *)
Timeline(txs) ==
  LET evs == Emitted(txs)
      Key(i) == evs[i].at * 10 + Alphabet[evs[i].kind]
      place == [i \in DOMAIN evs |->
                  Cardinality({j \in DOMAIN evs : Key(j) < Key(i) \/ (Key(j) = Key(i) /\ j <= i)})]
  IN  [k \in DOMAIN evs |-> evs[CHOOSE i \in DOMAIN evs : place[i] = k]]

-----------------------------------------------------------------------------
(* reconstructStatement *)

Blank == [paid |-> 0, refunded |-> 0, consumed |-> 0, occupied |-> FALSE, pending |-> FALSE,
          terminal |-> "none"]

Pays(s, e) == [s EXCEPT !.paid = @ + e.paid]
Wins(s) == [s EXCEPT !.occupied = TRUE, !.pending = FALSE, !.terminal = "none"]
Leaves(s, e, outcome) ==
  [s EXCEPT !.consumed = @ + e.used, !.refunded = @ + e.refund, !.occupied = FALSE,
            !.terminal = outcome]

(* Slips: the stake of a winner counts as a second payment; a cap that wins  *)
(* the seat is not marked as holding it.                                     *)
StatementStepPaysTwice(s, e, cap) ==
  CASE e.kind = "RentStarted" /\ e.in = cap ->
         [Pays(s, e) EXCEPT !.occupied = TRUE, !.terminal = "none"]
    [] e.kind \in {"BidPlaced", "BidSuperseded"} /\ e.in = cap ->
         [Pays(s, e) EXCEPT !.pending = TRUE]
    [] e.kind = "HandoverCompleted" /\ e.in = cap -> Wins(Pays(s, e))
    [] e.kind # "TenureExpired" /\ e.out = cap -> Leaves(s, e, "displaced")
    [] e.kind = "TenureExpired" /\ e.out = cap -> Leaves(s, e, "expired")
    [] OTHER -> s
StatementStepWinnerWaits(s, e, cap) ==
  CASE e.kind = "RentStarted" /\ e.in = cap ->
         [Pays(s, e) EXCEPT !.occupied = TRUE, !.terminal = "none"]
    [] e.kind \in {"BidPlaced", "BidSuperseded"} /\ e.in = cap ->
         [Pays(s, e) EXCEPT !.pending = TRUE]
    [] e.kind = "BidSuperseded" /\ e.out = cap -> Leaves(s, e, "superseded")
    [] e.kind = "HandoverCompleted" /\ e.out = cap -> Leaves(s, e, "displaced")
    [] e.kind = "TenureExpired" /\ e.out = cap -> Leaves(s, e, "expired")
    [] OTHER -> s

StatementStep(s, e, cap) ==
  CASE e.kind = "RentStarted" /\ e.in = cap ->
         [Pays(s, e) EXCEPT !.occupied = TRUE, !.terminal = "none"]
    [] e.kind \in {"BidPlaced", "BidSuperseded"} /\ e.in = cap ->
         [Pays(s, e) EXCEPT !.pending = TRUE]
    [] e.kind = "BidSuperseded" /\ e.out = cap ->
         [s EXCEPT !.refunded = @ + e.refund, !.pending = FALSE, !.terminal = "superseded"]
    [] e.kind = "HandoverCompleted" /\ e.in = cap -> Wins(s)
    [] e.kind = "HandoverCompleted" /\ e.out = cap -> Leaves(s, e, "displaced")
    [] e.kind = "TenureExpired" /\ e.out = cap -> Leaves(s, e, "expired")
    [] OTHER -> s

Statement(events, cap) ==
  LET after[n \in 0 .. Len(events)] ==
        IF n = 0 THEN Blank ELSE StatementStep(after[n - 1], events[n], cap)
  IN  after[Len(events)]

Status(s) ==
  IF s.terminal # "none" THEN s.terminal
  ELSE IF s.occupied THEN "active" ELSE IF s.pending THEN "pending" ELSE "superseded"

-----------------------------------------------------------------------------
(* reconstructTenancies *)

Vacant == [cap |-> 0, from |-> 0, until |-> 0, acquired |-> 0, used |-> 0, refund |-> 0]

Open(t, e) ==
  [t EXCEPT !.current = [cap |-> e.in, from |-> e.at, until |-> 0, acquired |-> e.paid, used |-> 0,
                         refund |-> 0]]
Close(t, e) ==
  IF t.current = Vacant THEN t
  ELSE [done |-> Append(t.done, [t.current EXCEPT !.until = e.at, !.used = e.used,
                                                  !.refund = e.refund]),
        current |-> Vacant]

(* A slip: the incoming tenant is opened before the outgoing one is closed.  *)
TenancyStepOpensFirst(t, e) ==
  CASE e.kind = "RentStarted" -> Open(t, e)
    [] e.kind = "TenureExpired" -> Close(t, e)
    [] e.kind = "HandoverCompleted" -> Close(Open(t, e), e)
    [] OTHER -> t

TenancyStep(t, e) ==
  CASE e.kind = "RentStarted" -> Open(t, e)
    [] e.kind = "TenureExpired" -> Close(t, e)
    [] e.kind = "HandoverCompleted" -> Open(Close(t, e), e)
    [] OTHER -> t

NoTenancies == [done |-> <<>>, current |-> Vacant]

Walked(events) ==
  LET after[n \in 0 .. Len(events)] ==
        IF n = 0 THEN NoTenancies ELSE TenancyStep(after[n - 1], events[n])
  IN  after[Len(events)]

Tenancies(events) ==
  LET t == Walked(events)
  IN  IF t.current = Vacant THEN t.done ELSE Append(t.done, t.current)

-----------------------------------------------------------------------------
Next == Transaction \/ Tick \/ NextPage \/ (\E after \in 0 .. clock : StartWalk(after))

Spec == Init /\ [][Next]_vars

-----------------------------------------------------------------------------
(* The walk is up to date with its window.                                   *)
UpToDate == walk.state = "done" /\ walk.got = Window(walk.after)

(* Sorting has not moved a boundary of the seat past another one.            *)
Boundaries(events) ==
  Picked(events, {n \in DOMAIN events :
                    events[n].kind \in {"RentStarted", "HandoverCompleted", "TenureExpired"}})
BoundariesInOrder == Boundaries(Timeline(walk.got)) = Boundaries(Emitted(walk.got))

(* A walk reads, page by page, every transaction of its window once and in   *)
(* order, while others are committed: what it has is a beginning of the      *)
(* window.                                                                   *)
WalkReadsWindow == IsPrefix(walk.got, Window(walk.after))

(* Whatever the order of events with equal times, a cap's statement has the  *)
(* sums the chain settled; of a closed cap (ledger.ts:41) what it paid is    *)
(* what it consumed and what it got back.                                    *)
StatementSettles ==
  UpToDate /\ walk.after = 0 =>
    \A cap \in DOMAIN chain.accounts :
      LET s == Statement(Timeline(walk.got), cap)
          a == chain.accounts[cap]
      IN  /\ s.paid = a.paid /\ s.consumed = a.used /\ s.refunded = a.refund
          /\ Status(s) \notin {"active", "pending"} => s.paid = s.consumed + s.refunded

(* The status is the cap's, unless a tenancy was begun and handed over at    *)
(* one timestamp.                                                            *)
StatusFaithful ==
  UpToDate /\ walk.after = 0 /\ BoundariesInOrder =>
    \A cap \in DOMAIN chain.accounts :
      Status(Statement(Timeline(walk.got), cap)) = chain.accounts[cap].status

(* As long as the sort keeps the boundaries in order, the tenancies are who  *)
(* held the seat, when, for what and how it settled; of a window that opens  *)
(* later (`afterCheckpoint`), those that began in it.                        *)
TenanciesFaithful ==
  UpToDate /\ BoundariesInOrder =>
    Tenancies(Timeline(walk.got)) =
      Picked(chain.held, {n \in DOMAIN chain.held : chain.held[n].from > walk.after})

(* ledger.ts:108, of a tenancy: "One occupation interval — who held the      *)
(* asset, what they paid, how it settled", whatever shares a timestamp.      *)
TenanciesAlwaysFaithful ==
  UpToDate /\ walk.after = 0 => Tenancies(Timeline(walk.got)) = chain.held
=============================================================================
