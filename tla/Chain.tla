------------------------------- MODULE Chain --------------------------------
(***************************************************************************)
(* The deployed escrow as the SDK meets it: an object others change        *)
(* between any two of a client's requests.  The contract is not in the     *)
(* repository; what each operation asks and does is taken from how the     *)
(* handles, the mirror and the tests use it, prices and time reduced to    *)
(* what a client can be wrong about.  An operation that finds a boundary   *)
(* due settles it first: here the boundary is a step of its own, which may *)
(* come right before any operation.                                        *)
(***************************************************************************)
EXTENDS Naturals, SequencesExt

CONSTANTS
  None,      \* no cap, no market scheduled, no auction
  Others     \* the operations other parties may run

ASSUME NoneAssumption == None \notin Nat /\ None \notin [{"price", "tenure"} -> Nat]
ASSUME OthersAssumption ==
  Others \subseteq {"rent", "update", "retire", "claim", "collect", "burnStale", "succeed", "vacate",
                    "cool"}

VARIABLES
  chain,    \* the escrow, its caps and its inbox
  moment,   \* how many transactions have run: the version of the object
  revised,  \* the moment its market, or what is scheduled, last changed
  moves     \* bound: how often other parties may still move

chainVars == <<chain, moment, revised, moves>>

(* A market, of which two fields can be read and written apart.              *)
Opening == [price |-> 1, tenure |-> 1]
Overlay(market, patch) == [f \in DOMAIN market |-> IF f \in DOMAIN patch THEN patch[f] ELSE market[f]]

(* Caps are numbered as they are minted; stakes[c] is what cap c was rented  *)
(* for, rates[c] that by the tenure.  Messages are numbered as they are      *)
(* posted; message n holds n.                                                *)
Listed ==
  [ tenant |-> None, challenger |-> None, stakes |-> <<>>, rates |-> <<>>, burned |-> {},
    market |-> Opening, scheduled |-> None, auction |-> None,
    retiring |-> FALSE, retired |-> FALSE, claimed |-> FALSE,
    posted |-> 0, inbox |-> {} ]

Caps(s) == DOMAIN s.stakes
Seats(s) == {s.tenant, s.challenger} \ {None}
Stale(s, c) == c \notin Seats(s)
Latest(s) == IF s.scheduled = None THEN s.market ELSE s.scheduled

Floor(s) ==
  IF s.tenant # None THEN s.rates[IF s.challenger = None THEN s.tenant ELSE s.challenger] + 1
  ELSE IF s.auction # None THEN s.auction ELSE s.market.price

-----------------------------------------------------------------------------
(* Operations: what each asks of the escrow, and the escrow it leaves.       *)

Posted(s) == [s EXCEPT !.posted = @ + 1, !.inbox = @ \cup {s.posted + 1}]
Retired(s) == [s EXCEPT !.retired = TRUE, !.scheduled = None, !.auction = None]

Allowed(s, op) ==
  CASE op.fn = "rent"      -> ~s.retiring /\ ~s.retired /\ op.pay >= Floor(s) * op.count
    [] op.fn = "update"    -> ~s.retiring /\ ~s.retired
    [] op.fn = "retire"    -> ~s.retiring /\ ~s.retired
    [] op.fn = "claim"     -> s.retired
    [] op.fn = "collect"   -> op.messages \subseteq s.inbox
    [] op.fn = "burnStale" -> op.cap \in Caps(s) \ s.burned /\ Stale(s, op.cap)
    [] op.fn = "burn"      -> op.cap \in Caps(s) \ s.burned
    [] op.fn = "borrow"    -> s.tenant = op.cap /\ op.cap \notin s.burned
    [] op.fn = "refund"    -> op.cap \in Seats(s) \ s.burned
    [] op.fn = "succeed"   -> s.challenger # None
    [] op.fn = "vacate"    -> s.tenant # None /\ s.challenger = None
    [] op.fn = "cool"      -> s.auction # None
    [] OTHER               -> TRUE

Rented(s, pay, count) ==
  LET c == Len(s.stakes) + 1
      t == [s EXCEPT !.stakes = Append(@, pay), !.rates = Append(@, pay \div count)]
  IN  IF s.tenant = None THEN [t EXCEPT !.tenant = c, !.auction = None]
      ELSE [t EXCEPT !.challenger = c]

(* A tenancy or an auction keeps the market it runs under.                   *)
Updated(s, market) ==
  IF s.tenant = None /\ s.auction = None THEN [s EXCEPT !.market = market]
  ELSE [s EXCEPT !.scheduled = market]

Vacated(s) ==
  LET t == [Posted(s) EXCEPT !.tenant = None]
  IN  IF s.retiring THEN Retired(t) ELSE [t EXCEPT !.auction = s.rates[s.tenant]]

(* The asking price falls to the rest price, then the auction is over.       *)
Cooled(s) ==
  IF s.auction > s.market.price THEN [s EXCEPT !.auction = s.market.price]
  ELSE [s EXCEPT !.auction = None, !.market = Latest(s), !.scheduled = None]

After(s, op) ==
  CASE op.fn = "rent"      -> Rented(s, op.pay, op.count)
    [] op.fn = "update"    -> Updated(s, op.market)
    [] op.fn = "retire"    -> IF s.tenant = None THEN Retired(s) ELSE [s EXCEPT !.retiring = TRUE]
    [] op.fn = "claim"     -> [s EXCEPT !.claimed = TRUE]
    [] op.fn = "collect"   -> [s EXCEPT !.inbox = @ \ op.messages]
    [] op.fn \in {"burnStale", "burn"} -> [s EXCEPT !.burned = @ \cup {op.cap}]
    [] op.fn = "succeed"   -> [Posted(s) EXCEPT !.tenant = s.challenger, !.challenger = None]
    [] op.fn = "vacate"    -> Vacated(s)
    [] op.fn = "cool"      -> Cooled(s)
    [] OTHER               -> s

(* A transaction runs its operations in order, all of them or none.          *)
Course(s, ops) ==
  LET after[n \in 0 .. Len(ops)] == IF n = 0 THEN s ELSE After(after[n - 1], ops[n])
  IN  after
AfterAll(s, ops) == Course(s, ops)[Len(ops)]
Elsewhere ==
  {"integrate", "integrateIntoPortfolio", "transfer", "renounce", "burn", "collect", "nothing"}
Runs(s, ops) ==
  \A i \in DOMAIN ops :
    LET t == Course(s, ops)[i - 1]
    IN  (t.claimed => ops[i].fn \in Elsewhere) /\ Allowed(t, ops[i])

-----------------------------------------------------------------------------
(* Where a run may start, each reached from Listed by operations.            *)

Rent(pay) == [fn |-> "rent", pay |-> pay, count |-> 1]
Step(fn) == [fn |-> fn]
History ==
  [ idle     |-> <<>>,
    occupied |-> <<Rent(1)>>,
    demand   |-> <<Rent(1), Rent(3)>>,
    handed   |-> <<Rent(1), Rent(2), Step("succeed")>>,
    descent  |-> <<Rent(3), Step("vacate")>>,
    ended    |-> <<Step("retire")>> ]

ChainInit(start, allowed) ==
  /\ chain = AfterAll(Listed, History[start])
  /\ moment = 0 /\ revised = 0 /\ moves = allowed

(* One transaction, whoever sends it.                                        *)
Change(ops) ==
  /\ Runs(chain, ops)
  /\ chain' = AfterAll(chain, ops)
  /\ moment' = moment + 1
  /\ revised' = IF <<chain'.market, chain'.scheduled>> = <<chain.market, chain.scheduled>>
                THEN revised ELSE moment + 1

(* What other parties would send: a rent at the floor, the governor's patch, *)
(* everything in the inbox, any cap that went stale.                         *)
Op(fn) ==
  CASE fn = "rent"      -> {Rent(Floor(chain))}
    [] fn = "update"    -> {[fn |-> fn, market |-> Overlay(Latest(chain), [tenure |-> 2])]}
    [] fn = "collect"   -> {[fn |-> fn, messages |-> chain.inbox]}
    [] fn = "burnStale" -> {[fn |-> fn, cap |-> c] : c \in Caps(chain)}
    [] OTHER            -> {Step(fn)}

OthersMove ==
  /\ moves > 0 /\ moves' = moves - 1
  /\ \E fn \in Others : \E op \in Op(fn) : Change(<<op>>)
=============================================================================
