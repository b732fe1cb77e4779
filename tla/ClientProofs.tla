---------------------------- MODULE ClientProofs ----------------------------
(***************************************************************************)
(* What the clients of one escrow are promised, for every chain of         *)
(* scenarios, callers and parties.                                         *)
(***************************************************************************)
EXTENDS Client, ReadSpecsProofs, FiniteSetTheorems

-----------------------------------------------------------------------------
(* The feed.                                                                 *)

Rising(versions) == \A i, j \in DOMAIN versions : i < j => versions[i] < versions[j]
Below(versions, version) == \A i \in DOMAIN versions : versions[i] <= version

FeedFields ==
  {"kind", "pc", "last", "tries", "faults", "live", "heard", "closed", "buffer", "shown"}

(* All that was yielded is no newer than the version last pumped or fetched, *)
(* and what waits in the channel of memorySource comes after what was taken. *)
FeedInv ==
  /\ moment \in Nat
  /\ feed = [field \in FeedFields |-> feed[field]]
  /\ feed.shown \in Seq(Int) /\ feed.buffer \in Seq(Int) /\ feed.last \in Int
  /\ feed.last <= moment /\ Rising(feed.shown) /\ Below(feed.shown, feed.last)
  /\ feed.live => feed.kind = "push"
  /\ feed.kind = "memory" =>
       /\ Rising(feed.buffer) /\ Below(feed.buffer, feed.last)
       /\ \A i \in DOMAIN feed.shown, j \in DOMAIN feed.buffer : feed.shown[i] < feed.buffer[j]

(* A version after all of them can follow them.                              *)
LEMMA RisingMore ==
  ASSUME NEW versions \in Seq(Int), NEW last \in Int, NEW version \in Int,
         Rising(versions), Below(versions, last), last < version
  PROVE  /\ Append(versions, version) \in Seq(Int)
         /\ Rising(Append(versions, version)) /\ Below(Append(versions, version), version)
<1> DEFINE more == Append(versions, version)
           len == Len(versions)
<1>1. /\ len \in Nat /\ DOMAIN versions = 1 .. len /\ DOMAIN more = 1 .. len + 1
      /\ more \in Seq(Int) /\ more[len + 1] = version
      /\ \A i \in 1 .. len : more[i] = versions[i] /\ versions[i] \in Int
  OBVIOUS
<1> HIDE DEF more, len
<1>2. \A i \in 1 .. len : versions[i] < version
  BY <1>1 DEF Below
<1>3. \A i \in 1 .. len + 1 : i = len + 1 \/ i \in 1 .. len
  BY <1>1
<1>4. Below(more, version)
  BY <1>1, <1>2, <1>3 DEF Below
<1>5. ASSUME NEW i \in 1 .. len + 1, NEW j \in 1 .. len + 1, i < j PROVE more[i] < more[j]
  <2>1. i \in 1 .. len
    BY <1>1, <1>5
  <2>2. CASE j = len + 1
    BY <1>1, <1>2, <2>1, <2>2
  <2>3. CASE j \in 1 .. len
    BY <1>1, <1>5, <2>1, <2>3 DEF Rising
  <2> QED
    BY <1>3, <2>2, <2>3
<1> QED
  BY <1>1, <1>4, <1>5 DEF Rising, more

(* A change the store announces is newer than all it announced before.       *)
LEMMA NotifiedKeeps ==
  ASSUME FeedInv, moment' = moment + 1, NEW claimed, feed' = Notified(feed, moment', claimed)
  PROVE  FeedInv'
<1> DEFINE f == feed
<1>1. /\ moment \in Nat /\ moment + 1 \in Nat /\ f.last \in Int /\ f.last <= moment
      /\ f.last # moment + 1 /\ f.last < moment + 1 /\ f.last <= moment + 1
      /\ f.shown \in Seq(Int) /\ f.buffer \in Seq(Int) /\ moment' = moment + 1
  BY DEF FeedInv
<1>2. \A i \in DOMAIN f.shown : f.shown[i] \in Int /\ f.shown[i] < moment + 1 /\ f.shown[i] <= moment + 1
  <2>1. Below(f.shown, f.last)
    BY DEF FeedInv
  <2> DEFINE v == f.shown
             last == f.last
  <2>2. v \in Seq(Int) /\ last \in Int /\ Below(v, last) /\ last < moment + 1
    BY <1>1, <2>1
  <2> HIDE DEF v, last
  <2>3. \A i \in DOMAIN v : v[i] \in Int /\ v[i] <= last
    BY <2>2 DEF Below
  <2>4. \A i \in DOMAIN v : v[i] \in Int /\ v[i] < moment + 1 /\ v[i] <= moment + 1
    BY <1>1, <2>2, <2>3
  <2> QED
    BY <2>4 DEF v
<1>3. Append(f.buffer, moment + 1) \in Seq(Int)
  BY <1>1
<1>4. CASE f.kind = "memory" /\ ~claimed /\ ~f.closed
  <2>1. feed' = [f EXCEPT !.last = moment + 1, !.buffer = Append(@, moment + 1)]
    BY <1>1, <1>4 DEF Notified, Pumped
  <2>2. /\ feed' = [field \in FeedFields |-> feed'[field]]
        /\ feed'.kind = f.kind /\ feed'.shown = f.shown /\ feed'.last = moment + 1
        /\ feed'.live = f.live /\ feed'.buffer = Append(f.buffer, moment + 1)
    BY <2>1 DEF FeedInv, FeedFields
  <2> DEFINE b == Append(f.buffer, moment + 1)
  <2>3. Rising(b) /\ Below(b, moment + 1)
    BY <1>1, <1>4, RisingMore DEF FeedInv
  <2>4. \A j \in DOMAIN b : b[j] = moment + 1 \/ (j \in DOMAIN f.buffer /\ b[j] = f.buffer[j])
    BY <1>1
  <2>5. \A i \in DOMAIN f.shown, j \in DOMAIN f.buffer : f.shown[i] < f.buffer[j]
    BY <1>4 DEF FeedInv
  <2> HIDE DEF b
  <2>6. \A i \in DOMAIN f.shown, j \in DOMAIN b : f.shown[i] < b[j]
    BY <1>2, <2>4, <2>5
  <2>7. Below(f.shown, moment + 1)
    BY <1>2 DEF Below
  <2>8. b \in Seq(Int) /\ Rising(f.shown) /\ (f.live => f.kind = "push")
    BY <1>3 DEF FeedInv, b
  <2>9. /\ Rising(feed'.shown) /\ Below(feed'.shown, feed'.last)
        /\ Rising(feed'.buffer) /\ Below(feed'.buffer, feed'.last)
        /\ feed'.shown \in Seq(Int) /\ feed'.buffer \in Seq(Int)
        /\ feed'.last \in Int /\ feed'.last <= moment'
    <3>1. feed'.shown \in Seq(Int) /\ feed'.buffer \in Seq(Int)
      BY <1>1, <1>3, <2>2
    <3>2. feed'.last \in Int /\ feed'.last <= moment'
      BY <1>1, <2>2
    <3>3. Rising(feed'.shown) /\ Below(feed'.shown, feed'.last)
      BY <2>2, <2>7, <2>8, Zenon
    <3>4. Rising(feed'.buffer) /\ Below(feed'.buffer, feed'.last)
      BY <2>2, <2>3, Zenon DEF b
    <3> QED
      BY <3>1, <3>2, <3>3, <3>4
  <2>10. \A i \in DOMAIN feed'.shown, j \in DOMAIN feed'.buffer : feed'.shown[i] < feed'.buffer[j]
    BY <2>2, <2>6 DEF b
  <2> QED
    BY <1>1, <2>2, <2>8, <2>9, <2>10 DEF FeedInv
<1>5. CASE feed' = f
  BY <1>1, <1>5 DEF FeedInv
<1>6. CASE f.kind = "push" /\ f.live
  <2>1. feed' = [f EXCEPT !.buffer = Append(@, moment + 1), !.heard = moment + 1]
    BY <1>1, <1>6 DEF Notified
  <2>2. /\ feed' = [field \in FeedFields |-> feed'[field]]
        /\ feed'.kind = f.kind /\ feed'.shown = f.shown /\ feed'.last = f.last
        /\ feed'.live = f.live /\ feed'.buffer = Append(f.buffer, moment + 1)
    BY <2>1 DEF FeedInv, FeedFields
  <2>3. f.kind # "memory" /\ Rising(f.shown) /\ Below(f.shown, f.last)
    BY <1>6 DEF FeedInv
  <2> QED
    BY <1>1, <1>3, <1>6, <2>2, <2>3 DEF FeedInv
<1> QED
  BY <1>4, <1>5, <1>6 DEF Notified, Pumped

(* The feed's own steps.                                                     *)
LEMMA FeedStepKeeps ==
  ASSUME FeedInv, FeedNext, moment' = moment
  PROVE  FeedInv'
<1> DEFINE f == feed
<1> USE DEF FeedFields
<1>1. CASE Fetched
  <2>1. /\ f.kind \in {"poll", "push"} /\ f.kind # "memory"
        /\ feed' = IF chain.claimed THEN [feed EXCEPT !.pc = "ended"]
                   ELSE [feed EXCEPT !.pc = "waiting", !.tries = 0, !.last = moment,
                                     !.shown = IF moment = feed.last THEN @ ELSE Append(@, moment)]
    BY <1>1 DEF Fetched
  <2>2. CASE chain.claimed
    BY <2>1, <2>2 DEF FeedInv
  <2>3. CASE ~chain.claimed
    <3>1. /\ feed' = [field \in FeedFields |-> feed'[field]] /\ feed'.last = moment
          /\ feed'.shown = IF moment = f.last THEN f.shown ELSE Append(f.shown, moment)
          /\ feed'.kind = f.kind /\ feed'.live = f.live /\ feed'.buffer = f.buffer
      BY <2>1, <2>3 DEF FeedInv
    <3>2. feed'.shown \in Seq(Int) /\ Rising(feed'.shown) /\ Below(feed'.shown, moment)
      <4>1. CASE moment = f.last
        BY <3>1, <4>1 DEF FeedInv
      <4>2. CASE moment # f.last
        <5>1. f.last < moment /\ moment \in Int
          BY <4>2 DEF FeedInv
        <5> QED
          BY <3>1, <4>2, <5>1, RisingMore DEF FeedInv
      <4> QED
        BY <4>1, <4>2
    <3> QED
      BY <2>1, <3>1, <3>2 DEF FeedInv
  <2> QED
    BY <2>2, <2>3
<1>2. CASE Taken
  <2>1. /\ f.kind = "memory" /\ f.buffer # <<>>
        /\ feed' = [feed EXCEPT !.shown = Append(@, Head(feed.buffer)), !.buffer = Tail(@)]
    BY <1>2 DEF Taken
  <2>2. /\ feed' = [field \in FeedFields |-> feed'[field]] /\ feed'.last = f.last
        /\ feed'.shown = Append(f.shown, Head(f.buffer)) /\ feed'.buffer = Tail(f.buffer)
        /\ feed'.kind = f.kind /\ feed'.live = f.live
    BY <2>1 DEF FeedInv
  <2> DEFINE h == Head(f.buffer)
             b == Tail(f.buffer)
  <2>3. /\ h \in Int /\ h = f.buffer[1] /\ 1 \in DOMAIN f.buffer /\ h <= f.last /\ b \in Seq(Int)
        /\ \A j \in DOMAIN b : j \in Nat /\ j + 1 \in DOMAIN f.buffer /\ b[j] = f.buffer[j + 1] /\ 1 < j + 1
    BY <2>1 DEF FeedInv, Below
  <2>4. \A i \in DOMAIN f.shown : f.shown[i] <= h - 1
    BY <2>1, <2>3 DEF FeedInv
  <2>5. Append(f.shown, h) \in Seq(Int) /\ Rising(Append(f.shown, h)) /\ Below(Append(f.shown, h), h)
    <3>1. Below(f.shown, h - 1) /\ h - 1 \in Int /\ h - 1 < h
      BY <2>3, <2>4 DEF Below
    <3> QED
      BY <2>3, <3>1, RisingMore DEF FeedInv
  <2> HIDE DEF h, b
  <2>6. Rising(b) /\ Below(b, f.last) /\ \A j \in DOMAIN b : h < b[j]
    BY <2>1, <2>3 DEF FeedInv, Rising, Below
  <2> DEFINE s == Append(f.shown, h)
  <2>7. \A i \in DOMAIN s : s[i] \in Int /\ s[i] <= h
    BY <2>5 DEF Below
  <2> HIDE DEF s
  <2>8. Below(s, f.last) /\ \A i \in DOMAIN s, j \in DOMAIN b : s[i] < b[j]
    BY <2>3, <2>6, <2>7 DEF Below, FeedInv
  <2> QED
    BY <2>1, <2>2, <2>3, <2>5, <2>6, <2>8 DEF FeedInv, h, b, s
<1>3. CASE Dropped
  <2>1. /\ f.live
        /\ \E n \in 0 .. Len(f.buffer) :
             feed' = [feed EXCEPT !.live = FALSE, !.faults = @ - 1, !.buffer = SubSeq(@, 1, n),
                            !.heard = IF n < Len(feed.buffer) THEN NoVersion ELSE @]
    BY <1>3 DEF Dropped
  <2>2. PICK n \in 0 .. Len(f.buffer) :
             feed' = [feed EXCEPT !.live = FALSE, !.faults = @ - 1, !.buffer = SubSeq(@, 1, n),
                            !.heard = IF n < Len(feed.buffer) THEN NoVersion ELSE @]
    BY <2>1
  <2>3. SubSeq(f.buffer, 1, n) \in Seq(Int)
    BY DEF FeedInv
  <2>4. f.kind # "memory"
    BY <2>1 DEF FeedInv
  <2> QED
    BY <2>2, <2>3, <2>4 DEF FeedInv
<1>4. CASE Touched
  <2>1. /\ f.kind = "push" /\ f.buffer # <<>>
        /\ feed' = [feed EXCEPT !.buffer = Tail(@),
                          !.pc = IF Head(feed.buffer) = feed.last THEN @ ELSE "asking"]
    BY <1>4 DEF Touched
  <2>2. Tail(f.buffer) \in Seq(Int)
    BY <2>1 DEF FeedInv
  <2> QED
    BY <2>1, <2>2 DEF FeedInv
<1>5. CASE Slept \/ Connected \/ Aborted \/ Drained \/ FetchFails \/ Unsubscribe
  BY <1>5 DEF Slept, Connected, Aborted, Drained, FetchFails, Unsubscribe, FeedInv
<1> QED
  BY <1>1, <1>2, <1>3, <1>4, <1>5 DEF FeedNext, FeedAdvance

(* Time, as the object's version tells it.                                   *)
LEMMA MomentSteps ==
  ASSUME moment \in Nat, [Next]_vars
  PROVE  (moment' = moment \/ moment' = moment + 1)
<1> QED
  BY DEF Next, Others_, Calls_, Feed_, OthersMove, HandlesNext, Advance, Disturb, Begin, Receive,
         Build, Execute, Abort, Decode, Transient, Truncated, NeverSent, AnswerLost, Change, vars,
         chainVars

LEMMA FeedInitKeeps == Init => FeedInv
<1> SUFFICES ASSUME Init PROVE FeedInv
  OBVIOUS
<1>1. PICK s \in Scenarios : ChainInit(s.start, s.moves) /\ FeedInit(s.feed, s.faults)
  BY DEF Init
<1>2. moment = 0 /\ s.feed \in {"none", "poll", "push", "memory"}
  BY <1>1, ScenariosAssumption DEF ChainInit
<1> DEFINE f == [ kind |-> s.feed, pc |-> IF s.feed = "none" THEN "ended" ELSE "asking",
                  last |-> NoVersion, tries |-> 0, faults |-> s.faults, live |-> FALSE,
                  heard |-> NoVersion, closed |-> FALSE, buffer |-> <<>>, shown |-> <<>> ]
<1>3. CASE feed = f
  BY <1>2, <1>3 DEF FeedInv, FeedFields, NoVersion, Rising, Below
<1>4. CASE feed = [f EXCEPT !.last = 0, !.buffer = Append(@, 0)]
  <2>1. f.buffer = <<>> /\ feed = [f EXCEPT !.last = 0, !.buffer = <<0>>]
    BY <1>4
  <2>2. /\ feed = [field \in FeedFields |-> feed[field]] /\ feed.kind = s.feed
        /\ feed.shown = <<>> /\ feed.last = 0 /\ feed.live = FALSE
        /\ feed.buffer = <<0>>
    BY <2>1 DEF FeedFields
  <2> DEFINE one == <<0>>
             none == <<>>
  <2>3. Rising(one) /\ Below(one, 0) /\ one \in Seq(Int)
    BY DEF Rising, Below
  <2>4. Rising(none) /\ Below(none, 0) /\ none \in Seq(Int) /\ DOMAIN none = {}
    BY DEF Rising, Below
  <2> HIDE DEF f, one, none
  <2>5. feed.shown = none /\ feed.buffer = one
    BY <2>2 DEF none, one
  <2>6. /\ Rising(feed.shown) /\ Below(feed.shown, feed.last)
        /\ Rising(feed.buffer) /\ Below(feed.buffer, feed.last)
        /\ feed.shown \in Seq(Int) /\ feed.buffer \in Seq(Int) /\ DOMAIN feed.shown = {}
    BY <2>2, <2>3, <2>4, <2>5, Zenon
  <2>7. moment \in Nat /\ feed.last \in Int /\ feed.last <= moment
    BY <1>2, <2>2
  <2> QED
    BY <2>2, <2>6, <2>7 DEF FeedInv
<1>5. feed = f \/ feed = Pumped(f, 0)
  BY <1>1 DEF FeedInit
<1> QED
  BY <1>3, <1>4, <1>5 DEF Pumped

LEMMA FeedNextKeeps == FeedInv /\ [Next]_vars => FeedInv'
<1> SUFFICES ASSUME FeedInv, [Next]_vars PROVE FeedInv'
  OBVIOUS
<1>1. moment' = moment \/ moment' = moment + 1
  BY MomentSteps DEF FeedInv
<1>2. CASE Told
  <2>1. CASE moment' = moment
    BY <1>2, <2>1 DEF Told, FeedInv
  <2>2. CASE moment' = moment + 1
    <3>1. moment' # moment
      BY <2>2 DEF FeedInv
    <3> QED
      BY <1>2, <2>2, <3>1, NotifiedKeeps DEF Told
  <2> QED
    BY <1>1, <2>1, <2>2
<1>3. CASE Feed_
  BY <1>3, FeedStepKeeps DEF Feed_, chainVars
<1>4. CASE UNCHANGED vars
  BY <1>4 DEF vars, chainVars, feedVars, FeedInv
<1> QED
  BY <1>2, <1>3, <1>4 DEF Next, Others_, Calls_

(* A subscriber sees the states of the escrow in the order they came about,  *)
(* none twice, by whichever of the three sources it is fed.                  *)
THEOREM FeedMovesForward == Spec => []FeedForward
<1>1. FeedInv => FeedForward
  BY DEF FeedInv, FeedForward, Rising
<1> QED
  BY <1>1, FeedInitKeeps, FeedNextKeeps, PTL DEF Spec

-----------------------------------------------------------------------------
(* The escrow.                                                               *)

EscrowFields ==
  {"tenant", "challenger", "stakes", "rates", "burned", "market", "scheduled", "auction",
   "retiring", "retired", "claimed", "posted", "inbox"}
Market == [{"price", "tenure"} -> Nat]

EscrowType(s) ==
  /\ s = [field \in EscrowFields |-> s[field]]
  /\ s.stakes \in Seq(Nat) /\ s.rates \in Seq(Nat) /\ Len(s.rates) = Len(s.stakes)
  /\ s.tenant \in (1 .. Len(s.stakes)) \cup {None}
  /\ s.challenger \in (1 .. Len(s.stakes)) \cup {None}
  /\ s.market \in Market /\ s.scheduled \in Market \cup {None} /\ s.auction \in Nat \cup {None}
  /\ s.retiring \in BOOLEAN /\ s.retired \in BOOLEAN /\ s.claimed \in BOOLEAN
  /\ s.claimed => s.retired
  /\ s.posted \in Nat /\ s.inbox \in SUBSET Nat

(* An operation with arguments of its kind, of an escrow that allows it.     *)
OpType(op) ==
  /\ op.fn = "rent" => op.pay \in Nat /\ op.count \in Nat \ {0}
  /\ op.fn = "update" => op.market \in Market
Sane(s, op) ==
  /\ op.fn = "vacate" => s.tenant # None
  /\ op.fn = "claim" => s.retired

LEMMA AllowedSane ==
  ASSUME NEW s, NEW op, Allowed(s, op)
  PROVE  Sane(s, op)
  BY DEF Allowed, Sane

(* The floor is a price.                                                     *)
LEMMA FloorType ==
  ASSUME NEW s, EscrowType(s)
  PROVE  Floor(s) \in Nat
<1>1. s.auction # None => s.auction \in Nat
  BY DEF EscrowType
<1>2. s.market.price \in Nat
  BY DEF EscrowType, Market
<1>3. ASSUME s.tenant # None
      PROVE  s.rates[IF s.challenger = None THEN s.tenant ELSE s.challenger] \in Nat
  <2> DEFINE c == IF s.challenger = None THEN s.tenant ELSE s.challenger
  <2>1. c \in 1 .. Len(s.rates)
    BY <1>3 DEF EscrowType
  <2>2. s.rates \in Seq(Nat)
    BY DEF EscrowType
  <2> HIDE DEF c
  <2>3. s.rates[c] \in Nat
    BY <2>1, <2>2, ElementOfSeq
  <2> QED
    BY <2>3 DEF c
<1> QED
  BY <1>1, <1>2, <1>3 DEF Floor

(* An operation leaves an escrow.                                            *)
LEMMA RentType ==
  ASSUME NEW s, EscrowType(s), NEW pay \in Nat, NEW count \in Nat \ {0}
  PROVE  /\ EscrowType(Rented(s, pay, count)) /\ Rented(s, pay, count).stakes = Append(s.stakes, pay)
         /\ Rented(s, pay, count).inbox = s.inbox
<1> DEFINE c == Len(s.stakes) + 1
           t == [s EXCEPT !.stakes = Append(@, pay), !.rates = Append(@, pay \div count)]
           u == Rented(s, pay, count)
<1>1. pay \div count \in Nat
  OBVIOUS
<1>2. /\ s.stakes \in Seq(Nat) /\ s.rates \in Seq(Nat) /\ Len(s.rates) = Len(s.stakes)
      /\ Len(s.stakes) \in Nat
  BY DEF EscrowType
<1>3. /\ Append(s.stakes, pay) \in Seq(Nat) /\ Append(s.rates, pay \div count) \in Seq(Nat)
      /\ Len(Append(s.stakes, pay)) = c /\ Len(Append(s.rates, pay \div count)) = c
  BY <1>1, <1>2, AppendProperties
<1>4. \A x \in (1 .. Len(s.stakes)) \cup {None} : x \in (1 .. c) \cup {None}
  BY <1>2
<1>5. c \in 1 .. c
  BY <1>2
<1> HIDE DEF c
<1>6. /\ u = [field \in EscrowFields |-> u[field]]
      /\ u.stakes = Append(s.stakes, pay) /\ u.rates = Append(s.rates, pay \div count)
      /\ u.tenant = (IF s.tenant = None THEN c ELSE s.tenant)
      /\ u.challenger = (IF s.tenant = None THEN s.challenger ELSE c)
      /\ u.auction = (IF s.tenant = None THEN None ELSE s.auction)
      /\ \A field \in EscrowFields \ {"stakes", "rates", "tenant", "challenger", "auction"} :
           u[field] = s[field]
  BY DEF Rented, EscrowType, EscrowFields, c
<1> HIDE DEF u
<1>7. /\ u.burned = s.burned /\ u.market = s.market /\ u.scheduled = s.scheduled
      /\ u.retiring = s.retiring /\ u.retired = s.retired /\ u.claimed = s.claimed
      /\ u.posted = s.posted /\ u.inbox = s.inbox
  BY <1>6 DEF EscrowFields
<1>8. /\ u.stakes \in Seq(Nat) /\ u.rates \in Seq(Nat) /\ Len(u.stakes) = c /\ Len(u.rates) = c
      /\ u.tenant \in (1 .. c) \cup {None} /\ u.challenger \in (1 .. c) \cup {None}
  BY <1>3, <1>4, <1>5, <1>6 DEF EscrowType
<1>9. u.auction \in Nat \cup {None}
  BY <1>6 DEF EscrowType
<1>10. EscrowType(u)
  BY <1>6, <1>7, <1>8, <1>9 DEF EscrowType
<1> QED
  BY <1>6, <1>7, <1>10 DEF u

LEMMA RetiredType ==
  ASSUME NEW s, EscrowType(s)
  PROVE  /\ EscrowType(Retired(s)) /\ Retired(s).stakes = s.stakes /\ Retired(s).inbox = s.inbox
         /\ Retired(s).market = s.market
  BY DEF Retired, EscrowType, EscrowFields

LEMMA PostedType ==
  ASSUME NEW s, EscrowType(s)
  PROVE  /\ EscrowType(Posted(s)) /\ Posted(s).stakes = s.stakes /\ Posted(s).tenant = s.tenant
         /\ Posted(s).challenger = s.challenger /\ Posted(s).rates = s.rates
         /\ Posted(s).retiring = s.retiring
<1> DEFINE u == Posted(s)
<1>1. /\ s.posted \in Nat /\ s.inbox \in SUBSET Nat
  BY DEF EscrowType
<1>2. s.posted + 1 \in Nat /\ s.inbox \cup {s.posted + 1} \in SUBSET Nat
  BY <1>1
<1>3. /\ u = [field \in EscrowFields |-> u[field]] /\ u.posted = s.posted + 1
      /\ u.inbox = s.inbox \cup {s.posted + 1}
      /\ \A field \in EscrowFields \ {"posted", "inbox"} : u[field] = s[field]
  BY DEF Posted, EscrowType, EscrowFields
<1> HIDE DEF u
<1>4. /\ u.burned = s.burned /\ u.market = s.market /\ u.scheduled = s.scheduled
      /\ u.retiring = s.retiring /\ u.retired = s.retired /\ u.claimed = s.claimed
      /\ u.stakes = s.stakes /\ u.rates = s.rates /\ u.tenant = s.tenant
      /\ u.challenger = s.challenger /\ u.auction = s.auction
  BY <1>3 DEF EscrowFields
<1>5. EscrowType(u)
  BY <1>2, <1>3, <1>4 DEF EscrowType
<1> QED
  BY <1>4, <1>5 DEF u

LEMMA VacatedType ==
  ASSUME NEW s, EscrowType(s), s.tenant # None
  PROVE  EscrowType(Vacated(s)) /\ Vacated(s).stakes = s.stakes
<1> DEFINE t == [Posted(s) EXCEPT !.tenant = None]
<1>1. EscrowType(t) /\ t.stakes = s.stakes /\ t.retiring = s.retiring
  BY PostedType DEF EscrowType, EscrowFields
<1>2. s.rates[s.tenant] \in Nat
  <2>1. s.tenant \in 1 .. Len(s.rates) /\ s.rates \in Seq(Nat)
    BY DEF EscrowType
  <2> QED
    BY <2>1, ElementOfSeq
<1> HIDE DEF t
<1>3. EscrowType([t EXCEPT !.auction = s.rates[s.tenant]])
      /\ [t EXCEPT !.auction = s.rates[s.tenant]].stakes = t.stakes
  BY <1>1, <1>2 DEF EscrowType, EscrowFields
<1> QED
  BY <1>1, <1>3, RetiredType DEF Vacated, t

LEMMA CooledType ==
  ASSUME NEW s, EscrowType(s)
  PROVE  EscrowType(Cooled(s)) /\ Cooled(s).stakes = s.stakes /\ Cooled(s).inbox = s.inbox
<1>1. s.market.price \in Nat /\ Latest(s) \in Market
  BY DEF EscrowType, Market, Latest
<1>2. /\ EscrowType([s EXCEPT !.auction = s.market.price])
      /\ [s EXCEPT !.auction = s.market.price].stakes = s.stakes
      /\ [s EXCEPT !.auction = s.market.price].inbox = s.inbox
  BY <1>1 DEF EscrowType, EscrowFields
<1>3. /\ EscrowType([s EXCEPT !.auction = None, !.market = Latest(s), !.scheduled = None])
      /\ [s EXCEPT !.auction = None, !.market = Latest(s), !.scheduled = None].stakes = s.stakes
      /\ [s EXCEPT !.auction = None, !.market = Latest(s), !.scheduled = None].inbox = s.inbox
  BY <1>1 DEF EscrowType, EscrowFields
<1> QED
  BY <1>2, <1>3 DEF Cooled

LEMMA UpdatedType ==
  ASSUME NEW s, EscrowType(s), NEW market \in Market
  PROVE  /\ EscrowType(Updated(s, market)) /\ Updated(s, market).stakes = s.stakes
         /\ Updated(s, market).inbox = s.inbox
         /\ s.scheduled = None => Latest(Updated(s, market)) = market
<1>1. market # None
  BY NoneAssumption DEF Market
<1> QED
  BY <1>1 DEF Updated, EscrowType, EscrowFields, Latest

(* Only a rent mints a cap, and at its price; only a collect and a boundary  *)
(* change the inbox.                                                         *)
LEMMA AfterType ==
  ASSUME NEW s, EscrowType(s), NEW op, OpType(op), Sane(s, op)
  PROVE  /\ EscrowType(After(s, op))
         /\ After(s, op).stakes = IF op.fn = "rent" THEN Append(s.stakes, op.pay) ELSE s.stakes
         /\ op.fn \notin {"succeed", "vacate"} =>
              After(s, op).inbox = IF op.fn = "collect" THEN s.inbox \ op.messages ELSE s.inbox
<1>1. CASE op.fn = "rent"
  <2>1. After(s, op) = Rented(s, op.pay, op.count)
    BY <1>1 DEF After
  <2>2. op.pay \in Nat /\ op.count \in Nat \ {0}
    BY <1>1 DEF OpType
  <2>3. /\ EscrowType(Rented(s, op.pay, op.count))
        /\ Rented(s, op.pay, op.count).stakes = Append(s.stakes, op.pay)
        /\ Rented(s, op.pay, op.count).inbox = s.inbox
    BY <2>2, RentType
  <2> QED
    BY <1>1, <2>1, <2>3
<1>2. CASE op.fn = "update"
  <2>1. After(s, op) = Updated(s, op.market) /\ op.market \in Market
    BY <1>2 DEF After, OpType
  <2> QED
    BY <1>2, <2>1, UpdatedType
<1>3. CASE op.fn = "retire"
  <2>1. After(s, op) = IF s.tenant = None THEN Retired(s) ELSE [s EXCEPT !.retiring = TRUE]
    BY <1>3 DEF After
  <2>2. /\ EscrowType([s EXCEPT !.retiring = TRUE])
        /\ [s EXCEPT !.retiring = TRUE].stakes = s.stakes
        /\ [s EXCEPT !.retiring = TRUE].inbox = s.inbox
    BY DEF EscrowType, EscrowFields
  <2> QED
    BY <1>3, <2>1, <2>2, RetiredType
<1>4. CASE op.fn = "claim"
  <2>1. After(s, op) = [s EXCEPT !.claimed = TRUE] /\ s.retired
    BY <1>4 DEF After, Sane
  <2>2. /\ EscrowType([s EXCEPT !.claimed = TRUE])
        /\ [s EXCEPT !.claimed = TRUE].stakes = s.stakes
        /\ [s EXCEPT !.claimed = TRUE].inbox = s.inbox
    BY <2>1 DEF EscrowType, EscrowFields
  <2> QED
    BY <1>4, <2>1, <2>2
<1>5. CASE op.fn = "collect"
  <2>1. After(s, op) = [s EXCEPT !.inbox = @ \ op.messages]
    BY <1>5 DEF After
  <2>2. /\ EscrowType([s EXCEPT !.inbox = @ \ op.messages])
        /\ [s EXCEPT !.inbox = @ \ op.messages].stakes = s.stakes
        /\ [s EXCEPT !.inbox = @ \ op.messages].inbox = s.inbox \ op.messages
    BY DEF EscrowType, EscrowFields
  <2> QED
    BY <1>5, <2>1, <2>2
<1>6. CASE op.fn \in {"burnStale", "burn"}
  <2>1. After(s, op) = [s EXCEPT !.burned = @ \cup {op.cap}]
    BY <1>6 DEF After
  <2>2. /\ EscrowType([s EXCEPT !.burned = @ \cup {op.cap}])
        /\ [s EXCEPT !.burned = @ \cup {op.cap}].stakes = s.stakes
        /\ [s EXCEPT !.burned = @ \cup {op.cap}].inbox = s.inbox
    BY DEF EscrowType, EscrowFields
  <2> QED
    BY <1>6, <2>1, <2>2
<1>7. CASE op.fn = "succeed"
  <2>1. After(s, op) = [Posted(s) EXCEPT !.tenant = s.challenger, !.challenger = None]
    BY <1>7 DEF After
  <2> DEFINE t == Posted(s)
  <2>2. EscrowType(t) /\ t.stakes = s.stakes /\ t.challenger = s.challenger
    BY PostedType
  <2> HIDE DEF t
  <2>3. EscrowType([t EXCEPT !.tenant = t.challenger, !.challenger = None])
        /\ [t EXCEPT !.tenant = t.challenger, !.challenger = None].stakes = t.stakes
    BY <2>2 DEF EscrowType, EscrowFields
  <2> QED
    BY <1>7, <2>1, <2>2, <2>3 DEF t
<1>8. CASE op.fn = "vacate"
  <2>1. After(s, op) = Vacated(s) /\ s.tenant # None
    BY <1>8 DEF After, Sane
  <2> QED
    BY <1>8, <2>1, VacatedType
<1>9. CASE op.fn = "cool"
  <2>1. After(s, op) = Cooled(s)
    BY <1>9 DEF After
  <2> QED
    BY <1>9, <2>1, CooledType
<1>10. CASE op.fn \notin {"rent", "update", "retire", "claim", "collect", "burnStale", "burn",
                          "succeed", "vacate", "cool"}
  <2>1. After(s, op) = s
    BY <1>10 DEF After
  <2> QED
    BY <1>10, <2>1
<1> QED
  BY <1>1, <1>2, <1>3, <1>4, <1>5, <1>6, <1>7, <1>8, <1>9, <1>10

-----------------------------------------------------------------------------
(* Transactions.                                                             *)

(* The states a transaction goes through exist, however many operations.     *)
LEMMA CourseExists ==
  ASSUME NEW s, NEW ops, NEW len \in Nat
  PROVE  \E f : f = [k \in 0 .. len |-> IF k = 0 THEN s ELSE After(f[k - 1], ops[k])]
<1> DEFINE Exists(n) == \E f : f = [k \in 0 .. n |-> IF k = 0 THEN s ELSE After(f[k - 1], ops[k])]
           S == {n \in Nat : Exists(n)}
<1>1. 0 \in S
  <2> DEFINE g == [k \in 0 .. 0 |-> s]
  <2>1. g = [k \in 0 .. 0 |-> IF k = 0 THEN s ELSE After(g[k - 1], ops[k])]
    OBVIOUS
  <2> HIDE DEF g
  <2> QED
    BY <2>1
<1>2. ASSUME NEW n \in 1 .. len, n - 1 \in S PROVE n \in S
  <2>1. PICK f : f = [k \in 0 .. n - 1 |-> IF k = 0 THEN s ELSE After(f[k - 1], ops[k])]
    BY <1>2
  <2> DEFINE g == [k \in 0 .. n |-> IF k = n THEN After(f[n - 1], ops[n]) ELSE f[k]]
  <2>2. ASSUME NEW k \in 0 .. n
        PROVE  g[k] = IF k = 0 THEN s ELSE After(g[k - 1], ops[k])
    BY <2>1
  <2>3. g = [k \in 0 .. n |-> IF k = 0 THEN s ELSE After(g[k - 1], ops[k])]
    BY <2>2
  <2> HIDE DEF g
  <2> QED
    BY <2>3
<1> HIDE DEF S
<1>3. len \in S
  BY <1>1, <1>2, UpTo
<1> QED
  BY <1>3 DEF S

LEMMA CourseSteps ==
  ASSUME NEW s, NEW ops, Len(ops) \in Nat
  PROVE  Course(s, ops) = [n \in 0 .. Len(ops) |->
                             IF n = 0 THEN s ELSE After(Course(s, ops)[n - 1], ops[n])]
  BY CourseExists DEF Course

(* Operations in order, each sane where it stands, and of its kind.          *)
OpsType(ops) ==
  /\ Len(ops) \in Nat /\ DOMAIN ops = 1 .. Len(ops)
  /\ \A i \in DOMAIN ops : OpType(ops[i])
SaneAll(s, ops) == \A i \in DOMAIN ops : Sane(Course(s, ops)[i - 1], ops[i])

LEMMA RunsSane ==
  ASSUME NEW s, NEW ops, Runs(s, ops)
  PROVE  SaneAll(s, ops)
  BY AllowedSane DEF Runs, SaneAll

LEMMA CourseType ==
  ASSUME NEW s, NEW ops, EscrowType(s), OpsType(ops), SaneAll(s, ops)
  PROVE  \A n \in 0 .. Len(ops) : EscrowType(Course(s, ops)[n])
<1> DEFINE c == Course(s, ops)
           len == Len(ops)
           S == {n \in 0 .. len : EscrowType(c[n])}
<1>1. len \in Nat /\ DOMAIN ops = 1 .. len
  BY DEF OpsType
<1>2. c = [n \in 0 .. len |-> IF n = 0 THEN s ELSE After(c[n - 1], ops[n])]
  BY <1>1, CourseSteps
<1>3. \A n \in 1 .. len : OpType(ops[n]) /\ Sane(c[n - 1], ops[n])
  BY <1>1 DEF OpsType, SaneAll
<1> HIDE DEF c, len
<1>4. 0 \in S
  BY <1>1, <1>2
<1>5. ASSUME NEW n \in 1 .. len, n - 1 \in S PROVE n \in S
  <2>1. n \in 0 .. len /\ n # 0
    BY <1>1
  <2>2. c[n] = After(c[n - 1], ops[n]) /\ EscrowType(c[n - 1])
    BY <1>2, <1>5, <2>1
  <2>3. EscrowType(c[n])
    BY <1>3, <2>2, AfterType
  <2> QED
    BY <2>1, <2>3
<1> HIDE DEF S
<1>6. \A n \in 0 .. len : n \in S
  BY <1>1, <1>4, <1>5, UpTo
<1> QED
  BY <1>6 DEF S, c, len

(* The transaction of one operation.                                         *)
LEMMA CourseOfOne ==
  ASSUME NEW s, NEW ops, Len(ops) = 1
  PROVE  Course(s, ops)[0] = s /\ AfterAll(s, ops) = After(s, ops[1])
<1>1. Course(s, ops) = [n \in 0 .. 1 |-> IF n = 0 THEN s ELSE After(Course(s, ops)[n - 1], ops[n])]
  BY CourseSteps
<1> QED
  BY <1>1 DEF AfterAll

(* Where a run starts.                                                       *)
LEMMA HistoryType ==
  ASSUME NEW start \in DOMAIN History
  PROVE  EscrowType(AfterAll(Listed, History[start]))
<1> DEFINE ops == History[start]
<1>1. EscrowType(Listed)
  <2>1. Opening \in Market
    BY DEF Opening, Market
  <2> DEFINE u == Listed
  <2>2. u = [field \in EscrowFields |-> u[field]]
    BY DEF Listed, EscrowFields
  <2>3. u.stakes = <<>> /\ u.rates = <<>> /\ u.tenant = None /\ u.challenger = None
        /\ u.market = Opening /\ u.scheduled = None /\ u.auction = None /\ u.retiring = FALSE
        /\ u.retired = FALSE /\ u.claimed = FALSE /\ u.posted = 0 /\ u.inbox = {}
    BY DEF Listed
  <2>4. <<>> \in Seq(Nat) /\ Len(<<>>) = Len(<<>>) /\ 0 \in Nat /\ {} \in SUBSET Nat
    OBVIOUS
  <2> HIDE DEF u
  <2> QED
    BY <2>1, <2>2, <2>3, <2>4 DEF EscrowType, u
<1>2. /\ OpsType(ops)
      /\ \A i \in DOMAIN ops : ops[i].fn # "claim"
      /\ \A i \in DOMAIN ops : ops[i].fn = "vacate" => i = 2 /\ ops[1] = Rent(3)
  <2>1. CASE start = "idle"
    <3>1. ops = <<>>
      BY <2>1 DEF History
    <3> QED
      BY <3>1 DEF OpsType
  <2>2. CASE start = "occupied"
    <3>1. ops = <<Rent(1)>>
      BY <2>2 DEF History
    <3> QED
      BY <3>1 DEF OpsType, OpType, Rent
  <2>3. CASE start = "demand"
    <3>1. ops = <<Rent(1), Rent(3)>>
      BY <2>3 DEF History
    <3> QED
      BY <3>1 DEF OpsType, OpType, Rent
  <2>4. CASE start = "handed"
    <3>1. ops = <<Rent(1), Rent(2), Step("succeed")>>
      BY <2>4 DEF History
    <3> QED
      BY <3>1 DEF OpsType, OpType, Rent, Step
  <2>5. CASE start = "descent"
    <3>1. ops = <<Rent(3), Step("vacate")>>
      BY <2>5 DEF History
    <3> QED
      BY <3>1 DEF OpsType, OpType, Rent, Step
  <2>6. CASE start = "ended"
    <3>1. ops = <<Step("retire")>>
      BY <2>6 DEF History
    <3> QED
      BY <3>1 DEF OpsType, OpType, Step
  <2> QED
    BY <2>1, <2>2, <2>3, <2>4, <2>5, <2>6 DEF History
<1>3. SaneAll(Listed, ops)
  <2> SUFFICES ASSUME NEW i \in DOMAIN ops, ops[i].fn = "vacate"
               PROVE  Course(Listed, ops)[i - 1].tenant # None
    BY <1>2 DEF SaneAll, Sane
  <2>1. i = 2 /\ ops[1] = Rent(3) /\ 2 \in 1 .. Len(ops) /\ Len(ops) \in Nat
    BY <1>2 DEF OpsType
  <2>2. Course(Listed, ops)[0] = Listed /\ Course(Listed, ops)[1] = After(Course(Listed, ops)[0], ops[1])
    BY <2>1, CourseSteps
  <2>3. After(Listed, Rent(3)) = Rented(Listed, 3, 1)
    BY DEF After, Rent
  <2>4. Rented(Listed, 3, 1).tenant = 1
    BY DEF Rented, Listed
  <2>5. 1 # None
    BY NoneAssumption
  <2> QED
    BY <2>1, <2>2, <2>3, <2>4, <2>5
<1> HIDE DEF ops
<1>4. Len(ops) \in 0 .. Len(ops)
  BY <1>2 DEF OpsType
<1> QED
  BY <1>1, <1>2, <1>3, <1>4, CourseType DEF AfterAll, ops

-----------------------------------------------------------------------------
(* What the handles ask for.                                                 *)

(* A view the reader can hand all of its arguments.                          *)
Answerable(name, supplied) == name \in Views /\ Asks(name) \subseteq Arguments(supplied)

(* A job asks for one thing of the client, a view, samples, or a list of     *)
(* views of the handles, and supplies what the views are to be handed.       *)
JobType(j) ==
  /\ \/ \E name : j.names = <<name>> /\ (j.via = "client" \/ name \in Views \cup Sampled)
     \/ j.names \in Multiple
  /\ \/ j.via = "client" \/ \E name \in Sampled : j.names = <<name>>
     \/ \A name \in Range(j.names) : Answerable(name, j.supplied)
Jobs(jobs, got) == \A j \in jobs : JobType(j) /\ ~(Range(j.names) \subseteq DOMAIN got)

LEMMA RangeOfOne ==
  ASSUME NEW x
  PROVE  Range(<<x>>) = {x} /\ Len(<<x>>) = 1
  BY DEF Range

LEMMA GetJob ==
  ASSUME NEW what
  PROVE  JobType(Get(what)) /\ Get(what).names = <<what>> /\ Get(what).via = "client"
  BY DEF JobType, Get, Sim

LEMMA AskedFor ==
  ASSUME NEW name \in Views, NEW supplied,
         name \in NowViews => "now" \in supplied,
         name \in ProbeFns => "probe" \in supplied,
         name = "handoverSettlement" => "boundary" \in supplied,
         name = "nextFloorPriceMist" => "nextFloor" \in supplied
  PROVE  Answerable(name, supplied)
  BY DEF Answerable, Asks, Arguments, Suppliable, Given

LEMMA ViewJob ==
  ASSUME NEW name, NEW supplied, NEW via, Answerable(name, supplied)
  PROVE  JobType(Sim(via, <<name>>, supplied))
<1> DEFINE j == Sim(via, <<name>>, supplied)
<1>1. j.names = <<name>> /\ j.supplied = supplied /\ Range(j.names) = {name} /\ name \in Views
  BY RangeOfOne DEF Sim, Answerable
<1> HIDE DEF j
<1> QED
  BY <1>1 DEF JobType, j

LEMMA SampleJob ==
  ASSUME NEW name \in Sampled, NEW supplied, NEW via
  PROVE  JobType(Sim(via, <<name>>, supplied))
  BY DEF JobType, Sim

LEMMA ListJob ==
  ASSUME NEW names \in Multiple, NEW supplied, NEW via,
         \A name \in Range(names) : Answerable(name, supplied)
  PROVE  JobType(Sim(via, names, supplied))
  BY DEF JobType, Sim

(* Views that are handed the escrow alone, and those that are handed the time*)
(* or a cap too.                                                             *)
Lone ==
  {"isIdle", "isDescending", "isOccupied", "isDemand", "isRetired", "assetId",
   "activeUsufructuaryAddr", "activeUsufructCapId", "pendingUsufructuaryAddr",
   "pendingUsufructCapId", "activeStakeBalanceMist", "pendingStakeBalanceMist",
   "activeCommittedTenures", "pendingCommittedTenures", "phaseStartMs",
   "tenureExpiryMs", "handoverExpiryMs", "descentExpiryMs", "lastRentPriceMist",
   "creditIsAccruing", "creditCappedAtMs", "cycleParams", "activeCeilingTotalMs",
   "activeHandoverTotalMs", "priceEscalation", "creditShape", "auctionShape", "tenureSettlement"}

LEMMA LoneAsked ==
  ASSUME NEW supplied
  PROVE  /\ \A name \in Lone : Answerable(name, supplied)
         /\ "now" \in supplied => \A name \in NowViews : Answerable(name, supplied)
         /\ "probe" \in supplied => \A name \in ProbeFns : Answerable(name, supplied)
<1>1. /\ Lone \subseteq Views
      /\ \A name \in Lone : name \notin NowViews /\ name \notin ProbeFns
                            /\ name # "handoverSettlement" /\ name # "nextFloorPriceMist"
  BY ViewNames DEF Lone, NowViews, NowFns, ProbeFns
<1>2. /\ NowViews \subseteq Views
      /\ \A name \in NowViews : name \notin ProbeFns
                                /\ name # "handoverSettlement" /\ name # "nextFloorPriceMist"
  BY ViewNames DEF NowViews, NowFns, ProbeFns
<1>3. /\ ProbeFns \subseteq Views
      /\ \A name \in ProbeFns : name \notin NowViews
                                /\ name # "handoverSettlement" /\ name # "nextFloorPriceMist"
  BY ViewNames DEF NowViews, NowFns, ProbeFns
<1>4. \A name \in Lone : Answerable(name, supplied)
  BY <1>1, AskedFor
<1>5. ASSUME "now" \in supplied, NEW name \in NowViews PROVE Answerable(name, supplied)
  BY <1>2, <1>5, AskedFor
<1>6. ASSUME "probe" \in supplied, NEW name \in ProbeFns PROVE Answerable(name, supplied)
  BY <1>3, <1>6, AskedFor
<1> QED
  BY <1>4, <1>5, <1>6

(* The policies of a market are views of the escrow alone.                   *)
LEMMA PoliciesAsked ==
  ASSUME NEW supplied, NEW name \in MarketViews
  PROVE  Answerable(name, supplied)
<1>1. name \in Names(PolicySpecs)
  BY MarketViewsAssumption DEF Names
<1>2. \A view \in Names(PolicySpecs) : view \notin NowViews /\ view \notin ProbeFns
                                   /\ view # "handoverSettlement" /\ view # "nextFloorPriceMist"
  BY DEF Names, PolicySpecs, Unrolled, ShapeSpec, ViewSpec, NowViews, NowFns, ProbeFns
<1>3. name \in Views
  BY <1>1, ViewsByGroup
<1> QED
  BY <1>1, <1>2, <1>3, AskedFor

(* The jobs of `Then`, one after another.                                    *)
LEMMA ThenJobs ==
  ASSUME NEW got, NEW jobs, NEW rest, \A j \in jobs : JobType(j), Jobs(rest, got)
  PROVE  Jobs(Then(got, jobs, rest), got)
  BY DEF Then, Jobs

LEMMA ThenNone ==
  ASSUME NEW got, NEW jobs, NEW rest, Then(got, jobs, rest) = {}
  PROVE  (\A j \in jobs : Range(j.names) \subseteq DOMAIN got) /\ rest = {}
  BY DEF Then

LEMMA NoJobs ==
  ASSUME NEW got
  PROVE  Jobs({}, got)
  BY DEF Jobs

(* Every name an escrow may be asked for by a reader is a view.              *)
LEMMA ScalarViews == ScalarReads \subseteq Views
<1>1. /\ Range([i \in DOMAIN StatusSpecs |-> StatusSpecs[i].name]) = Names(StatusSpecs)
      /\ Range([i \in DOMAIN IdentitySpecs |-> IdentitySpecs[i].name]) = Names(IdentitySpecs)
      /\ Range([i \in DOMAIN SeatSpecs |-> SeatSpecs[i].name]) = Names(SeatSpecs)
      /\ Range([i \in DOMAIN TemporalSpecs |-> TemporalSpecs[i].name]) = Names(TemporalSpecs)
      /\ Range([i \in DOMAIN CommitmentSpecs |-> CommitmentSpecs[i].name]) = Names(CommitmentSpecs)
      /\ Range([i \in DOMAIN CreditSpecs |-> CreditSpecs[i].name]) = Names(CreditSpecs)
  BY DEF Range, Names
<1>2. ScalarAt \cup ScalarProbes \cup {"protocolFeeBps", "bpsDenominator"} \subseteq Views
  BY ViewNames DEF ScalarAt, ScalarProbes
<1> QED
  BY <1>1, <1>2, ViewsByGroup DEF ScalarReads

(* Whatever its name, what a caller passes is what it is to be handed.       *)
LEMMA ScalarsAsked ==
  ASSUME NEW name \in ScalarReads
  PROVE  IF name \in ScalarAt THEN Answerable(name, {"now"})
         ELSE Answerable(name, IF name \in ScalarProbes THEN {"probe"} ELSE {})
<1> DEFINE unsettled == {"handoverSettlement", "nextFloorPriceMist"}
<1>1. /\ Range([i \in DOMAIN StatusSpecs |-> StatusSpecs[i].name]) = Names(StatusSpecs)
      /\ Range([i \in DOMAIN IdentitySpecs |-> IdentitySpecs[i].name]) = Names(IdentitySpecs)
      /\ Range([i \in DOMAIN SeatSpecs |-> SeatSpecs[i].name]) = Names(SeatSpecs)
      /\ Range([i \in DOMAIN TemporalSpecs |-> TemporalSpecs[i].name]) = Names(TemporalSpecs)
      /\ Range([i \in DOMAIN CommitmentSpecs |-> CommitmentSpecs[i].name]) = Names(CommitmentSpecs)
      /\ Range([i \in DOMAIN CreditSpecs |-> CreditSpecs[i].name]) = Names(CreditSpecs)
  BY DEF Range, Names
<1>2. \A view \in Names(StatusSpecs) : view \notin unsettled
  BY DEF Names, StatusSpecs, Ones, One, ViewSpec
<1>3. \A view \in Names(IdentitySpecs) : view \notin unsettled
  BY DEF Names, IdentitySpecs, Ones, One, ViewSpec
<1>4. \A view \in Names(SeatSpecs) : view \notin unsettled
  BY DEF Names, SeatSpecs, Ones, One, Unrolled, ViewSpec
<1>5. \A view \in Names(TemporalSpecs) : view \notin unsettled
  BY DEF Names, TemporalSpecs, Ones, One, OneWithNow, ViewSpec
<1>6. \A view \in Names(CommitmentSpecs) : view \notin unsettled
  BY DEF Names, CommitmentSpecs, Ones, One, OneWithNow, ViewSpec
<1>7. \A view \in Names(CreditSpecs) : view \notin unsettled
  BY DEF Names, CreditSpecs, Ones, One, ViewSpec
<1>8. \A view \in {"protocolFeeBps", "bpsDenominator"} \cup ScalarAt \cup ScalarProbes : view \notin unsettled
  BY DEF ScalarAt, ScalarProbes
<1>9. name \notin unsettled
  <2> HIDE DEF unsettled
  <2> QED
    BY <1>1, <1>2, <1>3, <1>4, <1>5, <1>6, <1>7, <1>8 DEF ScalarReads
<1>10. name \in Views /\ ScalarAt = NowViews /\ ScalarProbes = ProbeFns
  BY ScalarViews DEF ScalarAt, ScalarProbes, NowViews, NowFns, ProbeFns
<1>11. NowViews \cap ProbeFns = {}
  BY DEF NowViews, NowFns, ProbeFns
<1> QED
  BY <1>9, <1>10, <1>11, AskedFor

(* The lists of views the handles ask for in one read.                       *)
LEMMA MultipleType == Multiple \subseteq Seq(Views)
<1>1. StatusNames \in Seq(Views) /\ SeatNames \in Seq(Views) /\ BidNames \in Seq(Views)
  BY ViewNames DEF StatusNames, SeatNames, BidNames
<1>2. RoleNames \in Seq(Views) /\ PendingNames \in Seq(Views)
  BY ViewNames DEF RoleNames, PendingNames
<1>3. ActiveNames \in Seq(Views)
  BY ViewNames DEF ActiveNames
<1>4. Snapshot({"now", "probe"}) \in Seq(Views)
  BY SnapshotType
<1> QED
  BY <1>1, <1>2, <1>3, <1>4 DEF Multiple

(* Each of these lists is read with what its views are to be handed.         *)
LEMMA ListsAsked ==
  /\ \A name \in Range(StatusNames) : Answerable(name, {"now"})
  /\ \A name \in Range(SeatNames) : Answerable(name, {"now"})
  /\ \A name \in Range(BidNames) : Answerable(name, {"now"})
  /\ \A name \in Range(RoleNames) : Answerable(name, {"probe"})
  /\ \A name \in Range(ActiveNames) : Answerable(name, {"now"})
  /\ \A name \in Range(PendingNames) : Answerable(name, {})
  /\ \A name \in Range(Snapshot({"now", "probe"})) : Answerable(name, {"now", "probe"})
<1>1. \A name \in Range(StatusNames) \cup Range(SeatNames) \cup Range(BidNames) \cup Range(ActiveNames) :
        name \in Lone \cup NowViews
  BY DEF Range, StatusNames, SeatNames, BidNames, ActiveNames, Lone, NowViews, NowFns
<1>2. \A name \in Range(RoleNames) : name \in Lone \cup ProbeFns
  BY DEF Range, RoleNames, Lone, ProbeFns
<1>3. \A name \in Range(PendingNames) : name \in Lone
  BY DEF Range, PendingNames, Lone
<1>4. \A name \in Range(Snapshot({"now", "probe"})) : Answerable(name, {"now", "probe"})
  BY SnapshotAsks DEF Answerable
<1>5. /\ \A name \in Lone \cup NowViews : Answerable(name, {"now"})
      /\ \A name \in Lone \cup ProbeFns : Answerable(name, {"probe"})
      /\ \A name \in Lone : Answerable(name, {})
  BY LoneAsked
<1> QED
  BY <1>1, <1>2, <1>3, <1>4, <1>5

(* Every part asks for such jobs only, and for nothing it has already.       *)
LEMMA ScalarJobs ==
  ASSUME NEW name \in ScalarReads, NEW got
  PROVE  Jobs(Scalar(name, got), got)
<1>1. CASE name \in ScalarAt
  <2>1. JobType(ViewNow(name))
    BY <1>1, ScalarsAsked, ViewJob DEF ViewNow
  <2>2. Jobs(Then(got, {ViewNow(name)}, {}), got)
    BY <2>1, NoJobs, ThenJobs
  <2>3. Jobs(Then(got, {Get("clock")}, Then(got, {ViewNow(name)}, {})), got)
    BY <2>2, GetJob, ThenJobs
  <2> QED
    BY <1>1, <2>3 DEF Scalar
<1>2. CASE name \notin ScalarAt
  <2> DEFINE j == IF name \in ScalarProbes THEN ViewOf(name) ELSE View(name)
  <2>1. Answerable(name, IF name \in ScalarProbes THEN {"probe"} ELSE {})
    BY <1>2, ScalarsAsked
  <2>2. JobType(j)
    BY <2>1, ViewJob DEF ViewOf, View
  <2>3. Scalar(name, got) = Then(got, {j}, {})
    BY <1>2 DEF Scalar
  <2> HIDE DEF j
  <2> QED
    BY <2>2, <2>3, NoJobs, ThenJobs
<1> QED
  BY <1>1, <1>2

LEMMA AssetStateJobs ==
  ASSUME NEW got
  PROVE  Jobs(AssetState(got), got)
<1>1. /\ JobType(Sim("reader", StatusNames, {"now"})) /\ JobType(Sim("reader", SeatNames, {"now"}))
      /\ JobType(Sim("reader", BidNames, {"now"}))
  BY ListJob, ListsAsked DEF Multiple
<1>2. JobType(View("lastRentPriceMist")) /\ JobType(View("descentExpiryMs"))
  BY LoneAsked, ViewJob DEF View, Lone
<1>3. Jobs(Then(got, {View("lastRentPriceMist"), View("descentExpiryMs")}, {}), got)
  BY <1>2, NoJobs, ThenJobs
<1>4. Jobs(Then(got, {Sim("reader", SeatNames, {"now"})}, {}), got)
  BY <1>1, NoJobs, ThenJobs
<1>5. Jobs(Then(got, {Sim("reader", BidNames, {"now"})}, {}), got)
  BY <1>1, NoJobs, ThenJobs
<1>6. Jobs(Then(got, {Sim("reader", SeatNames, {"now"})}, Then(got, {Sim("reader", BidNames, {"now"})}, {})), got)
  BY <1>1, <1>5, ThenJobs
<1> DEFINE rest ==
    CASE Status(got) = "descent" ->
           Then(got, {View("lastRentPriceMist"), View("descentExpiryMs")}, {})
      [] Status(got) = "occupied" -> Then(got, {Sim("reader", SeatNames, {"now"})}, {})
      [] Status(got) = "demand" ->
           Then(got, {Sim("reader", SeatNames, {"now"})},
           Then(got, {Sim("reader", BidNames, {"now"})}, {}))
      [] OTHER -> {}
<1>7. Jobs(rest, got)
  <2>1. CASE Status(got) = "descent"
    BY <1>3, <2>1
  <2>2. CASE Status(got) = "occupied"
    BY <1>4, <2>2
  <2>3. CASE Status(got) = "demand"
    BY <1>6, <2>3
  <2>4. CASE Status(got) \notin {"descent", "occupied", "demand"}
    BY <2>4, NoJobs
  <2> QED
    BY <2>1, <2>2, <2>3, <2>4
<1>8. AssetState(got) = Then(got, {Get("clock")}, Then(got, {Sim("reader", StatusNames, {"now"})}, rest))
  BY DEF AssetState
<1> HIDE DEF rest
<1>9. Jobs(Then(got, {Sim("reader", StatusNames, {"now"})}, rest), got)
  BY <1>1, <1>7, ThenJobs
<1> QED
  BY <1>8, <1>9, GetJob, ThenJobs

LEMMA CapStateJobs ==
  ASSUME NEW cap, NEW got
  PROVE  Jobs(CapState(cap, got), got)
<1>1. /\ JobType(Sim("reader", RoleNames, {"probe"})) /\ JobType(Sim("reader", ActiveNames, {"now"}))
      /\ JobType(Sim("reader", PendingNames, {}))
  BY ListJob, ListsAsked DEF Multiple
<1>2. Jobs(Then(got, {Sim("reader", ActiveNames, {"now"})}, {}), got)
  BY <1>1, NoJobs, ThenJobs
<1>3. Jobs(Then(got, {Sim("reader", PendingNames, {})}, {}), got)
  BY <1>1, NoJobs, ThenJobs
<1> DEFINE rest ==
    CASE Role(cap, got) = "active"  -> Then(got, {Sim("reader", ActiveNames, {"now"})}, {})
      [] Role(cap, got) = "pending" -> Then(got, {Sim("reader", PendingNames, {})}, {})
      [] OTHER                      -> {}
<1>4. Jobs(rest, got)
  <2>1. CASE Role(cap, got) = "active"
    BY <1>2, <2>1
  <2>2. CASE Role(cap, got) = "pending"
    BY <1>3, <2>2
  <2>3. CASE Role(cap, got) \notin {"active", "pending"}
    BY <2>3, NoJobs
  <2> QED
    BY <2>1, <2>2, <2>3
<1>5. CapState(cap, got) = Then(got, {Get("clock"), Sim("reader", RoleNames, {"probe"})}, rest)
  BY DEF CapState
<1> HIDE DEF rest
<1> QED
  BY <1>1, <1>4, <1>5, GetJob, ThenJobs

LEMMA CurveJobs ==
  ASSUME NEW got
  PROVE  /\ Jobs(Cycle(got), got) /\ Jobs(CreditCurve(got), got)
         /\ Jobs(DescentCurve(got), got) /\ Jobs(EscalationLadder(got), got)
<1>1. /\ \A name \in Lone : JobType(View(name))
      /\ JobType(ViewNow("floorPriceMist"))
  <2>1. "floorPriceMist" \in NowViews
    BY DEF NowViews, NowFns
  <2> QED
    BY <2>1, LoneAsked, ViewJob DEF View, ViewNow
<1>2. \A name \in Sampled : Jobs(Then(got, {Kernel(name)}, {}), got)
  BY SampleJob, NoJobs, ThenJobs DEF Kernel
<1>3. Jobs(Cycle(got), got)
  <2>1. \A j \in {View("cycleParams"), View("activeCeilingTotalMs"), View("activeHandoverTotalMs")} : JobType(j)
    BY <1>1 DEF Lone
  <2> QED
    BY <2>1, NoJobs, ThenJobs DEF Cycle
<1>4. Jobs(CreditCurve(got), got)
  <2> DEFINE names == {"isOccupied", "activeStakeBalanceMist", "phaseStartMs",
                       "activeCeilingTotalMs", "creditShape", "activeUsufructCapId"}
             rest == IF ~Value(got, "isOccupied") \/ Value(got, "activeStakeBalanceMist") = None THEN {}
                     ELSE Then(got, {Kernel("creditSamples")}, {})
  <2>1. names \subseteq Lone
    BY DEF Lone
  <2>2. Jobs(rest, got)
    BY <1>2, NoJobs DEF Sampled
  <2>3. CreditCurve(got) = Then(got, {View(n) : n \in names}, rest)
    BY DEF CreditCurve
  <2> HIDE DEF names, rest
  <2> QED
    BY <1>1, <2>1, <2>2, <2>3, ThenJobs
<1>5. Jobs(DescentCurve(got), got)
  <2> DEFINE names == {"isDescending", "lastRentPriceMist", "phaseStartMs",
                       "cycleParams", "auctionShape"}
             rest == IF ~Value(got, "isDescending") \/ Value(got, "lastRentPriceMist") = None THEN {}
                     ELSE Then(got, {Kernel("descentSamples")}, {})
  <2>1. names \subseteq Lone
    BY DEF Lone
  <2>2. Jobs(rest, got)
    BY <1>2, NoJobs DEF Sampled
  <2>3. DescentCurve(got) = Then(got, {View(n) : n \in names}, rest)
    BY DEF DescentCurve
  <2> HIDE DEF names, rest
  <2> QED
    BY <1>1, <2>1, <2>2, <2>3, ThenJobs
<1>6. Jobs(EscalationLadder(got), got)
  <2>1. "priceEscalation" \in Lone
    BY DEF Lone
  <2>2. Jobs(Then(got, {Kernel("ladder")}, {}), got)
    BY <1>2 DEF Sampled
  <2>3. Jobs(Then(got, {ViewNow("floorPriceMist")}, Then(got, {Kernel("ladder")}, {})), got)
    BY <1>1, <2>1, <2>2, ThenJobs
  <2>4. Jobs(Then(got, {Get("clock")}, Then(got, {ViewNow("floorPriceMist")}, Then(got, {Kernel("ladder")}, {}))), got)
    BY <2>3, GetJob, ThenJobs
  <2> QED
    BY <1>1, <2>1, <2>4, ThenJobs DEF EscalationLadder
<1> QED
  BY <1>3, <1>4, <1>5, <1>6

LEMMA SettlementJobs ==
  ASSUME NEW name \in Settlements, NEW got
  PROVE  Jobs(Settlement(name, got), got)
<1>1. /\ name \in Views /\ name \notin NowViews /\ name \notin ProbeFns
      /\ name # "handoverSettlement" => name \in {"nextFloorPriceMist", "tenureSettlement"}
  BY ViewNames DEF Settlements, NowViews, NowFns, ProbeFns
<1>2. CASE name = "handoverSettlement"
  <2>1. Answerable(name, {"boundary"})
    BY <1>1, <1>2, AskedFor
  <2>2. Jobs(Then(got, {Sim("reader", <<name>>, {"boundary"})}, {}), got)
    BY <2>1, ViewJob, NoJobs, ThenJobs
  <2> QED
    BY <1>2, <2>2, GetJob, ThenJobs DEF Settlement
<1>3. CASE name # "handoverSettlement"
  <2>1. Answerable(name, {"nextFloor"})
    BY <1>1, <1>3, AskedFor
  <2>2. Jobs(Then(got, {Sim("reader", <<name>>, {"nextFloor"})}, {}), got)
    BY <2>1, ViewJob, NoJobs, ThenJobs
  <2> QED
    BY <1>3, <2>2 DEF Settlement
<1> QED
  BY <1>2, <1>3

LEMMA ReadMarketJobs ==
  ASSUME NEW via, NEW got
  PROVE  Jobs(ReadMarket(via, got), got)
<1>1. \A j \in {Sim(via, <<n>>, {}) : n \in MarketViews} : JobType(j)
  BY PoliciesAsked, ViewJob
<1> QED
  BY <1>1, NoJobs, ThenJobs DEF ReadMarket

LEMMA RentJobs ==
  ASSUME NEW part, NEW got
  PROVE  Jobs(RentReads(part, got), got)
<1> DEFINE coins == IF Purse = None THEN {} ELSE {Get("coins")}
<1>1. Jobs(Then(got, coins, {}), got)
  BY GetJob, NoJobs, ThenJobs
<1>2. JobType(ViewNow("floorPriceMist"))
  BY LoneAsked, ViewJob DEF ViewNow, NowViews, NowFns
<1>3. RentReads(part, got) =
        IF part.pay # None THEN Then(got, coins, {})
        ELSE Then(got, {Get("clock")}, Then(got, {ViewNow("floorPriceMist")}, Then(got, coins, {})))
  BY DEF RentReads
<1> HIDE DEF coins
<1>4. Jobs(Then(got, {ViewNow("floorPriceMist")}, Then(got, coins, {})), got)
  BY <1>1, <1>2, ThenJobs
<1>5. Jobs(Then(got, {Get("clock")}, Then(got, {ViewNow("floorPriceMist")}, Then(got, coins, {}))), got)
  BY <1>4, GetJob, ThenJobs
<1> QED
  BY <1>1, <1>3, <1>5

LEMMA BuildJobs ==
  ASSUME NEW part, NEW got,
         part.verb = "scalar" => part.name \in ScalarReads,
         part.verb = "settlement" => part.name \in Settlements
  PROVE  Jobs(BuildReads(part, got), got)
<1>1. \A what : Jobs(Then(got, {Get(what)}, {}), got)
  BY GetJob, NoJobs, ThenJobs
<1>2. \A jobs : Jobs(jobs, got) => Jobs(Ref(got, jobs), got)
  BY GetJob, ThenJobs DEF Ref
<1>3. Jobs(Ref(got, {}), got)
  BY <1>2, NoJobs
<1>4. CASE part.verb \in {"scalar", "assetState", "cycle", "creditCurve", "descentCurve", "ladder",
                          "settlement", "market", "capState"}
  BY <1>4, ScalarJobs, AssetStateJobs, CurveJobs, SettlementJobs, ReadMarketJobs, CapStateJobs DEF BuildReads
<1>5. CASE part.verb = "everything"
  <2>1. JobType(Sim("reader", Snapshot({"now", "probe"}), {"now", "probe"}))
    BY ListJob, ListsAsked DEF Multiple
  <2> QED
    BY <1>5, <2>1, NoJobs, ThenJobs DEF BuildReads
<1>6. CASE part.verb \in {"escrow", "escrows", "feeInbox", "balance", "retire", "extendRetire",
                          "extendEnsemble", "integrate", "integrateIntoPortfolio", "collect"}
  BY <1>1, <1>3, <1>6 DEF BuildReads
<1>7. CASE part.verb = "usufructCap"
  BY <1>3, <1>7, GetJob, ThenJobs DEF BuildReads
<1>8. CASE part.verb = "governs"
  <2>1. JobType(Sim("kernel", <<"governanceCapIsValid">>, {"probe"}))
    BY LoneAsked, ViewJob DEF ProbeFns
  <2>2. Jobs(Then(got, {Sim("kernel", <<"governanceCapIsValid">>, {"probe"})}, {}), got)
    BY <2>1, NoJobs, ThenJobs
  <2> QED
    BY <1>2, <1>8, <2>2 DEF BuildReads
<1>9. CASE part.verb = "rent"
  BY <1>9, RentJobs DEF BuildReads
<1>10. CASE part.verb = "updateMarket"
  BY <1>2, <1>10, ReadMarketJobs DEF BuildReads
<1>11. CASE part.verb = "claim"
  <2>1. JobType(Kernel("assetId"))
    BY LoneAsked, ViewJob DEF Kernel, Lone
  <2>2. Jobs(Then(got, {Kernel("assetId")}, {}), got)
    BY <2>1, NoJobs, ThenJobs
  <2> QED
    BY <1>2, <1>11, <2>2 DEF BuildReads
<1>12. CASE part.verb = "burnIfStale"
  <2>1. JobType(ViewOf("usufructCapIsStale"))
    BY LoneAsked, ViewJob DEF ViewOf, ProbeFns
  <2> QED
    BY <1>12, <2>1, NoJobs, ThenJobs DEF BuildReads
<1>13. CASE part.verb \notin {"scalar", "assetState", "cycle", "creditCurve", "descentCurve", "ladder",
                              "settlement", "market", "capState", "everything", "escrow", "escrows",
                              "feeInbox", "balance", "retire", "extendRetire", "extendEnsemble",
                              "integrate", "integrateIntoPortfolio", "collect", "usufructCap", "governs",
                              "rent", "updateMarket", "claim", "burnIfStale"}
  BY <1>13, NoJobs DEF BuildReads
<1> QED
  BY <1>4, <1>5, <1>6, <1>7, <1>8, <1>9, <1>10, <1>11, <1>12, <1>13

(* What a part has read when nothing is left to read for its build.          *)
HasRead(part, got) ==
  /\ part.verb = "collect" => "messages" \in DOMAIN got
  /\ part.verb = "burnIfStale" => "usufructCapIsStale" \in DOMAIN got
  /\ part.verb = "rent" /\ part.pay = None => "floorPriceMist" \in DOMAIN got
  /\ part.verb = "updateMarket" => {"restPrice", "tenureDuration"} \subseteq DOMAIN got

LEMMA BuiltHasRead ==
  ASSUME NEW part, NEW got, BuildReads(part, got) = {}
  PROVE  HasRead(part, got)
<1>1. CASE part.verb = "collect"
  <2>1. Then(got, {Get("messages")}, {}) = {}
    BY <1>1 DEF BuildReads
  <2>2. Range(Get("messages").names) \subseteq DOMAIN got
    BY <2>1, ThenNone
  <2> QED
    BY <1>1, <2>2, GetJob, RangeOfOne DEF HasRead
<1>2. CASE part.verb = "burnIfStale"
  <2>1. Then(got, {ViewOf("usufructCapIsStale")}, {}) = {}
    BY <1>2 DEF BuildReads
  <2>2. Range(ViewOf("usufructCapIsStale").names) \subseteq DOMAIN got
    BY <2>1, ThenNone
  <2>3. ViewOf("usufructCapIsStale").names = <<"usufructCapIsStale">>
    BY DEF ViewOf, Sim
  <2> QED
    BY <1>2, <2>2, <2>3, RangeOfOne DEF HasRead
<1>3. CASE part.verb = "rent"
  <2> SUFFICES ASSUME part.pay = None PROVE "floorPriceMist" \in DOMAIN got
    BY <1>3 DEF HasRead
  <2> DEFINE coins == IF Purse = None THEN {} ELSE {Get("coins")}
  <2>1. Then(got, {Get("clock")}, Then(got, {ViewNow("floorPriceMist")}, Then(got, coins, {}))) = {}
    BY <1>3 DEF BuildReads, RentReads
  <2> HIDE DEF coins
  <2>2. Range(ViewNow("floorPriceMist").names) \subseteq DOMAIN got
    BY <2>1, ThenNone
  <2>3. ViewNow("floorPriceMist").names = <<"floorPriceMist">>
    BY DEF ViewNow, Sim
  <2> QED
    BY <2>2, <2>3, RangeOfOne
<1>4. CASE part.verb = "updateMarket"
  <2>1. Then(got, {Get("typeArgs")}, ReadMarket("kernel", got)) = {}
    BY <1>4 DEF BuildReads, Ref
  <2>2. Then(got, {Sim("kernel", <<n>>, {}) : n \in MarketViews}, {}) = {}
    BY <2>1, ThenNone DEF ReadMarket
  <2>3. \A n \in MarketViews : Range(Sim("kernel", <<n>>, {}).names) \subseteq DOMAIN got
    <3> DEFINE jobs == {Sim("kernel", <<n>>, {}) : n \in MarketViews}
    <3>1. Then(got, jobs, {}) = {} /\ \A n \in MarketViews : Sim("kernel", <<n>>, {}) \in jobs
      BY <2>2
    <3> HIDE DEF jobs
    <3> QED
      BY <3>1, ThenNone
  <2>4. \A n \in MarketViews : n \in DOMAIN got
    BY <2>3, RangeOfOne DEF Sim
  <2> QED
    BY <1>4, <2>4, MarketViewsAssumption DEF HasRead
<1> QED
  BY <1>1, <1>2, <1>3, <1>4 DEF HasRead

(* What a part asks to decode its execution touches nothing it was built on. *)
Late == {"indexed", "typeArgs", "tenureExpiryMs"}
LateJobs == {Get("indexed"), Get("typeArgs"), View("tenureExpiryMs")}

LEMMA LateJobType ==
  ASSUME NEW j \in LateJobs
  PROVE  JobType(j) /\ Range(j.names) \subseteq Late /\ (j.via = "client" \/ j = View("tenureExpiryMs"))
<1>1. JobType(Get("indexed")) /\ JobType(Get("typeArgs"))
  BY GetJob
<1>2. JobType(View("tenureExpiryMs")) /\ View("tenureExpiryMs").names = <<"tenureExpiryMs">>
  BY LoneAsked, ViewJob DEF View, Sim, Lone
<1>3. CASE j = View("tenureExpiryMs")
  BY <1>2, <1>3, RangeOfOne DEF Late
<1>4. CASE j = Get("indexed") \/ j = Get("typeArgs")
  <2>1. PICK what \in {"indexed", "typeArgs"} : j = Get(what)
    BY <1>4
  <2> QED
    BY <1>1, <2>1, GetJob, RangeOfOne DEF Late
<1> QED
  BY <1>3, <1>4 DEF LateJobs

LEMMA DecodeJobs ==
  ASSUME NEW part, NEW got
  PROVE  \A j \in DecodeReads(part, got) : j \in LateJobs /\ ~(Range(j.names) \subseteq DOMAIN got)
<1>1. CASE part.verb = "rent"
  <2>1. DecodeReads(part, got) = Then(got, {View("tenureExpiryMs")}, {})
    BY <1>1 DEF DecodeReads
  <2> QED
    BY <2>1 DEF Then, LateJobs
<1>2. CASE part.verb \in {"integrate", "integrateIntoPortfolio"}
  <2>1. DecodeReads(part, got) = Then(got, {Get("typeArgs")}, {})
    BY <1>2 DEF DecodeReads, Ref
  <2> QED
    BY <2>1 DEF Then, LateJobs
<1>3. CASE part.verb \notin {"rent", "integrate", "integrateIntoPortfolio"}
  BY <1>3 DEF DecodeReads
<1> QED
  BY <1>1, <1>2, <1>3

(* A simulation of views that fits decodes each of them from its own calls.  *)
LEMMA SimulationsDecode ==
  /\ \A name \in Views : DecodesOwn[<<name>>]
  /\ \A names \in Multiple : \A k \in DOMAIN Chunks(names) : DecodesOwn[Chunks(names)[k]]
<1> DEFINE Requests == {<<name>> : name \in Views} \cup UNION {Range(Chunked[names]) : names \in Multiple}
<1>1. \A request \in Requests : request \in Seq(Views) /\ Len(Issued(request)) <= ChunkCalls
                                => DecodesOwn[request]
  BY EachDecodesItsOwn DEF DecodesOwn
<1>2. ASSUME NEW name \in Views PROVE DecodesOwn[<<name>>]
  <2>1. <<name>> \in Seq(Views) /\ CallsIn(<<name>>) = Calls[name] /\ Calls[name] \in 1 .. 5
    BY CallsOfOne, CallsFew
  <2>2. Len(Issued(<<name>>)) = Calls[name]
    BY <2>1, IssuedAtCursor
  <2>3. Len(Issued(<<name>>)) <= ChunkCalls
    BY <2>1, <2>2 DEF ChunkCalls
  <2> QED
    BY <1>1, <2>1, <2>3
<1>3. ASSUME NEW names \in Multiple, NEW k \in DOMAIN Chunks(names) PROVE DecodesOwn[Chunks(names)[k]]
  <2>1. names \in Seq(Views)
    BY MultipleType
  <2>2. Chunks(names)[k] \in Seq(Views) /\ Len(Issued(Chunks(names)[k])) <= ChunkCalls
    BY <2>1, EverySimulationFits
  <2>3. Chunked[names] = Chunks(names)
    BY DEF Chunked
  <2>4. Chunks(names)[k] \in Range(Chunked[names])
    BY <2>3 DEF Range
  <2>5. Chunks(names)[k] \in Requests
    BY <2>4
  <2> QED
    BY <1>1, <2>2, <2>5
<1> QED
  BY <1>2, <1>3

(* The request of a job asks for some of what the job asks for, and is       *)
(* answered from its own calls.                                              *)
LEMMA RequestOwn ==
  ASSUME NEW got, NEW j, JobType(j), ~(Range(j.names) \subseteq DOMAIN got)
  PROVE  /\ Range(Request(got, j)) \subseteq Range(j.names)
         /\ j.via = "client" \/ IsSampled(j) \/ DecodesOwn[Request(got, j)]
<1>1. CASE \E name : j.names = <<name>> /\ (j.via = "client" \/ name \in Views \cup Sampled)
  <2>1. PICK name : j.names = <<name>> /\ (j.via = "client" \/ name \in Views \cup Sampled)
    BY <1>1
  <2>2. Request(got, j) = <<name>> /\ Range(j.names) = {name}
    BY <2>1, RangeOfOne DEF Request
  <2>3. name \in Sampled => IsSampled(j)
    BY <2>2 DEF IsSampled
  <2> QED
    BY <2>1, <2>2, <2>3, SimulationsDecode
<1>2. CASE j.names \in Multiple
  <2> DEFINE names == j.names
             chunks == Chunks(names)
  <2>1. names \in Seq(Views) /\ Chunked[names] = chunks
    BY <1>2, MultipleType DEF Chunked
  <2>2. /\ Range(names) = UNION {Range(chunks[k]) : k \in DOMAIN chunks}
        /\ DOMAIN chunks = 1 .. Len(chunks) /\ Len(chunks) \in Nat
    <3>1. Fit(names, Len(names), chunks)
      BY <2>1, ChunksFit
    <3>2. chunks \in Seq(Seq(Views))
      BY <3>1 DEF Fit
    <3>3. DOMAIN chunks = 1 .. Len(chunks) /\ Len(chunks) \in Nat
      <4> DEFINE S == Seq(Views)
      <4> HIDE DEF S, chunks
      <4>1. chunks \in Seq(S)
        BY <3>2 DEF S
      <4> QED
        BY <4>1
    <3> QED
      BY <2>1, <3>3, EverySimulationFits
  <2>3. CASE Len(names) = 1
    <3>1. names[1] \in Views /\ names = <<names[1]>>
      BY <2>1, <2>3
    <3>2. Request(got, j) = names
      BY <2>3 DEF Request
    <3>3. DecodesOwn[names]
      BY <3>1, SimulationsDecode
    <3> QED
      BY <3>2, <3>3
  <2>4. CASE Len(names) # 1
    <3> DEFINE open == {k \in DOMAIN chunks : ~(Range(chunks[k]) \subseteq DOMAIN got)}
               m == Min(open)
    <3>1. Request(got, j) = chunks[m]
      BY <2>1, <2>4 DEF Request
    <3> HIDE DEF chunks
    <3>2. open # {} /\ open \in SUBSET Nat
      BY <2>2
    <3>3. \E k \in open : \A l \in open : k <= l
      <4> HIDE DEF open
      <4>1. PICK k \in open : k \in Nat /\ \A l \in Nat : l < k => l \notin open
        BY <3>2, LeastNumber
      <4> QED
        BY <3>2, <4>1
    <3>4. m \in open
      BY <3>3 DEF Min
    <3>5. m \in DOMAIN chunks
      BY <3>4
    <3>6. Range(chunks[m]) \subseteq Range(names)
      BY <2>2, <3>5
    <3>7. DecodesOwn[chunks[m]]
      BY <1>2, <3>5, SimulationsDecode DEF chunks
    <3> QED
      BY <3>1, <3>6, <3>7 DEF chunks
  <2> QED
    BY <2>3, <2>4
<1> QED
  BY <1>1, <1>2 DEF JobType

(* No request is made of a function with arguments it does not declare.      *)
LEMMA JobsBind ==
  ASSUME NEW part \in PartType, NEW j, JobType(j)
  PROVE  JobBinds(part, j)
<1> DEFINE credit == WellBound(Samples(part.cfg.creditShape, CreditSample, 2))
           descent == WellBound(Samples(part.cfg.auctionShape, DescentSample, 2))
           ladder == WellBound(EscalationLadderPtb(part.cfg.escalation, 2))
           views == \A name \in Range(j.names) : SpecBinds(name, j.supplied)
<1>1. part.cfg \in ConfigType
  BY DEF PartType
<1>2. part.cfg.creditShape \in ShapeKinds /\ part.cfg.auctionShape \in ShapeKinds
  BY <1>1 DEF ConfigType
<1>3. credit /\ descent /\ ladder
  BY <1>2, SamplesBind, LadderBinds DEF ShapeKinds, Bound
<1>4. \/ j.via = "client" \/ j.names \in {<<"creditSamples">>, <<"descentSamples">>, <<"ladder">>}
      \/ views
  BY EveryViewBinds DEF JobType, Answerable, Sampled
<1>5. JobBinds(part, j) =
        CASE j.via = "client" -> TRUE
          [] j.names = <<"creditSamples">>  -> credit
          [] j.names = <<"descentSamples">> -> descent
          [] j.names = <<"ladder">>         -> ladder
          [] OTHER -> views
  BY DEF JobBinds
<1> HIDE DEF credit, descent, ladder, views
<1> QED
  BY <1>3, <1>4, <1>5

(* Whatever a verb appends to a transaction, with whatever configuration, is *)
(* bound to functions of the contract with the arguments they declare.       *)
THEOREM EveryWriteBinds ==
  ASSUME NEW part \in PartType, NEW got
  PROVE  Bound(Ptb(part, got))
<1>1. part.cfg \in ConfigType /\ part.verb \in Reads \cup Writes
  BY DEF PartType
<1>2. Variants(part.cfg)
  BY <1>1 DEF ConfigType, Variants, ShapeKinds, CommitmentKinds
<1>3. CASE Idles(part, got)
  BY <1>3, NothingBinds DEF Ptb
<1>4. CASE ~Idles(part, got)
  <2>1. part.verb \in Writes
    BY <1>1, <1>4 DEF Idles
  <2>2. IsFiniteSet({"coin"})
    BY FS_Singleton
  <2>3. CASE part.verb \in {"rent", "refund", "burnIfStale", "burn", "borrow", "transfer"}
    BY <1>4, <2>3, TenantBinds, NothingBinds DEF Ptb
  <2>4. CASE part.verb \in {"updateMarket", "retire", "extendRetire", "extendEnsemble", "claim",
                            "applyPending", "renounce"}
    BY <1>2, <1>4, <2>4, GovernorBinds DEF Ptb
  <2>5. CASE part.verb \in {"integrate", "integrateIntoPortfolio"}
    BY <1>2, <1>4, <2>5, IntegrateBinds DEF Ptb
  <2>6. CASE part.verb = "collect"
    BY <1>4, <2>2, <2>6, CollectBinds DEF Ptb
  <2> QED
    BY <2>1, <2>3, <2>4, <2>5, <2>6 DEF Writes
<1> QED
  BY <1>3, <1>4

-----------------------------------------------------------------------------
(* The tasks: what each has read, done and reports, whatever it is at.       *)

Idle(t) == \A i \in DOMAIN t.call : Idles(t.call[i], t.got[i])
Stage(t) == IF t.pc = "failed" THEN t.during ELSE t.pc

TaskFields ==
  {"pc", "why", "during", "call", "nth", "got", "tries", "missed", "began", "ran", "effect"}

TaskShape(t, m) ==
  /\ t = [field \in TaskFields |-> t[field]]
  /\ t.pc \in {"ready", "building", "sending", "decoding", "done", "failed"}
  /\ t.pc # "ready" =>
       /\ Stage(t) \in {"building", "sending", "decoding", "done"}
       /\ t.call \in CallType /\ t.got = [i \in DOMAIN t.call |-> t.got[i]]
       /\ t.nth \in DOMAIN t.call /\ (Stage(t) # "building" => t.nth = Len(t.call))
       /\ t.began \in Nat /\ t.began <= m

(* The parts that are built have read what they are built on.                *)
TaskRead(t) ==
  t.pc # "ready" => \A i \in DOMAIN t.call :
    i < t.nth \/ Stage(t) # "building" => HasRead(t.call[i], t.got[i])

(* An answer is of the call itself, from the view's own calls; the market it *)
(* tells is the market until the next revision.                              *)
AnswerHolds(name, answer, since, s, m, r) ==
  /\ answer.own
  /\ answer.at \in Nat /\ since <= answer.at /\ answer.at <= m
  /\ name \in {"floorPriceMist", "restPrice", "tenureDuration"} => answer.val \in Nat
  /\ name = "messages" => answer.val \in SUBSET Nat
  /\ name = "restPrice" /\ answer.at >= r => answer.val = s.market.price
  /\ name = "tenureDuration" /\ answer.at >= r => answer.val = s.market.tenure

TaskAnswers(t, s, m, r) ==
  t.pc # "ready" => \A i \in DOMAIN t.call : \A name \in DOMAIN t.got[i] :
    AnswerHolds(name, t.got[i][name], t.began, s, m, r)

(* The outcomes that say nothing ran.                                        *)
Clean == {"abort", "notConnected", "unbound", "noBalance"}

TaskOutcome(t) ==
  t.pc # "ready" =>
    /\ t.ran \in {0, 1}
    /\ Stage(t) = "building" => t.ran = 0 /\ t.effect.taken = 0
    /\ t.pc = "sending" => t.ran = 0 /\ ~Idle(t)
    /\ Stage(t) \in {"decoding", "done"} => t.ran = IF Idle(t) THEN 0 ELSE 1
    /\ t.pc = "failed" /\ t.why \in Clean => t.ran = 0

(* What was minted and taken is what is reported.                            *)
TaskReceipt(t, s) ==
  t.pc # "ready" /\ Stage(t) \in {"decoding", "done"} =>
    /\ Cardinality(Parts(t, "rent")) <= 1 => \A i \in Parts(t, "rent") :
         \E c \in DOMAIN s.stakes : t.effect.caps = <<c>> /\ s.stakes[c] = Paid(t.call[i], t.got[i])
    /\ Cardinality(Parts(t, "collect")) <= 1 => \A i \in Parts(t, "collect") :
         t.effect.taken = SumSet(Found(t.got[i]))

TaskInv(t, s, m, r) ==
  /\ TaskShape(t, m) /\ TaskRead(t) /\ TaskAnswers(t, s, m, r) /\ TaskOutcome(t)
  /\ TaskReceipt(t, s)

LEMMA CallTypes ==
  ASSUME NEW call \in CallType
  PROVE  /\ call \in Seq(PartType) /\ call # <<>> /\ Len(call) \in Nat \ {0}
         /\ DOMAIN call = 1 .. Len(call) /\ \A i \in DOMAIN call : call[i] \in PartType
         /\ \A i \in DOMAIN call :
              /\ call[i].verb = "scalar" => call[i].name \in ScalarReads
              /\ call[i].verb = "settlement" => call[i].name \in Settlements
              /\ call[i].verb \in Reads \cup {"burnIfStale"} => Len(call) = 1
<1>1. call \in Seq(PartType) /\ call # <<>>
  BY DEF CallType
<1>2. /\ Len(call) \in Nat \ {0} /\ DOMAIN call = 1 .. Len(call)
      /\ \A i \in DOMAIN call : call[i] \in PartType
  <2> HIDE DEF PartType
  <2> QED
    BY <1>1
<1>3. \A i \in DOMAIN call :
        /\ call[i].verb = "scalar" => call[i].name \in ScalarReads
        /\ call[i].verb = "settlement" => call[i].name \in Settlements
        /\ Len(call) > 1 => call[i].verb \in Writes \ {"burnIfStale"}
  BY DEF CallType
<1>4. Reads \cap Writes = {}
  BY DEF Reads, Writes
<1>5. Len(call) = 1 \/ Len(call) > 1
  BY <1>2
<1> QED
  BY <1>1, <1>2, <1>3, <1>4, <1>5

(* Answers a part was not built on do not change what it does.               *)
Relied == {"messages", "usufructCapIsStale", "floorPriceMist", "restPrice", "tenureDuration"}
SameRelied(got, g) == \A name \in Relied \cap DOMAIN got : name \in DOMAIN g /\ g[name] = got[name]

LEMMA SameReads ==
  ASSUME NEW part, NEW got, NEW g, HasRead(part, got), SameRelied(got, g)
  PROVE  /\ HasRead(part, g) /\ (Idles(part, g) <=> Idles(part, got))
         /\ part.verb = "rent" => Paid(part, g) = Paid(part, got)
         /\ part.verb = "collect" => Found(g) = Found(got)
<1>1. \A name \in Relied : name \in DOMAIN got => name \in DOMAIN g /\ g[name] = got[name]
  BY DEF SameRelied
<1>2. HasRead(part, g)
  BY <1>1 DEF HasRead, Relied
<1>3. part.verb = "collect" => g["messages"] = got["messages"]
  BY <1>1 DEF HasRead, Relied
<1>4. part.verb = "burnIfStale" => g["usufructCapIsStale"] = got["usufructCapIsStale"]
  BY <1>1 DEF HasRead, Relied
<1>5. part.verb = "rent" /\ part.pay = None => g["floorPriceMist"] = got["floorPriceMist"]
  BY <1>1 DEF HasRead, Relied
<1>6. Idles(part, g) <=> Idles(part, got)
  BY <1>3, <1>4 DEF Idles, Value
<1> QED
  BY <1>2, <1>3, <1>5, <1>6 DEF Paid, Found, Value

(* Counting a failed attempt changes nothing else.                           *)
LEMMA CountersKeep ==
  ASSUME NEW t, NEW u, NEW s, NEW m, NEW r, TaskInv(t, s, m, r),
         u = [field \in TaskFields |-> u[field]],
         \A field \in TaskFields \ {"missed", "tries"} : u[field] = t[field]
  PROVE  TaskInv(u, s, m, r)
<1>1. /\ u.pc = t.pc /\ u.why = t.why /\ u.during = t.during /\ u.call = t.call /\ u.nth = t.nth
      /\ u.got = t.got /\ u.began = t.began /\ u.ran = t.ran /\ u.effect = t.effect
  BY DEF TaskFields
<1>2. Stage(u) = Stage(t) /\ (Idle(u) <=> Idle(t)) /\ \A verb : Parts(u, verb) = Parts(t, verb)
  BY <1>1 DEF Stage, Idle, Parts
<1>3. TaskShape(u, m)
  BY <1>1, <1>2 DEF TaskInv, TaskShape
<1>4. TaskRead(u) /\ TaskAnswers(u, s, m, r)
  BY <1>1, <1>2 DEF TaskInv, TaskRead, TaskAnswers
<1>5. TaskOutcome(u)
  BY <1>1, <1>2 DEF TaskInv, TaskOutcome
<1>6. TaskReceipt(u, s)
  BY <1>1, <1>2 DEF TaskInv, TaskReceipt
<1> QED
  BY <1>3, <1>4, <1>5, <1>6 DEF TaskInv

IsTask(t) == t = [field \in TaskFields |-> t[field]]
SameBut(t, u, fields) == IsTask(u) /\ \A field \in TaskFields \ fields : u[field] = t[field]

LEMMA HitFields ==
  ASSUME NEW t, IsTask(t), NEW key
  PROVE  /\ SameBut(t, Hit(t, key), {"missed"})
         /\ Hit(t, key).missed = Onto([k \in {key} |-> Misses(t, key) + 1], t.missed)
  BY DEF Hit, TaskFields, IsTask, SameBut

LEMMA ReachedFields ==
  ASSUME NEW t, IsTask(t), NEW want
  PROVE  /\ SameBut(t, Reached(t, want), {"missed", "tries"})
         /\ Reached(t, want).missed = Without(t.missed, {Key(want, "request")})
         /\ Reached(t, want).tries = Without(t.tries, {Key(want, "request")})
  BY DEF Reached, TaskFields, IsTask, SameBut

LEMMA AnswerFields ==
  ASSUME NEW t, IsTask(t), NEW i, NEW j, NEW answers
  PROVE  /\ SameBut(t, WithAnswer(t, i, j, answers), {"missed", "tries", "got"})
         /\ WithAnswer(t, i, j, answers).got = [t.got EXCEPT ![i] = Onto(answers, t.got[i])]
         /\ WithAnswer(t, i, j, answers).missed = Without(t.missed, {Key(<<i, j>>, "request")})
         /\ WithAnswer(t, i, j, answers).tries = Without(t.tries, {Key(<<i, j>>, "request")})
<1> DEFINE r == Reached(t, <<i, j>>)
           u == WithAnswer(t, i, j, answers)
<1>1. /\ SameBut(t, r, {"missed", "tries"})
      /\ r.missed = Without(t.missed, {Key(<<i, j>>, "request")})
      /\ r.tries = Without(t.tries, {Key(<<i, j>>, "request")})
  BY ReachedFields
<1>2. u = [r EXCEPT !.got[i] = Onto(answers, r.got[i])]
  BY DEF WithAnswer
<1> HIDE DEF r, u
<1>3. r.got = t.got
  BY <1>1 DEF TaskFields, SameBut
<1>4. /\ SameBut(t, u, {"missed", "tries", "got"})
      /\ u.got = [t.got EXCEPT ![i] = Onto(answers, t.got[i])]
      /\ u.missed = r.missed /\ u.tries = r.tries
  BY <1>1, <1>2, <1>3 DEF TaskFields, IsTask, SameBut
<1> QED
  BY <1>1, <1>4 DEF u

LEMMA AnswerGot ==
  ASSUME NEW t, IsTask(t), NEW i, NEW j, NEW answers
  PROVE  WithAnswer(t, i, j, answers).got = [t.got EXCEPT ![i] = Onto(answers, t.got[i])]
<1> DEFINE r == Reached(t, <<i, j>>)
<1>1. SameBut(t, r, {"missed", "tries"})
  BY ReachedFields
<1>2. WithAnswer(t, i, j, answers) = [r EXCEPT !.got[i] = Onto(answers, r.got[i])]
  BY DEF WithAnswer
<1> HIDE DEF r
<1>3. r = [field \in TaskFields |-> r[field]] /\ r.got = t.got
  BY <1>1 DEF TaskFields, SameBut, IsTask
<1> QED
  BY <1>2, <1>3 DEF TaskFields

(* A failure keeps what was read and done, and says which stage it was at.   *)
LEMMA FailedKeeps ==
  ASSUME NEW t, NEW why, NEW s, NEW m, NEW r,
         TaskShape(t, m), TaskRead(t), TaskAnswers(t, s, m, r), TaskReceipt(t, s),
         t.pc \in {"building", "sending", "decoding"}, t.ran \in {0, 1},
         t.pc = "building" => t.ran = 0 /\ t.effect.taken = 0,
         t.pc = "decoding" => t.ran = IF Idle(t) THEN 0 ELSE 1,
         why \in Clean => t.ran = 0
  PROVE  TaskInv(Failed(t, why), s, m, r)
<1> DEFINE u == Failed(t, why)
<1>1. /\ u.pc = "failed" /\ u.why = why /\ u.during = t.pc /\ u.call = t.call /\ u.nth = t.nth
      /\ u.got = t.got /\ u.began = t.began /\ u.ran = t.ran /\ u.effect = t.effect
      /\ u = [field \in TaskFields |-> u[field]]
  BY DEF TaskShape, TaskFields, Failed
<1> HIDE DEF u
<1>2. /\ Stage(u) = t.pc /\ Stage(t) = t.pc /\ (Idle(u) <=> Idle(t))
      /\ \A verb : Parts(u, verb) = Parts(t, verb)
  BY <1>1 DEF Stage, Idle, Parts
<1>3. TaskShape(u, m)
  BY <1>1, <1>2 DEF TaskShape
<1>4. TaskRead(u) /\ TaskAnswers(u, s, m, r)
  BY <1>1, <1>2 DEF TaskRead, TaskAnswers
<1>5. TaskOutcome(u)
  BY <1>1, <1>2 DEF TaskOutcome
<1>6. TaskReceipt(u, s)
  BY <1>1, <1>2 DEF TaskReceipt
<1> QED
  BY <1>3, <1>4, <1>5, <1>6 DEF TaskInv, u

(* What a task under way meets.                                              *)
LEMMA UnderWay ==
  ASSUME NEW t, NEW s, NEW m, NEW r, TaskInv(t, s, m, r), t.pc \in {"building", "sending", "decoding"}
  PROVE  /\ TaskShape(t, m) /\ TaskRead(t) /\ TaskAnswers(t, s, m, r) /\ TaskReceipt(t, s)
         /\ Stage(t) = t.pc /\ t.ran \in {0, 1}
         /\ t.pc = "building" => t.ran = 0 /\ t.effect.taken = 0
         /\ t.pc = "sending" => t.ran = 0 /\ ~Idle(t)
         /\ t.pc = "decoding" => t.ran = IF Idle(t) THEN 0 ELSE 1
         /\ t.call \in CallType /\ t.nth \in DOMAIN t.call /\ t.nth \in Nat
         /\ t.pc # "building" => t.nth = Len(t.call)
<1>1. Stage(t) = t.pc
  BY DEF Stage
<1>2. t.call \in CallType /\ t.nth \in DOMAIN t.call /\ (t.pc # "building" => t.nth = Len(t.call))
  BY <1>1 DEF TaskInv, TaskShape
<1>3. t.nth \in Nat
  BY <1>2, CallTypes
<1>4. /\ t.ran \in {0, 1} /\ (t.pc = "building" => t.ran = 0 /\ t.effect.taken = 0)
      /\ (t.pc = "sending" => t.ran = 0 /\ ~Idle(t))
      /\ (t.pc = "decoding" => t.ran = IF Idle(t) THEN 0 ELSE 1)
  BY <1>1 DEF TaskInv, TaskOutcome
<1> QED
  BY <1>1, <1>2, <1>3, <1>4 DEF TaskInv

(* New answers for one part: the one that is being built, or any once none   *)
(* of them is what it was built on.                                          *)
LEMMA RegotKeeps ==
  ASSUME NEW t, NEW u, NEW s, NEW m, NEW r, NEW i \in DOMAIN t.call, NEW g,
         TaskInv(t, s, m, r), t.pc \in {"building", "decoding"},
         u = [field \in TaskFields |-> u[field]],
         \A field \in TaskFields \ {"missed", "tries", "got"} : u[field] = t[field],
         u.got = [k \in DOMAIN t.call |-> IF k = i THEN g ELSE t.got[k]],
         \A name \in DOMAIN g : AnswerHolds(name, g[name], t.began, s, m, r),
         t.pc = "building" => i = t.nth,
         t.pc = "decoding" => SameRelied(t.got[i], g)
  PROVE  TaskInv(u, s, m, r)
<1>1. /\ u.pc = t.pc /\ u.why = t.why /\ u.during = t.during /\ u.call = t.call /\ u.nth = t.nth
      /\ u.began = t.began /\ u.ran = t.ran /\ u.effect = t.effect
  BY DEF TaskFields
<1>2. Stage(u) = t.pc /\ Stage(t) = t.pc /\ \A verb : Parts(u, verb) = Parts(t, verb)
  BY <1>1 DEF Stage, Parts
<1>3. /\ TaskShape(t, m) /\ TaskRead(t) /\ TaskAnswers(t, s, m, r) /\ TaskReceipt(t, s)
      /\ t.ran \in {0, 1} /\ t.call \in CallType /\ t.nth \in DOMAIN t.call /\ t.nth \in Nat
      /\ t.pc = "building" => t.ran = 0 /\ t.effect.taken = 0
      /\ t.pc = "decoding" => t.ran = IF Idle(t) THEN 0 ELSE 1
  BY UnderWay
<1>4. TaskShape(u, m)
  BY <1>1, <1>2, <1>3 DEF TaskShape
<1>5. ASSUME NEW k \in DOMAIN t.call, t.pc = "decoding" \/ k < t.nth
      PROVE  /\ HasRead(u.call[k], u.got[k])
             /\ t.pc = "decoding" =>
                  /\ Idles(u.call[k], u.got[k]) <=> Idles(t.call[k], t.got[k])
                  /\ t.call[k].verb = "rent" => Paid(u.call[k], u.got[k]) = Paid(t.call[k], t.got[k])
                  /\ t.call[k].verb = "collect" => Found(u.got[k]) = Found(t.got[k])
  <2>1. HasRead(t.call[k], t.got[k])
    BY <1>2, <1>3, <1>5 DEF TaskRead
  <2>2. CASE k = i
    <3>1. t.pc = "decoding"
      BY <1>3, <1>5, <2>2
    <3>2. u.got[k] = g /\ u.call[k] = t.call[k] /\ SameRelied(t.got[k], g)
      BY <1>1, <2>2, <3>1
    <3> QED
      BY <2>1, <3>2, SameReads
  <2>3. CASE k # i
    <3>1. u.got[k] = t.got[k] /\ u.call[k] = t.call[k]
      BY <1>1, <2>3
    <3> QED
      BY <2>1, <3>1
  <2> QED
    BY <2>2, <2>3
<1>6. TaskRead(u)
  BY <1>1, <1>2, <1>5 DEF TaskRead
<1>7. TaskAnswers(u, s, m, r)
  BY <1>1, <1>3 DEF TaskAnswers
<1>8. t.pc = "decoding" => (Idle(u) <=> Idle(t))
  BY <1>1, <1>5 DEF Idle
<1>9. TaskOutcome(u)
  BY <1>1, <1>2, <1>3, <1>8 DEF TaskOutcome
<1>10. TaskReceipt(u, s)
  <2> SUFFICES ASSUME t.pc = "decoding" PROVE TaskReceipt(u, s)
    BY <1>2 DEF TaskReceipt
  <2>1. \A verb : \A k \in Parts(t, verb) : k \in DOMAIN t.call /\ t.call[k].verb = verb
    BY DEF Parts
  <2>2. \A k \in Parts(t, "rent") : Paid(u.call[k], u.got[k]) = Paid(t.call[k], t.got[k])
    BY <1>5, <2>1
  <2>3. \A k \in Parts(t, "collect") : Found(u.got[k]) = Found(t.got[k])
    BY <1>5, <2>1
  <2>4. /\ Cardinality(Parts(t, "rent")) <= 1 => \A k \in Parts(t, "rent") :
             \E c \in DOMAIN s.stakes : t.effect.caps = <<c>> /\ s.stakes[c] = Paid(t.call[k], t.got[k])
        /\ Cardinality(Parts(t, "collect")) <= 1 => \A k \in Parts(t, "collect") :
             t.effect.taken = SumSet(Found(t.got[k]))
    BY <1>2, <1>3 DEF TaskReceipt
  <2>5. /\ Cardinality(Parts(u, "rent")) <= 1 => \A k \in Parts(u, "rent") :
             \E c \in DOMAIN s.stakes : u.effect.caps = <<c>> /\ s.stakes[c] = Paid(u.call[k], u.got[k])
    BY <1>1, <1>2, <2>2, <2>4
  <2>6. Cardinality(Parts(u, "collect")) <= 1 => \A k \in Parts(u, "collect") :
             u.effect.taken = SumSet(Found(u.got[k]))
    <3> SUFFICES ASSUME Cardinality(Parts(u, "collect")) <= 1, NEW k \in Parts(u, "collect")
                 PROVE  u.effect.taken = SumSet(Found(u.got[k]))
      OBVIOUS
    <3>1. k \in Parts(t, "collect") /\ Cardinality(Parts(t, "collect")) <= 1
      BY <1>2
    <3>2. t.effect.taken = SumSet(Found(t.got[k])) /\ Found(u.got[k]) = Found(t.got[k])
      BY <2>3, <2>4, <3>1
    <3> QED
      BY <1>1, <3>2, Zenon
  <2> QED
    BY <2>5, <2>6 DEF TaskReceipt
<1> QED
  BY <1>4, <1>6, <1>7, <1>9, <1>10 DEF TaskInv

-----------------------------------------------------------------------------
(* What a transaction does to what the callers rely on.                      *)

(* Stakes are never rewritten.                                               *)
Grows(s, u) ==
  /\ Len(s.stakes) <= Len(u.stakes)
  /\ \A c \in DOMAIN s.stakes : c \in DOMAIN u.stakes /\ u.stakes[c] = s.stakes[c]

LEMMA StakesLonger ==
  ASSUME NEW stakes \in Seq(Nat), NEW pay \in Nat
  PROVE  /\ Append(stakes, pay) \in Seq(Nat) /\ Len(stakes) \in Nat
         /\ Len(Append(stakes, pay)) = Len(stakes) + 1
         /\ Append(stakes, pay)[Len(stakes) + 1] = pay
         /\ Len(stakes) + 1 \in DOMAIN Append(stakes, pay)
         /\ \A c \in DOMAIN stakes : c \in DOMAIN Append(stakes, pay) /\ Append(stakes, pay)[c] = stakes[c]
  OBVIOUS

LEMMA StakesLength ==
  ASSUME NEW s, EscrowType(s)
  PROVE  Len(s.stakes) \in Nat /\ s.stakes \in Seq(Nat)
  BY DEF EscrowType

LEMMA AfterGrows ==
  ASSUME NEW s, EscrowType(s), NEW op, OpType(op), Sane(s, op)
  PROVE  Grows(s, After(s, op))
<1>1. After(s, op).stakes = IF op.fn = "rent" THEN Append(s.stakes, op.pay) ELSE s.stakes
  BY AfterType
<1>2. s.stakes \in Seq(Nat) /\ (op.fn = "rent" => op.pay \in Nat)
  BY DEF EscrowType, OpType
<1>3. CASE op.fn = "rent"
  <2>1. After(s, op).stakes = Append(s.stakes, op.pay)
    BY <1>1, <1>3
  <2> QED
    BY <1>2, <1>3, <2>1, StakesLonger DEF Grows
<1>4. CASE op.fn # "rent"
  <2>1. After(s, op).stakes = s.stakes /\ Len(s.stakes) \in Nat
    BY <1>1, <1>2, <1>4
  <2> QED
    BY <2>1 DEF Grows
<1> QED
  BY <1>3, <1>4

LEMMA CourseGrows ==
  ASSUME NEW s, NEW ops, EscrowType(s), OpsType(ops), Runs(s, ops)
  PROVE  EscrowType(AfterAll(s, ops)) /\ Grows(s, AfterAll(s, ops))
<1> DEFINE c == Course(s, ops)
           len == Len(ops)
           S == {n \in 0 .. len : Grows(s, c[n])}
<1>1. len \in Nat /\ DOMAIN ops = 1 .. len /\ SaneAll(s, ops)
  BY RunsSane DEF OpsType
<1>2. \A n \in 0 .. len : EscrowType(c[n])
  BY <1>1, CourseType
<1>3. c = [n \in 0 .. len |-> IF n = 0 THEN s ELSE After(c[n - 1], ops[n])]
  BY <1>1, CourseSteps
<1>4. \A n \in 1 .. len : OpType(ops[n]) /\ Sane(c[n - 1], ops[n])
  BY <1>1 DEF OpsType, SaneAll
<1>5. AfterAll(s, ops) = c[len]
  BY DEF AfterAll
<1> HIDE DEF c, len
<1>6. 0 \in S
  <2>1. c[0] = s /\ 0 \in 0 .. len
    BY <1>1, <1>3
  <2>2. Len(s.stakes) \in Nat
    BY DEF EscrowType
  <2>3. Grows(s, s)
    BY <2>2 DEF Grows
  <2> QED
    BY <2>1, <2>3, Zenon
<1>7. ASSUME NEW n \in 1 .. len, n - 1 \in S PROVE n \in S
  <2>1. n \in 0 .. len /\ n # 0 /\ n - 1 \in 0 .. len
    BY <1>1
  <2>2. c[n] = After(c[n - 1], ops[n]) /\ Grows(s, c[n - 1]) /\ EscrowType(c[n - 1]) /\ EscrowType(c[n])
    BY <1>2, <1>3, <1>7, <2>1
  <2>3. Grows(c[n - 1], c[n])
    BY <1>4, <2>2, AfterGrows
  <2>4. Len(s.stakes) \in Nat /\ Len(c[n - 1].stakes) \in Nat /\ Len(c[n].stakes) \in Nat
    BY <2>2, StakesLength
  <2>5. Grows(s, c[n])
    BY <2>2, <2>3, <2>4 DEF Grows
  <2> QED
    BY <2>1, <2>5
<1> HIDE DEF S
<1>8. \A n \in 0 .. len : n \in S
  BY <1>1, <1>6, <1>7, UpTo
<1>9. len \in 0 .. len
  BY <1>1
<1> QED
  BY <1>2, <1>5, <1>8, <1>9 DEF S

(* The one rent of a transaction mints the next cap, at its price.           *)
LEMMA CourseOfOneRent ==
  ASSUME NEW s, NEW ops, EscrowType(s), OpsType(ops), Runs(s, ops),
         NEW i \in DOMAIN ops, ops[i].fn = "rent", \A k \in DOMAIN ops : ops[k].fn = "rent" => k = i
  PROVE  AfterAll(s, ops).stakes = Append(s.stakes, ops[i].pay)
<1> DEFINE c == Course(s, ops)
           len == Len(ops)
           S == {n \in 0 .. len : c[n].stakes = IF n < i THEN s.stakes ELSE Append(s.stakes, ops[i].pay)}
<1>1. len \in Nat /\ DOMAIN ops = 1 .. len /\ SaneAll(s, ops) /\ i \in 1 .. len
  BY RunsSane DEF OpsType
<1>2. \A n \in 0 .. len : EscrowType(c[n])
  BY <1>1, CourseType
<1>3. c = [n \in 0 .. len |-> IF n = 0 THEN s ELSE After(c[n - 1], ops[n])]
  BY <1>1, CourseSteps
<1>4. \A n \in 1 .. len : OpType(ops[n]) /\ Sane(c[n - 1], ops[n])
  BY <1>1 DEF OpsType, SaneAll
<1>5. AfterAll(s, ops) = c[len]
  BY DEF AfterAll
<1>6. \A n \in 1 .. len : ops[n].fn = "rent" <=> n = i
  BY <1>1
<1> HIDE DEF c, len
<1>7. 0 \in S
  BY <1>1, <1>3
<1>8. ASSUME NEW n \in 1 .. len, n - 1 \in S PROVE n \in S
  <2>1. n \in 0 .. len /\ n # 0 /\ n - 1 \in 0 .. len
    BY <1>1
  <2>2. c[n] = After(c[n - 1], ops[n]) /\ EscrowType(c[n - 1])
    BY <1>2, <1>3, <1>8, <2>1
  <2>3. c[n].stakes = IF n = i THEN Append(c[n - 1].stakes, ops[n].pay) ELSE c[n - 1].stakes
    <3> DEFINE t == c[n - 1]
               op == ops[n]
    <3>1. c[n] = After(t, op) /\ EscrowType(t) /\ OpType(op) /\ Sane(t, op) /\ (op.fn = "rent" <=> n = i)
      BY <1>4, <1>6, <2>2
    <3> HIDE DEF t, op
    <3>2. After(t, op).stakes = IF op.fn = "rent" THEN Append(t.stakes, op.pay) ELSE t.stakes
      <4>1. EscrowType(t) /\ OpType(op) /\ Sane(t, op)
        BY <3>1
      <4> QED
        BY <4>1, AfterType
    <3> QED
      BY <3>1, <3>2 DEF t, op
  <2>4. c[n - 1].stakes = IF n - 1 < i THEN s.stakes ELSE Append(s.stakes, ops[i].pay)
    BY <1>8
  <2>5. c[n].stakes = IF n < i THEN s.stakes ELSE Append(s.stakes, ops[i].pay)
    <3>1. CASE n = i
      BY <1>1, <2>3, <2>4, <3>1
    <3>2. CASE n # i
      BY <1>1, <2>3, <2>4, <3>2
    <3> QED
      BY <3>1, <3>2
  <2> QED
    BY <2>1, <2>5
<1> HIDE DEF S
<1>9. \A n \in 0 .. len : n \in S
  BY <1>1, <1>7, <1>8, UpTo
<1>10. len \in 0 .. len /\ ~(len < i)
  BY <1>1
<1> QED
  BY <1>5, <1>9, <1>10 DEF S

(* The one collect of a transaction finds all it asks for, and takes that.   *)
LEMMA CourseOfOneCollect ==
  ASSUME NEW s, NEW ops, EscrowType(s), OpsType(ops), Runs(s, ops),
         \A k \in DOMAIN ops : ops[k].fn \notin {"succeed", "vacate"},
         NEW i \in DOMAIN ops, \A k \in DOMAIN ops : ops[k].fn = "collect" => k = i
  PROVE  IF ops[i].fn = "collect"
         THEN ops[i].messages \subseteq s.inbox /\ AfterAll(s, ops).inbox = s.inbox \ ops[i].messages
         ELSE AfterAll(s, ops).inbox = s.inbox
<1> DEFINE c == Course(s, ops)
           len == Len(ops)
           taken == IF ops[i].fn = "collect" THEN s.inbox \ ops[i].messages ELSE s.inbox
           S == {n \in 0 .. len : c[n].inbox = IF n < i THEN s.inbox ELSE taken}
<1>1. len \in Nat /\ DOMAIN ops = 1 .. len /\ SaneAll(s, ops) /\ i \in 1 .. len
  BY RunsSane DEF OpsType
<1>2. \A n \in 0 .. len : EscrowType(c[n])
  BY <1>1, CourseType
<1>3. c = [n \in 0 .. len |-> IF n = 0 THEN s ELSE After(c[n - 1], ops[n])]
  BY <1>1, CourseSteps
<1>4. \A n \in 1 .. len : OpType(ops[n]) /\ Sane(c[n - 1], ops[n]) /\ Allowed(c[n - 1], ops[n])
  BY <1>1 DEF OpsType, SaneAll, Runs
<1>5. AfterAll(s, ops) = c[len]
  BY DEF AfterAll
<1>6. \A n \in 1 .. len : (ops[n].fn = "collect" => n = i) /\ ops[n].fn \notin {"succeed", "vacate"}
  BY <1>1
<1> HIDE DEF c, len, taken
<1>7. 0 \in S
  BY <1>1, <1>3
<1>8. ASSUME NEW n \in 1 .. len, n - 1 \in S PROVE n \in S
  <2>1. n \in 0 .. len /\ n # 0 /\ n - 1 \in 0 .. len
    BY <1>1
  <2>2. c[n] = After(c[n - 1], ops[n]) /\ EscrowType(c[n - 1])
    BY <1>2, <1>3, <1>8, <2>1
  <2>3. c[n].inbox = IF ops[n].fn = "collect" THEN c[n - 1].inbox \ ops[n].messages ELSE c[n - 1].inbox
    <3> DEFINE t == c[n - 1]
               op == ops[n]
    <3>1. c[n] = After(t, op) /\ EscrowType(t) /\ OpType(op) /\ Sane(t, op) /\ op.fn \notin {"succeed", "vacate"}
      BY <1>4, <1>6, <2>2
    <3> HIDE DEF t, op
    <3>2. After(t, op).inbox = IF op.fn = "collect" THEN t.inbox \ op.messages ELSE t.inbox
      <4>1. EscrowType(t) /\ OpType(op) /\ Sane(t, op) /\ op.fn \notin {"succeed", "vacate"}
        BY <3>1
      <4> QED
        BY <4>1, AfterType
    <3> QED
      BY <3>1, <3>2 DEF t, op
  <2>4. c[n - 1].inbox = IF n - 1 < i THEN s.inbox ELSE taken
    BY <1>8
  <2>5. c[n].inbox = IF n < i THEN s.inbox ELSE taken
    <3>1. CASE n = i
      <4>1. ~(n < i) /\ n - 1 < i
        BY <1>1, <3>1
      <4>2. c[n - 1].inbox = s.inbox
        BY <2>4, <4>1
      <4> QED
        BY <2>3, <3>1, <4>1, <4>2 DEF taken
    <3>2. CASE n # i
      BY <1>1, <1>6, <2>3, <2>4, <3>2
    <3> QED
      BY <3>1, <3>2
  <2> QED
    BY <2>1, <2>5
<1> HIDE DEF S
<1>9. \A n \in 0 .. len : n \in S
  BY <1>1, <1>7, <1>8, UpTo
<1>10. len \in 0 .. len /\ ~(len < i) /\ i - 1 \in 0 .. len /\ i - 1 < i
  BY <1>1
<1>11. c[len].inbox = taken /\ c[i - 1].inbox = s.inbox
  BY <1>9, <1>10 DEF S
<1>12. ops[i].fn = "collect" => ops[i].messages \subseteq s.inbox
  <2>1. Allowed(c[i - 1], ops[i])
    BY <1>1, <1>4
  <2> QED
    BY <1>11, <2>1 DEF Allowed
<1> QED
  BY <1>5, <1>11, <1>12 DEF taken

(* What a part sends is of its kind.                                         *)
LEMMA MarketReadType ==
  ASSUME NEW part \in PartType, NEW got, Value(got, "restPrice") \in Nat, Value(got, "tenureDuration") \in Nat
  PROVE  MarketRead(got) \in Market /\ Merged(part, got) \in Market
<1> DEFINE read == MarketRead(got)
           patch == part.patch
<1>1. read = [price |-> Value(got, "restPrice"), tenure |-> Value(got, "tenureDuration")]
  BY DEF MarketRead
<1>2. read \in Market /\ DOMAIN read = {"price", "tenure"}
  BY <1>1 DEF Market
<1>3. patch \in PatchType
  BY DEF PartType
<1>4. \A f \in DOMAIN patch : f \in {"price", "tenure"} => patch[f] \in Nat
  BY <1>3 DEF PatchType
<1>5. Merged(part, got) = [f \in {"price", "tenure"} |-> IF f \in DOMAIN patch THEN patch[f] ELSE read[f]]
  BY <1>2 DEF Merged, Overlay
<1> HIDE DEF read, patch
<1>6. \A f \in {"price", "tenure"} : (IF f \in DOMAIN patch THEN patch[f] ELSE read[f]) \in Nat
  BY <1>2, <1>4 DEF Market
<1> QED
  BY <1>2, <1>5, <1>6 DEF Market, read

LEMMA SendsType ==
  ASSUME NEW part \in PartType, NEW got, HasRead(part, got),
         \A name \in DOMAIN got :
           name \in {"floorPriceMist", "restPrice", "tenureDuration"} => got[name].val \in Nat
  PROVE  /\ OpType(Sends(part, got)) /\ Sends(part, got).fn \notin {"succeed", "vacate"}
         /\ Sends(part, got).fn = "rent" <=> part.verb = "rent"
         /\ part.verb = "rent" => Sends(part, got).pay = Paid(part, got)
         /\ Sends(part, got).fn = "collect" <=> part.verb = "collect" /\ ~Idles(part, got)
         /\ Sends(part, got).fn = "collect" => Sends(part, got).messages = Found(got)
<1> DEFINE op == Sends(part, got)
<1>0. part.verb \in Reads \cup Writes /\ part.pay \in Nat \cup {None} /\ part.count \in Nat \ {0}
  BY DEF PartType
<1>1. CASE Idles(part, got)
  <2>1. op = Step("nothing") /\ op.fn = "nothing"
    BY <1>1 DEF Sends, Step
  <2>2. part.verb # "rent"
    BY <1>1 DEF Idles, Reads
  <2> HIDE DEF op
  <2> QED
    BY <1>1, <2>1, <2>2 DEF OpType, op
<1>2. CASE ~Idles(part, got) /\ part.verb = "rent"
  <2>1. op = [fn |-> "rent", pay |-> Paid(part, got), count |-> part.count]
    BY <1>2 DEF Sends
  <2>2. Paid(part, got) \in Nat
    <3>1. CASE part.pay # None
      BY <1>0, <3>1 DEF Paid
    <3>2. CASE part.pay = None
      <4>1. Value(got, "floorPriceMist") \in Nat
        BY <1>2, <3>2 DEF HasRead, Value
      <4> QED
        BY <1>0, <3>2, <4>1 DEF Paid
    <3> QED
      BY <3>1, <3>2
  <2> QED
    BY <1>0, <1>2, <2>1, <2>2 DEF OpType
<1>3. CASE ~Idles(part, got) /\ part.verb = "updateMarket"
  <2>1. op = [fn |-> "update", market |-> Merged(part, got)]
    BY <1>3 DEF Sends
  <2>2. Value(got, "restPrice") \in Nat /\ Value(got, "tenureDuration") \in Nat
    BY <1>3 DEF HasRead, Value
  <2>3. Merged(part, got) \in Market
    BY <2>2, MarketReadType
  <2> QED
    BY <1>3, <2>1, <2>3 DEF OpType
<1>4. CASE ~Idles(part, got) /\ part.verb = "collect"
  <2>1. op = [fn |-> "collect", messages |-> Found(got)]
    BY <1>4 DEF Sends
  <2> QED
    BY <1>4, <2>1 DEF OpType
<1>5. CASE ~Idles(part, got) /\ part.verb = "burnIfStale"
  <2>1. op = [fn |-> "burnStale", cap |-> part.cap]
    BY <1>5 DEF Sends
  <2> QED
    BY <1>5, <2>1 DEF OpType
<1>6. CASE ~Idles(part, got) /\ part.verb \in {"borrow", "burn", "refund"}
  <2>1. op = [fn |-> part.verb, cap |-> part.cap]
    BY <1>6 DEF Sends
  <2> QED
    BY <1>6, <2>1 DEF OpType
<1>7. CASE ~Idles(part, got) /\ part.verb \notin {"rent", "updateMarket", "collect", "burnIfStale",
                                                  "borrow", "burn", "refund"}
  <2>1. op = Step(part.verb) /\ op.fn = part.verb
    BY <1>7 DEF Sends, Step
  <2>2. part.verb \notin {"update", "succeed", "vacate"}
    BY <1>0 DEF Reads, Writes
  <2> HIDE DEF op
  <2> QED
    BY <1>7, <2>1, <2>2 DEF OpType, op
<1> QED
  BY <1>1, <1>2, <1>3, <1>4, <1>5, <1>6, <1>7

(* A transaction of others leaves a task as good as it was.                  *)
LEMMA BystanderKeeps ==
  ASSUME NEW t, NEW s, NEW u, NEW m \in Nat, NEW r \in Nat, NEW q, TaskInv(t, s, m, r),
         Grows(s, u), (q = r /\ u.market = s.market) \/ q = m + 1
  PROVE  TaskInv(t, u, m + 1, q)
<1>1. TaskShape(t, m + 1)
  BY DEF TaskInv, TaskShape
<1>2. TaskRead(t) /\ TaskOutcome(t)
  BY DEF TaskInv
<1>3. TaskAnswers(t, u, m + 1, q)
  <2>1. ASSUME NEW name, NEW answer, AnswerHolds(name, answer, t.began, s, m, r), t.began \in Nat
        PROVE  AnswerHolds(name, answer, t.began, u, m + 1, q)
    <3>1. answer.at \in Nat /\ answer.at <= m /\ answer.at <= m + 1 /\ ~(answer.at >= m + 1)
      BY <2>1 DEF AnswerHolds
    <3> QED
      BY <2>1, <3>1 DEF AnswerHolds
  <2>2. t.pc # "ready" => t.began \in Nat
    BY DEF TaskInv, TaskShape
  <2> QED
    BY <2>1, <2>2 DEF TaskInv, TaskAnswers
<1>4. TaskReceipt(t, u)
  BY DEF TaskInv, TaskReceipt, Grows
<1> QED
  BY <1>1, <1>2, <1>3, <1>4 DEF TaskInv

(* The operations a task sends are of their kind.                            *)
LEMMA AllOpsType ==
  ASSUME NEW t, NEW s, NEW m, NEW r, TaskInv(t, s, m, r), t.pc = "sending"
  PROVE  /\ OpsType(AllOps(t)) /\ DOMAIN AllOps(t) = DOMAIN t.call
         /\ \A i \in DOMAIN t.call : AllOps(t)[i] = Sends(t.call[i], t.got[i])
         /\ \A i \in DOMAIN t.call :
              /\ t.call[i] \in PartType /\ HasRead(t.call[i], t.got[i])
              /\ \A name \in DOMAIN t.got[i] :
                   name \in {"floorPriceMist", "restPrice", "tenureDuration"} => t.got[i][name].val \in Nat
<1>1. t.call \in CallType /\ TaskRead(t) /\ TaskAnswers(t, s, m, r) /\ Stage(t) = "sending"
  BY UnderWay
<1>2. /\ Len(t.call) \in Nat /\ DOMAIN t.call = 1 .. Len(t.call)
      /\ \A i \in DOMAIN t.call : t.call[i] \in PartType
  BY <1>1, CallTypes
<1>3. \A i \in DOMAIN t.call : HasRead(t.call[i], t.got[i])
  BY <1>1 DEF TaskRead
<1>4. \A i \in DOMAIN t.call : \A name \in DOMAIN t.got[i] :
           name \in {"floorPriceMist", "restPrice", "tenureDuration"} => t.got[i][name].val \in Nat
  BY <1>1 DEF TaskAnswers, AnswerHolds
<1>5. \A i \in DOMAIN t.call : OpType(Sends(t.call[i], t.got[i]))
  BY <1>2, <1>3, <1>4, SendsType
<1> DEFINE ops == AllOps(t)
           len == Len(t.call)
<1>6. ops = [i \in 1 .. len |-> Sends(t.call[i], t.got[i])]
  BY <1>2 DEF AllOps
<1> HIDE DEF ops
<1>7. Len(ops) = len /\ DOMAIN ops = 1 .. len
  <2> HIDE DEF len
  <2>1. len \in Nat
    BY <1>2 DEF len
  <2> QED
    BY <1>6, <2>1
<1>8. \A i \in DOMAIN t.call : ops[i] = Sends(t.call[i], t.got[i])
  BY <1>2, <1>6
<1>9. OpsType(ops)
  <2> HIDE DEF len
  <2>1. len \in Nat /\ DOMAIN t.call = 1 .. len
    BY <1>2 DEF len
  <2>2. \A i \in DOMAIN ops : OpType(ops[i])
    BY <1>5, <1>7, <1>8, <2>1
  <2> QED
    BY <1>7, <2>1, <2>2 DEF OpsType
<1> QED
  BY <1>2, <1>3, <1>4, <1>7, <1>8, <1>9 DEF ops

LEMMA AtMostOne ==
  ASSUME NEW S, IsFiniteSet(S), Cardinality(S) <= 1, NEW a \in S, NEW b \in S
  PROVE  a = b
<1>1. SUFFICES ASSUME a # b PROVE FALSE
  OBVIOUS
<1>2. IsFiniteSet(S \ {a}) /\ Cardinality(S \ {a}) = Cardinality(S) - 1
  BY FS_RemoveElement
<1>3. Cardinality(S) \in Nat /\ Cardinality(S \ {a}) \in Nat
  BY <1>2, FS_CardinalityType
<1>4. Cardinality(S \ {a}) = 0
  BY <1>2, <1>3
<1>5. S \ {a} = {}
  BY <1>2, <1>4, FS_EmptySet
<1> QED
  BY <1>1, <1>5

LEMMA OneOfVerb ==
  ASSUME NEW t, t.call \in CallType, NEW verb, Cardinality(Parts(t, verb)) <= 1, NEW i \in Parts(t, verb)
  PROVE  \A k \in DOMAIN t.call : t.call[k].verb = verb => k = i
<1>1. Len(t.call) \in Nat /\ DOMAIN t.call = 1 .. Len(t.call)
  BY CallTypes
<1>2. IsFiniteSet(1 .. Len(t.call))
  BY <1>1, FS_Interval
<1>3. IsFiniteSet(Parts(t, verb))
  BY <1>1, <1>2, FS_Subset DEF Parts
<1>4. \A k \in DOMAIN t.call : t.call[k].verb = verb => k \in Parts(t, verb)
  BY DEF Parts
<1> QED
  BY <1>3, <1>4, AtMostOne

LEMMA SumOfNone == SumSet({}) = 0
  BY DEF SumSet, FoldSet, MapThenFoldSet

(* What a task that was executed reports is what its transaction did.        *)
LEMMA SentReceipt ==
  ASSUME NEW t, NEW s, NEW m, NEW r, TaskInv(t, s, m, r), t.pc = "sending",
         EscrowType(s), Runs(s, AllOps(t)), NEW u, u = AfterAll(s, AllOps(t))
  PROVE  /\ EscrowType(u) /\ Grows(s, u)
         /\ Cardinality(Parts(t, "rent")) <= 1 => \A i \in Parts(t, "rent") :
              u.stakes = Append(s.stakes, Paid(t.call[i], t.got[i]))
              /\ Paid(t.call[i], t.got[i]) \in Nat
         /\ Cardinality(Parts(t, "collect")) <= 1 => \A i \in Parts(t, "collect") :
              s.inbox \ u.inbox = Found(t.got[i])
<1> DEFINE ops == AllOps(t)
<1>1. /\ OpsType(ops) /\ DOMAIN ops = DOMAIN t.call
      /\ \A i \in DOMAIN t.call : ops[i] = Sends(t.call[i], t.got[i])
      /\ \A i \in DOMAIN t.call :
           /\ t.call[i] \in PartType /\ HasRead(t.call[i], t.got[i])
           /\ \A name \in DOMAIN t.got[i] :
                name \in {"floorPriceMist", "restPrice", "tenureDuration"} => t.got[i][name].val \in Nat
  BY AllOpsType
<1>2. t.call \in CallType
  BY UnderWay
<1>3. \A i \in DOMAIN t.call :
        /\ OpType(ops[i]) /\ ops[i].fn \notin {"succeed", "vacate"}
        /\ ops[i].fn = "rent" <=> t.call[i].verb = "rent"
        /\ t.call[i].verb = "rent" => ops[i].pay = Paid(t.call[i], t.got[i])
        /\ ops[i].fn = "collect" <=> t.call[i].verb = "collect" /\ ~Idles(t.call[i], t.got[i])
        /\ ops[i].fn = "collect" => ops[i].messages = Found(t.got[i])
  BY <1>1, SendsType
<1>4. u = AfterAll(s, ops) /\ Runs(s, ops)
  OBVIOUS
<1> HIDE DEF ops
<1>5. EscrowType(u) /\ Grows(s, u)
  BY <1>1, <1>4, CourseGrows
<1>6. ASSUME Cardinality(Parts(t, "rent")) <= 1, NEW i \in Parts(t, "rent")
      PROVE  u.stakes = Append(s.stakes, Paid(t.call[i], t.got[i])) /\ Paid(t.call[i], t.got[i]) \in Nat
  <2>1. i \in DOMAIN t.call /\ t.call[i].verb = "rent"
    BY <1>6 DEF Parts
  <2>2. \A k \in DOMAIN ops : ops[k].fn = "rent" => k = i
    BY <1>1, <1>2, <1>3, <1>6, OneOfVerb
  <2>3. i \in DOMAIN ops /\ ops[i].fn = "rent" /\ ops[i].pay = Paid(t.call[i], t.got[i]) /\ OpType(ops[i])
    BY <1>1, <1>3, <2>1
  <2>4. AfterAll(s, ops).stakes = Append(s.stakes, ops[i].pay)
    BY <1>1, <1>4, <2>2, <2>3, CourseOfOneRent
  <2> QED
    BY <1>4, <2>3, <2>4 DEF OpType
<1>7. ASSUME Cardinality(Parts(t, "collect")) <= 1, NEW i \in Parts(t, "collect")
      PROVE  s.inbox \ u.inbox = Found(t.got[i])
  <2>1. i \in DOMAIN t.call /\ t.call[i].verb = "collect"
    BY <1>7 DEF Parts
  <2>2. \A k \in DOMAIN ops : ops[k].fn = "collect" => k = i
    BY <1>1, <1>2, <1>3, <1>7, OneOfVerb
  <2>3. i \in DOMAIN ops /\ \A k \in DOMAIN ops : ops[k].fn \notin {"succeed", "vacate"}
    BY <1>1, <1>3, <2>1
  <2>4. IF ops[i].fn = "collect"
        THEN ops[i].messages \subseteq s.inbox /\ AfterAll(s, ops).inbox = s.inbox \ ops[i].messages
        ELSE AfterAll(s, ops).inbox = s.inbox
    BY <1>1, <1>4, <2>2, <2>3, CourseOfOneCollect
  <2>5. CASE ops[i].fn = "collect"
    <3>1. ops[i].messages = Found(t.got[i])
      BY <1>3, <2>1, <2>5
    <3> QED
      BY <1>4, <2>4, <2>5, <3>1
  <2>6. CASE ops[i].fn # "collect"
    <3>1. Idles(t.call[i], t.got[i])
      BY <1>3, <2>1, <2>6
    <3>2. Found(t.got[i]) = {}
      BY <2>1, <3>1 DEF Idles, Reads, Found
    <3>3. u.inbox = s.inbox
      BY <1>4, <2>4, <2>6
    <3> QED
      BY <3>2, <3>3
  <2> QED
    BY <2>5, <2>6
<1> QED
  BY <1>5, <1>6, <1>7

-----------------------------------------------------------------------------
(* The steps of a caller.                                                    *)

ChainInv ==
  /\ EscrowType(chain) /\ moment \in Nat /\ revised \in Nat /\ revised <= moment

TasksInv ==
  /\ todo \in [Proc -> Seq(CallType)] /\ task = [p \in Proc |-> task[p]]
  /\ \A p \in Proc : TaskInv(task[p], chain, moment, revised)

(* A step of one caller that leaves the escrow alone.                        *)
LEMMA StillKeeps ==
  ASSUME ChainInv, TasksInv, UNCHANGED chainVars, NEW p \in Proc, NEW u, Becomes(p, u),
         TaskInv(u, chain, moment, revised), todo' \in [Proc -> Seq(CallType)]
  PROVE  ChainInv' /\ TasksInv'
<1>1. chain' = chain /\ moment' = moment /\ revised' = revised
  BY DEF chainVars
<1>2. ChainInv'
  BY <1>1 DEF ChainInv
<1>3. task' = [q \in Proc |-> IF q = p THEN u ELSE task[q]]
  <2>1. task = [q \in Proc |-> task[q]] /\ task' = [task EXCEPT ![p] = u]
    BY DEF TasksInv, Becomes
  <2> QED
    BY <2>1
<1>4. \A q \in Proc : TaskInv(task'[q], chain, moment, revised)
  BY <1>3 DEF TasksInv
<1>5. \A q \in Proc : TaskInv(task'[q], chain', moment', revised')
  BY <1>1, <1>4, Zenon
<1>6. task' = [q \in Proc |-> task'[q]]
  BY <1>3
<1> QED
  BY <1>2, <1>5, <1>6 DEF TasksInv

(* A step of one caller that runs a transaction, or of others.               *)
LEMMA ChangeKeeps ==
  ASSUME ChainInv, TasksInv, NEW ops, Change(ops), OpsType(ops)
  PROVE  /\ ChainInv' /\ moment' = moment + 1
         /\ \A q \in Proc : TaskInv(task[q], chain', moment', revised')
<1>1. /\ EscrowType(chain) /\ moment \in Nat /\ revised \in Nat /\ revised <= moment
      /\ Runs(chain, ops) /\ chain' = AfterAll(chain, ops) /\ moment' = moment + 1
      /\ revised' = IF <<chain'.market, chain'.scheduled>> = <<chain.market, chain.scheduled>>
                    THEN revised ELSE moment + 1
  BY DEF ChainInv, Change
<1>2. EscrowType(chain') /\ Grows(chain, chain')
  BY <1>1, CourseGrows
<1>3. (revised' = revised /\ chain'.market = chain.market) \/ revised' = moment + 1
  BY <1>1
<1>4. ChainInv'
  BY <1>1, <1>2 DEF ChainInv
<1>5. \A q \in Proc : TaskInv(task[q], chain', moment + 1, revised')
  BY <1>1, <1>2, <1>3, BystanderKeeps DEF TasksInv
<1> QED
  BY <1>1, <1>4, <1>5

(* What a task wants.                                                        *)
LEMMA WantType ==
  ASSUME NEW t, NEW s, NEW m, NEW r, TaskInv(t, s, m, r), NEW want \in Wants(t)
  PROVE  /\ t.pc \in {"building", "decoding"} /\ want[1] \in DOMAIN t.call
         /\ JobType(want[2]) /\ ~(Range(want[2].names) \subseteq DOMAIN t.got[want[1]])
         /\ t.pc = "building" => want[1] = t.nth
         /\ t.pc = "decoding" => want[2] \in LateJobs
<1>1. t.pc \in {"building", "decoding"}
  BY DEF Wants
<1>2. t.call \in CallType /\ t.nth \in DOMAIN t.call
  BY <1>1, UnderWay
<1>3. /\ 1 \in DOMAIN t.call
      /\ t.call[t.nth].verb = "scalar" => t.call[t.nth].name \in ScalarReads
      /\ t.call[t.nth].verb = "settlement" => t.call[t.nth].name \in Settlements
  BY <1>2, CallTypes
<1>4. CASE t.pc = "building"
  <2>1. PICK j \in BuildReads(t.call[t.nth], t.got[t.nth]) : want = <<t.nth, j>>
    BY <1>4 DEF Wants
  <2>2. JobType(j) /\ ~(Range(j.names) \subseteq DOMAIN t.got[t.nth])
    BY <1>3, <2>1, BuildJobs DEF Jobs
  <2>3. want[1] = t.nth /\ want[2] = j
    BY <2>1
  <2> QED
    BY <1>2, <1>4, <2>2, <2>3
<1>5. CASE t.pc = "decoding"
  <2>1. CASE t.ran > 0 /\ "indexed" \notin DOMAIN t.got[1]
    <3>1. want = <<1, Get("indexed")>>
      BY <1>5, <2>1 DEF Wants
    <3>2. want[1] = 1 /\ want[2] = Get("indexed")
      BY <3>1
    <3>3. JobType(Get("indexed")) /\ Get("indexed") \in LateJobs
          /\ ~(Range(Get("indexed").names) \subseteq DOMAIN t.got[1])
      BY <2>1, GetJob, RangeOfOne DEF LateJobs
    <3> QED
      BY <1>3, <1>5, <3>2, <3>3
  <2>2. CASE ~(t.ran > 0 /\ "indexed" \notin DOMAIN t.got[1])
    <3>1. PICK i \in DOMAIN t.call : want \in {<<i, j>> : j \in DecodeReads(t.call[i], t.got[i])}
      BY <1>5, <2>2 DEF Wants
    <3>2. PICK j \in DecodeReads(t.call[i], t.got[i]) : want = <<i, j>>
      BY <3>1
    <3>3. j \in LateJobs /\ ~(Range(j.names) \subseteq DOMAIN t.got[i])
      BY <3>2, DecodeJobs
    <3>4. want[1] = i /\ want[2] = j
      BY <3>2
    <3> QED
      BY <1>5, <3>3, <3>4, LateJobType
  <2> QED
    BY <2>1, <2>2
<1> QED
  BY <1>1, <1>4, <1>5

(* What a request is answered.                                               *)
LEMMA AnswersHold ==
  ASSUME ChainInv, NEW part, NEW j, NEW got, JobType(j), ~(Range(j.names) \subseteq DOMAIN got),
         NEW since \in Nat, since <= moment
  PROVE  LET answers == Answers(part, j, Request(got, j))
         IN  \A name \in DOMAIN answers :
               /\ name \in Range(j.names)
               /\ AnswerHolds(name, answers[name], since, chain, moment, revised)
<1> DEFINE request == Request(got, j)
           answers == Answers(part, j, request)
<1>1. /\ Range(request) \subseteq Range(j.names)
      /\ j.via = "client" \/ IsSampled(j) \/ DecodesOwn[request]
  BY RequestOwn
<1> HIDE DEF request
<1>2. DOMAIN answers = Range(request)
  BY DEF Answers
<1>3. /\ Floor(chain) \in Nat /\ chain.market.price \in Nat /\ chain.market.tenure \in Nat
      /\ chain.inbox \in SUBSET Nat /\ moment \in Nat
  BY FloorType DEF ChainInv, EscrowType, Market
<1>4. ASSUME NEW name \in Range(request)
      PROVE  AnswerHolds(name, answers[name], since, chain, moment, revised)
  <2>1. /\ answers[name].at = moment /\ answers[name].val = Sees(chain, name, part.cap)
        /\ answers[name].own
    BY <1>1, <1>4 DEF Answers
  <2> HIDE DEF answers
  <2>2. /\ name = "floorPriceMist" => Sees(chain, name, part.cap) = Floor(chain)
        /\ name = "restPrice" => Sees(chain, name, part.cap) = chain.market.price
        /\ name = "tenureDuration" => Sees(chain, name, part.cap) = chain.market.tenure
        /\ name = "messages" => Sees(chain, name, part.cap) = chain.inbox
    BY DEF Sees
  <2> QED
    BY <1>3, <2>1, <2>2 DEF AnswerHolds
<1> QED
  BY <1>1, <1>2, <1>4 DEF request

LEMMA ReceiveKeeps ==
  ASSUME ChainInv, TasksInv, NEW p \in Proc, Receive(p)
  PROVE  ChainInv' /\ TasksInv'
<1> DEFINE t == task[p]
<1>1. PICK want \in Wants(t) :
        LET i == want[1]  j == want[2]  part == t.call[i]
        IN  /\ \E answers \in {Answers(part, j, Request(t.got[i], j))} :
                 Becomes(p, IF ~JobBinds(part, j) THEN Failed(t, "unbound")
                            ELSE IF Gone(part, j) THEN Failed(t, "gone")
                            ELSE WithAnswer(t, i, j, answers))
            /\ UNCHANGED <<chainVars, todo, faults>>
  BY DEF Receive
<1> DEFINE i == want[1]
           j == want[2]
           part == t.call[i]
           answers == Answers(part, j, Request(t.got[i], j))
           g == Onto(answers, t.got[i])
           u == IF ~JobBinds(part, j) THEN Failed(t, "unbound")
                ELSE IF Gone(part, j) THEN Failed(t, "gone")
                ELSE WithAnswer(t, i, j, answers)
<1>2. Becomes(p, u) /\ UNCHANGED chainVars /\ todo' = todo
  BY <1>1
<1>3. TaskInv(t, chain, moment, revised)
  BY DEF TasksInv
<1> HIDE DEF t, u
<1>4. /\ t.pc \in {"building", "decoding"} /\ i \in DOMAIN t.call /\ JobType(j)
      /\ ~(Range(j.names) \subseteq DOMAIN t.got[i])
      /\ t.pc = "building" => i = t.nth
      /\ t.pc = "decoding" => j \in LateJobs
  BY <1>1, <1>3, WantType
<1>5. /\ TaskShape(t, moment) /\ TaskRead(t) /\ TaskAnswers(t, chain, moment, revised)
      /\ TaskReceipt(t, chain) /\ Stage(t) = t.pc /\ t.ran \in {0, 1}
      /\ t.pc = "building" => t.ran = 0 /\ t.effect.taken = 0
      /\ t.pc = "decoding" => t.ran = IF Idle(t) THEN 0 ELSE 1
  BY <1>3, <1>4, UnderWay
<1>6. t.began \in Nat /\ t.began <= moment /\ t.got = [k \in DOMAIN t.call |-> t.got[k]]
      /\ t = [field \in TaskFields |-> t[field]]
  BY <1>4, <1>5 DEF TaskShape
<1> HIDE DEF i, j
<1>7. JobBinds(part, j)
  <2>1. t.call \in CallType
    BY <1>3, <1>4, UnderWay
  <2>2. part \in PartType
    BY <1>4, <2>1, CallTypes
  <2> QED
    BY <1>4, <2>2, JobsBind
<1>8. CASE JobBinds(part, j) /\ Gone(part, j)
  <2>1. u = Failed(t, "gone")
    BY <1>8 DEF u
  <2>2. "gone" \notin Clean
    BY DEF Clean
  <2>3. TaskInv(Failed(t, "gone"), chain, moment, revised)
    BY <1>4, <1>5, <2>2, FailedKeeps
  <2> QED
    BY <1>2, <2>1, <2>3, StillKeeps DEF TasksInv
<1>9. CASE JobBinds(part, j) /\ ~Gone(part, j)
  <2>1. u = WithAnswer(t, i, j, answers)
    BY <1>9 DEF u
  <2>2. \A name \in DOMAIN answers : /\ name \in Range(j.names)
                                     /\ AnswerHolds(name, answers[name], t.began, chain, moment, revised)
    BY <1>4, <1>6, AnswersHold
  <2>3. \A name \in DOMAIN t.got[i] : AnswerHolds(name, t.got[i][name], t.began, chain, moment, revised)
    BY <1>4, <1>5 DEF TaskAnswers
  <2> HIDE DEF answers
  <2>4. /\ DOMAIN g = DOMAIN answers \cup DOMAIN t.got[i]
        /\ \A name \in DOMAIN g : g[name] = IF name \in DOMAIN answers THEN answers[name] ELSE t.got[i][name]
    BY DEF Onto
  <2>5. /\ u = [field \in TaskFields |-> u[field]]
        /\ \A field \in TaskFields \ {"missed", "tries", "got"} : u[field] = t[field]
        /\ u.got = [t.got EXCEPT ![i] = g]
    <3>1. IsTask(t)
      BY <1>6 DEF IsTask
    <3> DEFINE a == WithAnswer(t, i, j, answers)
    <3>2. SameBut(t, a, {"missed", "tries", "got"})
      BY <3>1, AnswerFields
    <3>3. a.got = [t.got EXCEPT ![i] = Onto(answers, t.got[i])]
      BY <3>1, AnswerGot
    <3>4. u = a
      BY <2>1
    <3> HIDE DEF a
    <3> QED
      BY <3>2, <3>3, <3>4 DEF SameBut, IsTask
  <2> HIDE DEF g
  <2>6. \A name \in DOMAIN g : AnswerHolds(name, g[name], t.began, chain, moment, revised)
    BY <2>2, <2>3, <2>4
  <2>7. t.pc = "decoding" => SameRelied(t.got[i], g)
    <3>1. t.pc = "decoding" => Range(j.names) \subseteq Late
      BY <1>4, LateJobType
    <3>2. Late \cap Relied = {}
      BY DEF Late, Relied
    <3> QED
      BY <2>2, <2>4, <3>1, <3>2 DEF SameRelied
  <2>8. /\ u = [field \in TaskFields |-> u[field]]
        /\ \A field \in TaskFields \ {"missed", "tries", "got"} : u[field] = t[field]
        /\ u.got = [k \in DOMAIN t.call |-> IF k = i THEN g ELSE t.got[k]]
    <3>1. u.got = [k \in DOMAIN t.call |-> IF k = i THEN g ELSE t.got[k]]
      BY <1>6, <2>5
    <3> QED
      BY <2>5, <3>1
  <2>9. TaskInv(u, chain, moment, revised)
    BY <1>3, <1>4, <2>6, <2>7, <2>8, RegotKeeps
  <2> QED
    BY <1>2, <2>9, StillKeeps DEF TasksInv
<1> QED
  BY <1>7, <1>8, <1>9

LEMMA FreshInv ==
  ASSUME ChainInv, NEW call \in CallType
  PROVE  TaskInv(Fresh(call), chain, moment, revised)
<1> DEFINE t == Fresh(call)
<1>1. /\ t = [field \in TaskFields |-> t[field]] /\ t.pc = "building" /\ t.call = call /\ t.nth = 1
      /\ t.got = [i \in DOMAIN call |-> <<>>] /\ t.began = moment /\ t.ran = 0 /\ t.effect.taken = 0
  BY DEF Fresh, TaskFields
<1>2. moment \in Nat /\ 1 \in DOMAIN call /\ DOMAIN call = 1 .. Len(call) /\ Len(call) \in Nat
  BY CallTypes DEF ChainInv
<1> HIDE DEF t
<1>3. Stage(t) = "building" /\ t.got = [i \in DOMAIN t.call |-> t.got[i]]
  BY <1>1 DEF Stage
<1>4. TaskShape(t, moment)
  BY <1>1, <1>2, <1>3 DEF TaskShape
<1>5. TaskRead(t)
  <2>1. \A i \in DOMAIN call : ~(i < 1)
    BY <1>2
  <2> QED
    BY <1>1, <1>3, <2>1 DEF TaskRead
<1>6. TaskAnswers(t, chain, moment, revised)
  BY <1>1 DEF TaskAnswers
<1>7. TaskOutcome(t)
  BY <1>1, <1>3 DEF TaskOutcome
<1>8. TaskReceipt(t, chain)
  BY <1>3 DEF TaskReceipt
<1> QED
  BY <1>4, <1>5, <1>6, <1>7, <1>8 DEF TaskInv, t

LEMMA BeginKeeps ==
  ASSUME ChainInv, TasksInv, NEW p \in Proc, Begin(p)
  PROVE  ChainInv' /\ TasksInv'
<1> DEFINE call == Head(todo[p])
<1>1. todo[p] \in Seq(CallType) /\ todo[p] # <<>> /\ todo \in [Proc -> Seq(CallType)]
  BY DEF TasksInv, Begin
<1>2. call \in CallType /\ Tail(todo[p]) \in Seq(CallType)
  <2> HIDE DEF CallType
  <2>1. \A S : \A q \in Seq(S) : q # <<>> => Head(q) \in S /\ Tail(q) \in Seq(S)
    BY HeadTailProperties
  <2> QED
    BY <1>1, <2>1
<1>3. todo' = [todo EXCEPT ![p] = Tail(todo[p])] /\ UNCHANGED chainVars
  BY DEF Begin
<1>4. todo' \in [Proc -> Seq(CallType)]
  BY <1>1, <1>2, <1>3
<1>5. Becomes(p, Fresh(call)) \/ Becomes(p, Failed(Fresh(call), "notConnected"))
  BY DEF Begin
<1> HIDE DEF call
<1>6. TaskInv(Fresh(call), chain, moment, revised)
  BY <1>2, FreshInv
<1>7. TaskInv(Failed(Fresh(call), "notConnected"), chain, moment, revised)
  <2>1. Fresh(call).pc = "building"
    BY DEF Fresh
  <2> QED
    BY <1>6, <2>1, UnderWay, FailedKeeps
<1> QED
  BY <1>3, <1>4, <1>5, <1>6, <1>7, StillKeeps

LEMMA TransientKeeps ==
  ASSUME ChainInv, TasksInv, NEW p \in Proc, Transient(p)
  PROVE  ChainInv' /\ TasksInv'
<1>1. PICK want \in Wants(task[p]) :
        LET key == Key(want, "request")
            t == Hit(task[p], key)
            n == Tried(t, key) + 1
        IN  Becomes(p, IF GivesUp(n) THEN Failed(t, "fault")
                       ELSE [t EXCEPT !.tries = Counted(t, key, n)])
  BY DEF Transient
<1> DEFINE t == Hit(task[p], Key(want, "request"))
<1>2. PICK tries : Becomes(p, Failed(t, "fault")) \/ Becomes(p, [t EXCEPT !.tries = tries])
  BY <1>1
<1>3. TaskInv(task[p], chain, moment, revised) /\ task[p].pc \in {"building", "decoding"}
  BY <1>1, WantType DEF TasksInv
<1>4. task[p] = [field \in TaskFields |-> task[p][field]]
  BY <1>3 DEF TaskInv, TaskShape
<1>5. t = [field \in TaskFields |-> t[field]]
      /\ \A field \in TaskFields \ {"missed"} : t[field] = task[p][field]
  <2>1. IsTask(task[p])
    BY <1>4 DEF IsTask
  <2>2. SameBut(task[p], t, {"missed"})
    BY <2>1, HitFields
  <2> HIDE DEF t
  <2> QED
    BY <2>2 DEF SameBut, IsTask
<1> HIDE DEF t
<1>6. TaskInv(t, chain, moment, revised) /\ t.pc = task[p].pc
  <2>1. t.pc = task[p].pc
    BY <1>5 DEF TaskFields
  <2> QED
    BY <1>3, <1>5, <2>1, CountersKeep
<1>7. TaskInv([t EXCEPT !.tries = tries], chain, moment, revised)
  <2> DEFINE u == [t EXCEPT !.tries = tries]
  <2>1. u = [field \in TaskFields |-> u[field]]
        /\ \A field \in TaskFields \ {"missed", "tries"} : u[field] = t[field]
    BY <1>5 DEF TaskFields
  <2> HIDE DEF u
  <2>2. TaskInv(u, chain, moment, revised)
    BY <1>6, <2>1, CountersKeep
  <2> QED
    BY <2>2 DEF u
<1>8. TaskInv(Failed(t, "fault"), chain, moment, revised)
  <2>1. "fault" \notin Clean
    BY DEF Clean
  <2> QED
    BY <1>3, <1>6, <2>1, UnderWay, FailedKeeps
<1>9. UNCHANGED chainVars /\ todo' = todo
  BY DEF Transient
<1> QED
  BY <1>2, <1>7, <1>8, <1>9, StillKeeps DEF TasksInv, t

LEMMA TruncatedKeeps ==
  ASSUME ChainInv, TasksInv, NEW p \in Proc, Truncated(p)
  PROVE  ChainInv' /\ TasksInv'
<1>1. PICK want \in Wants(task[p]) :
        LET i == want[1]  j == want[2]
            key == Key(want, "read")
            t == Hit(Reached(task[p], want), key)
            n == Tried(t, key) + 1
        IN  Becomes(p, IF j.via = "kernel" \/ GivesUp(n) THEN Failed(t, "fault")
                       ELSE [t EXCEPT !.got[i] = Without(@, Range(j.names)),
                                      !.tries = Counted(t, key, n)])
  BY DEF Truncated
<1> DEFINE i == want[1]
           j == want[2]
           t == Hit(Reached(task[p], want), Key(want, "read"))
           g == Without(t.got[i], Range(j.names))
<1>2. PICK tries : \/ Becomes(p, Failed(t, "fault"))
                   \/ Becomes(p, [t EXCEPT !.got[i] = g, !.tries = tries])
  BY <1>1
<1>3. TaskInv(task[p], chain, moment, revised)
  BY DEF TasksInv
<1>4. /\ task[p].pc \in {"building", "decoding"} /\ i \in DOMAIN task[p].call
      /\ task[p].pc = "building" => i = task[p].nth
      /\ task[p].pc = "decoding" => j \in LateJobs
  BY <1>1, <1>3, WantType
<1>5. task[p] = [field \in TaskFields |-> task[p][field]]
      /\ task[p].got = [k \in DOMAIN task[p].call |-> task[p].got[k]]
  BY <1>3, <1>4 DEF TaskInv, TaskShape
<1> HIDE DEF i, j
<1>6. /\ t = [field \in TaskFields |-> t[field]]
      /\ \A field \in TaskFields \ {"missed", "tries"} : t[field] = task[p][field]
      /\ t.pc = task[p].pc /\ t.call = task[p].call /\ t.nth = task[p].nth /\ t.got = task[p].got
  <2> DEFINE r == Reached(task[p], want)
  <2>1. SameBut(task[p], r, {"missed", "tries"})
    <3>1. IsTask(task[p])
      BY <1>5 DEF IsTask
    <3> QED
      BY <3>1, ReachedFields
  <2>2. SameBut(r, t, {"missed"})
    <3>1. IsTask(r)
      BY <2>1 DEF SameBut
    <3> QED
      BY <3>1, HitFields
  <2> HIDE DEF r, t
  <2>3. /\ t = [field \in TaskFields |-> t[field]]
        /\ \A field \in TaskFields \ {"missed", "tries"} : t[field] = task[p][field]
    BY <2>1, <2>2 DEF SameBut, IsTask
  <2> QED
    BY <2>3 DEF TaskFields
<1> HIDE DEF t
<1>7. TaskInv(t, chain, moment, revised) /\ TaskAnswers(t, chain, moment, revised)
      /\ t.pc \in {"building", "decoding"}
  BY <1>3, <1>4, <1>6, CountersKeep, UnderWay
<1>8. TaskInv([t EXCEPT !.got[i] = g, !.tries = tries], chain, moment, revised)
  <2> DEFINE u == [t EXCEPT !.got[i] = g, !.tries = tries]
  <2>1. /\ DOMAIN g = DOMAIN t.got[i] \ Range(j.names)
        /\ \A name \in DOMAIN g : g[name] = t.got[i][name]
    BY DEF Without
  <2> HIDE DEF g
  <2>2. \A name \in DOMAIN g : AnswerHolds(name, g[name], t.began, chain, moment, revised)
    BY <1>4, <1>6, <1>7, <2>1 DEF TaskAnswers
  <2>3. t.pc = "decoding" => SameRelied(t.got[i], g)
    <3>1. t.pc = "decoding" => Range(j.names) \subseteq Late
      BY <1>4, <1>6, LateJobType
    <3>2. Late \cap Relied = {}
      BY DEF Late, Relied
    <3> QED
      BY <2>1, <3>1, <3>2 DEF SameRelied
  <2>4. /\ u = [field \in TaskFields |-> u[field]]
        /\ \A field \in TaskFields \ {"missed", "tries", "got"} : u[field] = t[field]
        /\ u.got = [k \in DOMAIN t.call |-> IF k = i THEN g ELSE t.got[k]]
    <3>1. u.got = [t.got EXCEPT ![i] = g]
      BY <1>6 DEF TaskFields
    <3>2. t.got = [k \in DOMAIN t.call |-> t.got[k]]
      BY <1>5, <1>6
    <3>3. u.got = [k \in DOMAIN t.call |-> IF k = i THEN g ELSE t.got[k]]
      BY <3>1, <3>2
    <3>4. u = [field \in TaskFields |-> u[field]]
      BY <1>6 DEF TaskFields
    <3>5. \A field \in TaskFields \ {"missed", "tries", "got"} : u[field] = t[field]
      BY <1>6 DEF TaskFields
    <3> QED
      BY <3>3, <3>4, <3>5
  <2> HIDE DEF u
  <2>5. i \in DOMAIN t.call /\ (t.pc = "building" => i = t.nth)
    BY <1>4, <1>6
  <2>6. TaskInv(u, chain, moment, revised)
    BY <1>7, <2>2, <2>3, <2>4, <2>5, RegotKeeps
  <2> QED
    BY <2>6 DEF u
<1>9. TaskInv(Failed(t, "fault"), chain, moment, revised)
  <2>1. "fault" \notin Clean
    BY DEF Clean
  <2> QED
    BY <1>7, <2>1, UnderWay, FailedKeeps
<1>10. UNCHANGED chainVars /\ todo' = todo
  BY DEF Truncated
<1> QED
  BY <1>2, <1>8, <1>9, <1>10, StillKeeps DEF TasksInv, t

LEMMA BuildKeeps ==
  ASSUME ChainInv, TasksInv, NEW p \in Proc, Build(p)
  PROVE  ChainInv' /\ TasksInv'
<1> DEFINE t == task[p]
           part == t.call[t.nth]
           got == t.got[t.nth]
           idle == \A i \in DOMAIN t.call : Idles(t.call[i], t.got[i])
           u == IF ~WellBound(Ptb(part, got)) THEN Failed(t, "unbound")
                ELSE IF part.verb = "rent" /\ Purse # None /\ Paid(part, got) > Purse
                THEN Failed(t, "noBalance")
                ELSE IF t.nth < Len(t.call) THEN [t EXCEPT !.nth = @ + 1]
                ELSE IF part.verb \in Reads THEN [t EXCEPT !.pc = "done"]
                ELSE IF idle THEN [t EXCEPT !.pc = "decoding"]
                ELSE IF p \notin Signers THEN Failed(t, "notConnected")
                ELSE [t EXCEPT !.pc = "sending"]
<1>1. t.pc = "building" /\ Wants(t) = {} /\ Becomes(p, u) /\ UNCHANGED chainVars /\ todo' = todo
  BY DEF Build
<1>2. TaskInv(t, chain, moment, revised)
  BY DEF TasksInv
<1>3. \/ u \in {Failed(t, "unbound"), Failed(t, "noBalance"), Failed(t, "notConnected")}
      \/ t.nth < Len(t.call) /\ u = [t EXCEPT !.nth = @ + 1]
      \/ ~(t.nth < Len(t.call)) /\ part.verb \in Reads /\ u = [t EXCEPT !.pc = "done"]
      \/ ~(t.nth < Len(t.call)) /\ idle /\ u = [t EXCEPT !.pc = "decoding"]
      \/ ~(t.nth < Len(t.call)) /\ ~idle /\ u = [t EXCEPT !.pc = "sending"]
  OBVIOUS
<1> HIDE DEF t, u
<1>4. /\ TaskShape(t, moment) /\ TaskRead(t) /\ TaskAnswers(t, chain, moment, revised)
      /\ TaskReceipt(t, chain) /\ Stage(t) = "building" /\ t.ran = 0 /\ t.effect.taken = 0
      /\ t.call \in CallType /\ t.nth \in DOMAIN t.call
  BY <1>1, <1>2, UnderWay
<1>5. /\ Len(t.call) \in Nat /\ DOMAIN t.call = 1 .. Len(t.call) /\ t.nth \in 1 .. Len(t.call)
      /\ \A i \in DOMAIN t.call : t.call[i].verb \in Reads => Len(t.call) = 1
  BY <1>4, CallTypes
<1>6. HasRead(part, got)
  <2>1. BuildReads(part, got) = {}
    BY <1>1 DEF Wants
  <2> QED
    BY <2>1, BuiltHasRead
<1>7. \A i \in DOMAIN t.call : i <= t.nth => HasRead(t.call[i], t.got[i])
  <2>1. \A i \in DOMAIN t.call : i <= t.nth => i < t.nth \/ i = t.nth
    BY <1>5
  <2> QED
    BY <1>1, <1>4, <1>6, <2>1 DEF TaskRead
<1>8. t = [field \in TaskFields |-> t[field]]
  BY <1>4 DEF TaskShape
<1>9. CASE u \in {Failed(t, "unbound"), Failed(t, "noBalance"), Failed(t, "notConnected")}
  <2>1. \A why : TaskInv(Failed(t, why), chain, moment, revised)
    BY <1>1, <1>4, FailedKeeps
  <2> QED
    BY <1>1, <1>9, <2>1, StillKeeps DEF TasksInv
<1>10. CASE t.nth < Len(t.call) /\ u = [t EXCEPT !.nth = @ + 1]
  <2>1. /\ u = [field \in TaskFields |-> u[field]] /\ u.pc = "building" /\ u.call = t.call
        /\ u.nth = t.nth + 1 /\ u.got = t.got /\ u.began = t.began /\ u.ran = t.ran /\ u.effect = t.effect
    BY <1>1, <1>8, <1>10 DEF TaskFields
  <2>2. Stage(u) = "building"
    BY <2>1 DEF Stage
  <2>3. t.nth + 1 \in DOMAIN t.call /\ \A i \in DOMAIN t.call : i < t.nth + 1 => i <= t.nth
    BY <1>5, <1>10
  <2>4. TaskShape(u, moment)
    BY <1>1, <1>4, <2>1, <2>2, <2>3 DEF TaskShape
  <2>5. TaskRead(u)
    BY <1>7, <2>1, <2>2, <2>3 DEF TaskRead
  <2>6. TaskAnswers(u, chain, moment, revised)
    BY <1>1, <1>4, <2>1 DEF TaskAnswers
  <2>7. TaskOutcome(u) /\ TaskReceipt(u, chain)
    BY <1>4, <2>1, <2>2 DEF TaskOutcome, TaskReceipt
  <2>8. TaskInv(u, chain, moment, revised)
    BY <2>4, <2>5, <2>6, <2>7 DEF TaskInv
  <2> QED
    BY <1>1, <2>8, StillKeeps DEF TasksInv
<1>11. ASSUME ~(t.nth < Len(t.call)), NEW pc \in {"sending", "decoding", "done"},
              u = [t EXCEPT !.pc = pc], pc = "sending" => ~idle, pc # "sending" => idle
       PROVE  ChainInv' /\ TasksInv'
  <2>1. /\ u = [field \in TaskFields |-> u[field]] /\ u.pc = pc /\ u.call = t.call
        /\ u.nth = t.nth /\ u.got = t.got /\ u.began = t.began /\ u.ran = t.ran /\ u.effect = t.effect
    BY <1>8, <1>11 DEF TaskFields
  <2>2. Stage(u) = pc /\ (Idle(u) <=> idle) /\ t.nth = Len(t.call)
    BY <1>5, <1>11, <2>1 DEF Stage, Idle
  <2>3. TaskShape(u, moment)
    BY <1>1, <1>4, <2>1, <2>2 DEF TaskShape
  <2>4. \A i \in DOMAIN t.call : i <= t.nth
    BY <1>5, <2>2
  <2>5. TaskRead(u)
    BY <1>7, <2>1, <2>4 DEF TaskRead
  <2>6. TaskAnswers(u, chain, moment, revised)
    BY <1>1, <1>4, <2>1 DEF TaskAnswers
  <2>7. TaskOutcome(u)
    BY <1>4, <1>11, <2>1, <2>2 DEF TaskOutcome
  <2>8. TaskReceipt(u, chain)
    <3> SUFFICES ASSUME idle PROVE TaskReceipt(u, chain)
      BY <1>11, <2>2 DEF TaskReceipt
    <3>1. Parts(u, "rent") = {}
      BY <2>1 DEF Parts, Idles, Reads
    <3>2. \A i \in Parts(u, "collect") : Found(u.got[i]) = {}
      BY <2>1 DEF Parts, Idles, Reads, Found
    <3>3. \A i \in Parts(u, "collect") : u.effect.taken = SumSet(Found(u.got[i]))
      <4>1. u.effect.taken = 0
        BY <1>4, <2>1
      <4> QED
        BY <3>2, <4>1, SumOfNone
    <3> QED
      BY <3>1, <3>3 DEF TaskReceipt
  <2>9. TaskInv(u, chain, moment, revised)
    BY <2>3, <2>5, <2>6, <2>7, <2>8 DEF TaskInv
  <2> QED
    BY <1>1, <2>9, StillKeeps DEF TasksInv
<1>12. CASE ~(t.nth < Len(t.call)) /\ part.verb \in Reads /\ u = [t EXCEPT !.pc = "done"]
  <2>1. Len(t.call) = 1 /\ \A i \in DOMAIN t.call : i = t.nth
    BY <1>5, <1>12
  <2>2. Idles(part, got)
    BY <1>12 DEF Idles
  <2>3. idle
    BY <2>1, <2>2
  <2> QED
    BY <1>11, <1>12, <2>3
<1> QED
  BY <1>3, <1>9, <1>10, <1>11, <1>12

LEMMA AbortKeeps ==
  ASSUME ChainInv, TasksInv, NEW p \in Proc, Abort(p) \/ NeverSent(p)
  PROVE  ChainInv' /\ TasksInv'
<1>1. TaskInv(task[p], chain, moment, revised) /\ task[p].pc = "sending"
  BY DEF TasksInv, Abort, NeverSent
<1>2. PICK why : Becomes(p, Failed(task[p], why))
  BY DEF Abort, NeverSent
<1>3. TaskInv(Failed(task[p], why), chain, moment, revised)
  BY <1>1, UnderWay, FailedKeeps
<1>4. UNCHANGED chainVars /\ todo' = todo
  BY DEF Abort, NeverSent
<1> QED
  BY <1>2, <1>3, <1>4, StillKeeps DEF TasksInv

LEMMA DecodeKeeps ==
  ASSUME ChainInv, TasksInv, NEW p \in Proc, Decode(p)
  PROVE  ChainInv' /\ TasksInv'
<1> DEFINE t == task[p]
           u == [t EXCEPT !.pc = "done"]
<1>1. TaskInv(t, chain, moment, revised) /\ t.pc = "decoding"
  BY DEF TasksInv, Decode
<1>2. Becomes(p, u) /\ UNCHANGED chainVars /\ todo' = todo
  BY DEF Decode
<1> HIDE DEF t
<1>3. t = [field \in TaskFields |-> t[field]]
  BY <1>1 DEF TaskInv, TaskShape
<1>4. /\ u = [field \in TaskFields |-> u[field]] /\ u.pc = "done" /\ u.call = t.call
      /\ u.nth = t.nth /\ u.got = t.got /\ u.began = t.began /\ u.ran = t.ran /\ u.effect = t.effect
  BY <1>3 DEF TaskFields
<1> HIDE DEF u
<1>5. Stage(t) = "decoding" /\ Stage(u) = "done" /\ (Idle(u) <=> Idle(t))
      /\ \A verb : Parts(u, verb) = Parts(t, verb)
  BY <1>1, <1>4 DEF Stage, Idle, Parts
<1>6. TaskShape(u, moment)
  BY <1>1, <1>4, <1>5 DEF TaskInv, TaskShape
<1>7. TaskRead(u) /\ TaskAnswers(u, chain, moment, revised)
  BY <1>1, <1>4, <1>5 DEF TaskInv, TaskRead, TaskAnswers
<1>8. TaskOutcome(u)
  BY <1>1, <1>4, <1>5 DEF TaskInv, TaskOutcome
<1>9. TaskReceipt(u, chain)
  BY <1>1, <1>4, <1>5 DEF TaskInv, TaskReceipt
<1>10. TaskInv(u, chain, moment, revised)
  BY <1>6, <1>7, <1>8, <1>9 DEF TaskInv
<1> QED
  BY <1>2, <1>10, StillKeeps DEF TasksInv

(* A task whose transaction ran, whether its answer came back or was lost.   *)
LEMMA SentKeeps ==
  ASSUME NEW t, NEW s, NEW m \in Nat, NEW r \in Nat, NEW u, NEW q, TaskInv(t, s, m, r),
         t.pc = "sending", EscrowType(s), Runs(s, AllOps(t)), u = AfterAll(s, AllOps(t)),
         (q = r /\ u.market = s.market) \/ q = m + 1,
         NEW v, v = [t EXCEPT !.ran = @ + 1,
                              !.effect = [ caps  |-> [k \in 1 .. Len(u.stakes) - Len(s.stakes) |->
                                                       Len(s.stakes) + k],
                                           taken |-> SumSet(s.inbox \ u.inbox) ]]
  PROVE  /\ TaskInv([v EXCEPT !.pc = "decoding"], u, m + 1, q)
         /\ TaskInv(Failed(v, "lost"), u, m + 1, q)
<1> DEFINE w == [v EXCEPT !.pc = "decoding"]
           minted == [k \in 1 .. Len(u.stakes) - Len(s.stakes) |-> Len(s.stakes) + k]
<1>1. /\ EscrowType(u) /\ Grows(s, u)
      /\ Cardinality(Parts(t, "rent")) <= 1 => \A i \in Parts(t, "rent") :
           u.stakes = Append(s.stakes, Paid(t.call[i], t.got[i]))
           /\ Paid(t.call[i], t.got[i]) \in Nat
      /\ Cardinality(Parts(t, "collect")) <= 1 => \A i \in Parts(t, "collect") :
           s.inbox \ u.inbox = Found(t.got[i])
  BY SentReceipt
<1>2. TaskInv(t, u, m + 1, q)
  BY <1>1, BystanderKeeps
<1>3. /\ TaskShape(t, m + 1) /\ TaskRead(t) /\ TaskAnswers(t, u, m + 1, q)
      /\ Stage(t) = "sending" /\ t.ran = 0 /\ ~Idle(t)
  BY <1>2, UnderWay
<1>4. t = [field \in TaskFields |-> t[field]]
  BY <1>3 DEF TaskShape
<1>5. /\ v = [field \in TaskFields |-> v[field]] /\ v.pc = "sending" /\ v.call = t.call
      /\ v.nth = t.nth /\ v.got = t.got /\ v.began = t.began /\ v.ran = 1
      /\ v.effect.caps = minted /\ v.effect.taken = SumSet(s.inbox \ u.inbox)
  <2> DEFINE ran == t.ran + 1
             effect == [caps |-> minted, taken |-> SumSet(s.inbox \ u.inbox)]
  <2>1. v = [t EXCEPT !.ran = ran, !.effect = effect] /\ ran = 1
    BY <1>3
  <2>2. effect.caps = minted /\ effect.taken = SumSet(s.inbox \ u.inbox)
    OBVIOUS
  <2> HIDE DEF ran, effect
  <2>3. /\ v = [field \in TaskFields |-> v[field]] /\ v.ran = ran /\ v.effect = effect
        /\ \A field \in TaskFields \ {"ran", "effect"} : v[field] = t[field]
    BY <1>4, <2>1 DEF TaskFields
  <2> QED
    BY <1>3, <2>1, <2>2, <2>3 DEF TaskFields
<1> HIDE DEF minted
<1>6. /\ w = [field \in TaskFields |-> w[field]] /\ w.pc = "decoding" /\ w.call = t.call
      /\ w.nth = t.nth /\ w.got = t.got /\ w.began = t.began /\ w.ran = 1
      /\ w.effect.caps = minted /\ w.effect.taken = SumSet(s.inbox \ u.inbox)
  BY <1>5 DEF TaskFields
<1> HIDE DEF w
<1>7. Stage(v) = "sending" /\ Stage(w) = "decoding" /\ ~Idle(w)
      /\ \A verb : Parts(w, verb) = Parts(t, verb)
  BY <1>3, <1>5, <1>6 DEF Stage, Idle, Parts
<1>8. ASSUME NEW x, x = [field \in TaskFields |-> x[field]], x.pc \in {"sending", "decoding"},
             x.call = t.call, x.nth = t.nth, x.got = t.got, x.began = t.began
      PROVE  TaskShape(x, m + 1) /\ TaskRead(x) /\ TaskAnswers(x, u, m + 1, q)
  <2>1. Stage(x) = x.pc
    BY <1>8 DEF Stage
  <2>2. TaskShape(x, m + 1)
    BY <1>3, <1>8, <2>1 DEF TaskShape
  <2>3. TaskRead(x) /\ TaskAnswers(x, u, m + 1, q)
    BY <1>3, <1>8, <2>1 DEF TaskRead, TaskAnswers
  <2> QED
    BY <2>2, <2>3
<1>9. TaskInv(Failed(v, "lost"), u, m + 1, q)
  <2>1. TaskShape(v, m + 1) /\ TaskRead(v) /\ TaskAnswers(v, u, m + 1, q)
    BY <1>5, <1>8
  <2>2. TaskReceipt(v, u)
    BY <1>7 DEF TaskReceipt
  <2>3. "lost" \notin Clean
    BY DEF Clean
  <2> QED
    BY <1>5, <2>1, <2>2, <2>3, FailedKeeps
<1>10. TaskShape(w, m + 1) /\ TaskRead(w) /\ TaskAnswers(w, u, m + 1, q)
  BY <1>6, <1>8
<1>11. TaskOutcome(w)
  BY <1>6, <1>7 DEF TaskOutcome
<1>12. ASSUME Cardinality(Parts(w, "rent")) <= 1, NEW i \in Parts(w, "rent")
       PROVE  \E c \in DOMAIN u.stakes : w.effect.caps = <<c>> /\ u.stakes[c] = Paid(w.call[i], w.got[i])
  <2> DEFINE pay == Paid(t.call[i], t.got[i])
             c == Len(s.stakes) + 1
  <2>1. Paid(w.call[i], w.got[i]) = pay
    BY <1>6
  <2>2. u.stakes = Append(s.stakes, pay) /\ pay \in Nat
    BY <1>1, <1>7, <1>12
  <2>3. s.stakes \in Seq(Nat) /\ Len(s.stakes) \in Nat
    BY StakesLength
  <2> HIDE DEF pay
  <2>4. Len(u.stakes) = Len(s.stakes) + 1 /\ c \in DOMAIN u.stakes /\ u.stakes[c] = pay
    BY <2>2, <2>3, StakesLonger
  <2>5. minted = [k \in 1 .. 1 |-> Len(s.stakes) + k]
    BY <2>3, <2>4 DEF minted
  <2>6. minted = <<c>>
    BY <2>3, <2>5
  <2> QED
    BY <1>6, <2>1, <2>4, <2>6
<1>13. ASSUME Cardinality(Parts(w, "collect")) <= 1, NEW i \in Parts(w, "collect")
       PROVE  w.effect.taken = SumSet(Found(w.got[i]))
  <2>1. s.inbox \ u.inbox = Found(t.got[i])
    BY <1>1, <1>7, <1>13
  <2> QED
    BY <1>6, <2>1
<1>14. TaskReceipt(w, u)
  BY <1>12, <1>13 DEF TaskReceipt
<1> QED
  BY <1>9, <1>10, <1>11, <1>14 DEF TaskInv, w

LEMMA ExecuteKeeps ==
  ASSUME ChainInv, TasksInv, NEW p \in Proc, Execute(p) \/ AnswerLost(p)
  PROVE  ChainInv' /\ TasksInv'
<1> DEFINE t == task[p]
<1>1. /\ t.pc = "sending" /\ Change(AllOps(t)) /\ todo' = todo
      /\ \/ Becomes(p, [Sent(t) EXCEPT !.pc = "decoding"])
         \/ Becomes(p, Failed(Sent(t), "lost"))
  BY DEF Execute, AnswerLost
<1>2. TaskInv(t, chain, moment, revised) /\ EscrowType(chain) /\ moment \in Nat /\ revised \in Nat
  BY DEF TasksInv, ChainInv
<1> HIDE DEF t
<1>3. OpsType(AllOps(t))
  BY <1>1, <1>2, AllOpsType
<1>4. /\ ChainInv' /\ moment' = moment + 1
      /\ \A q \in Proc : TaskInv(task[q], chain', moment', revised')
  BY <1>1, <1>3, ChangeKeeps
<1>5. /\ Runs(chain, AllOps(t)) /\ chain' = AfterAll(chain, AllOps(t))
      /\ (revised' = revised /\ chain'.market = chain.market) \/ revised' = moment + 1
  BY <1>1 DEF Change
<1> DEFINE v == Sent(t)
<1>6. v = [t EXCEPT !.ran = @ + 1,
                    !.effect = [ caps  |-> [k \in 1 .. Len(chain'.stakes) - Len(chain.stakes) |->
                                             Len(chain.stakes) + k],
                                 taken |-> SumSet(chain.inbox \ chain'.inbox) ]]
  BY DEF Sent
<1> HIDE DEF v
<1>7. /\ TaskInv([v EXCEPT !.pc = "decoding"], chain', moment + 1, revised')
      /\ TaskInv(Failed(v, "lost"), chain', moment + 1, revised')
  BY <1>1, <1>2, <1>5, <1>6, SentKeeps
<1>8. PICK w : Becomes(p, w) /\ TaskInv(w, chain', moment', revised')
  BY <1>1, <1>4, <1>7 DEF v
<1>9. task' = [q \in Proc |-> IF q = p THEN w ELSE task[q]]
  <2>1. task = [q \in Proc |-> task[q]] /\ task' = [task EXCEPT ![p] = w]
    BY <1>8 DEF TasksInv, Becomes
  <2> QED
    BY <2>1
<1>10. \A q \in Proc : TaskInv(task'[q], chain', moment', revised')
  BY <1>4, <1>8, <1>9
<1>11. task' = [q \in Proc |-> task'[q]]
  BY <1>9
<1> QED
  BY <1>1, <1>4, <1>10, <1>11 DEF TasksInv

(* What other parties send is of its kind.                                   *)
LEMMA OthersOps ==
  ASSUME EscrowType(chain), OthersMove
  PROVE  \E op : Change(<<op>>) /\ OpType(op)
<1>1. PICK fn \in Others : \E op \in Op(fn) : Change(<<op>>)
  BY DEF OthersMove
<1>2. PICK op \in Op(fn) : Change(<<op>>)
  BY <1>1
<1>3. OpType(op)
  <2>1. CASE fn = "rent"
    <3>1. op = Rent(Floor(chain))
      BY <1>2, <2>1 DEF Op
    <3>2. Floor(chain) \in Nat
      BY FloorType
    <3> HIDE DEF Floor
    <3> QED
      BY <3>1, <3>2 DEF OpType, Rent
  <2>2. CASE fn = "update"
    <3>1. op = [fn |-> fn, market |-> Overlay(Latest(chain), [tenure |-> 2])]
      BY <1>2, <2>2 DEF Op
    <3>2. Latest(chain) \in Market
      BY DEF EscrowType, Latest
    <3>3. Overlay(Latest(chain), [tenure |-> 2]) \in Market
      BY <3>2 DEF Overlay, Market
    <3> QED
      BY <2>2, <3>1, <3>3 DEF OpType
  <2>3. CASE fn \notin {"rent", "update"}
    <3>1. op.fn = fn
      BY <1>2, <2>3 DEF Op, Step
    <3> QED
      BY <2>3, <3>1 DEF OpType
  <2> QED
    BY <2>1, <2>2, <2>3
<1> QED
  BY <1>2, <1>3

LEMMA OthersKeep ==
  ASSUME ChainInv, TasksInv, OthersMove, UNCHANGED handleVars
  PROVE  ChainInv' /\ TasksInv'
<1>2. PICK op : Change(<<op>>) /\ OpType(op)
  BY OthersOps DEF ChainInv
<1>4. OpType(op)
  BY <1>2
<1>5. OpsType(<<op>>)
  BY <1>4 DEF OpsType
<1>6. ChainInv' /\ \A q \in Proc : TaskInv(task[q], chain', moment', revised')
  BY <1>2, <1>5, ChangeKeeps
<1>7. task' = task /\ todo' = todo
  BY DEF handleVars
<1>8. \A q \in Proc : TaskInv(task'[q], chain', moment', revised')
  BY <1>6, <1>7, Zenon
<1> QED
  BY <1>6, <1>7, <1>8 DEF TasksInv

-----------------------------------------------------------------------------
(* What the callers are promised.                                            *)

ClientInv == ChainInv /\ TasksInv

LEMMA ClientInitKeeps == Init => ClientInv
<1> SUFFICES ASSUME Init PROVE ClientInv
  OBVIOUS
<1>1. PICK s \in Scenarios : ChainInit(s.start, s.moves) /\ HandlesInit(s.calls, s.faults)
  BY DEF Init
<1>2. s.start \in DOMAIN History /\ s.calls \in [Proc -> Seq(CallType)]
  BY ScenariosAssumption
<1>3. ChainInv
  <2>1. EscrowType(AfterAll(Listed, History[s.start]))
    BY <1>2, HistoryType
  <2>2. chain = AfterAll(Listed, History[s.start]) /\ moment = 0 /\ revised = 0
    BY <1>1 DEF ChainInit
  <2> QED
    BY <2>1, <2>2 DEF ChainInv
<1>4. TaskInv(Unused, chain, moment, revised)
  <2> DEFINE t == Unused
  <2>1. t = [field \in TaskFields |-> t[field]] /\ t.pc = "ready"
    BY DEF Unused, Fresh, TaskFields
  <2> HIDE DEF t
  <2>2. TaskInv(t, chain, moment, revised)
    BY <2>1 DEF TaskInv, TaskShape, TaskRead, TaskAnswers, TaskOutcome, TaskReceipt
  <2> QED
    BY <2>2 DEF t
<1>5. task = [p \in Proc |-> Unused] /\ todo = s.calls
  BY <1>1 DEF HandlesInit
<1>6. \A p \in Proc : task[p] = Unused
  BY <1>5
<1>7. \A p \in Proc : TaskInv(task[p], chain, moment, revised)
  BY <1>4, <1>6, Zenon
<1>8. task = [p \in Proc |-> task[p]]
  BY <1>5
<1> QED
  BY <1>2, <1>3, <1>5, <1>7, <1>8 DEF ClientInv, TasksInv

LEMMA ClientNextKeeps == ClientInv /\ [Next]_vars => ClientInv'
<1> SUFFICES ASSUME ChainInv, TasksInv, [Next]_vars PROVE ChainInv' /\ TasksInv'
  BY DEF ClientInv
<1>1. CASE Others_
  BY <1>1, OthersKeep DEF Others_
<1>2. CASE Calls_
  <2>1. PICK p \in Proc : Advance(p) \/ Disturb(p)
    BY <1>2 DEF Calls_, HandlesNext
  <2>2. CASE Advance(p)
    BY <2>2, BeginKeeps, ReceiveKeeps, BuildKeeps, ExecuteKeeps, AbortKeeps, DecodeKeeps DEF Advance
  <2>3. CASE Disturb(p)
    BY <2>3, TransientKeeps, TruncatedKeeps, AbortKeeps, ExecuteKeeps DEF Disturb
  <2> QED
    BY <2>1, <2>2, <2>3
<1>3. CASE Feed_ \/ UNCHANGED vars
  <2>1. UNCHANGED <<chain, moment, revised, todo, task>>
    BY <1>3 DEF Feed_, vars, chainVars, handleVars
  <2>2. ChainInv'
    BY <2>1 DEF ChainInv
  <2>3. \A p \in Proc : TaskInv(task[p], chain', moment', revised')
    <3>1. \A p \in Proc : TaskInv(task[p], chain, moment, revised)
      BY DEF TasksInv
    <3>2. chain' = chain /\ moment' = moment /\ revised' = revised
      BY <2>1
    <3> QED
      BY <3>1, <3>2, Zenon
  <2>4. task' = task /\ todo' = todo
    BY <2>1
  <2>5. \A p \in Proc : TaskInv(task'[p], chain', moment', revised')
    BY <2>3, <2>4, Zenon
  <2> QED
    BY <2>2, <2>4, <2>5 DEF TasksInv
<1> QED
  BY <1>1, <1>2, <1>3 DEF Next

LEMMA ClientsHold == Spec => []ClientInv
  BY ClientInitKeeps, ClientNextKeeps, PTL DEF Spec

(* Every value a verb works with was decoded from the returns of that view's *)
(* own calls, in a simulation of the call itself: whoever else calls, moves, *)
(* fails and is retried, nothing is served from before.                      *)
THEOREM ReadsTellTheTruth == Spec => []ReadsAreTrue
<1>1. ASSUME ClientInv PROVE ReadsAreTrue
  <2> SUFFICES ASSUME NEW p \in Started, NEW i \in DOMAIN task[p].got,
                      NEW name \in DOMAIN task[p].got[i]
               PROVE  task[p].got[i][name].own /\ task[p].got[i][name].at >= task[p].began
    BY DEF ReadsAreTrue
  <2> DEFINE t == task[p]
  <2>1. p \in Proc /\ t.pc # "ready"
    BY DEF Started
  <2>2. TaskInv(t, chain, moment, revised)
    BY <1>1, <2>1 DEF ClientInv, TasksInv
  <2> HIDE DEF t
  <2>3. t.began \in Nat /\ t.got = [k \in DOMAIN t.call |-> t.got[k]]
    BY <2>1, <2>2 DEF TaskInv, TaskShape
  <2>4. i \in DOMAIN t.call /\ name \in DOMAIN t.got[i]
    BY <2>3 DEF t
  <2>5. AnswerHolds(name, t.got[i][name], t.began, chain, moment, revised)
    BY <2>1, <2>2, <2>4 DEF TaskInv, TaskAnswers
  <2>6. t.got[i][name].own /\ t.got[i][name].at >= t.began
    BY <2>3, <2>5 DEF AnswerHolds
  <2> QED
    BY <2>6 DEF t
<1> QED
  BY <1>1, ClientsHold, PTL

(* A transaction runs at most once whatever fails and is retried, and what a *)
(* caller is told says whether it ran.                                       *)
THEOREM CallersKnowWhatRan == Spec => []OutcomeMatchesChain
<1>1. ASSUME ClientInv PROVE OutcomeMatchesChain
  <2> SUFFICES ASSUME NEW p \in Started
               PROVE  LET t == task[p]
                          idle == \A i \in DOMAIN t.call : Idles(t.call[i], t.got[i])
                      IN  /\ t.ran <= 1
                          /\ t.pc = "done" => t.ran = IF idle THEN 0 ELSE 1
                          /\ t.pc = "failed" /\ t.during = "building" => t.ran = 0
                          /\ t.pc = "failed" /\ t.why \in {"abort", "notConnected", "unbound", "noBalance"}
                               => t.ran = 0
                          /\ t.pc = "failed" /\ t.during = "decoding" /\ ~idle => t.ran = 1
    BY DEF OutcomeMatchesChain
  <2> DEFINE t == task[p]
  <2>1. p \in Proc /\ t.pc # "ready"
    BY DEF Started
  <2>2. TaskOutcome(t)
    BY <1>1, <2>1 DEF ClientInv, TasksInv, TaskInv
  <2> HIDE DEF t
  <2>3. /\ t.ran <= 1
        /\ t.pc = "done" => t.ran = IF Idle(t) THEN 0 ELSE 1
        /\ t.pc = "failed" /\ t.during = "building" => t.ran = 0
        /\ t.pc = "failed" /\ t.why \in Clean => t.ran = 0
        /\ t.pc = "failed" /\ t.during = "decoding" /\ ~Idle(t) => t.ran = 1
    BY <2>1, <2>2 DEF TaskOutcome, Stage
  <2> QED
    BY <2>3 DEF t, Idle, Clean
<1> QED
  BY <1>1, ClientsHold, PTL

(* A rent returns the cap its transaction minted, at the price that cap was  *)
(* rented for, and a collect the sum it took, whatever others did between    *)
(* the reads, the execution and the decoding.                                *)
THEOREM ReceiptsAreTruthful == Spec => []ReceiptTruthful
<1>1. ASSUME ClientInv PROVE ReceiptTruthful
  <2> SUFFICES ASSUME NEW p \in Started, task[p].pc = "done"
               PROVE  LET t == task[p] IN
                        /\ Cardinality(Parts(t, "rent")) <= 1 => \A i \in Parts(t, "rent") :
                             LET receipt == Body(t.call[i], t.got[i], t.effect)
                             IN  /\ receipt.cap \in Range(t.effect.caps)
                                 /\ receipt.paid = chain.stakes[receipt.cap]
                        /\ Cardinality(Parts(t, "collect")) <= 1 => \A i \in Parts(t, "collect") :
                             Body(t.call[i], t.got[i], t.effect).sum = t.effect.taken
    BY DEF ReceiptTruthful
  <2> DEFINE t == task[p]
  <2>1. p \in Proc /\ t.pc = "done"
    BY DEF Started
  <2>2. TaskReceipt(t, chain)
    BY <1>1, <2>1 DEF ClientInv, TasksInv, TaskInv
  <2> HIDE DEF t
  <2>3. /\ Cardinality(Parts(t, "rent")) <= 1 => \A i \in Parts(t, "rent") :
             \E c \in DOMAIN chain.stakes :
               t.effect.caps = <<c>> /\ chain.stakes[c] = Paid(t.call[i], t.got[i])
        /\ Cardinality(Parts(t, "collect")) <= 1 => \A i \in Parts(t, "collect") :
             t.effect.taken = SumSet(Found(t.got[i]))
    BY <2>1, <2>2 DEF TaskReceipt, Stage
  <2>4. ASSUME Cardinality(Parts(t, "rent")) <= 1, NEW i \in Parts(t, "rent")
        PROVE  LET receipt == Body(t.call[i], t.got[i], t.effect)
               IN  /\ receipt.cap \in Range(t.effect.caps)
                   /\ receipt.paid = chain.stakes[receipt.cap]
    <3>1. t.call[i].verb = "rent"
      BY <2>4 DEF Parts
    <3>2. Body(t.call[i], t.got[i], t.effect) = [cap |-> Head(t.effect.caps), paid |-> Paid(t.call[i], t.got[i])]
      BY <3>1 DEF Body
    <3>3. PICK c \in DOMAIN chain.stakes :
            t.effect.caps = <<c>> /\ chain.stakes[c] = Paid(t.call[i], t.got[i])
      BY <2>3, <2>4
    <3>4. Head(<<c>>) = c /\ c \in Range(<<c>>)
      BY RangeOfOne
    <3> QED
      BY <3>2, <3>3, <3>4
  <2>5. ASSUME Cardinality(Parts(t, "collect")) <= 1, NEW i \in Parts(t, "collect")
        PROVE  Body(t.call[i], t.got[i], t.effect).sum = t.effect.taken
    <3>1. t.call[i].verb = "collect"
      BY <2>5 DEF Parts
    <3>2. Body(t.call[i], t.got[i], t.effect) = [sum |-> SumSet(Value(t.got[i], "messages"))]
      BY <3>1 DEF Body
    <3>3. t.effect.taken = SumSet(Value(t.got[i], "messages"))
      BY <2>3, <2>5 DEF Found
    <3> QED
      BY <3>2, <3>3
  <2> QED
    BY <2>4, <2>5 DEF t
<1> QED
  BY <1>1, ClientsHold, PTL

(* A caller's call changes by its own steps.                                 *)
LEMMA BecomesIs ==
  ASSUME TasksInv, NEW p, NEW u, Becomes(p, u)
  PROVE  task' = [k \in Proc |-> IF k = p THEN u ELSE task[k]]
<1>1. task = [k \in Proc |-> task[k]] /\ task' = [task EXCEPT ![p] = u]
  BY DEF TasksInv, Becomes
<1> QED
  BY <1>1

LEMMA OwnStep ==
  ASSUME TasksInv, [Next]_vars, NEW p \in Proc, task'[p] # task[p]
  PROVE  Advance(p) \/ Disturb(p)
<1>1. task' # task
  OBVIOUS
<1>2. PICK q \in Proc : Advance(q) \/ Disturb(q)
  BY <1>1 DEF Next, Others_, Calls_, Feed_, HandlesNext, vars, handleVars
<1>3. PICK u : Becomes(q, u)
  BY <1>2 DEF Advance, Disturb, Begin, Receive, Build, Execute, Abort, Decode, Transient, Truncated,
              NeverSent, AnswerLost
<1>4. task' = [k \in Proc |-> IF k = q THEN u ELSE task[k]]
  BY <1>3, BecomesIs
<1>5. q = p
  BY <1>4
<1> QED
  BY <1>2, <1>5

(* The two steps in which a transaction of a caller runs.                    *)
LEMMA OnlySentRuns ==
  ASSUME ClientInv, [Next]_vars, NEW p \in Proc, task[p].pc = "sending", task'[p].ran > task[p].ran
  PROVE  Change(AllOps(task[p]))
<1>1. TaskInv(task[p], chain, moment, revised) /\ TasksInv
  BY DEF ClientInv, TasksInv
<1>2. task'[p].ran # task[p].ran
  <2>1. task[p].ran = 0
    BY <1>1, UnderWay
  <2> QED
    BY <2>1
<1>3. Advance(p) \/ Disturb(p)
  BY <1>1, <1>2, OwnStep
<1>4. ~Begin(p) /\ ~Build(p) /\ ~Decode(p)
  BY DEF Begin, Build, Decode, Over
<1>5. Wants(task[p]) = {}
  BY DEF Wants
<1>6. ~Receive(p) /\ ~Transient(p) /\ ~Truncated(p)
  BY <1>5 DEF Receive, Transient, Truncated
<1>7. ~(Abort(p) \/ NeverSent(p))
  <2> SUFFICES ASSUME Abort(p) \/ NeverSent(p) PROVE FALSE
    OBVIOUS
  <2>1. PICK why : Becomes(p, Failed(task[p], why))
    BY DEF Abort, NeverSent
  <2>2. task'[p] = Failed(task[p], why)
    BY <1>1, <2>1, BecomesIs
  <2>3. Failed(task[p], why).ran = task[p].ran
    BY DEF Failed
  <2> QED
    BY <1>2, <2>2, <2>3
<1> QED
  BY <1>3, <1>4, <1>6, <1>7 DEF Advance, Disturb, Execute, AnswerLost

(* updateMarket sends the whole market it read with the changes it was asked *)
(* for, and leaves the rest as it was unless another revision is scheduled   *)
(* or came between its reads and its execution.                              *)
THEOREM PatchesKeepTheRest == Spec => PatchKeepsRest
<1>1. ASSUME ClientInv, [Next]_vars, NEW p \in Proc, Patches(p), chain.scheduled = None,
             revised <= task[p].began
      PROVE  KeepsRest(p)
  <2> DEFINE t == task[p]
             part == t.call[1]
             got == t.got[1]
             ops == AllOps(t)
  <2>1. /\ t.pc = "sending" /\ Len(t.call) = 1 /\ part.verb = "updateMarket" /\ Change(ops)
    BY <1>1, OnlySentRuns DEF Patches
  <2>2. TaskInv(t, chain, moment, revised) /\ EscrowType(chain)
    BY <1>1 DEF ClientInv, TasksInv, ChainInv
  <2>3. t.call \in CallType /\ TaskAnswers(t, chain, moment, revised) /\ TaskShape(t, moment)
    BY <2>1, <2>2, UnderWay
  <2>4. DOMAIN t.call = 1 .. 1 /\ 1 \in DOMAIN t.call
    BY <2>1, <2>3, CallTypes
  <2>5. /\ ops[1] = Sends(part, got) /\ Len(ops) = 1 /\ part \in PartType /\ HasRead(part, got)
        /\ \A name \in DOMAIN got :
             name \in {"floorPriceMist", "restPrice", "tenureDuration"} => got[name].val \in Nat
    <3>1. OpsType(ops) /\ DOMAIN ops = DOMAIN t.call
      BY <2>1, <2>2, AllOpsType
    <3>2. Len(ops) \in Nat /\ DOMAIN ops = 1 .. Len(ops)
      BY <3>1 DEF OpsType
    <3> HIDE DEF ops
    <3>3. Len(ops) = 1
      BY <2>4, <3>1, <3>2
    <3>4. /\ ops[1] = Sends(part, got) /\ part \in PartType /\ HasRead(part, got)
          /\ \A name \in DOMAIN got :
               name \in {"floorPriceMist", "restPrice", "tenureDuration"} => got[name].val \in Nat
      BY <2>1, <2>2, <2>4, AllOpsType DEF ops
    <3> QED
      BY <3>3, <3>4
  <2>6. t.began \in Nat /\ revised \in Nat /\ revised <= t.began
    BY <1>1, <2>1, <2>3 DEF TaskShape, ClientInv, ChainInv
  <2> HIDE DEF ops
  <2>7. {"restPrice", "tenureDuration"} \subseteq DOMAIN got
    BY <2>1, <2>5 DEF HasRead
  <2>8. \A name \in DOMAIN got : AnswerHolds(name, got[name], t.began, chain, moment, revised)
    BY <2>1, <2>3, <2>4 DEF TaskAnswers
  <2> HIDE DEF t, part, got
  <2>9. \A name \in DOMAIN got : got[name].at \in Nat /\ got[name].at >= revised
    BY <2>6, <2>8 DEF AnswerHolds
  <2>10. Value(got, "restPrice") = chain.market.price /\ Value(got, "tenureDuration") = chain.market.tenure
    BY <2>7, <2>8, <2>9 DEF AnswerHolds, Value
  <2>11. MarketRead(got) = chain.market
    <3>1. chain.market \in Market
      BY <2>2 DEF EscrowType
    <3>2. chain.market = [price |-> chain.market.price, tenure |-> chain.market.tenure]
      BY <3>1 DEF Market
    <3> QED
      BY <2>10, <3>2 DEF MarketRead
  <2>12. Merged(part, got) = Overlay(Latest(chain), part.patch)
    BY <1>1, <2>11 DEF Merged, Latest
  <2>13. Merged(part, got) \in Market
    <3>1. Value(got, "restPrice") \in Nat /\ Value(got, "tenureDuration") \in Nat
      BY <2>5, <2>7 DEF Value
    <3> QED
      BY <2>5, <3>1, MarketReadType
  <2>14. ops[1] = [fn |-> "update", market |-> Merged(part, got)]
    <3>1. ~Idles(part, got)
      BY <2>1 DEF Idles, Reads
    <3> QED
      BY <2>1, <2>5, <3>1 DEF Sends
  <2>15. chain' = Updated(chain, Merged(part, got))
    <3>1. chain' = After(chain, ops[1])
      BY <2>1, <2>5, CourseOfOne DEF Change
    <3> QED
      BY <2>14, <3>1 DEF After
  <2>16. Latest(chain') = Merged(part, got)
    BY <1>1, <2>2, <2>13, <2>15, UpdatedType
  <2> QED
    BY <2>12, <2>16 DEF KeepsRest, t, part
<1>2. ClientInv /\ [Next]_vars =>
        [\A p \in Proc :
           Patches(p) /\ chain.scheduled = None /\ revised <= task[p].began => KeepsRest(p)]_vars
  BY <1>1
<1> QED
  BY <1>2, ClientsHold, PTL DEF Spec, PatchKeepsRest
-----------------------------------------------------------------------------
(* Why a call fails.                                                         *)

(* No request, and no read, is counted to have failed in a row more often    *)
(* than it did.                                                              *)
TaskTries(t) ==
  \A key : Tried(t, key) \in Nat /\ Misses(t, key) \in Nat /\ Tried(t, key) <= Misses(t, key)

(* What was answered at this moment is what there is to see.                 *)
TaskCurrent(t, s, m) ==
  \A i \in DOMAIN t.call : \A name \in DOMAIN t.got[i] :
    t.got[i][name].at = m => t.got[i][name].val = Sees(s, name, t.call[i].cap)

CallMinted(call, s) == \A i \in DOMAIN call : call[i].verb \in OfCap => call[i].cap \in Caps(s)

TaskCause(t, s, m) ==
  t.pc # "ready" => TaskTries(t) /\ TaskCurrent(t, s, m) /\ CallMinted(t.call, s)

CauseInv == Minted /\ \A p \in Proc : TaskCause(task[p], chain, moment)

LEMMA CauseInitHolds == Init => CauseInv
<1> SUFFICES ASSUME Init PROVE CauseInv
  OBVIOUS
<1>1. Minted /\ task = [p \in Proc |-> Unused]
  BY DEF Init, HandlesInit
<1>2. Unused.pc = "ready"
  BY DEF Unused, Fresh
<1> QED
  BY <1>1, <1>2 DEF CauseInv, TaskCause

LEMMA FailedFields ==
  ASSUME NEW t, t = [field \in TaskFields |-> t[field]], NEW why
  PROVE  /\ Failed(t, why).pc = "failed" /\ Failed(t, why).why = why
         /\ Failed(t, why).missed = t.missed /\ Failed(t, why).tries = t.tries
         /\ Failed(t, why).call = t.call /\ Failed(t, why).got = t.got
  BY DEF Failed, TaskFields

LEMMA SameTries ==
  ASSUME NEW t, NEW u, TaskTries(t), u.tries = t.tries, u.missed = t.missed
  PROVE  TaskTries(u)
<1>1. \A key : Tried(u, key) = Tried(t, key) /\ Misses(u, key) = Misses(t, key)
  BY DEF Tried, Misses
<1> QED
  BY <1>1 DEF TaskTries

LEMMA SameCause ==
  ASSUME NEW t, NEW u, NEW s, NEW m, TaskCause(t, s, m), t.pc # "ready",
         u.call = t.call, u.got = t.got, u.tries = t.tries, u.missed = t.missed
  PROVE  TaskCause(u, s, m)
<1>1. TaskTries(u)
  BY SameTries DEF TaskCause
<1> QED
  BY <1>1 DEF TaskCause, TaskCurrent

(* What a call read before somebody's transaction is of an earlier moment,   *)
(* and the caps there were are there.                                        *)
LEMMA BystanderCause ==
  ASSUME NEW t, NEW s, NEW u, NEW m \in Nat, NEW r, TaskInv(t, s, m, r), TaskCause(t, s, m),
         Grows(s, u)
  PROVE  TaskCause(t, u, m + 1)
<1> SUFFICES ASSUME t.pc # "ready" PROVE TaskCause(t, u, m + 1)
  BY DEF TaskCause
<1>1. TaskTries(t) /\ CallMinted(t.call, s)
  BY DEF TaskCause
<1>2. \A i \in DOMAIN t.call : \A name \in DOMAIN t.got[i] :
        t.got[i][name].at \in Nat /\ t.got[i][name].at <= m
  BY DEF TaskInv, TaskAnswers, AnswerHolds
<1>3. TaskCurrent(t, u, m + 1)
  BY <1>2 DEF TaskCurrent
<1>4. CallMinted(t.call, u)
  BY <1>1 DEF CallMinted, Grows, Caps
<1> QED
  BY <1>1, <1>3, <1>4 DEF TaskCause

(* A step of one caller that leaves the escrow alone.                        *)
LEMMA StillCause ==
  ASSUME TasksInv, CauseInv, UNCHANGED chainVars, NEW p \in Proc, NEW u, Becomes(p, u),
         TaskCause(u, chain, moment), \A q \in Proc : Range(todo'[q]) \subseteq Range(todo[q])
  PROVE  CauseInv'
<1>1. chain' = chain /\ moment' = moment
  BY DEF chainVars
<1>2. task' = [q \in Proc |-> IF q = p THEN u ELSE task[q]]
  <2>1. task = [q \in Proc |-> task[q]] /\ task' = [task EXCEPT ![p] = u]
    BY DEF TasksInv, Becomes
  <2> QED
    BY <2>1
<1>3. \A q \in Proc : TaskCause(task'[q], chain, moment)
  BY <1>2 DEF CauseInv
<1>4. \A q \in Proc : TaskCause(task'[q], chain', moment')
  BY <1>1, <1>3, Zenon
<1>5. Minted'
  BY <1>1 DEF CauseInv, Minted
<1> QED
  BY <1>4, <1>5 DEF CauseInv

(* A transaction, whoever sends it.                                          *)
LEMMA ChangeCause ==
  ASSUME ChainInv, TasksInv, CauseInv, NEW ops, Change(ops), OpsType(ops), todo' = todo
  PROVE  Minted' /\ \A q \in Proc : TaskCause(task[q], chain', moment')
<1>1. /\ EscrowType(chain) /\ moment \in Nat /\ Runs(chain, ops)
      /\ chain' = AfterAll(chain, ops) /\ moment' = moment + 1
  BY DEF ChainInv, Change
<1>2. Grows(chain, chain')
  BY <1>1, CourseGrows
<1>3. \A q \in Proc : TaskCause(task[q], chain', moment + 1)
  BY <1>1, <1>2, BystanderCause DEF TasksInv, CauseInv
<1>4. Minted'
  BY <1>2 DEF CauseInv, Minted, Grows, Caps
<1> QED
  BY <1>1, <1>3, <1>4

-----------------------------------------------------------------------------
LEMMA BeginCause ==
  ASSUME ChainInv, TasksInv, CauseInv, NEW p \in Proc, Begin(p)
  PROVE  CauseInv'
<1> DEFINE call == Head(todo[p])
<1>1. todo[p] \in Seq(CallType) /\ todo[p] # <<>> /\ todo \in [Proc -> Seq(CallType)]
  BY DEF TasksInv, Begin
<1>2. call \in Range(todo[p]) /\ Range(Tail(todo[p])) \subseteq Range(todo[p])
  <2> DEFINE S == CallType
             q == todo[p]
  <2>1. q \in Seq(S) /\ q # <<>>
    BY <1>1
  <2> HIDE DEF S, q
  <2>2. 1 \in DOMAIN q /\ Head(q) = q[1]
    BY <2>1
  <2>3. \A i \in DOMAIN Tail(q) : i + 1 \in DOMAIN q /\ Tail(q)[i] = q[i + 1]
    BY <2>1
  <2> QED
    BY <2>2, <2>3 DEF Range, q
<1>3. todo' = [todo EXCEPT ![p] = Tail(todo[p])] /\ UNCHANGED chainVars
  BY DEF Begin
<1>4. \A q \in Proc : Range(todo'[q]) \subseteq Range(todo[q])
  BY <1>1, <1>2, <1>3
<1>5. Becomes(p, Fresh(call)) \/ Becomes(p, Failed(Fresh(call), "notConnected"))
  BY DEF Begin
<1>6. CallMinted(call, chain)
  <2>1. \A part \in Range(call) : part.verb \in OfCap => part.cap \in Caps(chain)
    BY <1>2 DEF CauseInv, Minted
  <2> QED
    BY <2>1 DEF CallMinted, Range
<1> HIDE DEF call
<1> DEFINE t == Fresh(call)
<1>7. /\ t = [field \in TaskFields |-> t[field]] /\ t.pc = "building" /\ t.call = call
      /\ t.got = [i \in DOMAIN call |-> <<>>] /\ t.tries = <<>> /\ t.missed = <<>>
  BY DEF Fresh, TaskFields
<1> HIDE DEF t
<1>8. TaskCause(t, chain, moment)
  <2>1. TaskTries(t)
    BY <1>7 DEF TaskTries, Tried, Misses
  <2>2. TaskCurrent(t, chain, moment)
    BY <1>7 DEF TaskCurrent
  <2> QED
    BY <1>6, <1>7, <2>1, <2>2 DEF TaskCause
<1>9. TaskCause(Failed(t, "notConnected"), chain, moment)
  BY <1>7, <1>8, FailedFields, SameCause
<1> QED
  BY <1>3, <1>4, <1>5, <1>8, <1>9, StillCause DEF t

(* What got through is counted from the start again.                         *)
LEMMA ReachedTries ==
  ASSUME NEW t, TaskTries(t), NEW key, NEW u, u.tries = Without(t.tries, {key}),
         u.missed = Without(t.missed, {key})
  PROVE  TaskTries(u)
<1>1. \A k : /\ Tried(u, k) = IF k = key THEN 0 ELSE Tried(t, k)
            /\ Misses(u, k) = IF k = key THEN 0 ELSE Misses(t, k)
  BY DEF Tried, Misses, Without
<1> QED
  BY <1>1 DEF TaskTries

LEMMA ReceiveCause ==
  ASSUME ChainInv, TasksInv, CauseInv, NEW p \in Proc, Receive(p)
  PROVE  CauseInv'
<1> DEFINE t == task[p]
<1>1. PICK want \in Wants(t) :
        LET i == want[1]  j == want[2]  part == t.call[i]
        IN  /\ \E answers \in {Answers(part, j, Request(t.got[i], j))} :
                 Becomes(p, IF ~JobBinds(part, j) THEN Failed(t, "unbound")
                            ELSE IF Gone(part, j) THEN Failed(t, "gone")
                            ELSE WithAnswer(t, i, j, answers))
            /\ UNCHANGED <<chainVars, todo, faults>>
  BY DEF Receive
<1> DEFINE i == want[1]
           j == want[2]
           part == t.call[i]
           answers == Answers(part, j, Request(t.got[i], j))
           g == Onto(answers, t.got[i])
           u == WithAnswer(t, i, j, answers)
<1>2. /\ \/ Becomes(p, Failed(t, "unbound")) \/ Becomes(p, Failed(t, "gone")) \/ Becomes(p, u)
      /\ UNCHANGED chainVars /\ todo' = todo
  BY <1>1
<1>3. TaskInv(t, chain, moment, revised) /\ TaskCause(t, chain, moment)
  BY DEF TasksInv, CauseInv
<1>4. t.pc \in {"building", "decoding"} /\ i \in DOMAIN t.call
  BY <1>1, <1>3, WantType
<1>5. /\ t = [field \in TaskFields |-> t[field]] /\ t.got = [k \in DOMAIN t.call |-> t.got[k]]
      /\ t.pc # "ready"
  BY <1>3, <1>4 DEF TaskInv, TaskShape
<1>6. TaskTries(t) /\ TaskCurrent(t, chain, moment) /\ CallMinted(t.call, chain)
  BY <1>3, <1>5 DEF TaskCause
<1>7. \A name \in DOMAIN answers : answers[name].val = Sees(chain, name, part.cap)
  BY DEF Answers
<1> HIDE DEF t, i, j, answers
<1>8. \A name \in DOMAIN g : g[name] = IF name \in DOMAIN answers THEN answers[name] ELSE t.got[i][name]
  BY DEF Onto
<1>9. DOMAIN g = DOMAIN answers \cup DOMAIN t.got[i]
  BY DEF Onto
<1>10. /\ SameBut(t, u, {"missed", "tries", "got"})
       /\ u.got = [t.got EXCEPT ![i] = g]
       /\ u.tries = Without(t.tries, {Key(<<i, j>>, "request")})
       /\ u.missed = Without(t.missed, {Key(<<i, j>>, "request")})
  <2>1. IsTask(t)
    BY <1>5 DEF IsTask
  <2> QED
    BY <2>1, AnswerFields
<1> HIDE DEF g, u
<1>11. u.call = t.call /\ u.got = [t.got EXCEPT ![i] = g]
  BY <1>10 DEF TaskFields, SameBut
<1>12. TaskTries(u)
  BY <1>6, <1>10, ReachedTries
<1>13. TaskCurrent(u, chain, moment)
  <2> SUFFICES ASSUME NEW k \in DOMAIN t.call, NEW name \in DOMAIN u.got[k], u.got[k][name].at = moment
               PROVE  u.got[k][name].val = Sees(chain, name, t.call[k].cap)
    BY <1>11 DEF TaskCurrent
  <2>1. CASE k = i
    <3>1. u.got[k] = g
      BY <1>4, <1>5, <1>11, <2>1
    <3>2. CASE name \in DOMAIN answers
      BY <1>7, <1>8, <2>1, <3>1, <3>2
    <3>3. CASE name \notin DOMAIN answers
      <4>1. g[name] = t.got[i][name] /\ name \in DOMAIN t.got[i]
        BY <1>8, <1>9, <3>1, <3>3
      <4> QED
        BY <1>6, <2>1, <3>1, <4>1 DEF TaskCurrent
    <3> QED
      BY <3>2, <3>3
  <2>2. CASE k # i
    <3>1. u.got[k] = t.got[k]
      BY <1>5, <1>11, <2>2
    <3> QED
      BY <1>6, <3>1 DEF TaskCurrent
  <2> QED
    BY <2>1, <2>2
<1>14. TaskCause(u, chain, moment)
  BY <1>6, <1>11, <1>12, <1>13 DEF TaskCause
<1>15. TaskCause(Failed(t, "unbound"), chain, moment) /\ TaskCause(Failed(t, "gone"), chain, moment)
  BY <1>3, <1>5, FailedFields, SameCause
<1> QED
  BY <1>2, <1>14, <1>15, StillCause

(* One more failure of a request is counted once.                            *)
LEMMA CountedTries ==
  ASSUME NEW t, TaskTries(t), NEW key, NEW u, u.tries = t.tries,
         u.missed = Onto([k \in {key} |-> Misses(t, key) + 1], t.missed),
         NEW n, n = Tried(u, key) + 1
  PROVE  /\ n \in Nat /\ n <= Misses(u, key) /\ TaskTries(u)
         /\ Misses(u, key) \in Nat /\ Misses(u, key) > Misses(t, key)
         /\ \A v : v.missed = u.missed /\ v.tries = Counted(u, key, n) => TaskTries(v)
<1>1. \A k : Tried(u, k) = Tried(t, k)
  BY DEF Tried
<1>2. \A k : Misses(u, k) = IF k = key THEN Misses(t, key) + 1 ELSE Misses(t, k)
  BY DEF Misses, Onto
<1>3. Tried(t, key) \in Nat /\ Misses(t, key) \in Nat /\ Tried(t, key) <= Misses(t, key)
  BY DEF TaskTries
<1>4. n \in Nat /\ n <= Misses(u, key) /\ Misses(u, key) \in Nat /\ Misses(u, key) > Misses(t, key)
  BY <1>1, <1>2, <1>3
<1>5. TaskTries(u)
  <2> SUFFICES ASSUME NEW k
               PROVE  Tried(u, k) \in Nat /\ Misses(u, k) \in Nat /\ Tried(u, k) <= Misses(u, k)
    BY DEF TaskTries
  <2>1. Tried(t, k) \in Nat /\ Misses(t, k) \in Nat /\ Tried(t, k) <= Misses(t, k)
    BY DEF TaskTries
  <2>2. Tried(u, k) = Tried(t, k) /\ (Misses(u, k) = Misses(t, k) \/ Misses(u, k) = Misses(t, k) + 1)
    BY <1>1, <1>2
  <2> QED
    BY <2>1, <2>2
<1>6. ASSUME NEW v, v.missed = u.missed, v.tries = Counted(u, key, n) PROVE TaskTries(v)
  <2>1. \A k : Misses(v, k) = Misses(u, k)
    BY <1>6 DEF Misses
  <2>2. \A k : Tried(v, k) = IF k = key THEN n ELSE Tried(u, k)
    BY <1>6 DEF Tried, Counted, Onto
  <2>3. \A k : Tried(u, k) \in Nat /\ Misses(u, k) \in Nat /\ Tried(u, k) <= Misses(u, k)
    BY <1>5 DEF TaskTries
  <2> QED
    BY <1>4, <2>1, <2>2, <2>3 DEF TaskTries
<1> QED
  BY <1>4, <1>5, <1>6

(* What failed in a step, and whether it had failed all its attempts.        *)
LEMMA StruckBy ==
  ASSUME NEW t, NEW u, NEW v, v.missed = u.missed, NEW want \in Wants(t),
         NEW kind \in {"request", "read"}, Misses(u, Key(want, kind)) > Misses(t, Key(want, kind))
  PROVE  /\ <<want, kind>> \in Struck(t, v)
         /\ Misses(u, Key(want, kind)) >= Attempts =>
              \E s \in Struck(t, v) : AllTried(v, s[1], s[2])
<1>1. Misses(v, Key(want, kind)) = Misses(u, Key(want, kind))
  BY DEF Misses
<1>2. <<want, kind>> \in Struck(t, v)
  BY <1>1 DEF Struck
<1>3. Misses(u, Key(want, kind)) >= Attempts => AllTried(v, want, kind)
  BY <1>1 DEF AllTried
<1> QED
  BY <1>2, <1>3

LEMMA TransientCause ==
  ASSUME ChainInv, TasksInv, CauseInv, NEW p \in Proc, Transient(p)
  PROVE  /\ CauseInv'
         /\ task'[p].pc = "failed" =>
              /\ task'[p].why = "fault"
              /\ \E s \in Struck(task[p], task'[p]) : AllTried(task'[p], s[1], s[2])
<1>1. PICK want \in Wants(task[p]) :
        LET key == Key(want, "request")
            t == Hit(task[p], key)
            n == Tried(t, key) + 1
        IN  Becomes(p, IF GivesUp(n) THEN Failed(t, "fault")
                       ELSE [t EXCEPT !.tries = Counted(t, key, n)])
  BY DEF Transient
<1> DEFINE key == Key(want, "request")
           t == Hit(task[p], key)
           n == Tried(t, key) + 1
           u == [t EXCEPT !.tries = Counted(t, key, n)]
<1>2. Becomes(p, IF GivesUp(n) THEN Failed(t, "fault") ELSE u)
  BY <1>1
<1>3. TaskInv(task[p], chain, moment, revised) /\ TaskCause(task[p], chain, moment)
      /\ task[p].pc \in {"building", "decoding"}
  BY <1>1, WantType DEF TasksInv, CauseInv
<1>4. task[p] = [field \in TaskFields |-> task[p][field]]
  BY <1>3 DEF TaskInv, TaskShape
<1> HIDE DEF key
<1>5. TaskTries(task[p]) /\ TaskCurrent(task[p], chain, moment) /\ CallMinted(task[p].call, chain)
  BY <1>3 DEF TaskCause
<1>6. /\ t = [field \in TaskFields |-> t[field]] /\ t.tries = task[p].tries
      /\ t.missed = Onto([k \in {key} |-> Misses(task[p], key) + 1], task[p].missed)
      /\ t.call = task[p].call /\ t.got = task[p].got /\ t.pc = task[p].pc
  <2>1. IsTask(task[p])
    BY <1>4 DEF IsTask
  <2>2. /\ SameBut(task[p], t, {"missed"})
        /\ t.missed = Onto([k \in {key} |-> Misses(task[p], key) + 1], task[p].missed)
    BY <2>1, HitFields
  <2> HIDE DEF t
  <2> QED
    BY <2>2 DEF SameBut, IsTask, TaskFields
<1> HIDE DEF t, n
<1>7. /\ u.missed = t.missed /\ u.tries = Counted(t, key, n) /\ u.call = t.call /\ u.got = t.got
      /\ u.pc = t.pc
  BY <1>6 DEF TaskFields
<1>8. /\ n \in Nat /\ n <= Misses(t, key) /\ TaskTries(t) /\ TaskTries(u)
      /\ Misses(t, key) \in Nat /\ Misses(t, key) > Misses(task[p], key)
  <2>1. n = Tried(t, key) + 1
    BY DEF n
  <2> HIDE DEF u
  <2>2. /\ n \in Nat /\ n <= Misses(t, key) /\ TaskTries(t)
        /\ Misses(t, key) \in Nat /\ Misses(t, key) > Misses(task[p], key)
        /\ \A v : v.missed = t.missed /\ v.tries = Counted(t, key, n) => TaskTries(v)
    BY <1>5, <1>6, <2>1, CountedTries
  <2> QED
    BY <1>7, <2>2
<1> HIDE DEF u
<1>9. TaskCause(t, chain, moment)
  BY <1>5, <1>6, <1>8 DEF TaskCause, TaskCurrent
<1>10. TaskCause(u, chain, moment)
  BY <1>5, <1>6, <1>7, <1>8 DEF TaskCause, TaskCurrent
<1>11. TaskCause(Failed(t, "fault"), chain, moment)
  BY <1>3, <1>6, <1>9, FailedFields, SameCause
<1>12. UNCHANGED chainVars /\ todo' = todo
  BY DEF Transient
<1>13. CauseInv'
  BY <1>2, <1>10, <1>11, <1>12, StillCause
<1>14. ASSUME task'[p].pc = "failed"
       PROVE  /\ task'[p].why = "fault"
              /\ \E s \in Struck(task[p], task'[p]) : AllTried(task'[p], s[1], s[2])
  <2>1. task'[p] = IF GivesUp(n) THEN Failed(t, "fault") ELSE u
    <3>1. task = [q \in Proc |-> task[q]]
      BY DEF TasksInv
    <3> QED
      BY <1>2, <3>1 DEF Becomes
  <2>2. GivesUp(n)
    BY <1>3, <1>6, <1>7, <1>14, <2>1
  <2>3. Misses(t, key) >= Attempts
    BY <1>8, <2>2, AttemptsAssumption DEF GivesUp
  <2>4. task'[p].why = "fault" /\ task'[p].missed = t.missed
    BY <1>6, <2>1, <2>2, FailedFields
  <2> QED
    BY <1>8, <2>3, <2>4, StruckBy DEF key
<1> QED
  BY <1>13, <1>14

LEMMA TruncatedCause ==
  ASSUME ChainInv, TasksInv, CauseInv, NEW p \in Proc, Truncated(p)
  PROVE  /\ CauseInv'
         /\ task'[p].pc = "failed" =>
              /\ task'[p].why = "fault"
              /\ \E s \in Struck(task[p], task'[p]) :
                   AllTried(task'[p], s[1], s[2]) \/ Unwrapped(s[1], s[2])
<1>1. PICK want \in Wants(task[p]) :
        LET i == want[1]  j == want[2]
            key == Key(want, "read")
            t == Hit(Reached(task[p], want), key)
            n == Tried(t, key) + 1
        IN  Becomes(p, IF j.via = "kernel" \/ GivesUp(n) THEN Failed(t, "fault")
                       ELSE [t EXCEPT !.got[i] = Without(@, Range(j.names)),
                                      !.tries = Counted(t, key, n)])
  BY DEF Truncated
<1> DEFINE i == want[1]
           j == want[2]
           key == Key(want, "read")
           r == Reached(task[p], want)
           t == Hit(r, key)
           g == Without(t.got[i], Range(j.names))
           n == Tried(t, key) + 1
           tries == Counted(t, key, n)
           u == [t EXCEPT !.got[i] = g, !.tries = tries]
<1>2. Becomes(p, IF j.via = "kernel" \/ GivesUp(n) THEN Failed(t, "fault") ELSE u)
  BY <1>1
<1>3. TaskInv(task[p], chain, moment, revised) /\ TaskCause(task[p], chain, moment)
      /\ task[p].pc \in {"building", "decoding"} /\ i \in DOMAIN task[p].call
  BY <1>1, WantType DEF TasksInv, CauseInv
<1>4. /\ task[p] = [field \in TaskFields |-> task[p][field]]
      /\ task[p].got = [k \in DOMAIN task[p].call |-> task[p].got[k]]
  BY <1>3 DEF TaskInv, TaskShape
<1> HIDE DEF i, j, key, r
<1>5. TaskTries(task[p]) /\ TaskCurrent(task[p], chain, moment) /\ CallMinted(task[p].call, chain)
  BY <1>3 DEF TaskCause
<1>6. /\ t = [field \in TaskFields |-> t[field]] /\ t.tries = r.tries
      /\ t.missed = Onto([k \in {key} |-> Misses(r, key) + 1], r.missed)
      /\ t.call = task[p].call /\ t.got = task[p].got /\ t.pc = task[p].pc
      /\ TaskTries(r) /\ Misses(r, key) = Misses(task[p], key)
  <2>1. /\ SameBut(task[p], r, {"missed", "tries"})
        /\ r.missed = Without(task[p].missed, {Key(want, "request")})
        /\ r.tries = Without(task[p].tries, {Key(want, "request")})
    <3>1. IsTask(task[p])
      BY <1>4 DEF IsTask
    <3> QED
      BY <3>1, ReachedFields DEF r
  <2>2. TaskTries(r)
    BY <1>5, <2>1, ReachedTries
  <2>3. key # Key(want, "request")
    BY DEF key, Key
  <2>4. Misses(r, key) = Misses(task[p], key)
    BY <2>1, <2>3 DEF Misses, Without
  <2>5. /\ SameBut(r, t, {"missed"})
        /\ t.missed = Onto([k \in {key} |-> Misses(r, key) + 1], r.missed)
    <3>1. IsTask(r)
      BY <2>1 DEF SameBut
    <3> QED
      BY <3>1, HitFields
  <2> HIDE DEF t
  <2>6. /\ t = [field \in TaskFields |-> t[field]]
        /\ t.tries = r.tries /\ t.call = task[p].call /\ t.got = task[p].got /\ t.pc = task[p].pc
    BY <2>1, <2>5 DEF SameBut, IsTask, TaskFields
  <2> QED
    BY <2>2, <2>4, <2>5, <2>6
<1> HIDE DEF t, n, tries
<1>7. /\ DOMAIN g = DOMAIN t.got[i] \ Range(j.names)
      /\ \A name \in DOMAIN g : g[name] = t.got[i][name]
  BY DEF Without
<1> HIDE DEF g
<1>8. /\ u.missed = t.missed /\ u.tries = tries /\ u.call = t.call /\ u.pc = t.pc
      /\ u.got = [t.got EXCEPT ![i] = g]
  BY <1>6 DEF TaskFields
<1> HIDE DEF u
<1>9. /\ n \in Nat /\ n <= Misses(t, key) /\ TaskTries(t) /\ TaskTries(u)
      /\ Misses(t, key) \in Nat /\ Misses(t, key) > Misses(task[p], key)
  BY <1>6, <1>8, CountedTries DEF n, tries
<1>10. TaskCause(t, chain, moment)
  BY <1>5, <1>6, <1>9 DEF TaskCause, TaskCurrent
<1>11. TaskCurrent(u, chain, moment)
  <2> SUFFICES ASSUME NEW k \in DOMAIN t.call, NEW name \in DOMAIN u.got[k], u.got[k][name].at = moment
               PROVE  u.got[k][name].val = Sees(chain, name, t.call[k].cap)
    BY <1>8 DEF TaskCurrent
  <2>1. name \in DOMAIN t.got[k] /\ u.got[k][name] = t.got[k][name]
    <3>1. CASE k = i
      <4>1. u.got[k] = g
        BY <1>3, <1>4, <1>6, <1>8, <3>1
      <4> QED
        BY <1>7, <3>1, <4>1
    <3>2. CASE k # i
      BY <1>4, <1>6, <1>8, <3>2
    <3> QED
      BY <3>1, <3>2
  <2> QED
    BY <1>5, <1>6, <2>1 DEF TaskCurrent
<1>12. TaskCause(u, chain, moment)
  BY <1>5, <1>6, <1>8, <1>9, <1>11 DEF TaskCause
<1>13. TaskCause(Failed(t, "fault"), chain, moment)
  BY <1>3, <1>6, <1>10, FailedFields, SameCause
<1>14. UNCHANGED chainVars /\ todo' = todo
  BY DEF Truncated
<1>15. CauseInv'
  BY <1>2, <1>12, <1>13, <1>14, StillCause
<1>16. ASSUME task'[p].pc = "failed"
       PROVE  /\ task'[p].why = "fault"
              /\ \E s \in Struck(task[p], task'[p]) :
                   AllTried(task'[p], s[1], s[2]) \/ Unwrapped(s[1], s[2])
  <2>1. task'[p] = IF j.via = "kernel" \/ GivesUp(n) THEN Failed(t, "fault") ELSE u
    <3>1. task = [q \in Proc |-> task[q]]
      BY DEF TasksInv
    <3> QED
      BY <1>2, <3>1 DEF Becomes
  <2>2. j.via = "kernel" \/ GivesUp(n)
    BY <1>3, <1>6, <1>8, <1>16, <2>1
  <2>3. task'[p].why = "fault" /\ task'[p].missed = t.missed
    BY <1>6, <2>1, <2>2, FailedFields
  <2>4. <<want, "read">> \in Struck(task[p], task'[p])
    BY <1>9, <2>3, StruckBy DEF key
  <2>5. CASE j.via = "kernel"
    BY <2>3, <2>4, <2>5 DEF Unwrapped, j
  <2>6. CASE GivesUp(n)
    <3>1. Misses(t, key) >= Attempts
      BY <1>9, <2>6, AttemptsAssumption DEF GivesUp
    <3> QED
      BY <1>9, <2>3, <2>4, <3>1, StruckBy DEF key
  <2> QED
    BY <2>2, <2>5, <2>6
<1> QED
  BY <1>15, <1>16

(* The steps that neither ask nor run anything.                              *)
LEMMA QuietCause ==
  ASSUME ChainInv, TasksInv, CauseInv, NEW p \in Proc,
         Build(p) \/ Abort(p) \/ NeverSent(p) \/ Decode(p)
  PROVE  CauseInv'
<1> DEFINE t == task[p]
<1>1. /\ t.pc \in {"building", "sending", "decoding"} /\ UNCHANGED chainVars /\ todo' = todo
  BY DEF Build, Abort, NeverSent, Decode
<1>2. TaskInv(t, chain, moment, revised) /\ TaskCause(t, chain, moment)
  BY DEF TasksInv, CauseInv
<1>3. t = [field \in TaskFields |-> t[field]] /\ t.pc # "ready"
  BY <1>1, <1>2 DEF TaskInv, TaskShape
<1>4. \/ \E why : Becomes(p, Failed(t, why)) \/ Becomes(p, [t EXCEPT !.pc = why])
      \/ Becomes(p, [t EXCEPT !.nth = @ + 1])
  BY DEF Build, Abort, NeverSent, Decode
<1> HIDE DEF t
<1>5. \A why : TaskCause(Failed(t, why), chain, moment)
  BY <1>2, <1>3, FailedFields, SameCause
<1>6. ASSUME NEW u, u.call = t.call, u.got = t.got, u.tries = t.tries, u.missed = t.missed
      PROVE  TaskCause(u, chain, moment)
  BY <1>2, <1>3, <1>6, SameCause
<1>7. ASSUME NEW why PROVE TaskCause([t EXCEPT !.pc = why], chain, moment)
  <2> DEFINE u == [t EXCEPT !.pc = why]
  <2>1. u.call = t.call /\ u.got = t.got /\ u.tries = t.tries /\ u.missed = t.missed
    BY <1>3 DEF TaskFields
  <2> QED
    BY <1>6, <2>1
<1>8. TaskCause([t EXCEPT !.nth = @ + 1], chain, moment)
  <2> DEFINE u == [t EXCEPT !.nth = @ + 1]
  <2>1. u.call = t.call /\ u.got = t.got /\ u.tries = t.tries /\ u.missed = t.missed
    BY <1>3 DEF TaskFields
  <2> QED
    BY <1>6, <2>1
<1>9. PICK u : Becomes(p, u) /\ TaskCause(u, chain, moment)
  BY <1>4, <1>5, <1>7, <1>8
<1> QED
  BY <1>1, <1>9, StillCause

LEMMA SentCause ==
  ASSUME ChainInv, TasksInv, CauseInv, NEW p \in Proc, Execute(p) \/ AnswerLost(p)
  PROVE  CauseInv'
<1> DEFINE t == task[p]
<1>1. /\ t.pc = "sending" /\ Change(AllOps(t)) /\ todo' = todo
      /\ \/ Becomes(p, [Sent(t) EXCEPT !.pc = "decoding"])
         \/ Becomes(p, Failed(Sent(t), "lost"))
  BY DEF Execute, AnswerLost
<1>2. TaskInv(t, chain, moment, revised)
  BY DEF TasksInv
<1> HIDE DEF t
<1>3. OpsType(AllOps(t)) /\ t = [field \in TaskFields |-> t[field]]
  BY <1>1, <1>2, AllOpsType DEF TaskInv, TaskShape
<1>4. Minted' /\ \A q \in Proc : TaskCause(task[q], chain', moment')
  BY <1>1, <1>3, ChangeCause
<1> DEFINE v == Sent(t)
           w == [v EXCEPT !.pc = "decoding"]
           x == Failed(v, "lost")
<1>5. /\ v = [field \in TaskFields |-> v[field]]
      /\ v.call = t.call /\ v.got = t.got /\ v.tries = t.tries /\ v.missed = t.missed
  BY <1>3 DEF Sent, TaskFields
<1> HIDE DEF v
<1>6. w.call = t.call /\ w.got = t.got /\ w.tries = t.tries /\ w.missed = t.missed
  BY <1>5 DEF TaskFields
<1>7. x.call = t.call /\ x.got = t.got /\ x.tries = t.tries /\ x.missed = t.missed
  BY <1>5, FailedFields
<1> HIDE DEF w, x
<1>8. TaskCause(t, chain', moment') /\ t.pc # "ready"
  BY <1>1, <1>4 DEF t
<1>9. TaskCause(w, chain', moment') /\ TaskCause(x, chain', moment')
  BY <1>6, <1>7, <1>8, SameCause
<1>10. PICK y : Becomes(p, y) /\ TaskCause(y, chain', moment')
  BY <1>1, <1>9 DEF v, w, x
<1>11. task' = [q \in Proc |-> IF q = p THEN y ELSE task[q]]
  <2>1. task = [q \in Proc |-> task[q]] /\ task' = [task EXCEPT ![p] = y]
    BY <1>10 DEF TasksInv, Becomes
  <2> QED
    BY <2>1
<1>12. \A q \in Proc : TaskCause(task'[q], chain', moment')
  BY <1>4, <1>10, <1>11
<1> QED
  BY <1>4, <1>12 DEF CauseInv

LEMMA OthersCause ==
  ASSUME ChainInv, TasksInv, CauseInv, OthersMove, UNCHANGED handleVars
  PROVE  CauseInv'
<1>1. PICK op : Change(<<op>>) /\ OpType(op)
  BY OthersOps DEF ChainInv
<1>2. OpsType(<<op>>)
  BY <1>1 DEF OpsType
<1>3. task' = task /\ todo' = todo
  BY DEF handleVars
<1>4. Minted' /\ \A q \in Proc : TaskCause(task[q], chain', moment')
  BY <1>1, <1>2, <1>3, ChangeCause
<1>5. \A q \in Proc : TaskCause(task'[q], chain', moment')
  BY <1>3, <1>4, Zenon
<1> QED
  BY <1>4, <1>5 DEF CauseInv

LEMMA CauseNextHolds == ClientInv /\ CauseInv /\ [Next]_vars => CauseInv'
<1> SUFFICES ASSUME ChainInv, TasksInv, CauseInv, [Next]_vars PROVE CauseInv'
  BY DEF ClientInv
<1>1. CASE Others_
  BY <1>1, OthersCause DEF Others_
<1>2. CASE Calls_
  <2>1. PICK p \in Proc : Advance(p) \/ Disturb(p)
    BY <1>2 DEF Calls_, HandlesNext
  <2> QED
    BY <2>1, BeginCause, ReceiveCause, QuietCause, SentCause, TransientCause, TruncatedCause
       DEF Advance, Disturb
<1>3. CASE Feed_ \/ UNCHANGED vars
  <2>1. UNCHANGED <<chain, moment, todo, task>>
    BY <1>3 DEF Feed_, vars, chainVars, handleVars
  <2>2. \A p \in Proc : TaskCause(task[p], chain', moment')
    <3>1. \A p \in Proc : TaskCause(task[p], chain, moment)
      BY DEF CauseInv
    <3>2. chain' = chain /\ moment' = moment
      BY <2>1
    <3> QED
      BY <3>1, <3>2, Zenon
  <2>3. \A p \in Proc : TaskCause(task'[p], chain', moment')
    BY <2>1, <2>2, Zenon
  <2>4. Minted'
    BY <2>1 DEF CauseInv, Minted
  <2> QED
    BY <2>3, <2>4 DEF CauseInv
<1> QED
  BY <1>1, <1>2, <1>3 DEF Next

LEMMA CausesHold == Spec => [](ClientInv /\ CauseInv)
<1>1. ClientInv /\ CauseInv /\ [Next]_vars => (ClientInv /\ CauseInv)'
  BY ClientNextKeeps, CauseNextHolds
<1>2. Init => ClientInv /\ CauseInv
  BY ClientInitKeeps, CauseInitHolds
<1> QED
  BY <1>1, <1>2, PTL DEF Spec

-----------------------------------------------------------------------------
(* What a call that relies on its reads sends leaves the escrow as it found  *)
(* it, but for the price after a rent and the inbox after a collect.         *)
ReliantOps == {"nothing", "rent", "collect", "burnStale"}

LEMMA ReliantAfter ==
  ASSUME NEW s, EscrowType(s), NEW op, op.fn \in ReliantOps, NEW u, u = After(s, op)
  PROVE  /\ u.retiring = s.retiring /\ u.retired = s.retired /\ u.claimed = s.claimed
         /\ op.fn # "rent" => Floor(u) = Floor(s)
         /\ op.fn # "collect" => u.inbox = s.inbox
<1>1. s = [field \in EscrowFields |-> s[field]]
  BY DEF EscrowType
<1>2. CASE op.fn = "nothing"
  <2>1. u = s
    BY <1>2 DEF After
  <2> QED
    BY <2>1
<1>3. CASE op.fn = "rent"
  <2>1. u = Rented(s, op.pay, op.count)
    BY <1>3 DEF After
  <2>2. /\ u.retiring = s.retiring /\ u.retired = s.retired /\ u.claimed = s.claimed
        /\ u.inbox = s.inbox
    BY <1>1, <2>1 DEF Rented, EscrowFields
  <2> QED
    BY <1>3, <2>2
<1>4. CASE op.fn = "collect"
  <2>1. u = [s EXCEPT !.inbox = @ \ op.messages]
    BY <1>4 DEF After
  <2>2. /\ u.retiring = s.retiring /\ u.retired = s.retired /\ u.claimed = s.claimed
        /\ u.tenant = s.tenant /\ u.challenger = s.challenger /\ u.rates = s.rates
        /\ u.auction = s.auction /\ u.market = s.market
    BY <1>1, <2>1 DEF EscrowFields
  <2>3. Floor(u) = Floor(s)
    BY <2>2 DEF Floor
  <2> QED
    BY <1>4, <2>2, <2>3
<1>5. CASE op.fn = "burnStale"
  <2>1. u = [s EXCEPT !.burned = @ \cup {op.cap}]
    BY <1>5 DEF After
  <2>2. /\ u.retiring = s.retiring /\ u.retired = s.retired /\ u.claimed = s.claimed
        /\ u.tenant = s.tenant /\ u.challenger = s.challenger /\ u.rates = s.rates
        /\ u.auction = s.auction /\ u.market = s.market /\ u.inbox = s.inbox
    BY <1>1, <2>1 DEF EscrowFields
  <2>3. Floor(u) = Floor(s)
    BY <2>2 DEF Floor
  <2> QED
    BY <2>2, <2>3
<1> QED
  BY <1>2, <1>3, <1>4, <1>5 DEF ReliantOps

(* Between its reads and its execution only somebody else can spoil it.      *)
LEMMA NothingBetween ==
  ASSUME NEW s, EscrowType(s), NEW ops, OpsType(ops), ~s.retiring, ~s.retired,
         \A i \in DOMAIN ops :
           /\ ops[i].fn \in ReliantOps
           /\ ops[i].fn = "rent" => ops[i].pay = Floor(s) * ops[i].count
           /\ ops[i].fn = "collect" => ops[i].messages \subseteq s.inbox
           /\ ops[i].fn = "burnStale" =>
                Len(ops) = 1 /\ ops[i].cap \in Caps(s) \ s.burned /\ Stale(s, ops[i].cap),
         \A i, k \in DOMAIN ops : ops[i].fn = "rent" /\ ops[k].fn = "rent" => i = k,
         \A i, k \in DOMAIN ops : ops[i].fn = "collect" /\ ops[k].fn = "collect" => i = k
  PROVE  Runs(s, ops)
<1> DEFINE c == Course(s, ops)
           len == Len(ops)
           Unrented(n) == \A k \in 1 .. n : ops[k].fn # "rent"
           Uncollected(n) == \A k \in 1 .. n : ops[k].fn # "collect"
           Stands(n) == /\ ~c[n].retiring /\ ~c[n].retired /\ ~c[n].claimed
                        /\ Unrented(n) => Floor(c[n]) = Floor(s)
                        /\ Uncollected(n) => c[n].inbox = s.inbox
           S == {n \in 0 .. len : Stands(n)}
<1>1. len \in Nat /\ DOMAIN ops = 1 .. len
  BY DEF OpsType
<1>2. c = [n \in 0 .. len |-> IF n = 0 THEN s ELSE After(c[n - 1], ops[n])]
  BY <1>1, CourseSteps
<1>3. SaneAll(s, ops)
  BY DEF SaneAll, Sane, ReliantOps
<1>4. \A n \in 0 .. len : EscrowType(c[n])
  BY <1>3, CourseType
<1>5. \A n \in 1 .. len : ops[n].fn \in ReliantOps
  BY <1>1
<1> HIDE DEF c, len
<1>6. c[0] = s
  BY <1>1, <1>2
<1>7. 0 \in S
  <2>1. ~s.claimed
    BY DEF EscrowType
  <2>2. Stands(0)
    BY <1>6, <2>1
  <2> HIDE DEF Stands
  <2> QED
    BY <1>1, <2>2
<1>8. ASSUME NEW n \in 1 .. len, n - 1 \in S PROVE n \in S
  <2>1. n \in 0 .. len /\ n # 0 /\ n - 1 \in 0 .. len
    BY <1>1
  <2>2. c[n] = After(c[n - 1], ops[n]) /\ EscrowType(c[n - 1]) /\ ops[n].fn \in ReliantOps
    BY <1>2, <1>4, <1>5, <2>1
  <2>3. /\ c[n].retiring = c[n - 1].retiring /\ c[n].retired = c[n - 1].retired
        /\ c[n].claimed = c[n - 1].claimed
        /\ ops[n].fn # "rent" => Floor(c[n]) = Floor(c[n - 1])
        /\ ops[n].fn # "collect" => c[n].inbox = c[n - 1].inbox
    BY <2>2, ReliantAfter
  <2>4. Stands(n - 1)
    BY <1>8
  <2>5. Unrented(n) => Unrented(n - 1) /\ ops[n].fn # "rent"
    BY <2>1
  <2>6. Uncollected(n) => Uncollected(n - 1) /\ ops[n].fn # "collect"
    BY <2>1
  <2> HIDE DEF Unrented, Uncollected
  <2>7. Stands(n)
    BY <2>3, <2>4, <2>5, <2>6
  <2> HIDE DEF Stands
  <2> QED
    BY <2>1, <2>7
<1> HIDE DEF S
<1>9. \A n \in 0 .. len : n \in S
  BY <1>1, <1>7, <1>8, UpTo
<1>10. ASSUME NEW i \in DOMAIN ops PROVE ~c[i - 1].claimed /\ Allowed(c[i - 1], ops[i])
  <2>1. i \in 1 .. len /\ i - 1 \in 0 .. len
    BY <1>1
  <2>2. Stands(i - 1)
    BY <1>9, <2>1 DEF S
  <2>3. CASE ops[i].fn = "nothing"
    BY <2>2, <2>3 DEF Allowed
  <2>4. CASE ops[i].fn = "rent"
    <3>1. Unrented(i - 1)
      BY <1>1, <2>1, <2>4
    <3>2. Floor(c[i - 1]) = Floor(s) /\ ops[i].pay = Floor(s) * ops[i].count
      BY <2>2, <2>4, <3>1
    <3>3. ops[i].pay \in Nat
      BY <2>4 DEF OpsType, OpType
    <3>4. ops[i].pay = Floor(c[i - 1]) * ops[i].count /\ ops[i].pay >= ops[i].pay
      BY <3>2, <3>3
    <3>5. ops[i].pay >= Floor(c[i - 1]) * ops[i].count
      BY <3>4, Zenon
    <3>6. ~c[i - 1].claimed /\ ~c[i - 1].retiring /\ ~c[i - 1].retired
      BY <2>2
    <3> QED
      BY <2>4, <3>5, <3>6 DEF Allowed
  <2>5. CASE ops[i].fn = "collect"
    <3>1. Uncollected(i - 1)
      BY <1>1, <2>1, <2>5
    <3>2. c[i - 1].inbox = s.inbox /\ ops[i].messages \subseteq s.inbox /\ ~c[i - 1].claimed
      BY <2>2, <2>5, <3>1
    <3> QED
      BY <2>5, <3>2 DEF Allowed
  <2>6. CASE ops[i].fn = "burnStale"
    <3>1. len = 1 /\ ops[i].cap \in Caps(s) \ s.burned /\ Stale(s, ops[i].cap)
      BY <2>6 DEF len
    <3>2. i - 1 = 0
      BY <2>1, <3>1
    <3>3. c[i - 1] = s /\ ~c[i - 1].claimed
      BY <1>6, <2>2, <3>2
    <3> QED
      BY <2>6, <3>1, <3>3 DEF Allowed
  <2> QED
    BY <2>3, <2>4, <2>5, <2>6 DEF ReliantOps
<1> QED
  BY <1>10 DEF Runs, c

(* What the views a call relies on show of the escrow.                       *)
LEMMA SeesIs ==
  ASSUME NEW s, NEW cap
  PROVE  /\ Sees(s, "floorPriceMist", cap) = Floor(s)
         /\ Sees(s, "messages", cap) = s.inbox
         /\ Sees(s, "usufructCapIsStale", cap) = Stale(s, cap)
  BY DEF Sees

(* What a part that relies on answers of this very moment sends.             *)
LEMMA ReliantSends ==
  ASSUME NEW part \in PartType, Relies(part), NEW got, HasRead(part, got), NEW s,
         \A name \in DOMAIN got : got[name].val = Sees(s, name, part.cap), NEW op,
         op = Sends(part, got)
  PROVE  /\ op.fn \in ReliantOps
         /\ op.fn = "rent" => part.verb = "rent" /\ op.pay = Floor(s) * op.count
         /\ op.fn = "collect" => part.verb = "collect" /\ op.messages = s.inbox
         /\ op.fn = "burnStale" => part.verb = "burnIfStale" /\ op.cap = part.cap /\ Stale(s, op.cap)
<1>1. part.verb \in {"rent", "collect", "burnIfStale"} /\ (part.verb = "rent" => part.pay = None)
  BY DEF Relies
<1>2. CASE Idles(part, got)
  <2>1. op = Step("nothing")
    BY <1>2 DEF Sends
  <2>2. op.fn = "nothing"
    BY <2>1 DEF Step
  <2> QED
    BY <2>2 DEF ReliantOps
<1>3. CASE ~Idles(part, got) /\ part.verb = "rent"
  <2>1. op = [fn |-> "rent", pay |-> Paid(part, got), count |-> part.count]
    BY <1>3 DEF Sends
  <2>2. got["floorPriceMist"].val = Floor(s)
    BY <1>1, <1>3, SeesIs DEF HasRead
  <2>3. Paid(part, got) = Floor(s) * part.count
    BY <1>1, <1>3, <2>2 DEF Paid, Value
  <2>4. op.fn = "rent" /\ op.pay = Floor(s) * part.count /\ op.count = part.count
    BY <2>1, <2>3
  <2> QED
    BY <1>3, <2>4 DEF ReliantOps
<1>4. CASE ~Idles(part, got) /\ part.verb = "collect"
  <2>1. op = [fn |-> "collect", messages |-> Found(got)]
    BY <1>4 DEF Sends
  <2>2. Found(got) = s.inbox
    BY <1>4, SeesIs DEF HasRead, Found, Value
  <2> QED
    BY <1>4, <2>1, <2>2 DEF ReliantOps
<1>5. CASE ~Idles(part, got) /\ part.verb = "burnIfStale"
  <2>1. op = [fn |-> "burnStale", cap |-> part.cap]
    BY <1>5 DEF Sends
  <2>2. Value(got, "usufructCapIsStale")
    BY <1>5 DEF Idles
  <2>3. Stale(s, part.cap)
    BY <1>5, <2>2, SeesIs DEF HasRead, Value
  <2> QED
    BY <1>5, <2>1, <2>3 DEF ReliantOps
<1> QED
  BY <1>1, <1>2, <1>3, <1>4, <1>5

LEMMA AbortsForCause ==
  ASSUME ChainInv, TasksInv, CauseInv, NEW p \in Proc, task[p].pc = "sending",
         ~Runs(chain, AllOps(task[p])),
         Cardinality(Parts(task[p], "rent")) <= 1, Cardinality(Parts(task[p], "collect")) <= 1,
         \A i \in DOMAIN task[p].call : Relies(task[p].call[i])
  PROVE  \/ Overtaken(task[p]) \/ chain.retiring \/ chain.retired
         \/ \E i \in DOMAIN task[p].call : task[p].call[i].cap \in chain.burned
<1> SUFFICES ASSUME ~Overtaken(task[p]), ~chain.retiring, ~chain.retired,
                    \A i \in DOMAIN task[p].call : task[p].call[i].cap \notin chain.burned
             PROVE  FALSE
  OBVIOUS
<1> DEFINE t == task[p]
           ops == AllOps(t)
<1>1. /\ TaskInv(t, chain, moment, revised) /\ TaskCause(t, chain, moment)
      /\ EscrowType(chain) /\ moment \in Nat /\ t.pc = "sending" /\ ~Runs(chain, ops)
      /\ \A i \in DOMAIN t.call : Relies(t.call[i]) /\ t.call[i].cap \notin chain.burned
      /\ Cardinality(Parts(t, "rent")) <= 1 /\ Cardinality(Parts(t, "collect")) <= 1
      /\ ~Overtaken(t)
  BY DEF ChainInv, TasksInv, CauseInv
<1> HIDE DEF t
<1>2. /\ OpsType(ops) /\ DOMAIN ops = DOMAIN t.call
      /\ \A i \in DOMAIN t.call : ops[i] = Sends(t.call[i], t.got[i])
      /\ \A i \in DOMAIN t.call : t.call[i] \in PartType /\ HasRead(t.call[i], t.got[i])
  BY <1>1, AllOpsType
<1>3. /\ t.call \in CallType /\ TaskAnswers(t, chain, moment, revised)
      /\ t.got = [i \in DOMAIN t.call |-> t.got[i]]
  BY <1>1, UnderWay DEF TaskShape
<1>4. \A i \in DOMAIN t.call : \A name \in DOMAIN t.got[i] : t.got[i][name].at = moment
  <2> SUFFICES ASSUME NEW i \in DOMAIN t.call, NEW name \in DOMAIN t.got[i]
               PROVE  t.got[i][name].at = moment
    OBVIOUS
  <2>1. t.got[i][name].at \in Nat /\ t.got[i][name].at <= moment
    BY <1>1, <1>3 DEF TaskAnswers, AnswerHolds
  <2>2. i \in DOMAIN t.got
    BY <1>3
  <2>3. ~(t.got[i][name].at < moment)
    BY <1>1, <2>2 DEF Overtaken
  <2> QED
    BY <1>1, <2>1, <2>3
<1>5. TaskCurrent(t, chain, moment) /\ CallMinted(t.call, chain)
  BY <1>1 DEF TaskCause
<1>6. \A i \in DOMAIN t.call : \A name \in DOMAIN t.got[i] :
        t.got[i][name].val = Sees(chain, name, t.call[i].cap)
  BY <1>4, <1>5 DEF TaskCurrent
<1>7. \A i \in DOMAIN t.call :
        /\ ops[i].fn \in ReliantOps
        /\ ops[i].fn = "rent" => t.call[i].verb = "rent" /\ ops[i].pay = Floor(chain) * ops[i].count
        /\ ops[i].fn = "collect" => t.call[i].verb = "collect" /\ ops[i].messages = chain.inbox
        /\ ops[i].fn = "burnStale" =>
             /\ t.call[i].verb = "burnIfStale" /\ ops[i].cap = t.call[i].cap
             /\ Stale(chain, ops[i].cap)
  BY <1>1, <1>2, <1>6, ReliantSends
<1>8. Len(ops) = Len(t.call)
  <2>1. DOMAIN t.call = 1 .. Len(t.call) /\ Len(t.call) \in Nat
    BY <1>3, CallTypes
  <2> HIDE DEF ops
  <2>2. DOMAIN ops = 1 .. Len(ops) /\ Len(ops) \in Nat
    BY <1>2 DEF OpsType
  <2> QED
    BY <1>2, <2>1, <2>2
<1>9. \A i \in DOMAIN t.call : t.call[i].verb = "burnIfStale" =>
        Len(t.call) = 1 /\ t.call[i].cap \in Caps(chain) \ chain.burned
  BY <1>1, <1>3, <1>5, CallTypes DEF CallMinted, OfCap
<1> HIDE DEF ops
<1>10. \A i, k \in DOMAIN ops : ops[i].fn = "rent" /\ ops[k].fn = "rent" => i = k
  <2> SUFFICES ASSUME NEW i \in DOMAIN ops, NEW k \in DOMAIN ops, ops[i].fn = "rent", ops[k].fn = "rent"
               PROVE  i = k
    OBVIOUS
  <2>1. i \in Parts(t, "rent") /\ k \in DOMAIN t.call /\ t.call[k].verb = "rent"
    BY <1>2, <1>7 DEF Parts
  <2> QED
    BY <1>1, <1>3, <2>1, OneOfVerb
<1>11. \A i, k \in DOMAIN ops : ops[i].fn = "collect" /\ ops[k].fn = "collect" => i = k
  <2> SUFFICES ASSUME NEW i \in DOMAIN ops, NEW k \in DOMAIN ops,
                      ops[i].fn = "collect", ops[k].fn = "collect"
               PROVE  i = k
    OBVIOUS
  <2>1. i \in Parts(t, "collect") /\ k \in DOMAIN t.call /\ t.call[k].verb = "collect"
    BY <1>2, <1>7 DEF Parts
  <2> QED
    BY <1>1, <1>3, <2>1, OneOfVerb
<1>12. \A i \in DOMAIN ops :
         /\ ops[i].fn \in ReliantOps
         /\ ops[i].fn = "rent" => ops[i].pay = Floor(chain) * ops[i].count
         /\ ops[i].fn = "collect" => ops[i].messages \subseteq chain.inbox
         /\ ops[i].fn = "burnStale" =>
              Len(ops) = 1 /\ ops[i].cap \in Caps(chain) \ chain.burned /\ Stale(chain, ops[i].cap)
  BY <1>2, <1>7, <1>8, <1>9
<1>13. Runs(chain, ops)
  BY <1>1, <1>2, <1>10, <1>11, <1>12, NothingBetween
<1> QED
  BY <1>1, <1>13

-----------------------------------------------------------------------------
(* Steps that may fail, and what each failure says.                          *)
LEMMA BeginFails ==
  ASSUME TasksInv, NEW p \in Proc, Begin(p), task'[p].pc = "failed"
  PROVE  task'[p].why = "notConnected"
<1> DEFINE t == Fresh(Head(todo[p]))
<1>1. Becomes(p, t) \/ Becomes(p, Failed(t, "notConnected"))
  BY DEF Begin
<1>2. t = [field \in TaskFields |-> t[field]] /\ t.pc = "building"
  BY DEF Fresh, TaskFields
<1> HIDE DEF t
<1>3. task'[p] = t \/ task'[p] = Failed(t, "notConnected")
  BY <1>1, BecomesIs
<1> QED
  BY <1>2, <1>3, FailedFields

LEMMA ReceiveFails ==
  ASSUME TasksInv, NEW p \in Proc, Receive(p), task'[p].pc = "failed"
  PROVE  task'[p].why = "gone"
<1> DEFINE t == task[p]
<1>1. PICK want \in Wants(t) :
        LET i == want[1]  j == want[2]  part == t.call[i]
        IN  \E answers \in {Answers(part, j, Request(t.got[i], j))} :
              Becomes(p, IF ~JobBinds(part, j) THEN Failed(t, "unbound")
                         ELSE IF Gone(part, j) THEN Failed(t, "gone")
                         ELSE WithAnswer(t, i, j, answers))
  BY DEF Receive
<1> DEFINE i == want[1]
           j == want[2]
           part == t.call[i]
           answers == Answers(part, j, Request(t.got[i], j))
           u == WithAnswer(t, i, j, answers)
<1>2. Becomes(p, IF ~JobBinds(part, j) THEN Failed(t, "unbound")
                 ELSE IF Gone(part, j) THEN Failed(t, "gone") ELSE u)
  BY <1>1
<1>3. TaskInv(t, chain, moment, revised)
  BY DEF TasksInv
<1>4. t.pc \in {"building", "decoding"} /\ i \in DOMAIN t.call /\ JobType(j)
  BY <1>1, <1>3, WantType
<1>5. t.call \in CallType /\ t = [field \in TaskFields |-> t[field]]
  BY <1>3, <1>4, UnderWay DEF TaskShape
<1> HIDE DEF t, i, j, answers
<1>6. part \in PartType
  BY <1>4, <1>5, CallTypes
<1> HIDE DEF part
<1>7. JobBinds(part, j)
  BY <1>4, <1>6, JobsBind
<1>8. u.pc = t.pc
  <2>1. IsTask(t)
    BY <1>5 DEF IsTask
  <2>2. SameBut(t, u, {"missed", "tries", "got"})
    BY <2>1, AnswerFields
  <2> HIDE DEF u
  <2> QED
    BY <2>2 DEF SameBut, TaskFields
<1> HIDE DEF u
<1>9. task'[p] = Failed(t, "gone") \/ task'[p] = u
  BY <1>2, <1>7, BecomesIs
<1> QED
  BY <1>4, <1>5, <1>8, <1>9, FailedFields

LEMMA BuildFails ==
  ASSUME TasksInv, NEW p \in Proc, Build(p), task'[p].pc = "failed"
  PROVE  task'[p].why \in {"noBalance", "notConnected"}
<1> DEFINE t == task[p]
           part == t.call[t.nth]
           got == t.got[t.nth]
           idle == \A i \in DOMAIN t.call : Idles(t.call[i], t.got[i])
           u == IF ~WellBound(Ptb(part, got)) THEN Failed(t, "unbound")
                ELSE IF part.verb = "rent" /\ Purse # None /\ Paid(part, got) > Purse
                THEN Failed(t, "noBalance")
                ELSE IF t.nth < Len(t.call) THEN [t EXCEPT !.nth = @ + 1]
                ELSE IF part.verb \in Reads THEN [t EXCEPT !.pc = "done"]
                ELSE IF idle THEN [t EXCEPT !.pc = "decoding"]
                ELSE IF p \notin Signers THEN Failed(t, "notConnected")
                ELSE [t EXCEPT !.pc = "sending"]
<1>1. t.pc = "building" /\ Becomes(p, u) /\ TaskInv(t, chain, moment, revised)
  BY DEF Build, TasksInv
<1>2. task'[p] = u
  <2> HIDE DEF u
  <2> QED
    BY <1>1, BecomesIs
<1> HIDE DEF t
<1>3. t = [field \in TaskFields |-> t[field]] /\ t.call \in CallType /\ t.nth \in DOMAIN t.call
  BY <1>1, UnderWay DEF TaskShape
<1>4. part \in PartType
  BY <1>3, CallTypes
<1> HIDE DEF part, got, idle
<1>5. WellBound(Ptb(part, got))
  BY <1>4, EveryWriteBinds DEF Bound
<1>6. \/ u \in {Failed(t, "noBalance"), Failed(t, "notConnected")}
      \/ u = [t EXCEPT !.nth = @ + 1]
      \/ u \in {[t EXCEPT !.pc = pc] : pc \in {"done", "decoding", "sending"}}
  BY <1>5
<1> HIDE DEF u
<1>7. CASE u \in {Failed(t, "noBalance"), Failed(t, "notConnected")}
  BY <1>2, <1>3, <1>7, FailedFields
<1>8. CASE u = [t EXCEPT !.nth = @ + 1]
  BY <1>1, <1>2, <1>3, <1>8 DEF TaskFields
<1>9. CASE u \in {[t EXCEPT !.pc = pc] : pc \in {"done", "decoding", "sending"}}
  BY <1>2, <1>3, <1>9 DEF TaskFields
<1> QED
  BY <1>6, <1>7, <1>8, <1>9

(* Only an execution that an operation refuses is called an abort.           *)
LEMMA SendingFails ==
  ASSUME TasksInv, NEW p \in Proc, Execute(p) \/ Abort(p) \/ NeverSent(p) \/ AnswerLost(p) \/ Decode(p),
         task'[p].pc = "failed"
  PROVE  task'[p].why = "lost" \/ (Abort(p) /\ task'[p].why = "abort")
<1> DEFINE t == task[p]
           v == Sent(t)
<1>1. /\ t.pc \in {"sending", "decoding"}
      /\ \/ Becomes(p, [v EXCEPT !.pc = "decoding"])
         \/ Becomes(p, [t EXCEPT !.pc = "done"])
         \/ Becomes(p, Failed(t, "lost"))
         \/ Becomes(p, Failed(v, "lost"))
         \/ (Abort(p) /\ Becomes(p, Failed(t, "abort")))
  BY DEF Execute, Abort, NeverSent, AnswerLost, Decode
<1>2. t = [field \in TaskFields |-> t[field]]
  BY <1>1 DEF TasksInv, TaskInv, TaskShape
<1> HIDE DEF t
<1>3. v = [field \in TaskFields |-> v[field]]
  BY <1>2 DEF Sent, TaskFields
<1> HIDE DEF v
<1>4. \A u : Becomes(p, u) => task'[p] = u
  BY BecomesIs
<1>5. [v EXCEPT !.pc = "decoding"].pc = "decoding" /\ [t EXCEPT !.pc = "done"].pc = "done"
  BY <1>2, <1>3 DEF TaskFields
<1>6. \A why : Failed(t, why).why = why /\ Failed(v, why).why = why
  BY <1>2, <1>3, FailedFields
<1>7. CASE Becomes(p, [v EXCEPT !.pc = "decoding"]) \/ Becomes(p, [t EXCEPT !.pc = "done"])
  <2>1. task'[p] = [v EXCEPT !.pc = "decoding"] \/ task'[p] = [t EXCEPT !.pc = "done"]
    BY <1>4, <1>7
  <2> QED
    BY <1>5, <2>1
<1>8. CASE Becomes(p, Failed(t, "lost")) \/ Becomes(p, Failed(v, "lost"))
  <2>1. task'[p] = Failed(t, "lost") \/ task'[p] = Failed(v, "lost")
    BY <1>4, <1>8
  <2> QED
    BY <1>6, <2>1
<1>9. CASE Abort(p) /\ Becomes(p, Failed(t, "abort"))
  <2>1. task'[p] = Failed(t, "abort")
    BY <1>4, <1>9
  <2> QED
    BY <1>6, <1>9, <2>1
<1> QED
  BY <1>1, <1>7, <1>8, <1>9

(* No call is ever bound to a function of the contract with arguments it     *)
(* does not declare; a read fails on its transport only when the request, or *)
(* the read, that failed last has failed all of its attempts in a row, or is *)
(* a truncated answer to a reader nobody wrapped (governanceCap.ts:124,      *)
(* :163, the sampled curves); and what is sent on the strength of its reads  *)
(* aborts only when somebody moved since, the escrow rents no more, or the   *)
(* cap was burned.                                                           *)
THEOREM FailuresHaveCauses == Spec => FailsOnlyForCause
<1>1. ASSUME ClientInv, CauseInv, [Next]_vars, NEW p \in Proc, task[p].pc # "failed",
             task'[p].pc = "failed"
      PROVE  /\ task'[p].why # "unbound"
             /\ task'[p].why = "fault" => \E s \in Struck(task[p], task'[p]) :
                  AllTried(task'[p], s[1], s[2]) \/ Unwrapped(s[1], s[2])
             /\ task'[p].why = "abort"
                /\ Cardinality(Parts(task[p], "rent")) <= 1
                /\ Cardinality(Parts(task[p], "collect")) <= 1
                /\ (\A i \in DOMAIN task[p].call : Relies(task[p].call[i]))
                => \/ Overtaken(task[p]) \/ chain.retiring \/ chain.retired
                   \/ \E i \in DOMAIN task[p].call : task[p].call[i].cap \in chain.burned
  <2>1. ChainInv /\ TasksInv
    BY <1>1 DEF ClientInv
  <2>2. Advance(p) \/ Disturb(p)
    BY <1>1, <2>1, OwnStep
  <2>3. CASE Begin(p)
    BY <1>1, <2>1, <2>3, BeginFails
  <2>4. CASE Receive(p)
    BY <1>1, <2>1, <2>4, ReceiveFails
  <2>5. CASE Build(p)
    BY <1>1, <2>1, <2>5, BuildFails
  <2>6. CASE Transient(p)
    BY <1>1, <2>1, <2>6, TransientCause
  <2>7. CASE Truncated(p)
    BY <1>1, <2>1, <2>7, TruncatedCause
  <2>8. CASE Execute(p) \/ Abort(p) \/ NeverSent(p) \/ AnswerLost(p) \/ Decode(p)
    <3>1. task'[p].why = "lost" \/ (Abort(p) /\ task'[p].why = "abort")
      BY <1>1, <2>1, <2>8, SendingFails
    <3>2. Abort(p) => task[p].pc = "sending" /\ ~Runs(chain, AllOps(task[p]))
      BY DEF Abort
    <3> QED
      BY <1>1, <2>1, <3>1, <3>2, AbortsForCause
  <2> QED
    BY <2>2, <2>3, <2>4, <2>5, <2>6, <2>7, <2>8 DEF Advance, Disturb
<1>2. ClientInv /\ CauseInv /\ [Next]_vars =>
        [\A p \in Proc :
           task[p].pc # "failed" /\ task'[p].pc = "failed" =>
             /\ task'[p].why # "unbound"
             /\ task'[p].why = "fault" => \E s \in Struck(task[p], task'[p]) :
                  AllTried(task'[p], s[1], s[2]) \/ Unwrapped(s[1], s[2])
             /\ task'[p].why = "abort"
                /\ Cardinality(Parts(task[p], "rent")) <= 1
                /\ Cardinality(Parts(task[p], "collect")) <= 1
                /\ (\A i \in DOMAIN task[p].call : Relies(task[p].call[i]))
                => \/ Overtaken(task[p]) \/ chain.retiring \/ chain.retired
                   \/ \E i \in DOMAIN task[p].call : task[p].call[i].cap \in chain.burned]_vars
  BY <1>1
<1> QED
  BY <1>2, CausesHold, PTL DEF Spec, FailsOnlyForCause
=============================================================================
