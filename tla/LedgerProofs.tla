---------------------------- MODULE LedgerProofs ----------------------------
(***************************************************************************)
(* What a ledger rebuilt from the log says, for any prices, any page size  *)
(* and any number of transactions.  The recursive functions of Ledger are  *)
(* shown to exist, and what they compute, by the least counterexample.     *)
(***************************************************************************)
EXTENDS Ledger, TLAPS, WellFoundedInduction, FiniteSetTheorems, SequenceTheorems

(* A set of natural numbers that is not empty has a least member.            *)
LEMMA LeastNumber ==
  ASSUME NEW S \in SUBSET Nat, S # {}
  PROVE  \E m \in S : m \in Nat /\ \A k \in Nat : k < m => k \notin S
<1>1. PICK m \in S : \A k \in S : ~(<<k, m>> \in OpToRel(<, Nat))
  BY NatLessThanWellFounded, WFMin
<1>2. \A k \in Nat : k < m => k \notin S
  BY <1>1 DEF OpToRel
<1> QED
  BY <1>2

(* What holds at nought, and of a number when it holds of the one before.    *)
LEMMA UpTo ==
  ASSUME NEW len \in Nat, NEW S, 0 \in S, \A n \in 1 .. len : n - 1 \in S => n \in S
  PROVE  \A n \in 0 .. len : n \in S
<1> DEFINE Missing == {n \in 0 .. len : n \notin S}
<1>1. SUFFICES ASSUME Missing # {} PROVE FALSE
  OBVIOUS
<1>2. PICK m \in Missing : m \in Nat /\ \A k \in Nat : k < m => k \notin Missing
  <2> Missing \in SUBSET Nat
    OBVIOUS
  <2> HIDE DEF Missing
  <2> QED
    BY <1>1, LeastNumber
<1>3. m # 0 /\ m \in 1 .. len
  BY <1>2
<1>4. m - 1 \in S
  BY <1>2, <1>3
<1> QED
  BY <1>2, <1>3, <1>4

(* A beginning of a sequence is the one before and one more.                 *)
LEMMA Beginnings ==
  ASSUME NEW S, NEW seq \in Seq(S), NEW n \in 1 .. Len(seq)
  PROVE  /\ SubSeq(seq, 1, n) = Append(SubSeq(seq, 1, n - 1), seq[n])
         /\ SubSeq(seq, 1, n - 1) \in Seq(S) /\ seq[n] \in S /\ Len(SubSeq(seq, 1, n - 1)) = n - 1
  OBVIOUS

LEMMA FirstAndLast ==
  ASSUME NEW S, NEW seq \in Seq(S)
  PROVE  SubSeq(seq, 1, 0) = <<>> /\ SubSeq(seq, 1, Len(seq)) = seq
  OBVIOUS

-----------------------------------------------------------------------------
(* What is picked of a sequence.                                             *)

PickingOf(seq, places, len, f) ==
  f = [n \in 0 .. len |->
         IF n = 0 THEN <<>> ELSE IF n \in places THEN Append(f[n - 1], seq[n]) ELSE f[n - 1]]

LEMMA PickingExists ==
  ASSUME NEW seq, NEW places, NEW len \in Nat
  PROVE  \E f : PickingOf(seq, places, len, f)
<1> DEFINE S == {n \in Nat : \E f : PickingOf(seq, places, n, f)}
<1>1. 0 \in S
  <2> DEFINE g == [n \in 0 .. 0 |-> <<>>]
  <2>1. g = [n \in 0 .. 0 |-> IF n = 0 THEN <<>>
                              ELSE IF n \in places THEN Append(g[n - 1], seq[n]) ELSE g[n - 1]]
    OBVIOUS
  <2> HIDE DEF g
  <2> QED
    BY <2>1 DEF PickingOf
<1>2. ASSUME NEW n \in 1 .. len, n - 1 \in S PROVE n \in S
  <2>1. PICK f : PickingOf(seq, places, n - 1, f)
    BY <1>2
  <2> DEFINE g == [k \in 0 .. n |->
                     IF k = n THEN IF n \in places THEN Append(f[n - 1], seq[n]) ELSE f[n - 1]
                     ELSE f[k]]
  <2>2. ASSUME NEW k \in 0 .. n
        PROVE  g[k] = IF k = 0 THEN <<>>
                      ELSE IF k \in places THEN Append(g[k - 1], seq[k]) ELSE g[k - 1]
    <3>1. f = [m \in 0 .. n - 1 |-> IF m = 0 THEN <<>>
                                   ELSE IF m \in places THEN Append(f[m - 1], seq[m]) ELSE f[m - 1]]
      BY <2>1 DEF PickingOf
    <3>2. CASE k = n
      <4>1. g[n - 1] = f[n - 1]
        OBVIOUS
      <4>2. g[n] = IF n \in places THEN Append(f[n - 1], seq[n]) ELSE f[n - 1]
        OBVIOUS
      <4> HIDE DEF g
      <4> QED
        BY <3>2, <4>1, <4>2
    <3>3. CASE k # n
      <4>1. k \in 0 .. n - 1 /\ (k = 0 \/ (k - 1 \in 0 .. n /\ k - 1 # n))
        BY <3>3
      <4>2. g[k] = f[k] /\ (k = 0 \/ g[k - 1] = f[k - 1])
        BY <3>3, <4>1
      <4> HIDE DEF g
      <4> QED
        BY <3>1, <4>1, <4>2
    <3> QED
      BY <3>2, <3>3
  <2>3. g = [k \in 0 .. n |-> IF k = 0 THEN <<>>
                              ELSE IF k \in places THEN Append(g[k - 1], seq[k]) ELSE g[k - 1]]
    BY <2>2
  <2> HIDE DEF g
  <2> QED
    BY <2>3 DEF PickingOf
<1> HIDE DEF S
<1>3. len \in S
  BY <1>1, <1>2, UpTo
<1> QED
  BY <1>3 DEF S

LEMMA Picking ==
  ASSUME NEW seq, NEW places, Len(seq) \in Nat
  PROVE  \E f : PickingOf(seq, places, Len(seq), f) /\ Picked(seq, places) = f[Len(seq)]
<1> DEFINE f == CHOOSE f : PickingOf(seq, places, Len(seq), f)
<1>1. PickingOf(seq, places, Len(seq), f)
  BY PickingExists
<1>2. Picked(seq, places) = f[Len(seq)]
  BY DEF Picked, PickingOf
<1> QED
  BY <1>1, <1>2

LEMMA PickedOfNone ==
  ASSUME NEW places
  PROVE  Picked(<<>>, places) = <<>>
<1>1. Len(<<>>) = 0
  OBVIOUS
<1>2. PICK f : PickingOf(<<>>, places, Len(<<>>), f) /\ Picked(<<>>, places) = f[Len(<<>>)]
  BY <1>1, Picking
<1> QED
  BY <1>1, <1>2 DEF PickingOf

(* One more element is picked if its place is.                               *)
LEMMA PickedOfMore ==
  ASSUME NEW S, NEW seq \in Seq(S), NEW x \in S, NEW P, NEW Q,
         \A n \in 1 .. Len(seq) : n \in P <=> n \in Q
  PROVE  Picked(Append(seq, x), Q) =
           IF Len(seq) + 1 \in Q THEN Append(Picked(seq, P), x) ELSE Picked(seq, P)
<1> DEFINE len == Len(seq)
           more == Append(seq, x)
<1>1. /\ len \in Nat /\ len + 1 # 0 /\ Len(more) = len + 1 /\ more[len + 1] = x
      /\ \A n \in 1 .. len : more[n] = seq[n]
  OBVIOUS
<1>2. PICK f : PickingOf(seq, P, len, f) /\ Picked(seq, P) = f[len]
  BY <1>1, Picking
<1> HIDE DEF len, more
<1>0. \E g : PickingOf(more, Q, Len(more), g) /\ Picked(more, Q) = g[Len(more)]
  <2>1. Len(more) \in Nat
    BY <1>1
  <2> QED
    BY <2>1, Picking
<1>3. PICK g : PickingOf(more, Q, len + 1, g) /\ Picked(more, Q) = g[len + 1]
  BY <1>0, <1>1
<1> DEFINE T == {n \in 0 .. len : g[n] = f[n]}
<1>4. 0 \in T
  BY <1>1, <1>2, <1>3 DEF PickingOf
<1>5. ASSUME NEW n \in 1 .. len, n - 1 \in T PROVE n \in T
  <2>1. n \in 0 .. len /\ n \in 0 .. len + 1 /\ n # 0 /\ g[n - 1] = f[n - 1] /\ more[n] = seq[n]
    BY <1>1, <1>5
  <2>2. f[n] = IF n \in P THEN Append(f[n - 1], seq[n]) ELSE f[n - 1]
    BY <1>2, <2>1 DEF PickingOf
  <2>3. g[n] = IF n \in Q THEN Append(g[n - 1], more[n]) ELSE g[n - 1]
    BY <1>3, <2>1 DEF PickingOf
  <2>4. n \in P <=> n \in Q
    BY DEF len
  <2> QED
    BY <2>1, <2>2, <2>3, <2>4
<1> HIDE DEF T
<1>6. \A n \in 0 .. len : n \in T
  BY <1>1, <1>4, <1>5, UpTo
<1>7. g[len] = f[len]
  BY <1>1, <1>6 DEF T
<1>8. len + 1 \in 0 .. len + 1 /\ (len + 1) - 1 = len
  BY <1>1
<1>9. g[len + 1] = IF len + 1 \in Q THEN Append(g[(len + 1) - 1], more[len + 1])
                   ELSE g[(len + 1) - 1]
  BY <1>1, <1>3, <1>8 DEF PickingOf
<1>10. g[len + 1] = IF len + 1 \in Q THEN Append(f[len], x) ELSE f[len]
  BY <1>1, <1>7, <1>8, <1>9
<1> QED
  BY <1>2, <1>3, <1>10 DEF len, more

LEMMA PickedNothing ==
  ASSUME NEW S, NEW seq \in Seq(S), NEW P, \A n \in 1 .. Len(seq) : n \notin P
  PROVE  Picked(seq, P) = <<>>
<1> DEFINE len == Len(seq)
<1>1. len \in Nat
  OBVIOUS
<1>2. PICK f : PickingOf(seq, P, len, f) /\ Picked(seq, P) = f[len]
  BY <1>1, Picking
<1> DEFINE T == {n \in 0 .. len : f[n] = <<>>}
<1>3. \A n \in 1 .. len : n \notin P
  OBVIOUS
<1> HIDE DEF len
<1>4. 0 \in T
  BY <1>1, <1>2 DEF PickingOf
<1>5. \A n \in 1 .. len : n - 1 \in T => n \in T
  BY <1>1, <1>2, <1>3 DEF PickingOf
<1> HIDE DEF T
<1>6. \A n \in 0 .. len : n \in T
  BY <1>1, <1>4, <1>5, UpTo
<1> QED
  BY <1>1, <1>2, <1>6 DEF T, len

(* What is picked is at increasing places, and all of them.                  *)
Places(seq, P, n, picked, f) ==
  /\ Len(picked) \in Nat /\ f \in [1 .. Len(picked) -> 1 .. n]
  /\ \A p \in 1 .. Len(picked) : f[p] \in P /\ picked[p] = seq[f[p]]
  /\ \A p, q \in 1 .. Len(picked) : p < q => f[p] < f[q]
  /\ \A m \in 1 .. n : m \in P => \E p \in 1 .. Len(picked) : f[p] = m

LEMMA PlacesOfMore ==
  ASSUME NEW S, NEW seq \in Seq(S), NEW P, NEW n \in 1 .. Len(seq),
         NEW picked \in Seq(S), NEW f, Places(seq, P, n - 1, picked, f), n \in P
  PROVE  \E g : Places(seq, P, n, Append(picked, seq[n]), g)
<1> DEFINE len == Len(picked)
           more == Append(picked, seq[n])
           g == [p \in 1 .. len + 1 |-> IF p = len + 1 THEN n ELSE f[p]]
<1>1. n \in Nat /\ len \in Nat /\ seq[n] \in S
  OBVIOUS
<1>2. /\ Len(more) = len + 1 /\ more[len + 1] = seq[n]
      /\ \A p \in 1 .. len : more[p] = picked[p]
  BY <1>1
<1>3. /\ f \in [1 .. len -> 1 .. n - 1]
      /\ \A p \in 1 .. len : f[p] \in P /\ picked[p] = seq[f[p]]
      /\ \A p, q \in 1 .. len : p < q => f[p] < f[q]
      /\ \A m \in 1 .. n - 1 : m \in P => \E p \in 1 .. len : f[p] = m
  BY DEF Places
<1>4. /\ \A p \in 1 .. len : g[p] = f[p] /\ f[p] \in 1 .. n - 1
      /\ g[len + 1] = n
      /\ DOMAIN g = 1 .. len + 1 /\ g = [p \in 1 .. len + 1 |-> g[p]]
  BY <1>1, <1>3
<1> HIDE DEF len, more, g
<1>5. \A p \in 1 .. len + 1 : p = len + 1 \/ p \in 1 .. len
  BY <1>1
<1>6. ASSUME NEW p \in 1 .. len + 1 PROVE g[p] \in 1 .. n
  <2>1. CASE p = len + 1
    BY <1>1, <1>4, <2>1
  <2>2. CASE p \in 1 .. len
    <3>1. g[p] \in 1 .. n - 1
      BY <1>4, <2>2
    <3> QED
      BY <1>1, <3>1
  <2> QED
    BY <1>5, <2>1, <2>2
<1>7. g \in [1 .. len + 1 -> 1 .. n]
  BY <1>4, <1>6
<1>8. \A p \in 1 .. len + 1 : g[p] \in P /\ more[p] = seq[g[p]]
  BY <1>2, <1>3, <1>4, <1>5
<1>9. ASSUME NEW p \in 1 .. len + 1, NEW q \in 1 .. len + 1, p < q PROVE g[p] < g[q]
  <2>1. p \in 1 .. len
    BY <1>1, <1>9
  <2>2. CASE q = len + 1
    <3>1. g[p] \in 1 .. n - 1 /\ g[q] = n
      BY <1>4, <2>1, <2>2
    <3> QED
      BY <1>1, <3>1
  <2>3. CASE q \in 1 .. len
    BY <1>3, <1>4, <1>9, <2>1, <2>3
  <2> QED
    BY <1>5, <2>2, <2>3
<1>10. ASSUME NEW m \in 1 .. n, m \in P PROVE \E p \in 1 .. len + 1 : g[p] = m
  <2>1. len + 1 \in 1 .. len + 1 /\ \A p \in 1 .. len : p \in 1 .. len + 1
    BY <1>1
  <2>2. m = n \/ m \in 1 .. n - 1
    BY <1>1
  <2> QED
    BY <1>3, <1>4, <1>10, <2>1, <2>2
<1>11. Places(seq, P, n, more, g)
  BY <1>1, <1>2, <1>7, <1>8, <1>9, <1>10 DEF Places
<1> QED
  BY <1>11 DEF more

LEMMA PickedAtPlaces ==
  ASSUME NEW S, NEW seq \in Seq(S), NEW P
  PROVE  /\ Picked(seq, P) \in Seq(S)
         /\ \E f : Places(seq, P, Len(seq), Picked(seq, P), f)
<1> DEFINE len == Len(seq)
<1>1. len \in Nat
  OBVIOUS
<1>2. PICK f : PickingOf(seq, P, len, f) /\ Picked(seq, P) = f[len]
  BY <1>1, Picking
<1> DEFINE Good(n) == f[n] \in Seq(S) /\ \E g : Places(seq, P, n, f[n], g)
           T == {n \in 0 .. len : Good(n)}
<1>3. 0 \in T
  <2>1. f[0] = <<>>
    BY <1>1, <1>2 DEF PickingOf
  <2> DEFINE g == [p \in 1 .. 0 |-> 0]
  <2>2. g \in [1 .. 0 -> 1 .. 0]
    OBVIOUS
  <2> HIDE DEF g
  <2>3. Places(seq, P, 0, <<>>, g)
    BY <2>2 DEF Places
  <2>4. Good(0)
    BY <2>1, <2>3
  <2> QED
    BY <1>1, <2>4
<1>4. ASSUME NEW n \in 1 .. len, n - 1 \in T PROVE n \in T
  <2>1. n \in 0 .. len /\ n # 0 /\ n \in 1 .. Len(seq) /\ seq[n] \in S /\ n \in Nat
    BY <1>1
  <2>2. f[n] = IF n \in P THEN Append(f[n - 1], seq[n]) ELSE f[n - 1]
    BY <1>2, <2>1 DEF PickingOf
  <2>3. PICK g : f[n - 1] \in Seq(S) /\ Places(seq, P, n - 1, f[n - 1], g)
    BY <1>4
  <2> DEFINE before == f[n - 1]
  <2>4. before \in Seq(S) /\ Places(seq, P, n - 1, before, g)
    BY <2>3
  <2> HIDE DEF before
  <2>5. CASE n \in P
    <3>1. \E h : Places(seq, P, n, Append(before, seq[n]), h)
      BY <2>1, <2>4, <2>5, PlacesOfMore
    <3>2. Append(before, seq[n]) \in Seq(S) /\ f[n] = Append(before, seq[n])
      BY <2>1, <2>2, <2>4, <2>5 DEF before
    <3> QED
      BY <2>1, <3>1, <3>2
  <2>6. CASE n \notin P
    <3>1. f[n] = before
      BY <2>2, <2>6 DEF before
    <3>2. g \in [1 .. Len(before) -> 1 .. n]
      BY <2>1, <2>4 DEF Places
    <3>3. \A m \in 1 .. n : m \in P => m \in 1 .. n - 1
      BY <2>1, <2>6
    <3>4. Places(seq, P, n, before, g)
      BY <2>4, <3>2, <3>3 DEF Places
    <3> QED
      BY <2>1, <2>4, <3>1, <3>4
  <2> QED
    BY <2>5, <2>6
<1> HIDE DEF T, len
<1>5. \A n \in 0 .. len : n \in T
  BY <1>1, <1>3, <1>4, UpTo
<1>6. len \in T
  BY <1>1, <1>5
<1> QED
  BY <1>2, <1>6 DEF T, len
-----------------------------------------------------------------------------
(* The events of transactions, one after the other.                          *)

EmittingOf(txs, len, f) ==
  f = [n \in 0 .. len |-> IF n = 0 THEN <<>> ELSE f[n - 1] \o txs[n].events]

LEMMA EmittingExists ==
  ASSUME NEW txs, NEW len \in Nat
  PROVE  \E f : EmittingOf(txs, len, f)
<1> DEFINE S == {n \in Nat : \E f : EmittingOf(txs, n, f)}
<1>1. 0 \in S
  <2> DEFINE g == [n \in 0 .. 0 |-> <<>>]
  <2>1. g = [n \in 0 .. 0 |-> IF n = 0 THEN <<>> ELSE g[n - 1] \o txs[n].events]
    OBVIOUS
  <2> HIDE DEF g
  <2> QED
    BY <2>1 DEF EmittingOf
<1>2. ASSUME NEW n \in 1 .. len, n - 1 \in S PROVE n \in S
  <2>1. PICK f : EmittingOf(txs, n - 1, f)
    BY <1>2
  <2> DEFINE g == [k \in 0 .. n |-> IF k = n THEN f[n - 1] \o txs[n].events ELSE f[k]]
  <2>2. ASSUME NEW k \in 0 .. n
        PROVE  g[k] = IF k = 0 THEN <<>> ELSE g[k - 1] \o txs[k].events
    <3>1. f = [m \in 0 .. n - 1 |-> IF m = 0 THEN <<>> ELSE f[m - 1] \o txs[m].events]
      BY <2>1 DEF EmittingOf
    <3>2. CASE k = n
      <4>1. g[n - 1] = f[n - 1] /\ g[n] = f[n - 1] \o txs[n].events
        OBVIOUS
      <4>2. n # 0
        OBVIOUS
      <4> HIDE DEF g
      <4> QED
        BY <3>2, <4>1, <4>2, Zenon
    <3>3. CASE k # n
      <4>1. k \in 0 .. n - 1 /\ (k = 0 \/ (k - 1 \in 0 .. n /\ k - 1 # n))
        BY <3>3
      <4>2. g[k] = f[k] /\ (k = 0 \/ g[k - 1] = f[k - 1])
        BY <3>3, <4>1
      <4> HIDE DEF g
      <4> QED
        BY <3>1, <4>1, <4>2
    <3> QED
      BY <3>2, <3>3
  <2>3. g = [k \in 0 .. n |-> IF k = 0 THEN <<>> ELSE g[k - 1] \o txs[k].events]
    BY <2>2
  <2> HIDE DEF g
  <2> QED
    BY <2>3 DEF EmittingOf
<1> HIDE DEF S
<1>3. len \in S
  BY <1>1, <1>2, UpTo
<1> QED
  BY <1>3 DEF S

LEMMA Emitting ==
  ASSUME NEW txs, Len(txs) \in Nat
  PROVE  \E f : EmittingOf(txs, Len(txs), f) /\ Emitted(txs) = f[Len(txs)]
<1> DEFINE f == CHOOSE f : EmittingOf(txs, Len(txs), f)
<1>1. EmittingOf(txs, Len(txs), f)
  BY EmittingExists
<1>2. Emitted(txs) = f[Len(txs)]
  BY DEF Emitted, EmittingOf
<1> QED
  BY <1>1, <1>2

LEMMA EmittedOfNone ==
  Emitted(<<>>) = <<>>
<1>1. Len(<<>>) = 0
  OBVIOUS
<1>2. PICK f : EmittingOf(<<>>, Len(<<>>), f) /\ Emitted(<<>>) = f[Len(<<>>)]
  BY <1>1, Emitting
<1> QED
  BY <1>1, <1>2 DEF EmittingOf

LEMMA EmittedOfMore ==
  ASSUME NEW S, NEW txs \in Seq(S), NEW tx \in S
  PROVE  Emitted(Append(txs, tx)) = Emitted(txs) \o tx.events
<1> DEFINE len == Len(txs)
           more == Append(txs, tx)
<1>1. /\ len \in Nat /\ len + 1 # 0 /\ Len(more) = len + 1 /\ more[len + 1] = tx
      /\ \A n \in 1 .. len : more[n] = txs[n]
  OBVIOUS
<1>2. PICK f : EmittingOf(txs, len, f) /\ Emitted(txs) = f[len]
  BY <1>1, Emitting
<1> HIDE DEF len, more
<1>3. \E g : EmittingOf(more, Len(more), g) /\ Emitted(more) = g[Len(more)]
  <2>1. Len(more) \in Nat
    BY <1>1
  <2> QED
    BY <2>1, Emitting
<1>4. PICK g : EmittingOf(more, len + 1, g) /\ Emitted(more) = g[len + 1]
  BY <1>1, <1>3
<1> DEFINE T == {n \in 0 .. len : g[n] = f[n]}
<1>5. 0 \in T
  BY <1>1, <1>2, <1>4 DEF EmittingOf
<1>6. ASSUME NEW n \in 1 .. len, n - 1 \in T PROVE n \in T
  <2>1. n \in 0 .. len /\ n \in 0 .. len + 1 /\ n # 0 /\ g[n - 1] = f[n - 1] /\ more[n] = txs[n]
    BY <1>1, <1>6
  <2>2. f[n] = f[n - 1] \o txs[n].events
    BY <1>2, <2>1 DEF EmittingOf
  <2>3. g[n] = g[n - 1] \o more[n].events
    BY <1>4, <2>1 DEF EmittingOf
  <2> QED
    BY <2>1, <2>2, <2>3
<1> HIDE DEF T
<1>7. \A n \in 0 .. len : n \in T
  BY <1>1, <1>5, <1>6, UpTo
<1>8. g[len] = f[len]
  BY <1>1, <1>7 DEF T
<1>9. len + 1 \in 0 .. len + 1 /\ (len + 1) - 1 = len
  BY <1>1
<1>10. g[len + 1] = g[(len + 1) - 1] \o more[len + 1].events
  BY <1>1, <1>4, <1>9 DEF EmittingOf
<1>11. g[len + 1] = f[len] \o tx.events
  BY <1>1, <1>8, <1>9, <1>10
<1> QED
  BY <1>2, <1>4, <1>11 DEF len, more

-----------------------------------------------------------------------------
(* Walking the tenancies.                                                    *)

WalksOf(events, len, f) ==
  f = [n \in 0 .. len |-> IF n = 0 THEN NoTenancies ELSE TenancyStep(f[n - 1], events[n])]

LEMMA WalksExists ==
  ASSUME NEW events, NEW len \in Nat
  PROVE  \E f : WalksOf(events, len, f)
<1> DEFINE S == {n \in Nat : \E f : WalksOf(events, n, f)}
<1>1. 0 \in S
  <2> DEFINE g == [n \in 0 .. 0 |-> NoTenancies]
  <2>1. g = [n \in 0 .. 0 |-> IF n = 0 THEN NoTenancies ELSE TenancyStep(g[n - 1], events[n])]
    OBVIOUS
  <2> HIDE DEF g
  <2> QED
    BY <2>1 DEF WalksOf
<1>2. ASSUME NEW n \in 1 .. len, n - 1 \in S PROVE n \in S
  <2>1. PICK f : WalksOf(events, n - 1, f)
    BY <1>2
  <2> DEFINE g == [k \in 0 .. n |-> IF k = n THEN TenancyStep(f[n - 1], events[n]) ELSE f[k]]
  <2>2. ASSUME NEW k \in 0 .. n
        PROVE  g[k] = IF k = 0 THEN NoTenancies ELSE TenancyStep(g[k - 1], events[k])
    BY <2>1 DEF WalksOf
  <2>3. g = [k \in 0 .. n |-> IF k = 0 THEN NoTenancies ELSE TenancyStep(g[k - 1], events[k])]
    BY <2>2
  <2> HIDE DEF g
  <2> QED
    BY <2>3 DEF WalksOf
<1> HIDE DEF S
<1>3. len \in S
  BY <1>1, <1>2, UpTo
<1> QED
  BY <1>3 DEF S

LEMMA Walks ==
  ASSUME NEW events, Len(events) \in Nat
  PROVE  \E f : WalksOf(events, Len(events), f) /\ Walked(events) = f[Len(events)]
<1> DEFINE f == CHOOSE f : WalksOf(events, Len(events), f)
<1>1. WalksOf(events, Len(events), f)
  BY WalksExists
<1>2. Walked(events) = f[Len(events)]
  BY DEF Walked, WalksOf
<1> QED
  BY <1>1, <1>2

LEMMA WalkedOfNone ==
  Walked(<<>>) = NoTenancies
<1>1. Len(<<>>) = 0
  OBVIOUS
<1>2. PICK f : WalksOf(<<>>, Len(<<>>), f) /\ Walked(<<>>) = f[Len(<<>>)]
  BY <1>1, Walks
<1> QED
  BY <1>1, <1>2 DEF WalksOf

LEMMA WalkedOfMore ==
  ASSUME NEW S, NEW events \in Seq(S), NEW e \in S
  PROVE  Walked(Append(events, e)) = TenancyStep(Walked(events), e)
<1> DEFINE len == Len(events)
           more == Append(events, e)
<1>1. /\ len \in Nat /\ len + 1 # 0 /\ Len(more) = len + 1 /\ more[len + 1] = e
      /\ \A n \in 1 .. len : more[n] = events[n]
  OBVIOUS
<1>2. PICK f : WalksOf(events, len, f) /\ Walked(events) = f[len]
  BY <1>1, Walks
<1> HIDE DEF len, more
<1>3. \E g : WalksOf(more, Len(more), g) /\ Walked(more) = g[Len(more)]
  <2>1. Len(more) \in Nat
    BY <1>1
  <2> QED
    BY <2>1, Walks
<1>4. PICK g : WalksOf(more, len + 1, g) /\ Walked(more) = g[len + 1]
  BY <1>1, <1>3
<1> DEFINE T == {n \in 0 .. len : g[n] = f[n]}
<1>5. 0 \in T
  BY <1>1, <1>2, <1>4 DEF WalksOf
<1>6. ASSUME NEW n \in 1 .. len, n - 1 \in T PROVE n \in T
  <2>1. n \in 0 .. len /\ n \in 0 .. len + 1 /\ n # 0 /\ g[n - 1] = f[n - 1] /\ more[n] = events[n]
    BY <1>1, <1>6
  <2>2. f[n] = TenancyStep(f[n - 1], events[n])
    BY <1>2, <2>1 DEF WalksOf
  <2>3. g[n] = TenancyStep(g[n - 1], more[n])
    BY <1>4, <2>1 DEF WalksOf
  <2> QED
    BY <2>1, <2>2, <2>3
<1> HIDE DEF T
<1>7. \A n \in 0 .. len : n \in T
  BY <1>1, <1>5, <1>6, UpTo
<1>8. g[len] = f[len]
  BY <1>1, <1>7 DEF T
<1>9. len + 1 \in 0 .. len + 1 /\ (len + 1) - 1 = len
  BY <1>1
<1>10. g[len + 1] = TenancyStep(g[(len + 1) - 1], more[len + 1])
  BY <1>1, <1>4, <1>9 DEF WalksOf
<1>11. g[len + 1] = TenancyStep(f[len], e)
  BY <1>1, <1>8, <1>9, <1>10
<1> QED
  BY <1>2, <1>4, <1>11 DEF len, more

-----------------------------------------------------------------------------
(* Reading a statement.                                                      *)

ReadingOf(events, cap, len, f) ==
  f = [n \in 0 .. len |-> IF n = 0 THEN Blank ELSE StatementStep(f[n - 1], events[n], cap)]

LEMMA ReadingExists ==
  ASSUME NEW events, NEW cap, NEW len \in Nat
  PROVE  \E f : ReadingOf(events, cap, len, f)
<1> DEFINE S == {n \in Nat : \E f : ReadingOf(events, cap, n, f)}
<1>1. 0 \in S
  <2> DEFINE g == [n \in 0 .. 0 |-> Blank]
  <2>1. g = [n \in 0 .. 0 |-> IF n = 0 THEN Blank ELSE StatementStep(g[n - 1], events[n], cap)]
    OBVIOUS
  <2> HIDE DEF g
  <2> QED
    BY <2>1 DEF ReadingOf
<1>2. ASSUME NEW n \in 1 .. len, n - 1 \in S PROVE n \in S
  <2>1. PICK f : ReadingOf(events, cap, n - 1, f)
    BY <1>2
  <2> DEFINE g == [k \in 0 .. n |-> IF k = n THEN StatementStep(f[n - 1], events[n], cap) ELSE f[k]]
  <2>2. ASSUME NEW k \in 0 .. n
        PROVE  g[k] = IF k = 0 THEN Blank ELSE StatementStep(g[k - 1], events[k], cap)
    BY <2>1 DEF ReadingOf
  <2>3. g = [k \in 0 .. n |-> IF k = 0 THEN Blank ELSE StatementStep(g[k - 1], events[k], cap)]
    BY <2>2
  <2> HIDE DEF g
  <2> QED
    BY <2>3 DEF ReadingOf
<1> HIDE DEF S
<1>3. len \in S
  BY <1>1, <1>2, UpTo
<1> QED
  BY <1>3 DEF S

LEMMA Reading ==
  ASSUME NEW events, NEW cap, Len(events) \in Nat
  PROVE  \E f : ReadingOf(events, cap, Len(events), f) /\ Statement(events, cap) = f[Len(events)]
<1> DEFINE f == CHOOSE f : ReadingOf(events, cap, Len(events), f)
<1>1. ReadingOf(events, cap, Len(events), f)
  BY ReadingExists
<1>2. Statement(events, cap) = f[Len(events)]
  BY DEF Statement, ReadingOf
<1> QED
  BY <1>1, <1>2

-----------------------------------------------------------------------------
(* The inductive invariant.                                                  *)

Kinds == {"RentStarted", "BidPlaced", "BidSuperseded", "HandoverCompleted", "TenureExpired"}
Entries == {"RentStarted", "BidPlaced", "BidSuperseded"}
EventType == [kind : Kinds, at : Nat, in : Nat, paid : Nat, out : Nat, used : Nat, refund : Nat]
TxType == [at : Nat, events : Seq(EventType)]
SeatType == [cap : Nat, stake : Nat, since : Nat]
AccountType ==
  [paid : Nat, used : Nat, refund : Nat,
   status : {"active", "pending", "superseded", "displaced", "expired"}]
TenureType == [cap : Nat, from : Nat, until : Nat, acquired : Nat, used : Nat, refund : Nat]

(* What events tell of a cap: it enters at i, wins the seat at w and leaves  *)
(* at l, nought for what has not happened; no other event names it.          *)
Told(evs, cap, i, w, l) ==
  /\ i \in 1 .. Len(evs) /\ w \in 0 .. Len(evs) /\ l \in 0 .. Len(evs)
  /\ \A n \in 1 .. Len(evs) : (evs[n].in = cap <=> n \in {i, w}) /\ (evs[n].out = cap <=> n = l)
  /\ evs[i].kind \in Entries
  /\ w # 0 => i < w /\ evs[i].kind # "RentStarted" /\ evs[w].kind = "HandoverCompleted"
  /\ l # 0 => /\ i < l /\ w < l /\ evs[i].at <= evs[l].at
              /\ w # 0 => evs[w].at <= evs[l].at
              /\ IF evs[i].kind = "RentStarted" \/ w # 0
                 THEN evs[l].kind \in {"HandoverCompleted", "TenureExpired"}
                 ELSE evs[l].kind = "BidSuperseded"

OutcomeOf(kind) ==
  IF kind = "BidSuperseded" THEN "superseded"
  ELSE IF kind = "HandoverCompleted" THEN "displaced" ELSE "expired"

(* Its account is what those events say.                                     *)
Balanced(evs, a, i, w, l) ==
  /\ a.paid = evs[i].paid
  /\ l = 0 => /\ a.used = 0 /\ a.refund = 0
              /\ a.status = IF evs[i].kind = "RentStarted" \/ w # 0 THEN "active" ELSE "pending"
  /\ l # 0 => /\ a.used = evs[l].used /\ a.refund = evs[l].refund
              /\ a.paid = a.used + a.refund
              /\ a.status = OutcomeOf(evs[l].kind)
              /\ evs[l].kind = "BidSuperseded" => evs[l].used = 0

Story(evs, cap, a) ==
  \E i, w, l \in 0 .. Len(evs) : Told(evs, cap, i, w, l) /\ Balanced(evs, a, i, w, l)

(* The events account for every cap, and name no other.                      *)
Booked(c, evs) ==
  /\ evs \in Seq(EventType)
  /\ \A n \in 1 .. Len(evs) :
       evs[n].at <= clock /\ evs[n].in <= Len(c.accounts) /\ evs[n].out <= Len(c.accounts)
  /\ \A cap \in 1 .. Len(c.accounts) : Story(evs, cap, c.accounts[cap])

(* The seat and who waits for it, their accounts and the tenure going on.    *)
Takes(c, place, status) ==
  /\ place \in SeatType
  /\ place # Nobody => /\ place.cap \in 1 .. Len(c.accounts)
                       /\ place.stake = c.accounts[place.cap].paid
                       /\ c.accounts[place.cap].status = status

Seated(c) ==
  /\ c = [tenant |-> c.tenant, challenger |-> c.challenger, accounts |-> c.accounts,
          held |-> c.held, events |-> c.events]
  /\ c.accounts \in Seq(AccountType) /\ c.held \in Seq(TenureType)
  /\ Takes(c, c.tenant, "active") /\ Takes(c, c.challenger, "pending")
  /\ c.tenant = Nobody => c.challenger = Nobody
  /\ \A n \in 1 .. Len(c.held) : c.held[n].from \in 1 .. clock
  /\ c.tenant # Nobody =>
       /\ Len(c.held) > 0
       /\ c.held[Len(c.held)] =
            [cap |-> c.tenant.cap, from |-> c.held[Len(c.held)].from, until |-> 0,
             acquired |-> c.tenant.stake, used |-> 0, refund |-> 0]

(* Walking the events gives the tenures begun after `after`.                 *)
Since(held, after) == Picked(held, {n \in DOMAIN held : held[n].from > after})

Retold(c, evs, after) ==
  IF c.tenant # Nobody /\ c.held[Len(c.held)].from > after
  THEN Walked(evs) = [done |-> Since(SubSeq(c.held, 1, Len(c.held) - 1), after),
                      current |-> c.held[Len(c.held)]]
  ELSE Walked(evs) = [done |-> Since(c.held, after), current |-> Vacant]

Sound(c) ==
  /\ Seated(c) /\ c.events \in Seq(EventType)
  /\ Booked(c, Emitted(Window(0)) \o c.events)
  /\ \A after \in Nat :
       after < clock => Retold(c, Emitted(Window(after)) \o c.events, after)

Logged ==
  /\ clock \in Nat /\ clock > 0 /\ log \in Seq(TxType)
  /\ \A n \in 1 .. Len(log) : log[n].at \in 1 .. clock

Walking ==
  /\ walk.after \in Nat /\ walk.cursor \in 0 .. Len(Window(walk.after))
  /\ walk = [state |-> walk.state, after |-> walk.after, got |-> walk.got, cursor |-> walk.cursor]
  /\ walk.got = SubSeq(Window(walk.after), 1, walk.cursor)

LedgerInv == Logged /\ Walking /\ Sound(chain) /\ chain.events = <<>>

-----------------------------------------------------------------------------
(* The window of the log.                                                    *)

LEMMA EmittedType ==
  ASSUME NEW txs \in Seq(TxType)
  PROVE  Emitted(txs) \in Seq(EventType)
<1> DEFINE len == Len(txs)
<1>1. len \in Nat /\ \A n \in 1 .. len : txs[n] \in TxType
  OBVIOUS
<1>2. PICK f : EmittingOf(txs, len, f) /\ Emitted(txs) = f[len]
  BY <1>1, Emitting
<1> DEFINE T == {n \in 0 .. len : f[n] \in Seq(EventType)}
<1> HIDE DEF len
<1>3. 0 \in T
  BY <1>1, <1>2 DEF EmittingOf
<1>4. ASSUME NEW n \in 1 .. len, n - 1 \in T PROVE n \in T
  <2>1. n \in 0 .. len /\ n # 0
    BY <1>1
  <2>2. f[n] = f[n - 1] \o txs[n].events
    BY <1>2, <2>1 DEF EmittingOf
  <2> DEFINE before == f[n - 1]
             more == txs[n].events
  <2>3. before \in Seq(EventType)
    BY <1>4
  <2>4. more \in Seq(EventType)
    BY <1>1 DEF TxType
  <2> HIDE DEF before, more
  <2>5. before \o more \in Seq(EventType)
    BY <2>3, <2>4
  <2> QED
    BY <2>1, <2>2, <2>5 DEF before, more
<1> HIDE DEF T
<1>5. \A n \in 0 .. len : n \in T
  BY <1>1, <1>3, <1>4, UpTo
<1>6. len \in T
  BY <1>1, <1>5
<1> QED
  BY <1>2, <1>6 DEF T, len

LEMMA WindowType ==
  ASSUME Logged, NEW after
  PROVE  /\ Window(after) \in Seq(TxType) /\ Emitted(Window(after)) \in Seq(EventType)
<1>1. Window(after) \in Seq(TxType)
  BY PickedAtPlaces DEF Window, Logged
<1> QED
  BY <1>1, EmittedType

(* The log grows by one transaction, and a window by it or not.              *)
LEMMA WindowOfMore ==
  ASSUME Logged, NEW tx \in TxType, log' = Append(log, tx), NEW after \in Nat
  PROVE  Window(after)' = IF tx.at > after THEN Append(Window(after), tx) ELSE Window(after)
<1> DEFINE P == {n \in DOMAIN log : log[n].at > after}
           more == Append(log, tx)
           Q == {n \in DOMAIN more : more[n].at > after}
<1>1. /\ log \in Seq(TxType) /\ Len(log) \in Nat /\ more[Len(log) + 1] = tx
      /\ DOMAIN more = 1 .. Len(log) + 1 /\ DOMAIN log = 1 .. Len(log)
      /\ \A n \in 1 .. Len(log) : more[n] = log[n]
  BY DEF Logged
<1>2. \A n \in 1 .. Len(log) : n \in P <=> n \in Q
  BY <1>1
<1>3. Len(log) + 1 \in Q <=> tx.at > after
  BY <1>1
<1>4. Window(after) = Picked(log, P) /\ Window(after)' = Picked(more, Q)
  BY DEF Window
<1> HIDE DEF P, Q
<1>5. Picked(more, Q) = IF Len(log) + 1 \in Q THEN Append(Picked(log, P), tx) ELSE Picked(log, P)
  BY <1>1, <1>2, PickedOfMore
<1> QED
  BY <1>3, <1>4, <1>5

(* A window that opens at the clock or later is empty.                       *)
LEMMA WindowShut ==
  ASSUME Logged, NEW after \in Nat, after >= clock
  PROVE  Window(after) = <<>>
<1>1. \A n \in 1 .. Len(log) : ~(log[n].at > after)
  BY DEF Logged
<1> QED
  BY <1>1, PickedNothing DEF Window, Logged

-----------------------------------------------------------------------------
(* The walk.                                                                 *)

(* What has been read of a window is still its beginning when it grows.      *)
LEMMA StillReads ==
  ASSUME NEW S, NEW w \in Seq(S), NEW x \in S, NEW k \in 0 .. Len(w)
  PROVE  SubSeq(Append(w, x), 1, k) = SubSeq(w, 1, k) /\ k \in 0 .. Len(Append(w, x))
  OBVIOUS

(* A page continues what has been read.                                      *)
LEMMA PageContinues ==
  ASSUME NEW S, NEW w \in Seq(S), NEW k \in 0 .. Len(w), NEW to \in k .. Len(w)
  PROVE  SubSeq(w, 1, k) \o SubSeq(w, k + 1, to) = SubSeq(w, 1, to)
  OBVIOUS

LEMMA WalkingTransaction ==
  ASSUME Logged, Walking, NEW tx \in TxType, log' = Append(log, tx), walk' = walk
  PROVE  Walking'
<1> DEFINE w == Window(walk.after)
           v == Window(walk.after)'
<1>1. /\ walk.after \in Nat /\ walk.cursor \in 0 .. Len(w)
      /\ walk.got = SubSeq(w, 1, walk.cursor)
  BY DEF Walking
<1>2. w \in Seq(TxType)
  BY WindowType
<1>3. v = Append(w, tx) \/ v = w
  BY <1>1, WindowOfMore
<1> HIDE DEF w, v
<1>4. walk.got = SubSeq(v, 1, walk.cursor) /\ walk.cursor \in 0 .. Len(v)
  BY <1>1, <1>2, <1>3, StillReads
<1> QED
  BY <1>4 DEF Walking, v

LEMMA WalkingPage ==
  ASSUME Logged, Walking, NextPage, PageSize \in Nat \ {0}
  PROVE  Walking'
<1> DEFINE w == Window(walk.after)
           end == Len(w)
           to == IF walk.cursor + PageSize < end THEN walk.cursor + PageSize ELSE end
<1>1. /\ walk.after \in Nat /\ walk.cursor \in 0 .. end
      /\ walk.got = SubSeq(w, 1, walk.cursor)
      /\ walk = [state |-> walk.state, after |-> walk.after, got |-> walk.got,
                 cursor |-> walk.cursor]
  BY DEF Walking
<1>2. w \in Seq(TxType) /\ end \in Nat
  BY WindowType
<1>3. to \in walk.cursor .. end /\ to \in 0 .. end
  BY <1>1, <1>2
<1>4. /\ log' = log
      /\ walk' = [walk EXCEPT !.got = walk.got \o SubSeq(w, walk.cursor + 1, to), !.cursor = to,
                              !.state = IF to < end THEN "paging" ELSE "done"]
  BY DEF NextPage, PageFrom
<1> HIDE DEF w, to, end
<1>6. /\ walk'.after = walk.after /\ walk'.cursor = to
      /\ walk'.got = walk.got \o SubSeq(w, walk.cursor + 1, to)
      /\ walk' = [state |-> walk'.state, after |-> walk'.after, got |-> walk'.got,
                  cursor |-> walk'.cursor]
  BY <1>1, <1>4
<1>7. walk'.got = SubSeq(w, 1, to)
  BY <1>1, <1>2, <1>3, <1>6, PageContinues DEF end
<1>8. Window(walk.after)' = w
  BY <1>4, <1>6 DEF Window, w
<1> QED
  BY <1>1, <1>3, <1>6, <1>7, <1>8 DEF Walking, end

(* The walk has a beginning of its window.                                   *)
LEMMA WalkingReads == Logged /\ Walking => WalkReadsWindow
<1> SUFFICES ASSUME Logged, Walking PROVE WalkReadsWindow
  OBVIOUS
<1> DEFINE w == Window(walk.after)
<1>1. walk.cursor \in 0 .. Len(w) /\ walk.got = SubSeq(w, 1, walk.cursor)
  BY DEF Walking
<1>2. w \in Seq(TxType)
  BY WindowType
<1> HIDE DEF w
<1>3. IsPrefix(walk.got, w)
  BY <1>1, <1>2 DEF IsPrefix
<1> QED
  BY <1>3 DEF WalkReadsWindow, w

-----------------------------------------------------------------------------
(* What an event adds to the stories.                                        *)

(* A story reads the same of more events.                                    *)
LEMMA MoreEvents ==
  ASSUME NEW evs \in Seq(EventType), NEW e \in EventType
  PROVE  /\ Len(evs) \in Nat /\ Append(evs, e) \in Seq(EventType)
         /\ Len(Append(evs, e)) = Len(evs) + 1 /\ Append(evs, e)[Len(evs) + 1] = e
         /\ \A n \in 1 .. Len(evs) : Append(evs, e)[n] = evs[n] /\ evs[n] \in EventType
         /\ \A n \in 1 .. Len(evs) + 1 : n \in 1 .. Len(evs) \/ n = Len(evs) + 1
  OBVIOUS

LEMMA Unconcerned ==
  ASSUME NEW evs \in Seq(EventType), NEW e \in EventType, NEW cap \in Nat, NEW a,
         Story(evs, cap, a), e.in # cap, e.out # cap
  PROVE  Story(Append(evs, e), cap, a)
<1> DEFINE len == Len(evs)
           more == Append(evs, e)
<1>1. PICK i, w, l \in 0 .. len : Told(evs, cap, i, w, l) /\ Balanced(evs, a, i, w, l)
  BY DEF Story
<1>2. /\ len \in Nat /\ Len(more) = len + 1 /\ more[len + 1] = e
      /\ \A n \in 1 .. len : more[n] = evs[n]
      /\ \A n \in 1 .. len + 1 : n \in 1 .. len \/ n = len + 1
  BY MoreEvents
<1> HIDE DEF len, more
<1>3. /\ i \in 1 .. len /\ i # len + 1 /\ w # len + 1 /\ l # len + 1
      /\ i \in 1 .. len + 1 /\ w \in 0 .. len + 1 /\ l \in 0 .. len + 1 /\ i \in 0 .. len + 1
      /\ (w # 0 => w \in 1 .. len) /\ (l # 0 => l \in 1 .. len)
  BY <1>1, <1>2 DEF Told, len
<1>4. /\ more[i] = evs[i] /\ (w # 0 => more[w] = evs[w]) /\ (l # 0 => more[l] = evs[l])
  BY <1>2, <1>3
<1>5. ASSUME NEW n \in 1 .. len + 1
      PROVE  (more[n].in = cap <=> n \in {i, w}) /\ (more[n].out = cap <=> n = l)
  <2>1. CASE n \in 1 .. len
    BY <1>1, <1>2, <2>1 DEF Told, len
  <2>2. CASE n = len + 1
    BY <1>2, <1>3, <2>2
  <2> QED
    BY <1>2, <2>1, <2>2
<1>6. Told(more, cap, i, w, l)
  BY <1>1, <1>2, <1>3, <1>4, <1>5 DEF Told
<1>7. Balanced(more, a, i, w, l)
  BY <1>1, <1>4 DEF Balanced
<1> QED
  BY <1>2, <1>3, <1>6, <1>7 DEF Story, more

(* A new cap enters.                                                         *)
LEMMA Entering ==
  ASSUME NEW evs \in Seq(EventType), NEW e \in EventType, NEW cap \in Nat, NEW a,
         \A n \in 1 .. Len(evs) : evs[n].in # cap /\ evs[n].out # cap,
         e.in = cap, e.out # cap, e.kind \in Entries,
         a = [paid |-> e.paid, used |-> 0, refund |-> 0,
              status |-> IF e.kind = "RentStarted" THEN "active" ELSE "pending"]
  PROVE  Story(Append(evs, e), cap, a)
<1> DEFINE len == Len(evs)
           more == Append(evs, e)
           i == len + 1
<1>1. /\ len \in Nat /\ Len(more) = len + 1 /\ more[i] = e
      /\ \A n \in 1 .. len : more[n] = evs[n]
      /\ \A n \in 1 .. len + 1 : n \in 1 .. len \/ n = i
  BY MoreEvents
<1>2. \A n \in 1 .. len : evs[n].in # cap /\ evs[n].out # cap
  OBVIOUS
<1> HIDE DEF more
<1>3. \A n \in 1 .. len + 1 : (more[n].in = cap <=> n \in {i, 0}) /\ (more[n].out = cap <=> n = 0)
  <2> HIDE DEF i, len
  <2>1. ASSUME NEW n \in 1 .. len + 1
        PROVE  (more[n].in = cap <=> n \in {i, 0}) /\ (more[n].out = cap <=> n = 0)
    <3>1. n # 0 /\ (n \in 1 .. len => n # i)
      BY <1>1 DEF i
    <3> QED
      BY <1>1, <1>2, <3>1
  <2> QED
    BY <2>1
<1>4. i \in 1 .. len + 1 /\ 0 \in 0 .. len + 1 /\ i \in 0 .. len + 1
  BY <1>1
<1> HIDE DEF i, len
<1>5. Told(more, cap, i, 0, 0)
  BY <1>1, <1>3, <1>4 DEF Told
<1>6. Balanced(more, a, i, 0, 0)
  BY <1>1 DEF Balanced
<1> QED
  BY <1>1, <1>4, <1>5, <1>6 DEF Story, more

(* Who waited wins the seat.                                                 *)
LEMMA Winning ==
  ASSUME NEW evs \in Seq(EventType), NEW e \in EventType, NEW cap \in Nat, NEW a \in AccountType,
         Story(evs, cap, a), a.status = "pending",
         e.in = cap, e.out # cap, e.kind = "HandoverCompleted"
  PROVE  Story(Append(evs, e), cap, [a EXCEPT !.status = "active"])
<1> DEFINE len == Len(evs)
           more == Append(evs, e)
           w == len + 1
           b == [a EXCEPT !.status = "active"]
<1>1. PICK i, v, l \in 0 .. len : Told(evs, cap, i, v, l) /\ Balanced(evs, a, i, v, l)
  BY DEF Story
<1>2. l = 0 /\ v = 0 /\ evs[i].kind # "RentStarted"
  <2>1. a.status = "pending" => l = 0
    BY <1>1 DEF Balanced, OutcomeOf
  <2>2. a.status = IF evs[i].kind = "RentStarted" \/ v # 0 THEN "active" ELSE "pending"
    BY <1>1, <2>1 DEF Balanced
  <2> QED
    BY <2>1, <2>2
<1>3. /\ len \in Nat /\ Len(more) = len + 1 /\ more[w] = e
      /\ \A n \in 1 .. len : more[n] = evs[n]
      /\ \A n \in 1 .. len + 1 : n \in 1 .. len \/ n = w
  BY MoreEvents
<1> HIDE DEF more
<1>4. /\ i \in 1 .. len /\ i < w /\ i \in 1 .. len + 1 /\ i \in 0 .. len + 1
      /\ w \in 0 .. len + 1 /\ 0 \in 0 .. len + 1 /\ w # 0 /\ i # w
  BY <1>1, <1>3 DEF Told
<1>5. \A n \in 1 .. len : (evs[n].in = cap <=> n \in {i, 0}) /\ (evs[n].out = cap <=> n = 0)
  BY <1>1, <1>2 DEF Told
<1>6. ASSUME NEW n \in 1 .. len + 1
      PROVE  (more[n].in = cap <=> n \in {i, w}) /\ (more[n].out = cap <=> n = 0)
  <2>1. n # 0 /\ (n \in 1 .. len => n # w)
    BY <1>3
  <2> HIDE DEF len, w
  <2> QED
    BY <1>3, <1>4, <1>5, <2>1
<1> HIDE DEF len, w
<1>7. more[i] = evs[i] /\ evs[i].kind \in Entries
  BY <1>1, <1>3, <1>4 DEF Told
<1>8. Told(more, cap, i, w, 0)
  BY <1>2, <1>3, <1>4, <1>6, <1>7 DEF Told
<1>9. b.paid = a.paid /\ b.used = a.used /\ b.refund = a.refund /\ b.status = "active"
  BY DEF AccountType
<1> HIDE DEF b
<1>10. Balanced(more, b, i, w, 0)
  BY <1>1, <1>2, <1>4, <1>7, <1>9 DEF Balanced
<1>11. Story(more, cap, b)
  BY <1>3, <1>4, <1>8, <1>10 DEF Story
<1> QED
  BY <1>11 DEF more, b

(* A cap leaves, and what it paid is settled.                                *)
LEMMA Leaving ==
  ASSUME NEW evs \in Seq(EventType), NEW e \in EventType, NEW cap \in Nat, NEW a \in AccountType,
         Story(evs, cap, a), e.out = cap, e.in # cap,
         \A n \in 1 .. Len(evs) : evs[n].at <= e.at,
         \/ a.status = "active" /\ e.kind \in {"HandoverCompleted", "TenureExpired"}
         \/ a.status = "pending" /\ e.kind = "BidSuperseded" /\ e.used = 0,
         a.paid = e.used + e.refund
  PROVE  Story(Append(evs, e), cap, [a EXCEPT !.status = OutcomeOf(e.kind), !.used = e.used,
                                              !.refund = e.refund])
<1> DEFINE len == Len(evs)
           more == Append(evs, e)
           l == len + 1
           b == [a EXCEPT !.status = OutcomeOf(e.kind), !.used = e.used, !.refund = e.refund]
<1>1. PICK i, w, v \in 0 .. len : Told(evs, cap, i, w, v) /\ Balanced(evs, a, i, w, v)
  BY DEF Story
<1>2. /\ v = 0
      /\ IF evs[i].kind = "RentStarted" \/ w # 0
         THEN e.kind \in {"HandoverCompleted", "TenureExpired"}
         ELSE e.kind = "BidSuperseded"
  <2>1. v = 0
    BY <1>1 DEF Balanced, OutcomeOf
  <2>2. a.status = IF evs[i].kind = "RentStarted" \/ w # 0 THEN "active" ELSE "pending"
    BY <1>1, <2>1 DEF Balanced
  <2> QED
    BY <2>1, <2>2
<1>3. /\ len \in Nat /\ Len(more) = len + 1 /\ more[l] = e
      /\ \A n \in 1 .. len : more[n] = evs[n]
      /\ \A n \in 1 .. len + 1 : n \in 1 .. len \/ n = l
  BY MoreEvents
<1> HIDE DEF more
<1>4. /\ i \in 1 .. len /\ i < l /\ i \in 1 .. len + 1 /\ i \in 0 .. len + 1
      /\ w \in 0 .. len + 1 /\ w < l /\ l \in 0 .. len + 1 /\ l # 0 /\ i # l /\ w # l
      /\ (w # 0 => w \in 1 .. len /\ i < w)
  BY <1>1, <1>3 DEF Told
<1>5. \A n \in 1 .. len : (evs[n].in = cap <=> n \in {i, w}) /\ (evs[n].out = cap <=> n = 0)
  BY <1>1, <1>2 DEF Told
<1>6. ASSUME NEW n \in 1 .. len + 1
      PROVE  (more[n].in = cap <=> n \in {i, w}) /\ (more[n].out = cap <=> n = l)
  <2>1. n # 0 /\ (n \in 1 .. len => n # l)
    BY <1>3
  <2> HIDE DEF len, l
  <2> QED
    BY <1>3, <1>4, <1>5, <2>1
<1>7. evs[i].at <= e.at /\ (w # 0 => evs[w].at <= e.at)
  BY <1>4
<1> HIDE DEF len, l
<1>8. /\ more[i] = evs[i] /\ evs[i].kind \in Entries
      /\ w # 0 => /\ more[w] = evs[w] /\ evs[w].kind = "HandoverCompleted"
                  /\ evs[i].kind # "RentStarted"
  BY <1>1, <1>3, <1>4 DEF Told
<1>9. Told(more, cap, i, w, l)
  BY <1>2, <1>3, <1>4, <1>6, <1>7, <1>8 DEF Told
<1>10. b.paid = a.paid /\ b.used = e.used /\ b.refund = e.refund /\ b.status = OutcomeOf(e.kind)
  BY DEF AccountType
<1> HIDE DEF b
<1>11. Balanced(more, b, i, w, l)
  BY <1>1, <1>2, <1>3, <1>4, <1>8, <1>10 DEF Balanced
<1>12. Story(more, cap, b)
  BY <1>3, <1>4, <1>9, <1>11 DEF Story
<1> QED
  BY <1>12 DEF more, b

-----------------------------------------------------------------------------
(* The accounts after an event.                                              *)

LEMMA BookedMore ==
  ASSUME clock \in Nat, NEW c, NEW d, NEW evs, NEW e \in EventType, Booked(c, evs),
         Len(c.accounts) \in Nat, Len(d.accounts) \in Nat, Len(c.accounts) <= Len(d.accounts),
         e.at = clock, e.in <= Len(d.accounts), e.out <= Len(d.accounts),
         \A cap \in 1 .. Len(d.accounts) : Story(Append(evs, e), cap, d.accounts[cap])
  PROVE  Booked(d, Append(evs, e))
<1> DEFINE more == Append(evs, e)
<1>1. evs \in Seq(EventType)
  BY DEF Booked
<1>2. /\ Len(evs) \in Nat /\ more \in Seq(EventType) /\ Len(more) = Len(evs) + 1
      /\ more[Len(evs) + 1] = e
      /\ \A n \in 1 .. Len(evs) : more[n] = evs[n] /\ evs[n] \in EventType
      /\ \A n \in 1 .. Len(evs) + 1 : n \in 1 .. Len(evs) \/ n = Len(evs) + 1
  BY <1>1, MoreEvents
<1> HIDE DEF more
<1>3. ASSUME NEW n \in 1 .. Len(more)
      PROVE  /\ more[n].at <= clock /\ more[n].in <= Len(d.accounts)
             /\ more[n].out <= Len(d.accounts)
  <2>1. CASE n \in 1 .. Len(evs)
    <3>1. more[n] = evs[n] /\ evs[n].in \in Nat /\ evs[n].out \in Nat
      BY <1>2, <2>1 DEF EventType
    <3>2. evs[n].at <= clock /\ evs[n].in <= Len(c.accounts) /\ evs[n].out <= Len(c.accounts)
      BY <2>1 DEF Booked
    <3>3. ASSUME NEW x \in Nat, x <= Len(c.accounts) PROVE x <= Len(d.accounts)
      BY <3>3
    <3> QED
      BY <3>1, <3>2, <3>3
  <2>2. CASE n = Len(evs) + 1
    <3>1. more[n] = e
      BY <1>2, <2>2
    <3> QED
      BY <3>1
  <2> QED
    BY <1>2, <2>1, <2>2
<1>4. Booked(d, more)
  BY <1>2, <1>3 DEF Booked, more
<1> QED
  BY <1>4 DEF more

(* Of a challenger and its tenant, who they are and where they stand.        *)
LEMMA Contested ==
  ASSUME NEW c, Seated(c), c.challenger # Nobody
  PROVE  /\ c.tenant # Nobody /\ {c.tenant, c.challenger} \subseteq SeatType
         /\ {c.tenant.cap, c.challenger.cap} \subseteq 1 .. Len(c.accounts)
         /\ c.tenant.cap # c.challenger.cap
         /\ c.tenant.stake = c.accounts[c.tenant.cap].paid
         /\ c.challenger.stake = c.accounts[c.challenger.cap].paid
         /\ c.accounts[c.tenant.cap].status = "active"
         /\ c.accounts[c.challenger.cap].status = "pending"
  BY DEF Seated, Takes

(* A handover.                                                               *)
Handover(c, used) ==
  Event("HandoverCompleted", c.challenger.cap, c.challenger.stake, c.tenant.cap, used,
        c.tenant.stake - used)
AfterHandover(c, used, since) ==
  [tenant |-> [c.challenger EXCEPT !.since = since], challenger |-> Nobody,
   accounts |-> [Closed(c, c.tenant.cap, "displaced", used, c.tenant.stake - used)
                   EXCEPT ![c.challenger.cap].status = "active"],
   held |-> Append(Ended(c.held, used, c.tenant.stake - used),
                   Tenure(c.challenger.cap, c.challenger.stake)),
   events |-> Append(c.events, Handover(c, used))]

LEMMA HandedOverIs ==
  ASSUME Logged, NEW c, Seated(c), NEW d \in HandedOver(c)
  PROVE  /\ c.challenger # Nobody
         /\ \E used \in 0 .. c.tenant.stake, since \in Nat : d = AfterHandover(c, used, since)
<1>1. c.challenger # Nobody
  BY DEF HandedOver
<1>2. c.challenger.since \in Nat
  BY DEF Seated, Takes, SeatType
<1>3. PICK used \in 0 .. c.tenant.stake, since \in c.challenger.since .. clock :
        d = AfterHandover(c, used, since)
  <2>1. HandedOver(c) = {AfterHandover(c, used, since) :
                           used \in 0 .. c.tenant.stake, since \in c.challenger.since .. clock}
    BY <1>1 DEF HandedOver, AfterHandover, Handover
  <2> QED
    BY <2>1
<1>4. since \in Nat
  BY <1>2 DEF Logged
<1> QED
  BY <1>1, <1>3, <1>4

LEMMA HandoverType ==
  ASSUME Logged, NEW c, Seated(c), c.challenger # Nobody, NEW used \in 0 .. c.tenant.stake
  PROVE  /\ Handover(c, used) \in EventType
         /\ used \in Nat /\ c.tenant.stake - used \in Nat
         /\ c.tenant.stake = used + (c.tenant.stake - used)
<1>1. /\ c.tenant.cap \in Nat /\ c.tenant.stake \in Nat
      /\ c.challenger.cap \in Nat /\ c.challenger.stake \in Nat
  BY Contested DEF SeatType
<1>2. used \in Nat /\ c.tenant.stake - used \in Nat /\ clock \in Nat
  BY <1>1 DEF Logged
<1> QED
  BY <1>1, <1>2 DEF Handover, Event, EventType, Kinds

(* The accounts of a handover: one closed, one moved up.                     *)
LEMMA HandoverAccounts ==
  ASSUME Logged, NEW c, Seated(c), c.challenger # Nobody, NEW used \in 0 .. c.tenant.stake,
         NEW since \in Nat
  PROVE  /\ AfterHandover(c, used, since).accounts \in Seq(AccountType)
         /\ Len(AfterHandover(c, used, since).accounts) = Len(c.accounts)
         /\ \A k \in 1 .. Len(c.accounts) :
              AfterHandover(c, used, since).accounts[k] =
                IF k = c.tenant.cap
                THEN [c.accounts[k] EXCEPT !.status = "displaced", !.used = used,
                                           !.refund = c.tenant.stake - used]
                ELSE IF k = c.challenger.cap THEN [c.accounts[k] EXCEPT !.status = "active"]
                ELSE c.accounts[k]
<1> DEFINE x == c.tenant.cap
           y == c.challenger.cap
           len == Len(c.accounts)
           rest == c.tenant.stake - used
           closed == [c.accounts[x] EXCEPT !.status = "displaced", !.used = used, !.refund = rest]
           moved == [c.accounts[y] EXCEPT !.status = "active"]
           accounts == AfterHandover(c, used, since).accounts
<1>1. x \in 1 .. len /\ y \in 1 .. len /\ x # y /\ len \in Nat /\ c.accounts \in Seq(AccountType)
  BY Contested DEF Seated
<1>2. used \in Nat /\ rest \in Nat
  BY HandoverType
<1>3. c.accounts[x] \in AccountType /\ c.accounts[y] \in AccountType
  BY <1>1
<1>4. closed \in AccountType /\ moved \in AccountType
  BY <1>2, <1>3 DEF AccountType
<1>5. accounts = [[c.accounts EXCEPT ![x] = closed] EXCEPT ![y].status = "active"]
  BY DEF AfterHandover, Closed
<1> HIDE DEF x, y, rest, closed, len, accounts
<1>6. accounts = [[c.accounts EXCEPT ![x] = closed] EXCEPT ![y] = moved]
  BY <1>1, <1>5 DEF len
<1> HIDE DEF moved
<1>7. accounts \in Seq(AccountType) /\ Len(accounts) = len
  BY <1>1, <1>4, <1>6 DEF len
<1>8. ASSUME NEW k \in 1 .. len
      PROVE  accounts[k] = IF k = x THEN closed ELSE IF k = y THEN moved ELSE c.accounts[k]
  BY <1>1, <1>6 DEF len
<1> QED
  BY <1>7, <1>8 DEF x, y, rest, closed, moved, len, accounts

LEMMA HandoverBooked ==
  ASSUME Logged, NEW c, Seated(c), c.challenger # Nobody, NEW used \in 0 .. c.tenant.stake,
         NEW since \in Nat, NEW evs, Booked(c, evs)
  PROVE  Booked(AfterHandover(c, used, since), Append(evs, Handover(c, used)))
<1> DEFINE d == AfterHandover(c, used, since)
           e == Handover(c, used)
           x == c.tenant.cap
           y == c.challenger.cap
           len == Len(c.accounts)
<1>1. /\ x \in 1 .. len /\ y \in 1 .. len /\ x # y /\ len \in Nat
      /\ c.accounts \in Seq(AccountType)
      /\ c.accounts[x].status = "active" /\ c.accounts[y].status = "pending"
      /\ c.accounts[x].paid = c.tenant.stake
  BY Contested DEF Seated
<1>2. /\ e \in EventType /\ e.kind = "HandoverCompleted" /\ e.in = y /\ e.out = x
      /\ e.at = clock /\ e.used = used /\ e.refund = c.tenant.stake - used
      /\ c.tenant.stake = e.used + e.refund
  BY HandoverType DEF Handover, Event
<1>3. /\ Len(d.accounts) = len
      /\ \A k \in 1 .. len :
           d.accounts[k] =
             IF k = x
             THEN [c.accounts[k] EXCEPT !.status = "displaced", !.used = used,
                                        !.refund = c.tenant.stake - used]
             ELSE IF k = y THEN [c.accounts[k] EXCEPT !.status = "active"]
             ELSE c.accounts[k]
  BY HandoverAccounts, Zenon
<1>4. /\ evs \in Seq(EventType) /\ \A k \in 1 .. len : Story(evs, k, c.accounts[k])
      /\ \A n \in 1 .. Len(evs) : evs[n].at <= e.at
  BY <1>2 DEF Booked
<1> HIDE DEF d, e, x, y, len
<1>5. ASSUME NEW k \in 1 .. len PROVE Story(Append(evs, e), k, d.accounts[k])
  <2>1. k \in Nat /\ c.accounts[k] \in AccountType /\ Story(evs, k, c.accounts[k])
    BY <1>1, <1>4 DEF len
  <2>2. CASE k = x
    <3>1. Story(Append(evs, e), k,
                [c.accounts[k] EXCEPT !.status = OutcomeOf(e.kind), !.used = e.used,
                                      !.refund = e.refund])
      <4> DEFINE a == c.accounts[k]
      <4>1. /\ a \in AccountType /\ Story(evs, k, a) /\ a.status = "active"
            /\ a.paid = e.used + e.refund /\ e.out = k /\ e.in # k
        BY <1>1, <1>2, <2>1, <2>2
      <4> HIDE DEF a
      <4>2. Story(Append(evs, e), k, [a EXCEPT !.status = OutcomeOf(e.kind), !.used = e.used,
                                               !.refund = e.refund])
        BY <1>2, <1>4, <2>1, <4>1, Leaving
      <4> QED
        BY <4>2 DEF a
    <3>2. OutcomeOf(e.kind) = "displaced"
      BY <1>2 DEF OutcomeOf
    <3> QED
      BY <1>2, <1>3, <2>2, <3>1, <3>2
  <2>3. CASE k = y
    <3>1. Story(Append(evs, e), k, [c.accounts[k] EXCEPT !.status = "active"])
      BY <1>1, <1>2, <1>4, <2>1, <2>3, Winning
    <3> QED
      BY <1>1, <1>3, <2>3, <3>1
  <2>4. CASE k # x /\ k # y
    <3>1. Story(Append(evs, e), k, c.accounts[k])
      BY <1>2, <1>4, <2>1, <2>4, Unconcerned
    <3> QED
      BY <1>3, <2>4, <3>1
  <2> QED
    BY <2>2, <2>3, <2>4
<1>6. e.in <= len /\ e.out <= len
  BY <1>1, <1>2
<1>7. Booked(d, Append(evs, e))
  <2>1. clock \in Nat
    BY DEF Logged
  <2>0. Len(d.accounts) = len /\ Len(c.accounts) = len
    BY <1>3, Zenon DEF len
  <2>2. /\ Len(d.accounts) = len /\ Len(c.accounts) = len /\ Len(d.accounts) \in Nat
        /\ Len(c.accounts) \in Nat /\ Len(c.accounts) <= Len(d.accounts)
    <3>1. len \in Nat /\ len <= len
      BY <1>1
    <3> QED
      BY <2>0, <3>1, Zenon
  <2>3. \A k \in 1 .. Len(d.accounts) : Story(Append(evs, e), k, d.accounts[k])
    BY <1>5, <2>2
  <2> QED
    BY <1>2, <1>6, <2>1, <2>2, <2>3, BookedMore
<1> QED
  BY <1>7 DEF d, e

-----------------------------------------------------------------------------
(* The tenures after an event.                                               *)

LEMMA SinceOfMore ==
  ASSUME NEW held \in Seq(TenureType), NEW t \in TenureType, NEW after \in Nat
  PROVE  Since(Append(held, t), after) =
           IF t.from > after THEN Append(Since(held, after), t) ELSE Since(held, after)
<1> DEFINE P == {n \in DOMAIN held : held[n].from > after}
           more == Append(held, t)
           Q == {n \in DOMAIN more : more[n].from > after}
<1>1. /\ Len(held) \in Nat /\ more[Len(held) + 1] = t
      /\ DOMAIN more = 1 .. Len(held) + 1 /\ DOMAIN held = 1 .. Len(held)
      /\ \A n \in 1 .. Len(held) : more[n] = held[n]
  OBVIOUS
<1>2. \A n \in 1 .. Len(held) : n \in P <=> n \in Q
  BY <1>1
<1>3. Len(held) + 1 \in Q <=> t.from > after
  BY <1>1
<1>4. Since(held, after) = Picked(held, P) /\ Since(more, after) = Picked(more, Q)
  BY DEF Since
<1> HIDE DEF P, Q
<1>5. Picked(more, Q) = IF Len(held) + 1 \in Q THEN Append(Picked(held, P), t) ELSE Picked(held, P)
  BY <1>1, <1>2, PickedOfMore
<1> QED
  BY <1>3, <1>4, <1>5

(* A tenure that ends is still the last, with its end and its settlement.    *)
LEMMA EndedIs ==
  ASSUME Logged, NEW held \in Seq(TenureType), Len(held) > 0, NEW used \in Nat, NEW refund \in Nat,
         \A n \in 1 .. Len(held) : held[n].from \in 1 .. clock
  PROVE  \E front \in Seq(TenureType), last, closed \in TenureType :
           /\ front = SubSeq(held, 1, Len(held) - 1) /\ last = held[Len(held)]
           /\ held = Append(front, last) /\ Ended(held, used, refund) = Append(front, closed)
           /\ closed = [last EXCEPT !.until = clock, !.used = used, !.refund = refund]
           /\ \A n \in 1 .. Len(Ended(held, used, refund)) :
                Ended(held, used, refund)[n].from \in 1 .. clock
<1> DEFINE len == Len(held)
           front == SubSeq(held, 1, len - 1)
           last == held[len]
           closed == [last EXCEPT !.until = clock, !.used = used, !.refund = refund]
           ended == Ended(held, used, refund)
<1>1. /\ len \in Nat /\ len > 0 /\ front \in Seq(TenureType) /\ last \in TenureType
      /\ held = Append(front, last) /\ Len(front) = len - 1
      /\ \A n \in 1 .. len - 1 : front[n] = held[n]
  <2>1. len \in Nat /\ len > 0 /\ len \in 1 .. len /\ held = SubSeq(held, 1, len)
    BY FirstAndLast
  <2>2. /\ SubSeq(held, 1, len) = Append(SubSeq(held, 1, len - 1), held[len])
        /\ front \in Seq(TenureType) /\ last \in TenureType /\ Len(front) = len - 1
    BY <2>1, Beginnings
  <2>3. \A n \in 1 .. len - 1 : front[n] = held[n]
    BY <2>1
  <2> HIDE DEF len
  <2> QED
    BY <2>1, <2>2, <2>3
<1>2. closed \in TenureType /\ closed.from = last.from
  BY <1>1 DEF TenureType, Logged
<1>3. ended = [held EXCEPT ![len] = closed]
  BY <1>1 DEF Ended
<1> HIDE DEF closed, ended
<1>4. Append(front, closed) = [held EXCEPT ![len] = closed]
  <2> HIDE DEF front, last
  <2>1. /\ Append(front, closed) \in Seq(TenureType)
        /\ [held EXCEPT ![len] = closed] \in Seq(TenureType)
        /\ Len(Append(front, closed)) = len /\ Len([held EXCEPT ![len] = closed]) = len
    BY <1>1, <1>2
  <2>2. ASSUME NEW n \in 1 .. len
        PROVE  Append(front, closed)[n] = [held EXCEPT ![len] = closed][n]
    <3>1. CASE n = len
      BY <1>1, <1>2, <3>1
    <3>2. CASE n # len
      <4>1. n \in 1 .. len - 1 /\ n \in 1 .. Len(front)
        BY <1>1, <3>2
      <4>2. Append(front, closed)[n] = front[n]
        BY <1>1, <1>2, <4>1
      <4>3. [held EXCEPT ![len] = closed][n] = held[n]
        BY <3>2
      <4> QED
        BY <1>1, <4>1, <4>2, <4>3
    <3> QED
      BY <3>1, <3>2
  <2> DEFINE a == Append(front, closed)
             b == [held EXCEPT ![len] = closed]
  <2>3. /\ a \in Seq(TenureType) /\ b \in Seq(TenureType) /\ Len(a) = Len(b) /\ Len(a) = len
        /\ \A n \in 1 .. Len(a) : a[n] = b[n]
    BY <2>1, <2>2
  <2> HIDE DEF a, b
  <2>4. a = b
    BY <2>3, SeqEqual
  <2> QED
    BY <2>4 DEF a, b
<1>5. ASSUME NEW n \in 1 .. Len(ended) PROVE ended[n].from \in 1 .. clock
  <2>1. Len(ended) = len
    BY <1>1, <1>3
  <2>2. ended[n] = IF n = len THEN closed ELSE held[n]
    BY <1>1, <1>3, <2>1
  <2>3. n \in 1 .. Len(held)
    BY <2>1
  <2> QED
    BY <1>1, <1>2, <2>2, <2>3
<1> QED
  BY <1>1, <1>2, <1>3, <1>4, <1>5 DEF closed, ended

LEMMA EndedType ==
  ASSUME Logged, NEW held \in Seq(TenureType), Len(held) > 0, NEW used \in Nat, NEW refund \in Nat,
         \A n \in 1 .. Len(held) : held[n].from \in 1 .. clock
  PROVE  /\ Ended(held, used, refund) \in Seq(TenureType)
         /\ \A n \in 1 .. Len(Ended(held, used, refund)) :
              Ended(held, used, refund)[n].from \in 1 .. clock
<1> DEFINE ended == Ended(held, used, refund)
<1>1. PICK front \in Seq(TenureType), last \in TenureType, closed \in TenureType :
           /\ front = SubSeq(held, 1, Len(held) - 1) /\ last = held[Len(held)]
           /\ held = Append(front, last) /\ ended = Append(front, closed)
           /\ closed = [last EXCEPT !.until = clock, !.used = used, !.refund = refund]
           /\ \A n \in 1 .. Len(ended) : ended[n].from \in 1 .. clock
  BY EndedIs
<1>2. Append(front, closed) \in Seq(TenureType)
  OBVIOUS
<1> HIDE DEF ended
<1>3. ended \in Seq(TenureType) /\ \A n \in 1 .. Len(ended) : ended[n].from \in 1 .. clock
  BY <1>1, <1>2
<1> QED
  BY <1>3 DEF ended

(* Closing the open tenancy gives the tenures with the last one ended.       *)
LEMMA Closing ==
  ASSUME Logged, NEW c, Seated(c), c.tenant # Nobody, NEW evs, NEW after \in Nat,
         Retold(c, evs, after), NEW e \in EventType, e.at = clock
  PROVE  /\ Close(Walked(evs), e) =
              [done |-> Since(Ended(c.held, e.used, e.refund), after), current |-> Vacant]
         /\ Ended(c.held, e.used, e.refund) \in Seq(TenureType)
         /\ \A n \in 1 .. Len(Ended(c.held, e.used, e.refund)) :
              Ended(c.held, e.used, e.refund)[n].from \in 1 .. clock
<1> DEFINE held == c.held
           ended == Ended(held, e.used, e.refund)
<1>1. /\ held \in Seq(TenureType) /\ Len(held) > 0
      /\ \A n \in 1 .. Len(held) : held[n].from \in 1 .. clock
  BY DEF Seated
<1>2. e.used \in Nat /\ e.refund \in Nat
  BY DEF EventType
<1> HIDE DEF held
<1>3. PICK front \in Seq(TenureType), last \in TenureType, closed \in TenureType :
           /\ front = SubSeq(held, 1, Len(held) - 1) /\ last = held[Len(held)]
           /\ held = Append(front, last) /\ ended = Append(front, closed)
           /\ closed = [last EXCEPT !.until = clock, !.used = e.used, !.refund = e.refund]
           /\ \A n \in 1 .. Len(ended) : ended[n].from \in 1 .. clock
  BY <1>1, <1>2, EndedIs
<1>4. last.from \in 1 .. clock /\ clock \in Nat
  <2>1. Len(held) \in 1 .. Len(held)
    BY <1>1
  <2> QED
    BY <1>1, <1>3, <2>1 DEF Logged
<1>5. closed.from = last.from
  BY <1>3 DEF TenureType
<1> HIDE DEF ended
<1>6. /\ Since(held, after) = IF last.from > after THEN Append(Since(front, after), last)
                              ELSE Since(front, after)
      /\ Since(ended, after) = IF last.from > after THEN Append(Since(front, after), closed)
                               ELSE Since(front, after)
  <2>1. Since(Append(front, last), after) =
          IF last.from > after THEN Append(Since(front, after), last) ELSE Since(front, after)
    BY SinceOfMore
  <2>2. Since(Append(front, closed), after) =
          IF closed.from > after THEN Append(Since(front, after), closed) ELSE Since(front, after)
    BY SinceOfMore
  <2> QED
    BY <1>3, <1>5, <2>1, <2>2, Zenon
<1>7. ended \in Seq(TenureType) /\ \A n \in 1 .. Len(ended) : ended[n].from \in 1 .. clock
  BY <1>3
<1>8. CASE last.from > after
  <2>1. Walked(evs) = [done |-> Since(front, after), current |-> last]
    BY <1>3, <1>8 DEF Retold, held
  <2>2. last # Vacant
    BY <1>4 DEF Vacant
  <2> DEFINE t == Walked(evs)
  <2>3. t.done = Since(front, after) /\ t.current = last
    BY <2>1
  <2> HIDE DEF t
  <2>4. Close(t, e) = [done |-> Append(t.done, [t.current EXCEPT !.until = clock, !.used = e.used,
                                                                 !.refund = e.refund]),
                       current |-> Vacant]
    BY <2>2, <2>3, Zenon DEF Close
  <2>5. Close(t, e) = [done |-> Append(Since(front, after), closed), current |-> Vacant]
    BY <1>3, <2>3, <2>4, Zenon
  <2>6. Since(ended, after) = Append(Since(front, after), closed)
    BY <1>6, <1>8
  <2> QED
    BY <1>7, <2>5, <2>6, Zenon DEF held, ended, t
<1>9. CASE ~(last.from > after)
  <2>1. Walked(evs) = [done |-> Since(held, after), current |-> Vacant]
    BY <1>3, <1>9 DEF Retold, held
  <2>2. Close(Walked(evs), e) = Walked(evs)
    BY <2>1 DEF Close
  <2>3. Since(ended, after) = Since(held, after)
    BY <1>6, <1>9
  <2> QED
    BY <1>7, <2>1, <2>2, <2>3, Zenon DEF held, ended
<1> QED
  BY <1>8, <1>9

(* Opening one adds the tenure that begins.                                  *)
LEMMA Opening ==
  ASSUME Logged, NEW d, NEW held \in Seq(TenureType), NEW after \in Nat, after < clock,
         NEW e \in EventType, e.at = clock, NEW t, t.current = Vacant, t.done = Since(held, after),
         t = [done |-> t.done, current |-> t.current],
         d.held = Append(held, Tenure(e.in, e.paid)), d.tenant # Nobody,
         NEW evs, Walked(evs) = Open(t, e)
  PROVE  Retold(d, evs, after)
<1> DEFINE new == Tenure(e.in, e.paid)
<1>1. new \in TenureType /\ new.from = clock /\ clock \in Nat
  BY DEF Tenure, TenureType, EventType, Logged
<1>2. new = [cap |-> e.in, from |-> e.at, until |-> 0, acquired |-> e.paid, used |-> 0,
             refund |-> 0]
  BY Zenon DEF Tenure
<1> HIDE DEF new
<1>3. Open(t, e) = [done |-> Since(held, after), current |-> new]
  BY <1>2 DEF Open
<1>4. d.held = Append(held, new)
  BY DEF new
<1>5. /\ Len(d.held) = Len(held) + 1 /\ d.held[Len(d.held)] = new
      /\ SubSeq(d.held, 1, Len(d.held) - 1) = held
  <2>1. /\ Len(Append(held, new)) = Len(held) + 1 /\ Append(held, new)[Len(held) + 1] = new
        /\ SubSeq(Append(held, new), 1, Len(held)) = held /\ (Len(held) + 1) - 1 = Len(held)
    BY <1>1
  <2> QED
    BY <1>4, <2>1
<1> QED
  BY <1>1, <1>3, <1>5 DEF Retold

(* A tenure that begins is the last and the tenant's own.                    *)
LEMMA Begun ==
  ASSUME Logged, NEW held \in Seq(TenureType), NEW cap \in Nat, NEW stake \in Nat,
         \A n \in 1 .. Len(held) : held[n].from \in 1 .. clock
  PROVE  LET more == Append(held, Tenure(cap, stake))
         IN  /\ more \in Seq(TenureType) /\ Len(more) > 0
             /\ \A n \in 1 .. Len(more) : more[n].from \in 1 .. clock
             /\ more[Len(more)] = [cap |-> cap, from |-> more[Len(more)].from, until |-> 0,
                                   acquired |-> stake, used |-> 0, refund |-> 0]
<1> DEFINE new == Tenure(cap, stake)
           more == Append(held, new)
<1>1. clock \in Nat /\ clock > 0
  BY DEF Logged
<1>2. /\ new \in TenureType /\ new.from \in 1 .. clock
      /\ new = [cap |-> cap, from |-> new.from, until |-> 0, acquired |-> stake, used |-> 0,
                refund |-> 0]
  BY <1>1 DEF Tenure, TenureType
<1> HIDE DEF new
<1>3. /\ Len(held) \in Nat /\ more \in Seq(TenureType) /\ Len(more) = Len(held) + 1
      /\ more[Len(held) + 1] = new /\ \A n \in 1 .. Len(held) : more[n] = held[n]
      /\ \A n \in 1 .. Len(held) + 1 : n \in 1 .. Len(held) \/ n = Len(held) + 1
  BY <1>2
<1> HIDE DEF more
<1>4. ASSUME NEW n \in 1 .. Len(more) PROVE more[n].from \in 1 .. clock
  BY <1>2, <1>3
<1>5. more[Len(more)] = new /\ Len(more) > 0
  BY <1>3
<1> QED
  BY <1>2, <1>3, <1>4, <1>5 DEF more, new

-----------------------------------------------------------------------------
(* Each step of a transaction leaves a sound chain.                          *)

LEMMA JoinMore ==
  ASSUME NEW evs \in Seq(EventType), NEW tail \in Seq(EventType), NEW e \in EventType
  PROVE  /\ evs \o tail \in Seq(EventType)
         /\ evs \o Append(tail, e) = Append(evs \o tail, e)
  OBVIOUS

LEMMA WalkedOne ==
  ASSUME NEW evs \in Seq(EventType), NEW e \in EventType
  PROVE  Walked(Append(evs, e)) = TenancyStep(Walked(evs), e)
  BY WalkedOfMore

(* What is left to show of a chain after one event.                          *)
LEMMA SoundMore ==
  ASSUME Logged, NEW c, Sound(c), NEW d, NEW e \in EventType,
         d.events = Append(c.events, e), Seated(d),
         \A evs \in Seq(EventType) : Booked(c, evs) => Booked(d, Append(evs, e)),
         \A evs \in Seq(EventType), after \in Nat :
           after < clock /\ Retold(c, evs, after) => Retold(d, Append(evs, e), after)
  PROVE  Sound(d)
<1>1. c.events \in Seq(EventType) /\ d.events \in Seq(EventType)
  BY DEF Sound
<1>2. ASSUME NEW after
      PROVE  /\ Emitted(Window(after)) \o c.events \in Seq(EventType)
             /\ Emitted(Window(after)) \o d.events = Append(Emitted(Window(after)) \o c.events, e)
  <2> DEFINE evs == Emitted(Window(after))
  <2>1. evs \in Seq(EventType)
    BY WindowType
  <2> HIDE DEF evs
  <2>2. evs \o c.events \in Seq(EventType) /\ evs \o d.events = Append(evs \o c.events, e)
    BY <1>1, <2>1, JoinMore
  <2> QED
    BY <2>2 DEF evs
<1>3. Booked(d, Emitted(Window(0)) \o d.events)
  BY <1>2 DEF Sound
<1>4. ASSUME NEW after \in Nat, after < clock
      PROVE  Retold(d, Emitted(Window(after)) \o d.events, after)
  BY <1>2, <1>4 DEF Sound
<1> QED
  BY <1>1, <1>3, <1>4 DEF Sound

LEMMA HandoverSeated ==
  ASSUME Logged, NEW c, Seated(c), c.challenger # Nobody, NEW used \in 0 .. c.tenant.stake,
         NEW since \in Nat
  PROVE  Seated(AfterHandover(c, used, since))
<1> DEFINE d == AfterHandover(c, used, since)
           e == Handover(c, used)
           ended == Ended(c.held, used, c.tenant.stake - used)
           y == c.challenger
<1>1. /\ y \in SeatType /\ y.cap \in 1 .. Len(c.accounts) /\ c.tenant.cap # y.cap
      /\ y.stake = c.accounts[y.cap].paid /\ c.tenant # Nobody
      /\ c.accounts \in Seq(AccountType)
  BY Contested DEF Seated
<1>2. /\ d.accounts \in Seq(AccountType) /\ Len(d.accounts) = Len(c.accounts)
      /\ d.accounts[y.cap] = [c.accounts[y.cap] EXCEPT !.status = "active"]
  <2>1. /\ d.accounts \in Seq(AccountType) /\ Len(d.accounts) = Len(c.accounts)
        /\ \A k \in 1 .. Len(c.accounts) :
             d.accounts[k] =
               IF k = c.tenant.cap
               THEN [c.accounts[k] EXCEPT !.status = "displaced", !.used = used,
                                          !.refund = c.tenant.stake - used]
               ELSE IF k = c.challenger.cap THEN [c.accounts[k] EXCEPT !.status = "active"]
               ELSE c.accounts[k]
    BY HandoverAccounts, Zenon
  <2> HIDE DEF d
  <2> QED
    BY <1>1, <2>1
<1>3. d.accounts[y.cap].status = "active" /\ d.accounts[y.cap].paid = y.stake
  BY <1>1, <1>2 DEF AccountType
<1>4. d.tenant = [y EXCEPT !.since = since] /\ d.challenger = Nobody
  BY DEF AfterHandover
<1>5. d.tenant \in SeatType /\ d.tenant.cap = y.cap /\ d.tenant.stake = y.stake
  BY <1>1, <1>4 DEF SeatType
<1>6. Takes(d, d.tenant, "active")
  BY <1>1, <1>2, <1>3, <1>5 DEF Takes
<1>7. Takes(d, d.challenger, "pending")
  BY <1>4 DEF Takes, SeatType, Nobody
<1>8. d.tenant # Nobody
  BY <1>1, <1>5 DEF Nobody
<1>9. /\ ended \in Seq(TenureType) /\ \A n \in 1 .. Len(ended) : ended[n].from \in 1 .. clock
  <2>1. used \in Nat /\ c.tenant.stake - used \in Nat
    BY HandoverType
  <2>2. /\ c.held \in Seq(TenureType) /\ Len(c.held) > 0
        /\ \A n \in 1 .. Len(c.held) : c.held[n].from \in 1 .. clock
    BY <1>1 DEF Seated
  <2> DEFINE held == c.held
             rest == c.tenant.stake - used
  <2>3. /\ held \in Seq(TenureType) /\ Len(held) > 0 /\ used \in Nat /\ rest \in Nat
        /\ \A n \in 1 .. Len(held) : held[n].from \in 1 .. clock
    BY <2>1, <2>2
  <2> HIDE DEF held, rest
  <2>4. /\ Ended(held, used, rest) \in Seq(TenureType)
        /\ \A n \in 1 .. Len(Ended(held, used, rest)) :
             Ended(held, used, rest)[n].from \in 1 .. clock
    BY <2>3, EndedType
  <2> QED
    BY <2>4 DEF held, rest
<1>10. d.held = Append(ended, Tenure(y.cap, y.stake))
  BY DEF AfterHandover
<1>11. d = [tenant |-> d.tenant, challenger |-> d.challenger, accounts |-> d.accounts,
            held |-> d.held, events |-> d.events]
  BY DEF AfterHandover
<1> HIDE DEF ended, d
<1>12. /\ d.held \in Seq(TenureType) /\ Len(d.held) > 0
       /\ \A n \in 1 .. Len(d.held) : d.held[n].from \in 1 .. clock
       /\ d.held[Len(d.held)] = [cap |-> y.cap, from |-> d.held[Len(d.held)].from, until |-> 0,
                                 acquired |-> y.stake, used |-> 0, refund |-> 0]
  <2>1. y.cap \in Nat /\ y.stake \in Nat
    BY <1>1 DEF SeatType
  <2> QED
    BY <1>9, <1>10, <2>1, Begun
<1>13. Seated(d)
  BY <1>2, <1>5, <1>6, <1>7, <1>8, <1>11, <1>12 DEF Seated
<1> QED
  BY <1>13 DEF d

LEMMA HandoverSound ==
  ASSUME Logged, NEW c, Sound(c), NEW d \in HandedOver(c)
  PROVE  Sound(d)
<1>1. Seated(c)
  BY DEF Sound
<1>2. c.challenger # Nobody
  BY <1>1, HandedOverIs
<1>3. PICK used \in 0 .. c.tenant.stake, since \in Nat : d = AfterHandover(c, used, since)
  BY <1>1, HandedOverIs
<1> DEFINE e == Handover(c, used)
           rest == c.tenant.stake - used
           ended == Ended(c.held, used, rest)
<1>4. e \in EventType /\ used \in Nat /\ rest \in Nat
  BY <1>1, <1>2, HandoverType
<1>5. /\ e.kind = "HandoverCompleted" /\ e.in = c.challenger.cap /\ e.at = clock
      /\ e.paid = c.challenger.stake /\ e.used = used /\ e.refund = rest
  BY DEF Handover, Event
<1>6. d.events = Append(c.events, e)
  BY <1>3 DEF AfterHandover
<1>7. Seated(d)
  BY <1>1, <1>2, <1>3, HandoverSeated
<1>8. d.held = Append(ended, Tenure(c.challenger.cap, c.challenger.stake))
  BY <1>3 DEF AfterHandover
<1>9. d.tenant # Nobody
  <2>1. d.tenant = [c.challenger EXCEPT !.since = since]
    BY <1>3 DEF AfterHandover
  <2>2. c.challenger \in SeatType /\ c.challenger.cap \in 1 .. Len(c.accounts)
    BY <1>1, <1>2, Contested
  <2> QED
    BY <2>1, <2>2 DEF SeatType, Nobody
<1>10. c.tenant # Nobody
  BY <1>1, <1>2, Contested
<1> HIDE DEF e, rest, ended
<1>11. ASSUME NEW evs \in Seq(EventType), Booked(c, evs) PROVE Booked(d, Append(evs, e))
  BY <1>1, <1>2, <1>3, <1>11, HandoverBooked DEF e
<1>12. ASSUME NEW evs \in Seq(EventType), NEW after \in Nat, after < clock, Retold(c, evs, after)
       PROVE  Retold(d, Append(evs, e), after)
  <2> DEFINE t == Close(Walked(evs), e)
  <2>1. /\ t = [done |-> Since(ended, after), current |-> Vacant]
        /\ ended \in Seq(TenureType)
    BY <1>1, <1>4, <1>5, <1>10, <1>12, Closing DEF ended
  <2>2. Walked(Append(evs, e)) = TenancyStep(Walked(evs), e)
    BY <1>4, WalkedOne
  <2>3. TenancyStep(Walked(evs), e) = Open(t, e)
    BY <1>5 DEF TenancyStep
  <2> HIDE DEF t
  <2>4. /\ t.current = Vacant /\ t.done = Since(ended, after)
        /\ t = [done |-> t.done, current |-> t.current]
    BY <2>1
  <2>5. d.held = Append(ended, Tenure(e.in, e.paid))
    BY <1>5, <1>8
  <2>6. Walked(Append(evs, e)) = Open(t, e)
    BY <2>2, <2>3
  <2> QED
    BY <1>4, <1>5, <1>9, <1>12, <2>1, <2>4, <2>5, <2>6, Opening
<1> QED
  BY <1>4, <1>6, <1>7, <1>11, <1>12, SoundMore

(* A tenure's end.                                                           *)
Expiry(c) == Event("TenureExpired", 0, 0, c.tenant.cap, c.tenant.stake, 0)

LEMMA SeatedTenant ==
  ASSUME NEW c, Seated(c), c.tenant # Nobody
  PROVE  /\ c.tenant \in SeatType /\ c.tenant.cap \in 1 .. Len(c.accounts)
         /\ c.tenant.stake = c.accounts[c.tenant.cap].paid
         /\ c.accounts[c.tenant.cap].status = "active"
         /\ c.accounts \in Seq(AccountType) /\ Len(c.accounts) \in Nat
         /\ c.accounts[c.tenant.cap] \in AccountType
  BY DEF Seated, Takes

LEMMA ExpirySound ==
  ASSUME Logged, NEW c, Sound(c), NEW d \in Expired(c)
  PROVE  Sound(d)
<1> DEFINE e == Expiry(c)
           x == c.tenant.cap
           stake == c.tenant.stake
           ended == Ended(c.held, stake, 0)
           a == c.accounts[x]
           closed == [a EXCEPT !.status = "expired", !.used = stake, !.refund = 0]
           len == Len(c.accounts)
<1>1. Seated(c) /\ clock \in Nat
  BY DEF Sound, Logged
<1>2. c.tenant # Nobody /\ c.challenger = Nobody
  BY DEF Expired
<1>3. d = [tenant |-> Nobody, challenger |-> Nobody,
           accounts |-> Closed(c, x, "expired", stake, 0), held |-> ended,
           events |-> Append(c.events, e)]
  BY <1>2 DEF Expired, Expiry
<1>4. /\ x \in 1 .. len /\ x \in Nat /\ stake \in Nat /\ stake = a.paid /\ a.status = "active"
      /\ c.accounts \in Seq(AccountType) /\ len \in Nat /\ a \in AccountType /\ x # 0
  BY <1>1, <1>2, SeatedTenant DEF SeatType
<1>5. /\ e \in EventType /\ e.kind = "TenureExpired" /\ e.in = 0 /\ e.paid = 0 /\ e.out = x
      /\ e.at = clock /\ e.used = stake /\ e.refund = 0 /\ stake = e.used + e.refund
  BY <1>1, <1>4 DEF Expiry, Event, EventType, Kinds
<1>6. closed \in AccountType
  BY <1>4 DEF AccountType
<1>7. d.accounts = [c.accounts EXCEPT ![x] = closed]
  BY <1>3, <1>4 DEF Closed
<1>8. /\ d.tenant = Nobody /\ d.challenger = Nobody /\ d.held = ended
      /\ d.events = Append(c.events, e)
      /\ d = [tenant |-> d.tenant, challenger |-> d.challenger, accounts |-> d.accounts,
              held |-> d.held, events |-> d.events]
  BY <1>3
<1> HIDE DEF e, closed, ended, x, stake, a
<1>9. /\ d.accounts \in Seq(AccountType) /\ Len(d.accounts) = len
      /\ \A k \in 1 .. len : d.accounts[k] = IF k = x THEN closed ELSE c.accounts[k]
  BY <1>4, <1>6, <1>7
<1> HIDE DEF len
<1>10. Seated(d)
  <2>1. ended \in Seq(TenureType) /\ \A n \in 1 .. Len(ended) : ended[n].from \in 1 .. clock
    <3>1. /\ c.held \in Seq(TenureType) /\ Len(c.held) > 0 /\ 0 \in Nat
          /\ \A n \in 1 .. Len(c.held) : c.held[n].from \in 1 .. clock
      BY <1>1, <1>2 DEF Seated
    <3> QED
      BY <1>4, <3>1, EndedType DEF ended
  <2>2. Nobody \in SeatType
    BY DEF Nobody, SeatType
  <2> QED
    BY <1>8, <1>9, <2>1, <2>2 DEF Seated, Takes
<1>11. ASSUME NEW evs \in Seq(EventType), Booked(c, evs) PROVE Booked(d, Append(evs, e))
  <2>1. /\ \A k \in 1 .. len : Story(evs, k, c.accounts[k])
        /\ \A n \in 1 .. Len(evs) : evs[n].at <= e.at
    BY <1>5, <1>11 DEF Booked, len
  <2>2. ASSUME NEW k \in 1 .. len PROVE Story(Append(evs, e), k, d.accounts[k])
    <3>1. k \in Nat /\ k # 0
      BY <1>4
    <3>2. CASE k = x
      <4>1. Story(evs, x, a)
        BY <1>4, <2>1 DEF a
      <4>2. Story(Append(evs, e), x, [a EXCEPT !.status = OutcomeOf(e.kind), !.used = e.used,
                                               !.refund = e.refund])
        BY <1>4, <1>5, <2>1, <4>1, Leaving
      <4>3. OutcomeOf(e.kind) = "expired"
        BY <1>5 DEF OutcomeOf
      <4>4. closed = [a EXCEPT !.status = OutcomeOf(e.kind), !.used = e.used, !.refund = e.refund]
        BY <1>5, <4>3, Zenon DEF closed
      <4>5. d.accounts[k] = closed
        BY <1>4, <1>9, <3>2
      <4> QED
        BY <3>2, <4>2, <4>4, <4>5
    <3>3. CASE k # x
      <4>1. Story(Append(evs, e), k, c.accounts[k])
        BY <1>5, <2>1, <3>1, <3>3, Unconcerned
      <4>2. d.accounts[k] = c.accounts[k]
        BY <1>9, <3>3
      <4> QED
        BY <4>1, <4>2
    <3> QED
      BY <3>2, <3>3
  <2>3. /\ Len(d.accounts) \in Nat /\ Len(c.accounts) \in Nat /\ Len(c.accounts) <= Len(d.accounts)
        /\ e.in <= Len(d.accounts) /\ e.out <= Len(d.accounts)
    BY <1>4, <1>5, <1>9 DEF len
  <2>4. \A k \in 1 .. Len(d.accounts) : Story(Append(evs, e), k, d.accounts[k])
    BY <1>9, <2>2
  <2> QED
    BY <1>1, <1>5, <1>11, <2>3, <2>4, BookedMore
<1>12. ASSUME NEW evs \in Seq(EventType), NEW after \in Nat, after < clock, Retold(c, evs, after)
       PROVE  Retold(d, Append(evs, e), after)
  <2>1. Close(Walked(evs), e) = [done |-> Since(ended, after), current |-> Vacant]
    BY <1>1, <1>2, <1>5, <1>12, Closing DEF ended
  <2>2. Walked(Append(evs, e)) = TenancyStep(Walked(evs), e)
    BY <1>5, WalkedOne
  <2>3. TenancyStep(Walked(evs), e) = Close(Walked(evs), e)
    BY <1>5 DEF TenancyStep
  <2> QED
    BY <1>8, <2>1, <2>2, <2>3 DEF Retold
<1> QED
  BY <1>5, <1>8, <1>10, <1>11, <1>12, SoundMore

-----------------------------------------------------------------------------
(* A rent.                                                                   *)

Opened(p, status) == [paid |-> p, used |-> 0, refund |-> 0, status |-> status]

LEMMA OpenedAccounts ==
  ASSUME NEW accounts \in Seq(AccountType), NEW p \in Nat, NEW status \in {"active", "pending"}
  PROVE  /\ Append(accounts, Opened(p, status)) \in Seq(AccountType)
         /\ Len(Append(accounts, Opened(p, status))) = Len(accounts) + 1
         /\ Append(accounts, Opened(p, status))[Len(accounts) + 1] = Opened(p, status)
         /\ \A k \in 1 .. Len(accounts) : Append(accounts, Opened(p, status))[k] = accounts[k]
         /\ Opened(p, status).paid = p /\ Opened(p, status).status = status
<1> DEFINE new == Opened(p, status)
<1>1. new \in AccountType /\ new.paid = p /\ new.status = status
  BY DEF Opened, AccountType
<1> HIDE DEF new
<1>2. /\ Append(accounts, new) \in Seq(AccountType)
      /\ Len(Append(accounts, new)) = Len(accounts) + 1
      /\ Append(accounts, new)[Len(accounts) + 1] = new
      /\ \A k \in 1 .. Len(accounts) : Append(accounts, new)[k] = accounts[k]
  BY <1>1
<1> QED
  BY <1>1, <1>2 DEF new

(* The accounts of a rent are booked: the new cap enters, and a bid that is  *)
(* superseded leaves.                                                        *)
LEMMA RentBooked ==
  ASSUME clock \in Nat, NEW c, NEW d, NEW evs, Booked(c, evs), NEW e \in EventType,
         c.accounts \in Seq(AccountType), Len(d.accounts) = Len(c.accounts) + 1,
         e.at = clock, e.in = Len(c.accounts) + 1, e.out \in 0 .. Len(c.accounts),
         e.kind \in Entries,
         d.accounts[Len(c.accounts) + 1] =
           Opened(e.paid, IF e.kind = "RentStarted" THEN "active" ELSE "pending"),
         \A k \in 1 .. Len(c.accounts) :
           IF k = e.out THEN Story(Append(evs, e), k, d.accounts[k])
           ELSE d.accounts[k] = c.accounts[k]
  PROVE  Booked(d, Append(evs, e))
<1> DEFINE len == Len(c.accounts)
<1>1. len \in Nat /\ evs \in Seq(EventType) /\ len + 1 \in Nat /\ ~(len + 1 <= len)
  BY DEF Booked
<1>2. ASSUME NEW k \in 1 .. len + 1 PROVE Story(Append(evs, e), k, d.accounts[k])
  <2>1. CASE k = len + 1
    <3>1. \A n \in 1 .. Len(evs) : evs[n].in # len + 1 /\ evs[n].out # len + 1
      BY <1>1 DEF Booked
    <3>2. e.out # len + 1
      BY <1>1
    <3>3. Story(Append(evs, e), len + 1, d.accounts[len + 1])
      <4> DEFINE a == d.accounts[len + 1]
      <4>1. a = [paid |-> e.paid, used |-> 0, refund |-> 0,
                 status |-> IF e.kind = "RentStarted" THEN "active" ELSE "pending"]
        BY DEF Opened
      <4> HIDE DEF a
      <4>2. Story(Append(evs, e), len + 1, a)
        BY <1>1, <3>1, <3>2, <4>1, Entering
      <4> QED
        BY <4>2 DEF a
    <3> QED
      BY <2>1, <3>3
  <2>2. CASE k \in 1 .. len
    <3>1. CASE k = e.out
      BY <2>2, <3>1
    <3>2. CASE k # e.out
      <4>1. Story(evs, k, c.accounts[k]) /\ k \in Nat /\ e.in # k
        BY <1>1, <2>2 DEF Booked
      <4>2. Story(Append(evs, e), k, c.accounts[k])
        BY <1>1, <3>2, <4>1, Unconcerned
      <4> QED
        BY <2>2, <3>2, <4>2
    <3> QED
      BY <3>1, <3>2
  <2> QED
    BY <1>1, <2>1, <2>2
<1>3. /\ Len(d.accounts) \in Nat /\ Len(c.accounts) \in Nat /\ Len(c.accounts) <= Len(d.accounts)
      /\ e.in <= Len(d.accounts) /\ e.out <= Len(d.accounts)
  BY <1>1
<1>4. \A k \in 1 .. Len(d.accounts) : Story(Append(evs, e), k, d.accounts[k])
  BY <1>2
<1> QED
  BY <1>3, <1>4, BookedMore

LEMMA RentStartedSound ==
  ASSUME Logged, NEW c, Sound(c), NEW p \in Nat, c.tenant = Nobody
  PROVE  Sound(Rented(c, p))
<1> DEFINE d == Rented(c, p)
           cap == Len(c.accounts) + 1
           e == Event("RentStarted", cap, p, 0, 0, 0)
           new == [cap |-> cap, stake |-> p, since |-> clock]
<1>1. /\ Seated(c) /\ clock \in Nat /\ c.challenger = Nobody
      /\ c.accounts \in Seq(AccountType) /\ c.held \in Seq(TenureType)
      /\ cap \in Nat /\ cap # 0 /\ Len(c.accounts) \in Nat
      /\ c = [tenant |-> c.tenant, challenger |-> c.challenger, accounts |-> c.accounts,
              held |-> c.held, events |-> c.events]
      /\ \A n \in 1 .. Len(c.held) : c.held[n].from \in 1 .. clock
  BY DEF Sound, Seated, Logged
<1>2. d = [c EXCEPT !.tenant = new, !.accounts = Append(c.accounts, Opened(p, "active")),
                    !.held = Append(c.held, Tenure(cap, p)), !.events = Append(c.events, e)]
  BY DEF Rented, Opened
<1>3. /\ e \in EventType /\ e.kind = "RentStarted" /\ e.in = cap /\ e.paid = p /\ e.out = 0
      /\ e.at = clock /\ e.used = 0 /\ e.refund = 0
  BY <1>1 DEF Event, EventType, Kinds
<1>4. new \in SeatType /\ new.cap = cap /\ new.stake = p /\ new # Nobody
  BY <1>1 DEF SeatType, Nobody
<1> HIDE DEF d, e, new
<1>5. /\ d.tenant = new /\ d.challenger = Nobody /\ d.events = Append(c.events, e)
      /\ d.accounts = Append(c.accounts, Opened(p, "active"))
      /\ d.held = Append(c.held, Tenure(cap, p))
      /\ d = [tenant |-> d.tenant, challenger |-> d.challenger, accounts |-> d.accounts,
              held |-> d.held, events |-> d.events]
  BY <1>1, <1>2
<1>6. /\ d.accounts \in Seq(AccountType) /\ Len(d.accounts) = cap
      /\ d.accounts[cap] = Opened(p, "active")
      /\ \A k \in 1 .. Len(c.accounts) : d.accounts[k] = c.accounts[k]
      /\ d.accounts[cap].paid = p /\ d.accounts[cap].status = "active"
  BY <1>1, <1>5, OpenedAccounts
<1>7. /\ d.held \in Seq(TenureType) /\ Len(d.held) > 0
      /\ \A n \in 1 .. Len(d.held) : d.held[n].from \in 1 .. clock
      /\ d.held[Len(d.held)] = [cap |-> cap, from |-> d.held[Len(d.held)].from, until |-> 0,
                                acquired |-> p, used |-> 0, refund |-> 0]
  BY <1>1, <1>5, Begun
<1> HIDE DEF cap
<1>8. Seated(d)
  <2>1. cap \in 1 .. Len(d.accounts)
    BY <1>1, <1>6
  <2>2. Takes(d, new, "active")
    BY <1>4, <1>6, <2>1 DEF Takes
  <2>3. Takes(d, Nobody, "pending")
    BY DEF Takes, Nobody, SeatType
  <2> QED
    BY <1>4, <1>5, <1>6, <1>7, <2>2, <2>3 DEF Seated
<1>9. ASSUME NEW evs \in Seq(EventType), Booked(c, evs) PROVE Booked(d, Append(evs, e))
  <2>1. /\ e.out \in 0 .. Len(c.accounts) /\ e.kind \in Entries
        /\ Len(d.accounts) = Len(c.accounts) + 1 /\ e.in = Len(c.accounts) + 1
    BY <1>1, <1>3, <1>6 DEF Entries, cap
  <2>2. d.accounts[Len(c.accounts) + 1] =
          Opened(e.paid, IF e.kind = "RentStarted" THEN "active" ELSE "pending")
    BY <1>3, <1>6 DEF cap
  <2>3. \A k \in 1 .. Len(c.accounts) :
          IF k = e.out THEN Story(Append(evs, e), k, d.accounts[k])
          ELSE d.accounts[k] = c.accounts[k]
    BY <1>1, <1>3, <1>6
  <2> QED
    BY <1>1, <1>3, <1>9, <2>1, <2>2, <2>3, RentBooked
<1>10. ASSUME NEW evs \in Seq(EventType), NEW after \in Nat, after < clock, Retold(c, evs, after)
       PROVE  Retold(d, Append(evs, e), after)
  <2> DEFINE t == Walked(evs)
  <2>1. t = [done |-> Since(c.held, after), current |-> Vacant]
    BY <1>10 DEF Retold
  <2>2. Walked(Append(evs, e)) = TenancyStep(t, e)
    BY <1>3, WalkedOne
  <2>3. TenancyStep(t, e) = Open(t, e)
    BY <1>3 DEF TenancyStep
  <2> HIDE DEF t
  <2>4. /\ t.current = Vacant /\ t.done = Since(c.held, after)
        /\ t = [done |-> t.done, current |-> t.current]
    BY <2>1
  <2>5. Walked(Append(evs, e)) = Open(t, e)
    BY <2>2, <2>3
  <2>6. d.held = Append(c.held, Tenure(e.in, e.paid)) /\ d.tenant # Nobody
    BY <1>3, <1>4, <1>5
  <2> QED
    BY <1>1, <1>3, <1>10, <2>4, <2>5, <2>6, Opening
<1>11. Sound(d)
  BY <1>3, <1>5, <1>8, <1>9, <1>10, SoundMore
<1> QED
  BY <1>11 DEF d

(* A cap that is in has settled nothing.                                     *)
LEMMA StoryOpen ==
  ASSUME NEW evs, NEW cap, NEW a, Story(evs, cap, a), a.status = "pending"
  PROVE  a.used = 0 /\ a.refund = 0
  BY DEF Story, Balanced, OutcomeOf

(* Bids do not move the seat: what is left to show of them.                  *)
LEMMA BidSound ==
  ASSUME Logged, NEW c, Sound(c), NEW d, NEW p \in Nat, c.tenant # Nobody,
         NEW e \in EventType, e.kind \in {"BidPlaced", "BidSuperseded"},
         e.at = clock, e.in = Len(c.accounts) + 1, e.paid = p, e.out \in 0 .. Len(c.accounts),
         e.out # c.tenant.cap,
         d = [tenant |-> c.tenant, challenger |-> [cap |-> e.in, stake |-> p, since |-> clock],
              accounts |-> d.accounts, held |-> c.held, events |-> Append(c.events, e)],
         d.accounts \in Seq(AccountType), Len(d.accounts) = Len(c.accounts) + 1,
         d.accounts[Len(c.accounts) + 1] = Opened(p, "pending"),
         \A k \in 1 .. Len(c.accounts) : k # e.out => d.accounts[k] = c.accounts[k],
         \A evs \in Seq(EventType) :
           Booked(c, evs) /\ e.out # 0 => Story(Append(evs, e), e.out, d.accounts[e.out])
  PROVE  Sound(d)
<1> DEFINE new == [cap |-> e.in, stake |-> p, since |-> clock]
<1>1. /\ Seated(c) /\ clock \in Nat /\ Len(c.accounts) \in Nat
      /\ c.accounts \in Seq(AccountType)
  BY DEF Sound, Seated, Logged
<1>2. new \in SeatType /\ new.cap = e.in /\ new.stake = p /\ new # Nobody
  BY <1>1 DEF SeatType, Nobody
<1>3. /\ d.tenant = c.tenant /\ d.challenger = new /\ d.held = c.held
      /\ d.events = Append(c.events, e)
      /\ d = [tenant |-> d.tenant, challenger |-> d.challenger, accounts |-> d.accounts,
              held |-> d.held, events |-> d.events]
  <2> DEFINE accounts == d.accounts
  <2>1. d = [tenant |-> c.tenant, challenger |-> new, accounts |-> accounts, held |-> c.held,
             events |-> Append(c.events, e)]
    OBVIOUS
  <2> HIDE DEF accounts, new
  <2> QED
    BY <2>1
<1> HIDE DEF new
<1>4. Seated(d)
  <2>1. /\ c.tenant \in SeatType /\ c.tenant.cap \in 1 .. Len(c.accounts)
        /\ c.tenant.stake = c.accounts[c.tenant.cap].paid
        /\ c.accounts[c.tenant.cap].status = "active"
    BY <1>1, SeatedTenant
  <2>2. d.accounts[c.tenant.cap] = c.accounts[c.tenant.cap]
    BY <2>1
  <2>3. c.tenant.cap \in 1 .. Len(d.accounts) /\ e.in \in 1 .. Len(d.accounts)
    BY <1>1, <2>1
  <2>4. Takes(d, c.tenant, "active")
    BY <2>1, <2>2, <2>3 DEF Takes
  <2>5. d.accounts[e.in].paid = p /\ d.accounts[e.in].status = "pending"
    BY DEF Opened
  <2>6. Takes(d, new, "pending")
    BY <1>2, <2>3, <2>5 DEF Takes
  <2> QED
    BY <1>1, <1>3, <2>4, <2>6 DEF Seated
<1>5. ASSUME NEW evs \in Seq(EventType), Booked(c, evs) PROVE Booked(d, Append(evs, e))
  <2>1. e.kind \in Entries /\ e.kind # "RentStarted"
    BY DEF Entries
  <2>2. d.accounts[Len(c.accounts) + 1] =
          Opened(e.paid, IF e.kind = "RentStarted" THEN "active" ELSE "pending")
    BY <2>1
  <2>3. ASSUME NEW k \in 1 .. Len(c.accounts)
        PROVE  IF k = e.out THEN Story(Append(evs, e), k, d.accounts[k])
               ELSE d.accounts[k] = c.accounts[k]
    <3>1. k # 0
      BY <1>1
    <3>2. CASE k = e.out
      BY <1>5, <3>1, <3>2, Zenon
    <3>3. CASE k # e.out
      BY <3>3
    <3> QED
      BY <3>2, <3>3
  <2> QED
    BY <1>1, <1>5, <2>1, <2>2, <2>3, RentBooked
<1>6. ASSUME NEW evs \in Seq(EventType), NEW after \in Nat, after < clock, Retold(c, evs, after)
      PROVE  Retold(d, Append(evs, e), after)
  <2>1. Walked(Append(evs, e)) = TenancyStep(Walked(evs), e)
    BY WalkedOne
  <2>2. TenancyStep(Walked(evs), e) = Walked(evs)
    BY DEF TenancyStep
  <2> QED
    BY <1>3, <1>6, <2>1, <2>2 DEF Retold
<1> QED
  BY <1>3, <1>4, <1>5, <1>6, SoundMore

LEMMA BidPlacedSound ==
  ASSUME Logged, NEW c, Sound(c), NEW p \in Nat, c.tenant # Nobody, c.challenger = Nobody
  PROVE  Sound(Rented(c, p))
<1> DEFINE d == Rented(c, p)
           cap == Len(c.accounts) + 1
           e == Event("BidPlaced", cap, p, 0, 0, 0)
<1>1. /\ Seated(c) /\ clock \in Nat /\ c.accounts \in Seq(AccountType) /\ Len(c.accounts) \in Nat
      /\ cap \in Nat /\ 0 \in 0 .. Len(c.accounts)
      /\ c = [tenant |-> c.tenant, challenger |-> c.challenger, accounts |-> c.accounts,
              held |-> c.held, events |-> c.events]
  BY DEF Sound, Seated, Logged
<1>2. d = [c EXCEPT !.challenger = [cap |-> cap, stake |-> p, since |-> clock],
                    !.accounts = Append(c.accounts, Opened(p, "pending")),
                    !.events = Append(c.events, e)]
  BY DEF Rented, Opened
<1>3. /\ e \in EventType /\ e.kind = "BidPlaced" /\ e.in = cap /\ e.paid = p /\ e.out = 0
      /\ e.at = clock
  BY <1>1 DEF Event, EventType, Kinds
<1>4. c.tenant.cap # 0
  BY <1>1, SeatedTenant
<1> HIDE DEF d, e
<1>5. /\ d.accounts = Append(c.accounts, Opened(p, "pending"))
      /\ d = [tenant |-> c.tenant, challenger |-> [cap |-> cap, stake |-> p, since |-> clock],
              accounts |-> d.accounts, held |-> c.held, events |-> Append(c.events, e)]
  BY <1>1, <1>2
<1>6. /\ d.accounts \in Seq(AccountType) /\ Len(d.accounts) = Len(c.accounts) + 1
      /\ d.accounts[Len(c.accounts) + 1] = Opened(p, "pending")
      /\ \A k \in 1 .. Len(c.accounts) : d.accounts[k] = c.accounts[k]
  BY <1>1, <1>5, OpenedAccounts
<1>7. Sound(d)
  <2>1. /\ e.kind \in {"BidPlaced", "BidSuperseded"} /\ e.in = Len(c.accounts) + 1
        /\ e.out \in 0 .. Len(c.accounts) /\ e.out # c.tenant.cap
    BY <1>1, <1>3, <1>4
  <2>2. d = [tenant |-> c.tenant, challenger |-> [cap |-> e.in, stake |-> p, since |-> clock],
             accounts |-> d.accounts, held |-> c.held, events |-> Append(c.events, e)]
    BY <1>3, <1>5, Zenon
  <2>3. \A k \in 1 .. Len(c.accounts) : k # e.out => d.accounts[k] = c.accounts[k]
    BY <1>6
  <2>4. \A evs \in Seq(EventType) :
          Booked(c, evs) /\ e.out # 0 => Story(Append(evs, e), e.out, d.accounts[e.out])
    BY <1>3
  <2>5. /\ d.accounts \in Seq(AccountType) /\ Len(d.accounts) = Len(c.accounts) + 1
        /\ d.accounts[Len(c.accounts) + 1] = Opened(p, "pending")
        /\ e \in EventType /\ e.at = clock /\ e.paid = p
    BY <1>3, <1>6
  <2> HIDE DEF cap
  <2> QED
    BY <2>1, <2>2, <2>3, <2>4, <2>5, BidSound
<1> QED
  BY <1>7 DEF d

LEMMA BidSupersededSound ==
  ASSUME Logged, NEW c, Sound(c), NEW p \in Nat, c.challenger # Nobody
  PROVE  Sound(Rented(c, p))
<1> DEFINE d == Rented(c, p)
           cap == Len(c.accounts) + 1
           y == c.challenger.cap
           stake == c.challenger.stake
           a == c.accounts[y]
           e == Event("BidSuperseded", cap, p, y, 0, stake)
           more == Append(c.accounts, Opened(p, "pending"))
           out == [a EXCEPT !.status = "superseded", !.refund = stake]
<1>1. /\ Seated(c) /\ clock \in Nat /\ c.accounts \in Seq(AccountType) /\ Len(c.accounts) \in Nat
      /\ cap \in Nat
      /\ c = [tenant |-> c.tenant, challenger |-> c.challenger, accounts |-> c.accounts,
              held |-> c.held, events |-> c.events]
  BY DEF Sound, Seated, Logged
<1>2. /\ y \in 1 .. Len(c.accounts) /\ y # c.tenant.cap /\ stake = a.paid /\ a.status = "pending"
      /\ a \in AccountType /\ stake \in Nat /\ c.tenant # Nobody /\ y \in Nat /\ y # 0
      /\ y \in 0 .. Len(c.accounts)
  BY <1>1, Contested DEF SeatType
<1>3. /\ e \in EventType /\ e.kind = "BidSuperseded" /\ e.in = cap /\ e.paid = p /\ e.out = y
      /\ e.at = clock /\ e.used = 0 /\ e.refund = stake
  BY <1>1, <1>2 DEF Event, EventType, Kinds
<1>4. d = [c EXCEPT !.challenger = [cap |-> cap, stake |-> p, since |-> clock],
                    !.accounts = [more EXCEPT ![y] = [@ EXCEPT !.status = "superseded",
                                                              !.refund = stake]],
                    !.events = Append(c.events, e)]
  BY <1>2 DEF Rented, Opened
<1>5. /\ more \in Seq(AccountType) /\ Len(more) = Len(c.accounts) + 1
      /\ more[Len(c.accounts) + 1] = Opened(p, "pending")
      /\ \A k \in 1 .. Len(c.accounts) : more[k] = c.accounts[k]
  BY <1>1, OpenedAccounts
<1>6. out \in AccountType
  BY <1>2 DEF AccountType
<1> HIDE DEF d, e, y, stake, more
<1>7. /\ d.accounts = [more EXCEPT ![y] = [more[y] EXCEPT !.status = "superseded",
                                                          !.refund = stake]]
      /\ d = [tenant |-> c.tenant, challenger |-> [cap |-> cap, stake |-> p, since |-> clock],
              accounts |-> d.accounts, held |-> c.held, events |-> Append(c.events, e)]
  BY <1>1, <1>4
<1>8. d.accounts = [more EXCEPT ![y] = out]
  BY <1>2, <1>5, <1>7
<1> HIDE DEF out
<1>9. /\ d.accounts \in Seq(AccountType) /\ Len(d.accounts) = Len(c.accounts) + 1
      /\ d.accounts[Len(c.accounts) + 1] = Opened(p, "pending") /\ d.accounts[y] = out
      /\ \A k \in 1 .. Len(c.accounts) : k # y => d.accounts[k] = c.accounts[k]
  BY <1>1, <1>2, <1>5, <1>6, <1>8
<1>10. ASSUME NEW evs \in Seq(EventType), Booked(c, evs)
       PROVE  Story(Append(evs, e), y, out)
  <2>1. Story(evs, y, a) /\ \A n \in 1 .. Len(evs) : evs[n].at <= e.at
    BY <1>2, <1>3, <1>10 DEF Booked
  <2>2. a.used = 0
    BY <1>2, <2>1, StoryOpen
  <2>3. a.paid = e.used + e.refund /\ e.in # y
    BY <1>2, <1>3
  <2> HIDE DEF a
  <2>4. Story(Append(evs, e), y, [a EXCEPT !.status = OutcomeOf(e.kind), !.used = e.used,
                                           !.refund = e.refund])
    BY <1>2, <1>3, <2>1, <2>3, Leaving
  <2>5. OutcomeOf(e.kind) = "superseded"
    BY <1>3 DEF OutcomeOf
  <2>6. out = [a EXCEPT !.status = "superseded", !.used = 0, !.refund = stake]
    BY <1>2, <2>2 DEF out, AccountType, a
  <2>7. out = [a EXCEPT !.status = OutcomeOf(e.kind), !.used = e.used, !.refund = e.refund]
    BY <1>3, <2>5, <2>6, Zenon
  <2> QED
    BY <2>4, <2>7
<1>11. Sound(d)
  <2>1. /\ e.kind \in {"BidPlaced", "BidSuperseded"} /\ e.in = Len(c.accounts) + 1
        /\ e.out \in 0 .. Len(c.accounts) /\ e.out # c.tenant.cap
    BY <1>2, <1>3
  <2>2. d = [tenant |-> c.tenant, challenger |-> [cap |-> e.in, stake |-> p, since |-> clock],
             accounts |-> d.accounts, held |-> c.held, events |-> Append(c.events, e)]
    BY <1>3, <1>7, Zenon
  <2>3. \A k \in 1 .. Len(c.accounts) : k # e.out => d.accounts[k] = c.accounts[k]
    BY <1>3, <1>9
  <2>4. \A evs \in Seq(EventType) :
          Booked(c, evs) /\ e.out # 0 => Story(Append(evs, e), e.out, d.accounts[e.out])
    BY <1>3, <1>9, <1>10, Zenon
  <2> HIDE DEF cap
  <2> QED
    BY <1>2, <1>3, <1>9, <2>1, <2>2, <2>3, <2>4, BidSound
<1> QED
  BY <1>11 DEF d

LEMMA RentSound ==
  ASSUME Logged, NEW c, Sound(c), NEW p \in Nat
  PROVE  Sound(Rented(c, p))
  BY RentStartedSound, BidPlacedSound, BidSupersededSound

-----------------------------------------------------------------------------
(* The invariant.                                                            *)

LEMMA SettledSound ==
  ASSUME Logged, NEW c, Sound(c), NEW d \in Settled(c)
  PROVE  Sound(d)
<1>1. \A m \in HandedOver(c) : Sound(m)
  BY HandoverSound
<1>2. CASE d = c
  BY <1>2
<1>3. CASE d \in HandedOver(c)
  BY <1>1, <1>3
<1>4. CASE d \in Expired(c)
  BY <1>4, ExpirySound
<1>5. CASE \E m \in HandedOver(c) : d \in Expired(m)
  BY <1>1, <1>5, ExpirySound
<1> QED
  BY <1>2, <1>3, <1>4, <1>5 DEF Settled

(* Once its events are out, a chain is as sound without them.                *)
LEMMA Emptied ==
  ASSUME NEW d, Seated(d), NEW q, q = [d EXCEPT !.events = <<>>]
  PROVE  /\ Seated(q) /\ q.events = <<>> /\ q.accounts = d.accounts /\ q.tenant = d.tenant
         /\ q.held = d.held /\ q.challenger = d.challenger
<1>1. d = [tenant |-> d.tenant, challenger |-> d.challenger, accounts |-> d.accounts,
           held |-> d.held, events |-> d.events]
  BY DEF Seated
<1>2. /\ q.events = <<>> /\ q.accounts = d.accounts /\ q.tenant = d.tenant
      /\ q.held = d.held /\ q.challenger = d.challenger
      /\ q = [tenant |-> q.tenant, challenger |-> q.challenger, accounts |-> q.accounts,
              held |-> q.held, events |-> q.events]
  BY <1>1
<1> QED
  BY <1>2 DEF Seated, Takes

LEMMA JoinNone ==
  ASSUME NEW S, NEW seq \in Seq(S)
  PROVE  seq \o <<>> = seq
  OBVIOUS

(* Of a window that has not opened there is nothing to tell.                 *)
LEMMA Early ==
  ASSUME Logged, NEW c, Seated(c), NEW after \in Nat, after >= clock
  PROVE  Retold(c, Emitted(Window(after)), after)
<1>1. Window(after) = <<>> /\ Emitted(<<>>) = <<>> /\ Walked(<<>>) = NoTenancies
  BY WindowShut, EmittedOfNone, WalkedOfNone
<1>2. /\ clock \in Nat /\ c.held \in Seq(TenureType)
      /\ \A n \in 1 .. Len(c.held) : c.held[n].from \in 1 .. clock
  BY DEF Seated, Logged
<1>3. \A n \in 1 .. Len(c.held) : ~(c.held[n].from > after)
  BY <1>2
<1>4. Since(c.held, after) = <<>>
  BY <1>2, <1>3, PickedNothing DEF Since
<1>5. ~(c.tenant # Nobody /\ c.held[Len(c.held)].from > after)
  <2>1. c.tenant # Nobody => Len(c.held) > 0
    BY DEF Seated
  <2>2. c.tenant # Nobody => Len(c.held) \in 1 .. Len(c.held)
    BY <1>2, <2>1
  <2> QED
    BY <1>3, <2>2
<1> QED
  BY <1>1, <1>4, <1>5 DEF Retold, NoTenancies

LEMMA LedgerStarts == Init => LedgerInv
<1> SUFFICES ASSUME Init PROVE LedgerInv
  OBVIOUS
<1> USE DEF Init
<1>1. Logged
  BY DEF Logged
<1>2. Window(0) = <<>> /\ \A after : Window(after) = <<>>
  BY PickedOfNone DEF Window
<1>3. Walking
  BY <1>2 DEF Walking
<1>4. Seated(chain)
  BY DEF Seated, Takes, Nobody, SeatType
<1>5. chain.events = <<>> /\ chain.accounts = <<>> /\ <<>> \o <<>> = <<>>
  OBVIOUS
<1>6. Emitted(Window(0)) \o chain.events = <<>>
  BY <1>2, <1>5, EmittedOfNone
<1>7. Booked(chain, <<>>)
  BY <1>5 DEF Booked
<1>8. ASSUME NEW after \in Nat, after < clock
      PROVE  Retold(chain, Emitted(Window(after)) \o chain.events, after)
  <2>1. Since(<<>>, after) = <<>>
    BY PickedOfNone DEF Since
  <2>2. Emitted(Window(after)) \o chain.events = <<>>
    BY <1>2, <1>5, EmittedOfNone
  <2>3. Walked(<<>>) = NoTenancies
    BY WalkedOfNone
  <2>4. chain.tenant = Nobody /\ chain.held = <<>>
    OBVIOUS
  <2> QED
    BY <2>1, <2>2, <2>3, <2>4 DEF Retold, NoTenancies
<1>9. chain.events \in Seq(EventType)
  BY <1>5
<1> QED
  BY <1>1, <1>3, <1>4, <1>5, <1>6, <1>7, <1>8, <1>9 DEF LedgerInv, Sound

LEMMA LedgerTransaction ==
  ASSUME LedgerInv, Transaction
  PROVE  LedgerInv'
<1>1. Logged /\ Walking /\ Sound(chain)
  BY DEF LedgerInv
<1>2. PICK d : /\ Sound(d)
               /\ log' = Append(log, [at |-> clock, events |-> d.events])
               /\ chain' = [d EXCEPT !.events = <<>>]
  <2>1. PICK c \in Settled(chain) :
          \E d \in {c} \cup {Rented(c, p) : p \in Prices} :
            /\ log' = Append(log, [at |-> clock, events |-> d.events])
            /\ chain' = [d EXCEPT !.events = <<>>]
    BY DEF Transaction
  <2>2. PICK d \in {c} \cup {Rented(c, p) : p \in Prices} :
          /\ log' = Append(log, [at |-> clock, events |-> d.events])
          /\ chain' = [d EXCEPT !.events = <<>>]
    BY <2>1
  <2>3. Sound(c)
    BY <1>1, SettledSound
  <2>4. \A p \in Prices : Sound(Rented(c, p))
    BY <1>1, <2>3, RentSound, BoundsAssumption
  <2> QED
    BY <2>2, <2>3, <2>4
<1>3. clock' = clock /\ walk' = walk
  BY DEF Transaction
<1> DEFINE tx == [at |-> clock, events |-> d.events]
<1>4. tx \in TxType /\ tx.at = clock /\ tx.events = d.events /\ log' = Append(log, tx)
  BY <1>1, <1>2 DEF TxType, Sound, Logged
<1> HIDE DEF tx
<1>5. Logged'
  <2>1. log' \in Seq(TxType) /\ Len(log') = Len(log) + 1 /\ log'[Len(log) + 1] = tx
    BY <1>1, <1>4 DEF Logged
  <2>2. \A n \in 1 .. Len(log) : log'[n] = log[n]
    BY <1>1, <1>4 DEF Logged
  <2>3. ASSUME NEW n \in 1 .. Len(log') PROVE log'[n].at \in 1 .. clock
    <3>1. Len(log) \in Nat /\ clock \in Nat /\ clock > 0
      BY <1>1 DEF Logged
    <3>2. CASE n = Len(log) + 1
      BY <1>4, <2>1, <3>1, <3>2
    <3>3. CASE n # Len(log) + 1
      <4>1. n \in 1 .. Len(log)
        BY <2>1, <3>1, <3>3
      <4> QED
        BY <1>1, <2>2, <4>1 DEF Logged
    <3> QED
      BY <3>2, <3>3
  <2> QED
    BY <1>1, <1>3, <2>1, <2>3 DEF Logged
<1>6. Walking'
  BY <1>1, <1>3, <1>4, WalkingTransaction
<1>7. /\ Seated(chain') /\ (chain').events = <<>> /\ (chain').accounts = d.accounts
      /\ (chain').tenant = d.tenant /\ (chain').held = d.held
  BY <1>2, Emptied DEF Sound
<1>8. ASSUME NEW after \in Nat, after < clock
      PROVE  /\ Emitted(Window(after)') = Emitted(Window(after)) \o d.events
             /\ Emitted(Window(after)') \o <<>> = Emitted(Window(after)) \o d.events
  <2> DEFINE w == Window(after)
  <2>1. w \in Seq(TxType)
    BY <1>1, WindowType
  <2>2. Window(after)' = Append(w, tx)
    BY <1>1, <1>4, <1>8, WindowOfMore
  <2> HIDE DEF w
  <2>3. Emitted(Append(w, tx)) = Emitted(w) \o d.events
    BY <1>4, <2>1, EmittedOfMore
  <2>4. Append(w, tx) \in Seq(TxType)
    BY <1>4, <2>1
  <2> DEFINE evs == Emitted(Append(w, tx))
  <2>5. evs \in Seq(EventType)
    BY <2>4, EmittedType
  <2> HIDE DEF evs
  <2>6. evs \o <<>> = evs
    BY <2>5
  <2> QED
    BY <2>2, <2>3, <2>6 DEF w, evs
<1>9. Booked(chain', Emitted(Window(0)') \o <<>>)
  <2>1. 0 \in Nat /\ 0 < clock
    BY <1>1 DEF Logged
  <2>2. Booked(d, Emitted(Window(0)) \o d.events)
    BY <1>2 DEF Sound
  <2> QED
    BY <1>7, <1>8, <2>1, <2>2 DEF Booked
<1>10. ASSUME NEW after \in Nat, after < clock
       PROVE  Retold(chain', Emitted(Window(after)') \o <<>>, after)
  <2>1. Retold(d, Emitted(Window(after)) \o d.events, after)
    BY <1>2, <1>10 DEF Sound
  <2> QED
    BY <1>7, <1>8, <1>10, <2>1 DEF Retold
<1>11. Sound(chain)'
  <2>1. Seated(chain)'
    BY <1>3, <1>7 DEF Seated, Takes
  <2>2. Booked(chain, Emitted(Window(0)) \o chain.events)'
    BY <1>3, <1>7, <1>9 DEF Booked
  <2>3. (chain.events)' = <<>> /\ <<>> \in Seq(EventType)
    BY <1>7
  <2> QED
    BY <1>3, <1>10, <2>1, <2>2, <2>3 DEF Sound
<1> QED
  BY <1>5, <1>6, <1>7, <1>11 DEF LedgerInv

LEMMA LedgerTick ==
  ASSUME LedgerInv, Tick
  PROVE  LedgerInv'
<1>1. Logged /\ Walking /\ Sound(chain) /\ chain.events = <<>>
  BY DEF LedgerInv
<1>2. /\ clock' = clock + 1 /\ chain' = chain /\ log' = log /\ walk' = walk
      /\ clock \in Nat /\ clock' \in Nat
  BY <1>1 DEF Tick, Logged
<1>3. ASSUME NEW n \in 1 .. clock PROVE n \in 1 .. clock'
  BY <1>2
<1>4. Logged'
  BY <1>1, <1>2, <1>3 DEF Logged
<1>5. \A after : Window(after)' = Window(after)
  BY <1>2 DEF Window
<1>6. Walking'
  BY <1>1, <1>2, <1>5 DEF Walking
<1>7. Seated(chain) /\ chain.events \in Seq(EventType)
  BY <1>1 DEF Sound
<1>8. Seated(chain)'
  BY <1>2, <1>3, <1>7 DEF Seated, Takes
<1>9. Booked(chain, Emitted(Window(0)) \o chain.events)'
  <2> DEFINE evs == Emitted(Window(0)) \o chain.events
  <2>1. Booked(chain, evs)
    BY <1>1 DEF Sound
  <2>2. (Emitted(Window(0)) \o chain.events)' = evs
    BY <1>2, <1>5
  <2> HIDE DEF evs
  <2>3. ASSUME NEW n \in 1 .. Len(evs) PROVE evs[n].at <= clock'
    <3>1. evs[n] \in EventType /\ evs[n].at <= clock
      BY <2>1 DEF Booked
    <3>2. evs[n].at \in Nat
      BY <3>1 DEF EventType
    <3> QED
      BY <1>2, <3>1, <3>2
  <2> QED
    BY <1>2, <2>1, <2>2, <2>3 DEF Booked
<1>10. ASSUME NEW after \in Nat, after < clock'
       PROVE  Retold(chain, Emitted(Window(after)) \o chain.events, after)
  <2>1. CASE after < clock
    BY <1>1, <2>1 DEF Sound
  <2>2. CASE after >= clock
    <3>1. Retold(chain, Emitted(Window(after)), after)
      BY <1>1, <1>7, <2>2, Early
    <3>2. Emitted(Window(after)) \o <<>> = Emitted(Window(after))
      <4> DEFINE evs == Emitted(Window(after))
      <4>1. evs \in Seq(EventType)
        BY <1>1, WindowType
      <4> HIDE DEF evs
      <4>2. evs \o <<>> = evs
        BY <4>1
      <4> QED
        BY <4>2 DEF evs
    <3> QED
      BY <1>1, <3>1, <3>2
  <2> QED
    BY <1>2, <2>1, <2>2
<1>11. Sound(chain)'
  BY <1>2, <1>5, <1>7, <1>8, <1>9, <1>10 DEF Sound
<1> QED
  BY <1>1, <1>2, <1>4, <1>6, <1>11 DEF LedgerInv

(* What does not touch the chain, the log or the clock.                      *)
LEMMA SoundStays ==
  ASSUME clock' = clock, chain' = chain, log' = log
  PROVE  /\ Logged' <=> Logged
         /\ Sound(chain)' <=> Sound(chain)
         /\ \A after : Window(after)' = Window(after)
<1>1. \A after : Window(after)' = Window(after)
  BY DEF Window
<1>2. Logged' <=> Logged
  BY DEF Logged
<1>3. Seated(chain)' <=> Seated(chain)
  BY DEF Seated, Takes
<1>4. Booked(chain, Emitted(Window(0)) \o chain.events)' <=>
        Booked(chain, Emitted(Window(0)) \o chain.events)
  BY <1>1 DEF Booked
<1> QED
  BY <1>1, <1>2, <1>3, <1>4 DEF Sound

LEMMA LedgerInvariant == Spec => []LedgerInv
<1>1. Init => LedgerInv
  BY LedgerStarts
<1>2. LedgerInv /\ [Next]_vars => LedgerInv'
  <2> SUFFICES ASSUME LedgerInv, [Next]_vars PROVE LedgerInv'
    OBVIOUS
  <2>1. CASE Transaction
    BY <2>1, LedgerTransaction
  <2>2. CASE Tick
    BY <2>2, LedgerTick
  <2>3. CASE NextPage
    <3>1. clock' = clock /\ chain' = chain /\ log' = log
      BY <2>3 DEF NextPage, PageFrom
    <3>2. Walking'
      BY <2>3, WalkingPage, BoundsAssumption DEF LedgerInv
    <3> QED
      BY <3>1, <3>2, SoundStays DEF LedgerInv
  <2>4. ASSUME NEW after \in 0 .. clock, StartWalk(after) PROVE LedgerInv'
    <3>1. clock' = clock /\ chain' = chain /\ log' = log
      BY <2>4 DEF StartWalk
    <3>2. walk' = [state |-> "paging", after |-> after, got |-> <<>>, cursor |-> 0]
      BY <2>4 DEF StartWalk
    <3>3. after \in Nat
      BY DEF LedgerInv, Logged
    <3> DEFINE w == Window(after)
    <3>4. w \in Seq(TxType)
      BY WindowType DEF LedgerInv
    <3>5. Window(walk.after)' = w
      BY <3>1, <3>2 DEF Window
    <3> HIDE DEF w
    <3>6. SubSeq(w, 1, 0) = <<>> /\ 0 \in 0 .. Len(w)
      BY <3>4
    <3>7. Walking'
      BY <3>2, <3>3, <3>5, <3>6 DEF Walking
    <3> QED
      BY <3>1, <3>7, SoundStays DEF LedgerInv
  <2>5. CASE UNCHANGED vars
    <3>1. clock' = clock /\ chain' = chain /\ log' = log /\ walk' = walk
      BY <2>5 DEF vars
    <3>2. Walking'
      BY <3>1, SoundStays DEF LedgerInv, Walking
    <3> QED
      BY <3>1, <3>2, SoundStays DEF LedgerInv
  <2> QED
    BY <2>1, <2>2, <2>3, <2>4, <2>5 DEF Next
<1> QED
  BY <1>1, <1>2, PTL DEF Spec

(* A walk reads, page by page, every transaction of its window once and in   *)
(* order, whatever is committed while it goes on and however large a page.   *)
THEOREM WalksReadTheWindow == Spec => []WalkReadsWindow
<1>1. LedgerInv => WalkReadsWindow
  BY WalkingReads DEF LedgerInv
<1> QED
  BY <1>1, LedgerInvariant, PTL

-----------------------------------------------------------------------------
(* The sort.                                                                 *)

KeyOf(e) == e.at * 10 + Alphabet[e.kind]

LEMMA AlphabetIs ==
  /\ Alphabet["BidPlaced"] = 1 /\ Alphabet["BidSuperseded"] = 2
  /\ Alphabet["HandoverCompleted"] = 3 /\ Alphabet["RentStarted"] = 4
  /\ Alphabet["TenureExpired"] = 5
  BY DEF Alphabet

LEMMA KeyType ==
  ASSUME NEW e \in EventType
  PROVE  KeyOf(e) \in Nat
<1>1. Alphabet[e.kind] \in Nat
  BY AlphabetIs DEF EventType, Kinds
<1>2. e.at \in Nat
  BY DEF EventType
<1> QED
  BY <1>1, <1>2 DEF KeyOf

(* The order of the sort, and where it puts an event.                        *)
Before(evs, j, i) ==
  KeyOf(evs[j]) < KeyOf(evs[i]) \/ (KeyOf(evs[j]) = KeyOf(evs[i]) /\ j <= i)

Ahead(evs, i) == {j \in 1 .. Len(evs) : Before(evs, j, i)}

Sorted(evs, sorted, place) ==
  /\ Len(sorted) = Len(evs) /\ sorted \in Seq(EventType)
  /\ place \in [1 .. Len(evs) -> 1 .. Len(evs)]
  /\ \A i \in 1 .. Len(evs) : sorted[place[i]] = evs[i]
  /\ \A i, j \in 1 .. Len(evs) : i # j /\ Before(evs, i, j) => place[i] < place[j]
  /\ \A i, j \in 1 .. Len(evs) : i # j => place[i] # place[j]
  /\ \A k \in 1 .. Len(evs) : \E i \in 1 .. Len(evs) : place[i] = k

LEMMA AheadGrows ==
  ASSUME NEW evs \in Seq(EventType), NEW i \in 1 .. Len(evs), NEW j \in 1 .. Len(evs),
         i # j, Before(evs, i, j)
  PROVE  Cardinality(Ahead(evs, i)) < Cardinality(Ahead(evs, j))
<1> DEFINE S == Ahead(evs, i)
           T == Ahead(evs, j)
<1>1. \A n \in 1 .. Len(evs) : KeyOf(evs[n]) \in Nat
  BY KeyType
<1>2. S \subseteq T
  BY <1>1 DEF Ahead, Before
<1>3. j \in T /\ j \notin S
  BY <1>1 DEF Ahead, Before
<1>4. IsFiniteSet(T)
  <2>1. IsFiniteSet(1 .. Len(evs))
    BY FS_Interval
  <2> QED
    BY <2>1, FS_Subset DEF Ahead
<1> HIDE DEF S, T
<1>5. Cardinality(S) \in Nat /\ Cardinality(T) \in Nat
  BY <1>2, <1>4, FS_Subset, FS_CardinalityType
<1>6. Cardinality(S) <= Cardinality(T) /\ (Cardinality(S) = Cardinality(T) => S = T)
  BY <1>2, <1>4, FS_Subset
<1>7. Cardinality(S) < Cardinality(T)
  BY <1>3, <1>5, <1>6
<1> QED
  BY <1>7 DEF S, T

LEMMA AheadType ==
  ASSUME NEW evs \in Seq(EventType), NEW i \in 1 .. Len(evs)
  PROVE  Cardinality(Ahead(evs, i)) \in 1 .. Len(evs)
<1> DEFINE S == Ahead(evs, i)
           T == 1 .. Len(evs)
<1>1. IsFiniteSet(T) /\ Cardinality(T) = Len(evs) /\ Len(evs) \in Nat
  <2>1. Len(evs) \in Nat /\ 1 \in Int /\ Len(evs) \in Int
    OBVIOUS
  <2>2. IsFiniteSet(T) /\ Cardinality(T) = IF 1 > Len(evs) THEN 0 ELSE Len(evs) - 1 + 1
    BY <2>1, FS_Interval
  <2> QED
    BY <2>1, <2>2
<1>2. S \subseteq T
  BY DEF Ahead
<1>3. i \in S
  <2>1. KeyOf(evs[i]) \in Nat
    BY KeyType
  <2> QED
    BY <2>1 DEF Ahead, Before
<1> HIDE DEF S
<1>4. IsFiniteSet(S) /\ Cardinality(S) <= Cardinality(T)
  BY <1>1, <1>2, FS_Subset
<1>5. Cardinality(S) \in Nat /\ Cardinality(S) # 0
  BY <1>3, <1>4, FS_CardinalityType, FS_EmptySet
<1> HIDE DEF T
<1>6. Cardinality(S) \in 1 .. Len(evs)
  BY <1>1, <1>4, <1>5
<1> QED
  BY <1>6 DEF S

(* The timeline has every event once, each after those the sort puts ahead.  *)
LEMMA TimelineSorted ==
  ASSUME NEW txs \in Seq(TxType)
  PROVE  \E place : Sorted(Emitted(txs), Timeline(txs), place)
<1> DEFINE evs == Emitted(txs)
           len == Len(evs)
           D == 1 .. len
           place == [i \in D |-> Cardinality(Ahead(evs, i))]
           sorted == Timeline(txs)
<1>1. evs \in Seq(EventType) /\ len \in Nat /\ DOMAIN evs = D
  <2>1. evs \in Seq(EventType)
    BY EmittedType
  <2> HIDE DEF evs
  <2> QED
    BY <2>1
<1>2. sorted = [k \in D |-> evs[CHOOSE i \in D : place[i] = k]]
  BY <1>1 DEF Timeline, Ahead, Before, KeyOf
<1> HIDE DEF evs, sorted
<1>3. \A i \in D : place[i] \in D
  BY <1>1, AheadType
<1>4. \A i, j \in D : i # j /\ Before(evs, i, j) => place[i] < place[j]
  BY <1>1, AheadGrows
<1> HIDE DEF place
<1>5. place \in [D -> D]
  BY <1>3 DEF place
<1>6. ASSUME NEW i \in D, NEW j \in D, i # j PROVE place[i] # place[j]
  <2>1. Before(evs, i, j) \/ Before(evs, j, i)
    <3>1. KeyOf(evs[i]) \in Nat /\ KeyOf(evs[j]) \in Nat /\ i \in Nat /\ j \in Nat
      BY <1>1, KeyType
    <3> QED
      BY <3>1 DEF Before
  <2>2. place[i] \in Nat /\ place[j] \in Nat
    BY <1>1, <1>3
  <2> QED
    BY <1>4, <1>6, <2>1, <2>2
<1>7. place \in Injection(D, D)
  BY <1>5, <1>6 DEF Injection, IsInjective
<1>8. IsFiniteSet(D)
  BY <1>1, FS_Interval
<1>9. \A k \in D : \E i \in D : place[i] = k
  BY <1>7, <1>8, FS_Injection DEF Surjection
<1>10. ASSUME NEW i \in D PROVE sorted[place[i]] = evs[i]
  <2>1. place[i] \in D
    BY <1>3
  <2>2. sorted[place[i]] = evs[CHOOSE j \in D : place[j] = place[i]]
    BY <1>2, <2>1
  <2>3. (CHOOSE j \in D : place[j] = place[i]) = i
    BY <1>6
  <2> QED
    BY <2>2, <2>3
<1>11. /\ sorted \in Seq(EventType) /\ Len(sorted) = len
  <2>1. ASSUME NEW k \in D PROVE evs[CHOOSE i \in D : place[i] = k] \in EventType
    <3>1. (CHOOSE i \in D : place[i] = k) \in D
      BY <1>9
    <3> QED
      BY <1>1, <3>1
  <2> QED
    BY <1>1, <1>2, <2>1
<1>12. Sorted(evs, sorted, place)
  BY <1>4, <1>5, <1>6, <1>9, <1>10, <1>11 DEF Sorted
<1> QED
  BY <1>12 DEF evs, sorted

-----------------------------------------------------------------------------
(* Tenancies.                                                                *)

Bounding == {"RentStarted", "HandoverCompleted", "TenureExpired"}

LEMMA BoundariesOfMore ==
  ASSUME NEW evs \in Seq(EventType), NEW e \in EventType
  PROVE  Boundaries(Append(evs, e)) =
           IF e.kind \in Bounding THEN Append(Boundaries(evs), e) ELSE Boundaries(evs)
<1> DEFINE P == {n \in DOMAIN evs : evs[n].kind \in Bounding}
           more == Append(evs, e)
           Q == {n \in DOMAIN more : more[n].kind \in Bounding}
<1>1. /\ Len(evs) \in Nat /\ more[Len(evs) + 1] = e
      /\ DOMAIN more = 1 .. Len(evs) + 1 /\ DOMAIN evs = 1 .. Len(evs)
      /\ \A n \in 1 .. Len(evs) : more[n] = evs[n]
  OBVIOUS
<1>2. \A n \in 1 .. Len(evs) : n \in P <=> n \in Q
  BY <1>1
<1>3. Len(evs) + 1 \in Q <=> e.kind \in Bounding
  BY <1>1
<1>4. Boundaries(evs) = Picked(evs, P) /\ Boundaries(more) = Picked(more, Q)
  BY DEF Boundaries, Bounding
<1> HIDE DEF P, Q
<1>5. Picked(more, Q) = IF Len(evs) + 1 \in Q THEN Append(Picked(evs, P), e) ELSE Picked(evs, P)
  BY <1>1, <1>2, PickedOfMore
<1> QED
  BY <1>3, <1>4, <1>5

LEMMA BoundariesType ==
  ASSUME NEW evs \in Seq(EventType)
  PROVE  Boundaries(evs) \in Seq(EventType)
  BY PickedAtPlaces DEF Boundaries

(* Bids are not walked into.                                                 *)
LEMMA WalkedAtBoundaries ==
  ASSUME NEW evs \in Seq(EventType)
  PROVE  Walked(Boundaries(evs)) = Walked(evs)
<1> DEFINE len == Len(evs)
           Upto(n) == SubSeq(evs, 1, n)
           T == {n \in 0 .. len : Walked(Boundaries(Upto(n))) = Walked(Upto(n))}
<1>1. len \in Nat /\ Upto(0) = <<>> /\ Upto(len) = evs
  BY FirstAndLast
<1>2. 0 \in T
  <2>1. Boundaries(<<>>) = <<>>
    BY PickedOfNone DEF Boundaries
  <2>2. Walked(Boundaries(Upto(0))) = Walked(Upto(0))
    BY <1>1, <2>1, Zenon
  <2>3. 0 \in 0 .. len
    BY <1>1
  <2> QED
    BY <2>2, <2>3, Zenon
<1>3. ASSUME NEW n \in 1 .. len, n - 1 \in T PROVE n \in T
  <2> DEFINE before == Upto(n - 1)
             e == evs[n]
             picked == Boundaries(before)
  <2>1. /\ Upto(n) = Append(before, e) /\ before \in Seq(EventType) /\ e \in EventType
        /\ n \in 0 .. len
    BY <1>1, Beginnings
  <2>2. Walked(picked) = Walked(before)
    BY <1>3
  <2> HIDE DEF before, e, len, Upto
  <2>3. Walked(Upto(n)) = TenancyStep(Walked(before), e)
    BY <2>1, WalkedOne
  <2>4. picked \in Seq(EventType)
    BY <2>1, BoundariesType
  <2>5. Boundaries(Upto(n)) = IF e.kind \in Bounding THEN Append(picked, e) ELSE picked
    BY <2>1, BoundariesOfMore
  <2> HIDE DEF picked
  <2>6. Walked(Append(picked, e)) = TenancyStep(Walked(picked), e)
    BY <2>1, <2>4, WalkedOne
  <2>7. CASE e.kind \in Bounding
    BY <2>1, <2>2, <2>3, <2>5, <2>6, <2>7
  <2>8. CASE e.kind \notin Bounding
    <3>1. TenancyStep(Walked(before), e) = Walked(before)
      BY <2>8 DEF TenancyStep, Bounding
    <3> QED
      BY <2>1, <2>2, <2>3, <2>5, <2>8, <3>1
  <2> QED
    BY <2>7, <2>8
<1> HIDE DEF T, len
<1>4. \A n \in 0 .. len : n \in T
  BY <1>1, <1>2, <1>3, UpTo
<1>5. len \in T
  BY <1>1, <1>4
<1> QED
  BY <1>1, <1>5 DEF T

(* Whenever a window opens, walking its events gives the tenures since.      *)
LEMMA TenanciesKept ==
  ASSUME Logged, Sound(chain), chain.events = <<>>, NEW after \in Nat
  PROVE  Tenancies(Emitted(Window(after))) = Since(chain.held, after)
<1> DEFINE evs == Emitted(Window(after))
           held == chain.held
           last == held[Len(held)]
           front == SubSeq(held, 1, Len(held) - 1)
<1>1. evs \in Seq(EventType) /\ evs \o <<>> = evs
  <2>1. evs \in Seq(EventType)
    BY WindowType
  <2> HIDE DEF evs
  <2> QED
    BY <2>1
<1>2. /\ Seated(chain) /\ held \in Seq(TenureType) /\ clock \in Nat
      /\ \A n \in 1 .. Len(held) : held[n].from \in 1 .. clock
      /\ chain.tenant # Nobody => Len(held) > 0
  BY DEF Sound, Seated, Logged
<1>3. Retold(chain, evs, after)
  <2>1. CASE after < clock
    BY <1>1, <2>1 DEF Sound
  <2>2. CASE after >= clock
    BY <1>2, <2>2, Early
  <2> QED
    BY <1>2, <2>1, <2>2
<1> HIDE DEF evs, held
<1>4. CASE chain.tenant # Nobody /\ last.from > after
  <2>1. Walked(evs) = [done |-> Since(front, after), current |-> last]
    BY <1>3, <1>4 DEF Retold, held
  <2>2. /\ Len(held) \in 1 .. Len(held) /\ held = SubSeq(held, 1, Len(held))
    BY <1>2, <1>4, FirstAndLast
  <2>3. held = Append(front, last) /\ front \in Seq(TenureType) /\ last \in TenureType
    BY <1>2, <2>2, Beginnings
  <2>4. last # Vacant
    <3>1. last.from \in 1 .. clock
      BY <1>2, <2>2
    <3> QED
      BY <3>1 DEF Vacant
  <2> HIDE DEF front, last
  <2>5. Since(held, after) = Append(Since(front, after), last)
    BY <1>4, <2>3, SinceOfMore
  <2>6. Tenancies(evs) = Append(Since(front, after), last)
    BY <2>1, <2>4 DEF Tenancies
  <2> QED
    BY <2>5, <2>6 DEF evs, held
<1>5. CASE ~(chain.tenant # Nobody /\ last.from > after)
  <2>1. Walked(evs) = [done |-> Since(held, after), current |-> Vacant]
    BY <1>3, <1>5 DEF Retold, held
  <2>2. Tenancies(evs) = Since(held, after)
    BY <2>1 DEF Tenancies
  <2> QED
    BY <2>2 DEF evs, held
<1> QED
  BY <1>4, <1>5

(* As long as the sort keeps the boundaries of the seat in order, the        *)
(* tenancies of any window are who held the seat since it opens, when, for   *)
(* what and how it settled.                                                  *)
THEOREM TenanciesAreFaithful == Spec => []TenanciesFaithful
<1>1. ASSUME LedgerInv, UpToDate, BoundariesInOrder
      PROVE  Tenancies(Timeline(walk.got)) = Since(chain.held, walk.after)
  <2> DEFINE evs == Emitted(walk.got)
             sorted == Timeline(walk.got)
  <2>1. /\ walk.after \in Nat /\ walk.got = Window(walk.after)
        /\ Logged /\ Sound(chain) /\ chain.events = <<>>
    BY <1>1 DEF UpToDate, LedgerInv, Walking
  <2>2. walk.got \in Seq(TxType) /\ evs \in Seq(EventType)
    BY <2>1, WindowType
  <2>3. sorted \in Seq(EventType)
    BY <2>2, TimelineSorted DEF Sorted
  <2>4. Boundaries(sorted) = Boundaries(evs)
    BY <1>1 DEF BoundariesInOrder
  <2>5. Tenancies(evs) = Since(chain.held, walk.after)
    BY <2>1, TenanciesKept
  <2> HIDE DEF evs, sorted
  <2>6. Walked(sorted) = Walked(evs)
    BY <2>2, <2>3, <2>4, WalkedAtBoundaries
  <2>7. Tenancies(sorted) = Tenancies(evs)
    BY <2>6 DEF Tenancies
  <2> QED
    BY <2>5, <2>7 DEF sorted
<1>2. LedgerInv => TenanciesFaithful
  BY <1>1 DEF TenanciesFaithful, Since
<1> QED
  BY <1>2, LedgerInvariant, PTL

-----------------------------------------------------------------------------
(* Statements.                                                               *)

Outcomes == {"superseded", "displaced", "expired"}
StatementType ==
  [paid : Nat, refunded : Nat, consumed : Nat, occupied : BOOLEAN, pending : BOOLEAN,
   terminal : Outcomes \cup {"none"}]

(* What a statement says of a cap whose story is i, w, l when it has read    *)
(* the events at `read`, in whatever order.                                  *)
Says(evs, a, i, w, l, read, s) ==
  /\ s \in StatementType
  /\ s.paid = IF i \in read THEN a.paid ELSE 0
  /\ s.consumed = IF l # 0 /\ l \in read THEN a.used ELSE 0
  /\ s.refunded = IF l # 0 /\ l \in read THEN a.refund ELSE 0
  /\ l = 0 =>
       /\ s.terminal = "none"
       /\ s.occupied <=> ((i \in read /\ evs[i].kind = "RentStarted") \/ (w # 0 /\ w \in read))
       /\ i \in read /\ evs[i].kind # "RentStarted" /\ w = 0 => s.pending

(* And, if it has read what led to the end before the end, how it ended.     *)
InTurn(evs, i, w, l, read) ==
  l \in read => (evs[i].kind = "RentStarted" => i \in read) /\ (w # 0 => w \in read)
EndsAs(evs, l, read, s) == l \in read => s.terminal = OutcomeOf(evs[l].kind)

(* The parts of a step.                                                      *)
LEMMA ReadsEntry ==
  ASSUME NEW s \in StatementType, NEW e \in EventType, NEW cap \in Nat,
         e.in = cap, e.out # cap, e.kind \in Entries, NEW t, t = StatementStep(s, e, cap)
  PROVE  /\ t \in StatementType /\ t.paid = s.paid + e.paid
         /\ t.consumed = s.consumed /\ t.refunded = s.refunded
         /\ e.kind = "RentStarted" => /\ t.occupied /\ (t.pending <=> s.pending)
                                      /\ t.terminal = "none"
         /\ e.kind # "RentStarted" => /\ t.pending /\ (t.occupied <=> s.occupied)
                                      /\ t.terminal = s.terminal
<1> DEFINE more == [s EXCEPT !.paid = s.paid + e.paid]
<1>1. /\ more \in StatementType /\ more.paid = s.paid + e.paid /\ more.consumed = s.consumed
      /\ more.refunded = s.refunded /\ more.occupied = s.occupied /\ more.pending = s.pending
      /\ more.terminal = s.terminal
  BY DEF StatementType, EventType
<1>2. Pays(s, e) = more
  BY DEF Pays
<1> HIDE DEF more
<1>3. CASE e.kind = "RentStarted"
  <2>1. StatementStep(s, e, cap) = [more EXCEPT !.occupied = TRUE, !.terminal = "none"]
    BY <1>2, <1>3 DEF StatementStep
  <2> QED
    BY <1>1, <1>3, <2>1 DEF StatementType
<1>4. CASE e.kind \in {"BidPlaced", "BidSuperseded"}
  <2>1. StatementStep(s, e, cap) = [more EXCEPT !.pending = TRUE]
    BY <1>2, <1>4 DEF StatementStep
  <2> QED
    BY <1>1, <1>4, <2>1 DEF StatementType
<1> QED
  BY <1>3, <1>4 DEF Entries

LEMMA ReadsWin ==
  ASSUME NEW s \in StatementType, NEW e \in EventType, NEW cap \in Nat,
         e.in = cap, e.out # cap, e.kind = "HandoverCompleted",
         NEW t, t = StatementStep(s, e, cap)
  PROVE  /\ t \in StatementType /\ t.paid = s.paid
         /\ t.consumed = s.consumed /\ t.refunded = s.refunded
         /\ t.occupied /\ ~t.pending /\ t.terminal = "none"
<1>1. StatementStep(s, e, cap) =
        [s EXCEPT !.occupied = TRUE, !.pending = FALSE, !.terminal = "none"]
  BY DEF StatementStep, Wins
<1> QED
  BY <1>1 DEF StatementType

LEMMA ReadsEnd ==
  ASSUME NEW s \in StatementType, NEW e \in EventType, NEW cap \in Nat,
         e.out = cap, e.in # cap, e.kind \notin {"RentStarted", "BidPlaced"},
         e.kind = "BidSuperseded" => e.used = 0, NEW t, t = StatementStep(s, e, cap)
  PROVE  /\ t \in StatementType /\ t.paid = s.paid
         /\ t.consumed = s.consumed + e.used /\ t.refunded = s.refunded + e.refund
         /\ t.terminal = OutcomeOf(e.kind)
<1>1. /\ s.consumed \in Nat /\ s.refunded \in Nat /\ e.used \in Nat /\ e.refund \in Nat
      /\ e.kind \in {"BidSuperseded", "HandoverCompleted", "TenureExpired"}
  BY DEF StatementType, EventType, Kinds
<1> DEFINE refunded == s.refunded + e.refund
           consumed == s.consumed + e.used
<1>2. refunded \in Nat /\ consumed \in Nat
  BY <1>1
<1>3. CASE e.kind = "BidSuperseded"
  <2>1. StatementStep(s, e, cap) =
          [s EXCEPT !.refunded = refunded, !.pending = FALSE, !.terminal = "superseded"]
    BY <1>3 DEF StatementStep
  <2>2. consumed = s.consumed
    BY <1>1, <1>3
  <2> HIDE DEF refunded, consumed
  <2>3. /\ t \in StatementType /\ t.paid = s.paid /\ t.consumed = s.consumed
        /\ t.refunded = refunded /\ t.terminal = "superseded"
    BY <1>2, <2>1 DEF StatementType, Outcomes
  <2> QED
    BY <1>3, <2>2, <2>3 DEF OutcomeOf, refunded, consumed
<1>4. CASE e.kind \in {"HandoverCompleted", "TenureExpired"}
  <2> DEFINE outcome == IF e.kind = "HandoverCompleted" THEN "displaced" ELSE "expired"
  <2>1. StatementStep(s, e, cap) =
          [s EXCEPT !.consumed = consumed, !.refunded = refunded, !.occupied = FALSE,
                    !.terminal = outcome]
    BY <1>4 DEF StatementStep, Leaves
  <2>2. outcome \in Outcomes /\ outcome = OutcomeOf(e.kind)
    BY <1>4 DEF OutcomeOf, Outcomes
  <2> HIDE DEF refunded, consumed, outcome
  <2>3. /\ t \in StatementType /\ t.paid = s.paid /\ t.consumed = consumed
        /\ t.refunded = refunded /\ t.terminal = outcome
    BY <1>2, <2>1, <2>2 DEF StatementType
  <2> QED
    BY <2>2, <2>3 DEF refunded, consumed
<1> QED
  BY <1>1, <1>3, <1>4

LEMMA ReadsPast ==
  ASSUME NEW s, NEW e, NEW cap, e.in # cap, e.out # cap
  PROVE  StatementStep(s, e, cap) = s
  BY DEF StatementStep

(* One more event read.                                                      *)
LEMMA SaysMore ==
  ASSUME NEW evs \in Seq(EventType), NEW cap \in Nat, NEW a \in AccountType,
         NEW i \in Nat, NEW w \in Nat, NEW l \in Nat,
         Told(evs, cap, i, w, l), Balanced(evs, a, i, w, l),
         NEW read, NEW n \in 1 .. Len(evs), n \notin read,
         NEW s, Says(evs, a, i, w, l, read, s)
  PROVE  Says(evs, a, i, w, l, read \cup {n}, StatementStep(s, evs[n], cap))
<1> DEFINE e == evs[n]
           t == StatementStep(s, e, cap)
           more == read \cup {n}
<1>1. /\ e \in EventType /\ n # 0 /\ (e.in = cap <=> n \in {i, w}) /\ (e.out = cap <=> n = l)
      /\ e.paid \in Nat /\ e.used \in Nat /\ e.refund \in Nat
  <2>1. e \in EventType /\ n # 0 /\ (e.in = cap <=> n \in {i, w}) /\ (e.out = cap <=> n = l)
    BY DEF Told
  <2> HIDE DEF e
  <2> QED
    BY <2>1 DEF EventType
<1>2. /\ i # w /\ i # l /\ i # 0 /\ (l # 0 => w # l)
      /\ evs[i].kind \in Entries /\ a.paid = evs[i].paid
      /\ w # 0 => evs[w].kind = "HandoverCompleted" /\ evs[i].kind # "RentStarted"
      /\ l # 0 => /\ a.used = evs[l].used /\ a.refund = evs[l].refund
                  /\ evs[l].kind \notin {"RentStarted", "BidPlaced"}
                  /\ evs[l].kind = "BidSuperseded" => evs[l].used = 0
  BY DEF Told, Balanced
<1>3. /\ s \in StatementType
      /\ s.paid = IF i \in read THEN a.paid ELSE 0
      /\ s.consumed = IF l # 0 /\ l \in read THEN a.used ELSE 0
      /\ s.refunded = IF l # 0 /\ l \in read THEN a.refund ELSE 0
      /\ l = 0 =>
           /\ s.terminal = "none"
           /\ s.occupied <=> ((i \in read /\ evs[i].kind = "RentStarted") \/ (w # 0 /\ w \in read))
           /\ i \in read /\ evs[i].kind # "RentStarted" /\ w = 0 => s.pending
  BY DEF Says
<1>4. \A x : x \in more <=> x \in read \/ x = n
  OBVIOUS
<1> HIDE DEF e, t, more
<1>0. t = StatementStep(s, e, cap)
  BY DEF t
<1>5. CASE n = i
  <2>1. e.in = cap /\ e.out # cap /\ e.kind \in Entries
    BY <1>1, <1>2, <1>5 DEF e
  <2>2. /\ t \in StatementType /\ t.paid = s.paid + e.paid
        /\ t.consumed = s.consumed /\ t.refunded = s.refunded
        /\ e.kind = "RentStarted" => /\ t.occupied /\ (t.pending <=> s.pending)
                                     /\ t.terminal = "none"
        /\ e.kind # "RentStarted" => /\ t.pending /\ (t.occupied <=> s.occupied)
                                     /\ t.terminal = s.terminal
    BY <1>0, <1>1, <1>3, <2>1, ReadsEntry
  <2>3. /\ i \in more /\ i \notin read /\ e = evs[i]
        /\ (w \in more <=> w \in read) /\ (l # 0 => (l \in more <=> l \in read))
    BY <1>2, <1>4, <1>5 DEF e
  <2>4. t.paid = a.paid
    BY <1>1, <1>2, <1>3, <2>2, <2>3
  <2> QED
    BY <1>2, <1>3, <2>2, <2>3, <2>4 DEF Says, t, e, more
<1>6. CASE n = w /\ n # i
  <2>1. e.in = cap /\ e.out # cap /\ e.kind = "HandoverCompleted" /\ w # 0
    BY <1>1, <1>2, <1>6 DEF e
  <2>2. /\ t \in StatementType /\ t.paid = s.paid
        /\ t.consumed = s.consumed /\ t.refunded = s.refunded
        /\ t.occupied /\ ~t.pending /\ t.terminal = "none"
    BY <1>0, <1>1, <1>3, <2>1, ReadsWin
  <2>3. /\ w \in more /\ (i \in more <=> i \in read) /\ (l # 0 => (l \in more <=> l \in read))
    BY <1>2, <1>4, <1>6
  <2> QED
    BY <1>2, <1>3, <2>1, <2>2, <2>3 DEF Says, t, e, more
<1>7. CASE n = l
  <2>1. /\ e.out = cap /\ e.in # cap /\ e.kind \notin {"RentStarted", "BidPlaced"} /\ l # 0
        /\ e.kind = "BidSuperseded" => e.used = 0
    BY <1>1, <1>2, <1>7 DEF e
  <2>2. /\ t \in StatementType /\ t.paid = s.paid
        /\ t.consumed = s.consumed + e.used /\ t.refunded = s.refunded + e.refund
    BY <1>0, <1>1, <1>3, <2>1, ReadsEnd
  <2>3. l \in more /\ l \notin read /\ (i \in more <=> i \in read) /\ e = evs[l]
    BY <1>2, <1>4, <1>7 DEF e
  <2>4. t.consumed = a.used /\ t.refunded = a.refund
    BY <1>1, <1>2, <1>3, <2>1, <2>2, <2>3
  <2> QED
    BY <1>3, <2>1, <2>2, <2>3, <2>4 DEF Says, t, e, more
<1>8. CASE n \notin {i, w, l}
  <2>1. t = s
    BY <1>1, <1>8, ReadsPast DEF t, e
  <2>2. /\ (i \in more <=> i \in read) /\ (w \in more <=> w \in read)
        /\ (l \in more <=> l \in read)
    BY <1>4, <1>8
  <2> QED
    BY <1>3, <2>1, <2>2 DEF Says, t, e, more
<1> QED
  BY <1>5, <1>6, <1>7, <1>8

LEMMA EndsMore ==
  ASSUME NEW evs \in Seq(EventType), NEW cap \in Nat, NEW a \in AccountType,
         NEW i \in Nat, NEW w \in Nat, NEW l \in Nat, l # 0,
         Told(evs, cap, i, w, l), Balanced(evs, a, i, w, l),
         NEW read, NEW n \in 1 .. Len(evs), n \notin read,
         InTurn(evs, i, w, l, read), NEW s \in StatementType, EndsAs(evs, l, read, s)
  PROVE  EndsAs(evs, l, read \cup {n}, StatementStep(s, evs[n], cap))
<1> DEFINE e == evs[n]
           t == StatementStep(s, e, cap)
<1>1. /\ e \in EventType /\ (e.in = cap <=> n \in {i, w}) /\ (e.out = cap <=> n = l)
  BY DEF Told
<1>2. /\ i # w /\ i # l /\ w # l
      /\ evs[i].kind \in Entries
      /\ w # 0 => evs[w].kind = "HandoverCompleted"
      /\ evs[l].kind \notin {"RentStarted", "BidPlaced"}
      /\ evs[l].kind = "BidSuperseded" => evs[l].used = 0
  BY DEF Told, Balanced
<1>3. CASE n = l
  <2>1. t.terminal = OutcomeOf(e.kind)
    <3>1. /\ e.out = cap /\ e.in # cap /\ e.kind \notin {"RentStarted", "BidPlaced"}
          /\ e.kind = "BidSuperseded" => e.used = 0
      BY <1>1, <1>2, <1>3
    <3>2. t = StatementStep(s, e, cap)
      OBVIOUS
    <3> HIDE DEF e, t
    <3> QED
      BY <1>1, <3>1, <3>2, ReadsEnd
  <2> QED
    BY <1>3, <2>1 DEF EndsAs
<1>4. CASE n # l /\ l \notin read
  BY <1>4 DEF EndsAs
<1>5. CASE n # l /\ l \in read
  <2>1. /\ s.terminal = OutcomeOf(evs[l].kind)
        /\ n = i => evs[i].kind # "RentStarted"
        /\ n # w
    <3>1. w = 0 => n # w
      OBVIOUS
    <3> QED
      BY <1>5, <3>1 DEF EndsAs, InTurn
  <2>2. CASE n = i
    <3>1. e.in = cap /\ e.out # cap /\ e.kind \in Entries /\ e.kind # "RentStarted"
      BY <1>1, <1>2, <1>5, <2>1, <2>2
    <3>2. t = StatementStep(s, e, cap)
      OBVIOUS
    <3> HIDE DEF e, t
    <3>3. t.terminal = s.terminal
      BY <1>1, <3>1, <3>2, ReadsEntry
    <3> QED
      BY <2>1, <3>3 DEF EndsAs, e, t
  <2>3. CASE n # i
    <3>1. e.in # cap /\ e.out # cap
      BY <1>1, <1>5, <2>1, <2>3
    <3>2. t = s
      BY <3>1, ReadsPast
    <3> QED
      BY <2>1, <3>2 DEF EndsAs
  <2> QED
    BY <2>2, <2>3
<1> QED
  BY <1>3, <1>4, <1>5

-----------------------------------------------------------------------------
(* The statement of a timeline.                                              *)

(* What led to the end of a cap is in its place before it.                   *)
EndsLast(evs, i, w, l, place) ==
  /\ evs[i].kind = "RentStarted" => place[i] < place[l]
  /\ w # 0 => place[w] < place[l]

(* Reading the sorted events one by one is reading the events, each once.    *)
Passed(evs, place, m) == {k \in 1 .. Len(evs) : place[k] <= m}

LEMMA ReadInPlace ==
  ASSUME NEW evs \in Seq(EventType), NEW sorted, NEW place, Sorted(evs, sorted, place),
         NEW m \in 1 .. Len(evs)
  PROVE  \E n \in 1 .. Len(evs) :
           /\ sorted[m] = evs[n] /\ n \notin Passed(evs, place, m - 1)
           /\ Passed(evs, place, m) = Passed(evs, place, m - 1) \cup {n}
<1>1. PICK n \in 1 .. Len(evs) : place[n] = m
  BY DEF Sorted
<1>2. \A k \in 1 .. Len(evs) : place[k] \in Nat /\ (k # n => place[k] # m)
  <2>1. /\ \A k \in 1 .. Len(evs) : place[k] \in 1 .. Len(evs)
        /\ \A k \in 1 .. Len(evs) : k # n => place[k] # place[n]
    BY DEF Sorted
  <2>2. Len(evs) \in Nat
    OBVIOUS
  <2> QED
    BY <1>1, <2>1, <2>2
<1>3. sorted[m] = evs[n] /\ m \in Nat
  BY <1>1 DEF Sorted
<1>4. \A k \in 1 .. Len(evs) : place[k] <= m <=> place[k] <= m - 1 \/ k = n
  BY <1>1, <1>2, <1>3
<1>5. ~(place[n] <= m - 1)
  BY <1>1, <1>3
<1> QED
  BY <1>3, <1>4, <1>5 DEF Passed

LEMMA StatementSays ==
  ASSUME NEW evs \in Seq(EventType), NEW sorted, NEW place, Sorted(evs, sorted, place),
         NEW cap \in Nat, NEW a \in AccountType, NEW i \in Nat, NEW w \in Nat, NEW l \in Nat,
         Told(evs, cap, i, w, l), Balanced(evs, a, i, w, l)
  PROVE  /\ Says(evs, a, i, w, l, 1 .. Len(evs), Statement(sorted, cap))
         /\ l # 0 /\ EndsLast(evs, i, w, l, place) =>
              EndsAs(evs, l, 1 .. Len(evs), Statement(sorted, cap))
<1> DEFINE len == Len(evs)
           Past(m) == Passed(evs, place, m)
<1>1. /\ len \in Nat /\ Len(sorted) = len
      /\ \A k \in 1 .. len : place[k] \in 1 .. len
  BY DEF Sorted
<1>2. PICK f : ReadingOf(sorted, cap, len, f) /\ Statement(sorted, cap) = f[len]
  BY <1>1, Reading
<1>3. f[0] = Blank /\ \A m \in 1 .. len : f[m] = StatementStep(f[m - 1], sorted[m], cap)
  BY <1>1, <1>2 DEF ReadingOf
<1>4. Past(0) = {} /\ Past(len) = 1 .. len
  BY <1>1 DEF Passed
<1>5. \A m \in 1 .. len : \E n \in 1 .. len :
        sorted[m] = evs[n] /\ n \notin Past(m - 1) /\ Past(m) = Past(m - 1) \cup {n}
  BY ReadInPlace
<1>6. ASSUME NEW m \in 0 .. len, l # 0, EndsLast(evs, i, w, l, place), l \in Past(m)
      PROVE  InTurn(evs, i, w, l, Past(m))
  <2>1. /\ i \in 1 .. len /\ (w # 0 => w \in 1 .. len) /\ l \in 1 .. len
        /\ place[l] <= m /\ m \in Nat
    BY <1>6 DEF Told, Passed
  <2>2. \A k \in 1 .. len : place[k] < place[l] => k \in Past(m)
    BY <1>1, <2>1 DEF Passed
  <2> HIDE DEF Past, len
  <2> QED
    BY <1>6, <2>1, <2>2 DEF EndsLast, InTurn
<1> DEFINE T == {m \in 0 .. len : Says(evs, a, i, w, l, Past(m), f[m])}
           U == {m \in 0 .. len : EndsAs(evs, l, Past(m), f[m])}
<1> HIDE DEF Past
<1>7. \A m \in 0 .. len : m \in T
  <2>1. 0 \in T
    <3>1. Says(evs, a, i, w, l, {}, Blank)
      BY DEF Says, Blank, StatementType, Outcomes
    <3>2. Says(evs, a, i, w, l, Past(0), f[0])
      BY <1>3, <1>4, <3>1, Zenon
    <3>3. 0 \in 0 .. len
      BY <1>1
    <3> QED
      BY <3>2, <3>3, Zenon
  <2>2. ASSUME NEW m \in 1 .. len, m - 1 \in T PROVE m \in T
    <3>1. PICK n \in 1 .. len :
            sorted[m] = evs[n] /\ n \notin Past(m - 1) /\ Past(m) = Past(m - 1) \cup {n}
      BY <1>5
    <3>2. Says(evs, a, i, w, l, Past(m - 1), f[m - 1])
      BY <2>2
    <3>3. Says(evs, a, i, w, l, Past(m - 1) \cup {n}, StatementStep(f[m - 1], evs[n], cap))
      BY <3>1, <3>2, SaysMore
    <3>4. f[m] = StatementStep(f[m - 1], evs[n], cap)
      BY <1>3, <3>1
    <3>5. Says(evs, a, i, w, l, Past(m), f[m])
      BY <3>1, <3>3, <3>4, Zenon
    <3>6. m \in 0 .. len
      BY <1>1
    <3> QED
      BY <3>5, <3>6, Zenon
  <2> HIDE DEF T, len
  <2> QED
    BY <1>1, <2>1, <2>2, UpTo
<1>8. Says(evs, a, i, w, l, 1 .. len, f[len])
  <2>1. len \in T
    <3> HIDE DEF T, len
    <3> QED
      BY <1>1, <1>7
  <2> QED
    BY <1>4, <2>1, Zenon
<1>9. ASSUME l # 0, EndsLast(evs, i, w, l, place)
      PROVE  EndsAs(evs, l, 1 .. len, f[len])
  <2>1. 0 \in U
    <3>1. EndsAs(evs, l, Past(0), f[0])
      BY <1>4 DEF EndsAs
    <3>2. 0 \in 0 .. len
      BY <1>1
    <3> QED
      BY <3>1, <3>2, Zenon
  <2>2. ASSUME NEW m \in 1 .. len, m - 1 \in U PROVE m \in U
    <3>1. PICK n \in 1 .. len :
            sorted[m] = evs[n] /\ n \notin Past(m - 1) /\ Past(m) = Past(m - 1) \cup {n}
      BY <1>5
    <3>2. EndsAs(evs, l, Past(m - 1), f[m - 1])
      BY <2>2
    <3>3. f[m - 1] \in StatementType
      <4>1. m - 1 \in 0 .. len
        BY <1>1
      <4>2. Says(evs, a, i, w, l, Past(m - 1), f[m - 1])
        BY <1>7, <4>1
      <4> QED
        BY <4>2 DEF Says
    <3>4. InTurn(evs, i, w, l, Past(m - 1))
      <4>1. CASE l \in Past(m - 1)
        <5>1. m - 1 \in 0 .. len
          BY <1>1
        <5> HIDE DEF len
        <5> QED
          BY <1>6, <1>9, <4>1, <5>1
      <4>2. CASE l \notin Past(m - 1)
        BY <4>2 DEF InTurn
      <4> QED
        BY <4>1, <4>2
    <3>5. EndsAs(evs, l, Past(m - 1) \cup {n}, StatementStep(f[m - 1], evs[n], cap))
      BY <1>9, <3>1, <3>2, <3>3, <3>4, EndsMore
    <3>6. f[m] = StatementStep(f[m - 1], evs[n], cap)
      BY <1>3, <3>1
    <3>7. EndsAs(evs, l, Past(m), f[m])
      BY <3>1, <3>5, <3>6, Zenon
    <3>8. m \in 0 .. len
      BY <1>1
    <3> QED
      BY <3>7, <3>8, Zenon
  <2>3. len \in U
    <3> HIDE DEF U, len
    <3>1. \A m \in 0 .. len : m \in U
      BY <1>1, <2>1, <2>2, UpTo
    <3> QED
      BY <1>1, <3>1
  <2> QED
    BY <1>4, <2>3, Zenon
<1> QED
  BY <1>2, <1>8, <1>9, Zenon

(* Where the boundaries are in order, each is in place before the next ones. *)
LEMMA KeptInOrder ==
  ASSUME NEW evs \in Seq(EventType), NEW sorted, NEW place, Sorted(evs, sorted, place),
         Boundaries(sorted) = Boundaries(evs),
         NEW x \in 1 .. Len(evs), NEW y \in 1 .. Len(evs), x < y,
         evs[x].kind \in Bounding, evs[y].kind \in Bounding,
         \A n \in 1 .. Len(evs) : (evs[n] = evs[x] => n = x) /\ (evs[n] = evs[y] => n = y)
  PROVE  place[x] < place[y]
<1> DEFINE B == Boundaries(evs)
           P == {n \in DOMAIN evs : evs[n].kind \in Bounding}
           Q == {n \in DOMAIN sorted : sorted[n].kind \in Bounding}
<1>1. /\ Len(sorted) = Len(evs) /\ Len(evs) \in Nat /\ sorted \in Seq(EventType)
      /\ DOMAIN sorted = 1 .. Len(evs)
      /\ {place[x], place[y]} \subseteq 1 .. Len(evs)
      /\ sorted[place[x]] = evs[x] /\ sorted[place[y]] = evs[y]
  <2>1. Len(sorted) = Len(evs) /\ sorted \in Seq(EventType) /\ Len(evs) \in Nat
    BY DEF Sorted
  <2>2. \A n \in 1 .. Len(evs) : place[n] \in 1 .. Len(evs) /\ sorted[place[n]] = evs[n]
    BY DEF Sorted
  <2>3. DOMAIN sorted = 1 .. Len(sorted)
    BY <2>1
  <2> QED
    BY <2>1, <2>2, <2>3
<1>2. B = Picked(evs, P) /\ B = Picked(sorted, Q)
  BY DEF Boundaries, Bounding
<1>3. place[x] \in Q /\ place[y] \in Q
  BY <1>1
<1> HIDE DEF B, P, Q
<1>4. PICK g : Places(evs, P, Len(evs), B, g)
  BY <1>2, PickedAtPlaces
<1>5. PICK h : Places(sorted, Q, Len(evs), B, h)
  BY <1>1, <1>2, PickedAtPlaces
<1>6. \E p, q \in 1 .. Len(B) : h[p] = place[x] /\ h[q] = place[y]
  BY <1>1, <1>3, <1>5 DEF Places
<1>7. PICK p \in 1 .. Len(B), q \in 1 .. Len(B) : h[p] = place[x] /\ h[q] = place[y]
  BY <1>6
<1>8. /\ Len(B) \in Nat /\ p \in Nat /\ q \in Nat
      /\ B[p] = evs[x] /\ B[q] = evs[y]
  BY <1>1, <1>5, <1>7 DEF Places
<1>9. g[p] = x /\ g[q] = y
  <2>1. g[p] \in 1 .. Len(evs) /\ g[q] \in 1 .. Len(evs) /\ B[p] = evs[g[p]] /\ B[q] = evs[g[q]]
    BY <1>4, <1>7 DEF Places
  <2> QED
    BY <1>8, <2>1
<1>10. p < q
  <2>1. q < p => y < x
    BY <1>4, <1>7, <1>9 DEF Places
  <2> QED
    BY <1>8, <1>9, <2>1
<1> QED
  BY <1>5, <1>7, <1>10 DEF Places

(* In the chain's own order the end of a cap is last; the sort keeps it so   *)
(* for a tenure that boundaries delimit.                                     *)
LEMMA EndStaysLast ==
  ASSUME NEW evs \in Seq(EventType), NEW sorted, NEW place, Sorted(evs, sorted, place),
         Boundaries(sorted) = Boundaries(evs), NEW cap \in Nat,
         NEW i \in Nat, NEW w \in Nat, NEW l \in Nat, l # 0, Told(evs, cap, i, w, l)
  PROVE  EndsLast(evs, i, w, l, place)
<1>1. /\ l \in 1 .. Len(evs) /\ i \in 1 .. Len(evs) /\ i < l /\ w < l
      /\ w # 0 => w \in 1 .. Len(evs) /\ evs[w].kind = "HandoverCompleted"
                  /\ evs[i].kind # "RentStarted"
      /\ evs[i].kind \in Entries
      /\ evs[i].kind = "RentStarted" \/ w # 0 => evs[l].kind \in Bounding
  BY DEF Told, Bounding
<1>2. \A n \in 1 .. Len(evs) : (evs[n].in = cap <=> n \in {i, w}) /\ (evs[n].out = cap <=> n = l)
  BY DEF Told
<1>3. ASSUME evs[i].kind = "RentStarted" PROVE place[i] < place[l]
  <2>1. evs[i].kind \in Bounding /\ evs[l].kind \in Bounding /\ w = 0
    BY <1>1, <1>3 DEF Bounding
  <2>2. \A n \in 1 .. Len(evs) : (evs[n] = evs[i] => n = i) /\ (evs[n] = evs[l] => n = l)
    BY <1>1, <1>2, <2>1
  <2> QED
    BY <1>1, <2>1, <2>2, KeptInOrder
<1>4. ASSUME w # 0 PROVE place[w] < place[l]
  <2>1. evs[w].kind \in Bounding /\ evs[l].kind \in Bounding /\ evs[i].kind # evs[w].kind
    BY <1>1, <1>4 DEF Bounding, Entries
  <2>2. \A n \in 1 .. Len(evs) : (evs[n] = evs[w] => n = w) /\ (evs[n] = evs[l] => n = l)
    BY <1>1, <1>2, <1>4, <2>1
  <2> QED
    BY <1>1, <1>4, <2>1, <2>2, KeptInOrder
<1> QED
  BY <1>3, <1>4 DEF EndsLast

(* What a walk of the whole log has to tell of a cap.                        *)
LEMMA Accounted ==
  ASSUME LedgerInv, UpToDate, walk.after = 0, NEW cap \in DOMAIN chain.accounts
  PROVE  /\ cap \in Nat /\ chain.accounts[cap] \in AccountType
         /\ Emitted(walk.got) \in Seq(EventType)
         /\ \E place : Sorted(Emitted(walk.got), Timeline(walk.got), place)
         /\ \E i, w, l \in Nat :
              /\ Told(Emitted(walk.got), cap, i, w, l)
              /\ Balanced(Emitted(walk.got), chain.accounts[cap], i, w, l)
<1> DEFINE evs == Emitted(walk.got)
<1>1. /\ walk.got = Window(0) /\ Logged /\ Sound(chain) /\ chain.events = <<>>
  BY DEF UpToDate, LedgerInv
<1>2. walk.got \in Seq(TxType) /\ evs \in Seq(EventType)
  BY <1>1, WindowType
<1>3. Booked(chain, evs)
  <2>1. evs \o <<>> = evs
    BY <1>2, JoinNone
  <2> QED
    BY <1>1, <2>1 DEF Sound
<1>4. \E place : Sorted(evs, Timeline(walk.got), place)
  BY <1>2, TimelineSorted
<1> HIDE DEF evs
<1>5. /\ cap \in 1 .. Len(chain.accounts) /\ cap \in Nat /\ chain.accounts[cap] \in AccountType
  BY <1>1 DEF Sound, Seated
<1>6. Story(evs, cap, chain.accounts[cap])
  BY <1>3, <1>5 DEF Booked
<1>7. \E i, w, l \in Nat : Told(evs, cap, i, w, l) /\ Balanced(evs, chain.accounts[cap], i, w, l)
  BY <1>2, <1>6 DEF Story
<1> QED
  BY <1>2, <1>4, <1>5, <1>7 DEF evs

(* The statement of an open cap.                                             *)
LEMMA OpenStatus ==
  ASSUME NEW evs, NEW cap, NEW a, NEW i \in Nat, NEW w \in Nat, NEW s,
         Told(evs, cap, i, w, 0), Balanced(evs, a, i, w, 0),
         Says(evs, a, i, w, 0, 1 .. Len(evs), s)
  PROVE  Status(s) = a.status /\ a.status \in {"active", "pending"}
<1>1. i \in 1 .. Len(evs) /\ (w # 0 => w \in 1 .. Len(evs))
  BY DEF Told
<1>2. /\ s.terminal = "none"
      /\ s.occupied <=> (evs[i].kind = "RentStarted" \/ w # 0)
      /\ evs[i].kind # "RentStarted" /\ w = 0 => s.pending
  BY <1>1 DEF Says
<1>3. a.status = IF evs[i].kind = "RentStarted" \/ w # 0 THEN "active" ELSE "pending"
  BY DEF Balanced
<1> QED
  BY <1>2, <1>3 DEF Status

(* Whatever the order in which the sort leaves events of one timestamp, the  *)
(* statement of a cap has the sums the chain settled, and of a closed cap    *)
(* what it paid is what it consumed and what it got back.                    *)
THEOREM StatementsSettle == Spec => []StatementSettles
<1>1. ASSUME LedgerInv, UpToDate, walk.after = 0, NEW cap \in DOMAIN chain.accounts
      PROVE  LET s == Statement(Timeline(walk.got), cap)
                 a == chain.accounts[cap]
             IN  /\ s.paid = a.paid /\ s.consumed = a.used /\ s.refunded = a.refund
                 /\ Status(s) \notin {"active", "pending"} => s.paid = s.consumed + s.refunded
  <2> DEFINE evs == Emitted(walk.got)
             sorted == Timeline(walk.got)
             a == chain.accounts[cap]
             s == Statement(sorted, cap)
  <2>1. /\ cap \in Nat /\ a \in AccountType /\ evs \in Seq(EventType)
        /\ \E place : Sorted(evs, sorted, place)
        /\ \E i, w, l \in Nat : Told(evs, cap, i, w, l) /\ Balanced(evs, a, i, w, l)
    BY <1>1, Accounted
  <2> HIDE DEF evs, sorted, a
  <2>2. PICK place : Sorted(evs, sorted, place)
    BY <2>1
  <2>3. PICK i \in Nat, w \in Nat, l \in Nat :
          Told(evs, cap, i, w, l) /\ Balanced(evs, a, i, w, l)
    BY <2>1
  <2>4. Says(evs, a, i, w, l, 1 .. Len(evs), s)
    BY <2>1, <2>2, <2>3, StatementSays
  <2> HIDE DEF s
  <2>5. i \in 1 .. Len(evs) /\ (l # 0 => l \in 1 .. Len(evs))
    BY <2>3 DEF Told
  <2>6. /\ s.paid = a.paid
        /\ s.consumed = IF l # 0 THEN a.used ELSE 0
        /\ s.refunded = IF l # 0 THEN a.refund ELSE 0
    BY <2>4, <2>5 DEF Says
  <2>7. s.consumed = a.used /\ s.refunded = a.refund /\ (l # 0 => a.paid = a.used + a.refund)
    BY <2>3, <2>6 DEF Balanced
  <2>8. l = 0 => Status(s) \in {"active", "pending"}
    BY <2>3, <2>4, OpenStatus
  <2> QED
    BY <2>6, <2>7, <2>8 DEF s, a, sorted
<1>2. LedgerInv => StatementSettles
  BY <1>1 DEF StatementSettles
<1> QED
  BY <1>2, LedgerInvariant, PTL

(* As long as the sort keeps the boundaries of the seat in order, the status *)
(* of a statement is the cap's: waiting, seated, or how it left.             *)
THEOREM StatusesAreFaithful == Spec => []StatusFaithful
<1>1. ASSUME LedgerInv, UpToDate, walk.after = 0, BoundariesInOrder,
             NEW cap \in DOMAIN chain.accounts
      PROVE  Status(Statement(Timeline(walk.got), cap)) = chain.accounts[cap].status
  <2> DEFINE evs == Emitted(walk.got)
             sorted == Timeline(walk.got)
             a == chain.accounts[cap]
             s == Statement(sorted, cap)
  <2>1. /\ cap \in Nat /\ a \in AccountType /\ evs \in Seq(EventType)
        /\ \E place : Sorted(evs, sorted, place)
        /\ \E i, w, l \in Nat : Told(evs, cap, i, w, l) /\ Balanced(evs, a, i, w, l)
    BY <1>1, Accounted
  <2>2. Boundaries(sorted) = Boundaries(evs)
    BY <1>1 DEF BoundariesInOrder
  <2> HIDE DEF evs, sorted, a
  <2>3. PICK place : Sorted(evs, sorted, place)
    BY <2>1
  <2>4. PICK i \in Nat, w \in Nat, l \in Nat :
          Told(evs, cap, i, w, l) /\ Balanced(evs, a, i, w, l)
    BY <2>1
  <2>5. /\ Says(evs, a, i, w, l, 1 .. Len(evs), s)
        /\ l # 0 /\ EndsLast(evs, i, w, l, place) => EndsAs(evs, l, 1 .. Len(evs), s)
    BY <2>1, <2>3, <2>4, StatementSays
  <2> HIDE DEF s
  <2>6. CASE l = 0
    BY <2>4, <2>5, <2>6, OpenStatus DEF s, a, sorted
  <2>7. CASE l # 0
    <3>1. EndsLast(evs, i, w, l, place)
      BY <2>1, <2>2, <2>3, <2>4, <2>7, EndStaysLast
    <3>2. l \in 1 .. Len(evs)
      BY <2>4, <2>7 DEF Told
    <3>3. s.terminal = OutcomeOf(evs[l].kind)
      BY <2>5, <2>7, <3>1, <3>2 DEF EndsAs
    <3>4. a.status = OutcomeOf(evs[l].kind)
      BY <2>4, <2>7 DEF Balanced
    <3>5. Status(s) = a.status
      BY <3>3, <3>4 DEF Status, OutcomeOf
    <3> QED
      BY <3>5 DEF s, a, sorted
  <2> QED
    BY <2>6, <2>7
<1>2. LedgerInv => StatusFaithful
  BY <1>1 DEF StatusFaithful
<1> QED
  BY <1>2, LedgerInvariant, PTL
=============================================================================
