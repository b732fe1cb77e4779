--------------------------- MODULE ReadSpecsProofs ---------------------------
(***************************************************************************)
(* What runSpecs makes of any list of views, and that the calls of every   *)
(* view and of every transaction are bound to arguments the contract       *)
(* declares.  The recursive functions of ReadSpecs are shown to exist, and *)
(* what they compute, by the least counterexample: a set of numbers that   *)
(* is not empty has a least member.                                        *)
(***************************************************************************)
EXTENDS ReadSpecs, Transactions, TLAPS, WellFoundedInduction, SequenceTheorems,
        FiniteSetTheorems

(* A set of natural numbers that is not empty has a least member.            *)
LEMMA LeastNumber ==
  ASSUME NEW S \in SUBSET Nat, S # {}
  PROVE  \E m \in S : m \in Nat /\ \A k \in Nat : k < m => k \notin S
<1>1. PICK m \in S : \A k \in S : ~(<<k, m>> \in OpToRel(<, Nat))
  BY NatLessThanWellFounded, WFMin
<1>2. \A k \in Nat : k < m => k \notin S
  BY <1>1 DEF OpToRel
<1> QED
  BY <1>2

(* What holds at nought, and of a number when it holds of the one before.    *)
LEMMA UpTo ==
  ASSUME NEW len \in Nat, NEW S, 0 \in S, \A n \in 1 .. len : n - 1 \in S => n \in S
  PROVE  \A n \in 0 .. len : n \in S
<1> DEFINE Missing == {n \in 0 .. len : n \notin S}
<1>1. SUFFICES ASSUME Missing # {} PROVE FALSE
  OBVIOUS
<1>2. PICK m \in Missing : m \in Nat /\ \A k \in Nat : k < m => k \notin Missing
  <2> Missing \in SUBSET Nat
    OBVIOUS
  <2> HIDE DEF Missing
  <2> QED
    BY <1>1, LeastNumber
<1>3. m # 0 /\ m \in 1 .. len
  BY <1>2
<1>4. m - 1 \in S
  BY <1>2, <1>3
<1> QED
  BY <1>2, <1>3, <1>4

-----------------------------------------------------------------------------
(* The table.                                                                *)

(* A table of views, each of which makes from one to five calls.             *)
Table(specs) ==
  /\ Len(specs) \in Nat /\ DOMAIN specs = 1 .. Len(specs)
  /\ \A i \in DOMAIN specs : Len(specs[i].calls) \in 1 .. 5

(* Two tables one after the other are a table.                               *)
LEMMA TableJoin ==
  ASSUME NEW a, NEW b, Table(a), Table(b)
  PROVE  Table(a \o b)
  BY DEF Table

(* The table of all views is made of such tables.                            *)
LEMMA GroupTables ==
  /\ Table(StatusSpecs) /\ Table(IdentitySpecs) /\ Table(SeatSpecs) /\ Table(ProbeSpecs)
  /\ Table(TemporalSpecs) /\ Table(CommitmentSpecs) /\ Table(CreditSpecs) /\ Table(CycleSpecs)
  /\ Table(PolicySpecs) /\ Table(SettlementSpecs) /\ Table(ConstantSpecs)
<1>1. Table(StatusSpecs)
  BY DEF Table, StatusSpecs, Ones, One, ViewSpec
<1>2. Table(IdentitySpecs)
  BY DEF Table, IdentitySpecs, Ones, One, ViewSpec
<1>3. Table(SeatSpecs)
  BY DEF Table, SeatSpecs, Ones, One, Unrolled, ViewSpec
<1>4. Table(ProbeSpecs)
  BY DEF Table, ProbeSpecs, Probing, ViewSpec
<1>5. Table(TemporalSpecs)
  BY DEF Table, TemporalSpecs, Ones, One, OneWithNow, ViewSpec
<1>6. Table(CommitmentSpecs)
  BY DEF Table, CommitmentSpecs, Ones, One, OneWithNow, ViewSpec
<1>7. Table(CreditSpecs)
  BY DEF Table, CreditSpecs, Ones, One, ViewSpec
<1>8. Table(CycleSpecs)
  BY DEF Table, CycleSpecs, Ones, One, Unrolled, ViewSpec
<1>9. Table(PolicySpecs)
  BY DEF Table, PolicySpecs, Unrolled, ShapeSpec, ViewSpec
<1>10. Table(SettlementSpecs)
  BY DEF Table, SettlementSpecs, OneWithNow, ViewSpec
<1>11. Table(ConstantSpecs)
  BY DEF Table, ConstantSpecs, Constant, ViewSpec
<1> QED
  BY <1>1, <1>2, <1>3, <1>4, <1>5, <1>6, <1>7, <1>8, <1>9, <1>10, <1>11

LEMMA ViewSpecsTable == Table(ViewSpecs)
  BY GroupTables, TableJoin DEF ViewSpecs

(* What the rest needs of the table.                                         *)
LEMMA CallsFew == Calls \in [Views -> 1 .. 5]
<1>1. ASSUME NEW name \in Views PROVE Len(SpecOf[name].calls) \in 1 .. 5
  <2>1. PICK i \in DOMAIN ViewSpecs : ViewSpecs[i].name = name
    BY DEF Views
  <2>2. SpecOf[name] = CHOOSE s \in Range(ViewSpecs) : s.name = name
    BY DEF SpecOf
  <2>3. SpecOf[name] \in Range(ViewSpecs)
    BY <2>1, <2>2 DEF Range
  <2>4. QED
    BY <2>3, ViewSpecsTable DEF Table, Range
<1> QED
  BY <1>1 DEF Calls

-----------------------------------------------------------------------------
(* The recursive functions.                                                  *)

(* The function of Cursor exists, however many views there are.              *)
LEMMA CursorExists ==
  ASSUME NEW names, NEW len \in Nat
  PROVE  \E f : f = [k \in 0 .. len |-> IF k = 0 THEN 0 ELSE f[k - 1] + Calls[names[k]]]
<1> DEFINE Exists(n) == \E f : f = [k \in 0 .. n |-> IF k = 0 THEN 0 ELSE f[k - 1] + Calls[names[k]]]
           S == {n \in Nat : Exists(n)}
<1>1. 0 \in S
  <2> DEFINE g == [k \in 0 .. 0 |-> 0]
  <2>1. g = [k \in 0 .. 0 |-> IF k = 0 THEN 0 ELSE g[k - 1] + Calls[names[k]]]
    OBVIOUS
  <2> HIDE DEF g
  <2> QED
    BY <2>1
<1>2. ASSUME NEW n \in 1 .. len, n - 1 \in S PROVE n \in S
  <2>1. PICK f : f = [k \in 0 .. n - 1 |-> IF k = 0 THEN 0 ELSE f[k - 1] + Calls[names[k]]]
    BY <1>2
  <2> DEFINE g == [k \in 0 .. n |-> IF k = n THEN f[n - 1] + Calls[names[n]] ELSE f[k]]
  <2>2. ASSUME NEW k \in 0 .. n
        PROVE  g[k] = IF k = 0 THEN 0 ELSE g[k - 1] + Calls[names[k]]
    BY <2>1
  <2>3. g = [k \in 0 .. n |-> IF k = 0 THEN 0 ELSE g[k - 1] + Calls[names[k]]]
    BY <2>2
  <2> HIDE DEF g
  <2> QED
    BY <2>3
<1> HIDE DEF S
<1>3. len \in S
  BY <1>1, <1>2, UpTo
<1> QED
  BY <1>3 DEF S

(* So the cursor starts at nought and goes by each view's calls.             *)
LEMMA CursorSteps ==
  ASSUME NEW names, Len(names) \in Nat
  PROVE  Cursor(names) = [n \in 0 .. Len(names) |->
                            IF n = 0 THEN 0 ELSE Cursor(names)[n - 1] + Calls[names[n]]]
  BY CursorExists DEF Cursor

(* The same of the commands issued.                                          *)
LEMMA IssuedExists ==
  ASSUME NEW names, NEW len \in Nat
  PROVE  \E f : f = [k \in 0 .. len |-> IF k = 0 THEN <<>> ELSE WithCallsOf(f[k - 1], names[k])]
<1> DEFINE Exists(n) == \E f : f = [k \in 0 .. n |-> IF k = 0 THEN <<>> ELSE WithCallsOf(f[k - 1], names[k])]
           S == {n \in Nat : Exists(n)}
<1>1. 0 \in S
  <2> DEFINE g == [k \in 0 .. 0 |-> <<>>]
  <2>1. g = [k \in 0 .. 0 |-> IF k = 0 THEN <<>> ELSE WithCallsOf(g[k - 1], names[k])]
    OBVIOUS
  <2> HIDE DEF g
  <2> QED
    BY <2>1
<1>2. ASSUME NEW n \in 1 .. len, n - 1 \in S PROVE n \in S
  <2>1. PICK f : f = [k \in 0 .. n - 1 |-> IF k = 0 THEN <<>> ELSE WithCallsOf(f[k - 1], names[k])]
    BY <1>2
  <2> DEFINE g == [k \in 0 .. n |-> IF k = n THEN WithCallsOf(f[n - 1], names[n]) ELSE f[k]]
  <2>2. ASSUME NEW k \in 0 .. n
        PROVE  g[k] = IF k = 0 THEN <<>> ELSE WithCallsOf(g[k - 1], names[k])
    BY <2>1
  <2>3. g = [k \in 0 .. n |-> IF k = 0 THEN <<>> ELSE WithCallsOf(g[k - 1], names[k])]
    BY <2>2
  <2> HIDE DEF g
  <2> QED
    BY <2>3
<1> HIDE DEF S
<1>3. len \in S
  BY <1>1, <1>2, UpTo
<1> QED
  BY <1>3 DEF S

(* The same of the simulations.                                              *)
LEMMA ChunksExist ==
  ASSUME NEW names, NEW len \in Nat
  PROVE  \E f : f = [k \in 0 .. len |-> IF k = 0 THEN <<>> ELSE Packed(f[k - 1], names[k])]
<1> DEFINE Exists(n) == \E f : f = [k \in 0 .. n |-> IF k = 0 THEN <<>> ELSE Packed(f[k - 1], names[k])]
           S == {n \in Nat : Exists(n)}
<1>1. 0 \in S
  <2> DEFINE g == [k \in 0 .. 0 |-> <<>>]
  <2>1. g = [k \in 0 .. 0 |-> IF k = 0 THEN <<>> ELSE Packed(g[k - 1], names[k])]
    OBVIOUS
  <2> HIDE DEF g
  <2> QED
    BY <2>1
<1>2. ASSUME NEW n \in 1 .. len, n - 1 \in S PROVE n \in S
  <2>1. PICK f : f = [k \in 0 .. n - 1 |-> IF k = 0 THEN <<>> ELSE Packed(f[k - 1], names[k])]
    BY <1>2
  <2> DEFINE g == [k \in 0 .. n |-> IF k = n THEN Packed(f[n - 1], names[n]) ELSE f[k]]
  <2>2. ASSUME NEW k \in 0 .. n
        PROVE  g[k] = IF k = 0 THEN <<>> ELSE Packed(g[k - 1], names[k])
    BY <2>1
  <2>3. g = [k \in 0 .. n |-> IF k = 0 THEN <<>> ELSE Packed(g[k - 1], names[k])]
    BY <2>2
  <2> HIDE DEF g
  <2> QED
    BY <2>3
<1> HIDE DEF S
<1>3. len \in S
  BY <1>1, <1>2, UpTo
<1> QED
  BY <1>3 DEF S

-----------------------------------------------------------------------------
(* Decoding.                                                                 *)

(* The cursor counts up.                                                     *)
LEMMA CursorType ==
  ASSUME NEW names \in Seq(Views)
  PROVE  \A n \in 0 .. Len(names) : Cursor(names)[n] \in Nat
<1> DEFINE c == Cursor(names)
           len == Len(names)
           S == {n \in 0 .. len : c[n] \in Nat}
<1>1. len \in Nat /\ \A n \in 1 .. len : Calls[names[n]] \in Nat
  BY CallsFew
<1>2. c = [n \in 0 .. len |-> IF n = 0 THEN 0 ELSE c[n - 1] + Calls[names[n]]]
  BY <1>1, CursorSteps
<1> HIDE DEF c, len
<1>3. 0 \in S
  BY <1>1, <1>2
<1>4. ASSUME NEW n \in 1 .. len, n - 1 \in S PROVE n \in S
  <2>1. n \in 0 .. len /\ n # 0 /\ c[n] = c[n - 1] + Calls[names[n]]
    BY <1>1, <1>2
  <2> QED
    BY <1>1, <1>4, <2>1
<1> HIDE DEF S
<1>5. \A n \in 0 .. len : n \in S
  BY <1>1, <1>3, <1>4, UpTo
<1> QED
  BY <1>5 DEF S, c, len

(* What a read of the cursor may use.                                        *)
LEMMA CursorAt ==
  ASSUME NEW names \in Seq(Views), NEW n \in 1 .. Len(names)
  PROVE  /\ n \in Nat /\ Cursor(names)[n - 1] \in Nat
         /\ names[n] \in Views /\ Calls[names[n]] \in Nat
         /\ Cursor(names)[n] = Cursor(names)[n - 1] + Calls[names[n]]
<1>1. n \in 0 .. Len(names) /\ n - 1 \in 0 .. Len(names) /\ n # 0 /\ Len(names) \in Nat
  OBVIOUS
<1>2. names[n] \in Views /\ Calls[names[n]] \in Nat
  BY CallsFew
<1>3. Cursor(names)[n - 1] \in Nat
  BY <1>1, CursorType
<1> QED
  BY <1>1, <1>2, <1>3, CursorSteps

(* What the calls of one more view add.                                      *)
LEMMA CallsAdded ==
  ASSUME NEW cmds \in Seq(Views \X Nat), NEW name \in Views
  PROVE  /\ WithCallsOf(cmds, name) \in Seq(Views \X Nat)
         /\ Len(WithCallsOf(cmds, name)) = Len(cmds) + Calls[name]
         /\ \A j \in 1 .. Len(cmds) : WithCallsOf(cmds, name)[j] = cmds[j]
         /\ \A k \in 1 .. Calls[name] : WithCallsOf(cmds, name)[Len(cmds) + k] = <<name, k>>
<1> DEFINE calls == [k \in 1 .. Calls[name] |-> <<name, k>>]
           S == Views \X Nat
           more == cmds \o calls
<1>1. Calls[name] \in Nat /\ Len(cmds) \in Nat
  BY CallsFew
<1>2. calls \in Seq(S) /\ Len(calls) = Calls[name]
  BY <1>1
<1>3. \A k \in 1 .. Calls[name] : calls[k] = <<name, k>>
  OBVIOUS
<1>4. WithCallsOf(cmds, name) = more
  BY DEF WithCallsOf
<1> HIDE DEF calls, S
<1>5. /\ more \in Seq(S) /\ Len(more) = Len(cmds) + Len(calls)
      /\ \A j \in 1 .. Len(cmds) + Len(calls) :
           more[j] = IF j <= Len(cmds) THEN cmds[j] ELSE calls[j - Len(cmds)]
  BY <1>2, ConcatProperties DEF S
<1> HIDE DEF more
<1>6. ASSUME NEW k \in 1 .. Calls[name] PROVE more[Len(cmds) + k] = <<name, k>>
  <2> DEFINE j == Len(cmds) + k
  <2>1. j \in 1 .. Len(cmds) + Len(calls) /\ ~(j <= Len(cmds)) /\ j - Len(cmds) = k
    BY <1>1, <1>2
  <2> HIDE DEF j
  <2>2. more[j] = calls[k]
    BY <1>5, <2>1
  <2> QED
    BY <1>3, <2>2 DEF j
<1>7. ASSUME NEW j \in 1 .. Len(cmds) PROVE more[j] = cmds[j]
  <2>1. j \in 1 .. Len(cmds) + Len(calls) /\ j <= Len(cmds)
    BY <1>1, <1>2
  <2> QED
    BY <1>5, <2>1
<1> QED
  BY <1>2, <1>4, <1>5, <1>6, <1>7 DEF S

(* The commands of the first n views, each after those of the ones before.   *)
Placed(names, n, cmds) ==
  /\ cmds \in Seq(Views \X Nat) /\ Len(cmds) = Cursor(names)[n]
  /\ \A i \in 1 .. n : \A k \in 1 .. Calls[names[i]] :
       /\ Cursor(names)[i - 1] + k <= Len(cmds)
       /\ cmds[Cursor(names)[i - 1] + k] = <<names[i], k>>

(* One more view finds its place.                                            *)
LEMMA PlacedStep ==
  ASSUME NEW names \in Seq(Views), NEW n \in 1 .. Len(names), NEW cmds, Placed(names, n - 1, cmds)
  PROVE  Placed(names, n, WithCallsOf(cmds, names[n]))
<1> DEFINE c == Cursor(names)
           more == WithCallsOf(cmds, names[n])
<1>1. /\ n \in Nat /\ c[n - 1] \in Nat /\ c[n] = c[n - 1] + Calls[names[n]]
      /\ names[n] \in Views /\ Calls[names[n]] \in Nat
  BY CursorAt
<1>2. cmds \in Seq(Views \X Nat) /\ Len(cmds) = c[n - 1]
  BY DEF Placed
<1>3. \A i \in 1 .. n - 1 : \A k \in 1 .. Calls[names[i]] :
        c[i - 1] + k <= Len(cmds) /\ cmds[c[i - 1] + k] = <<names[i], k>>
  BY DEF Placed
<1>4. /\ more \in Seq(Views \X Nat) /\ Len(more) = Len(cmds) + Calls[names[n]]
      /\ \A j \in 1 .. Len(cmds) : more[j] = cmds[j]
      /\ \A k \in 1 .. Calls[names[n]] : more[Len(cmds) + k] = <<names[n], k>>
  BY <1>1, <1>2, CallsAdded
<1> HIDE DEF more
<1>5. ASSUME NEW i \in 1 .. n, NEW k \in 1 .. Calls[names[i]]
      PROVE  c[i - 1] + k <= Len(more) /\ more[c[i - 1] + k] = <<names[i], k>>
  <2>1. ASSUME i = n PROVE c[n - 1] + k <= Len(more) /\ more[c[n - 1] + k] = <<names[n], k>>
    <3>1. k \in 1 .. Calls[names[n]]
      BY <2>1
    <3> HIDE DEF c
    <3> QED
      BY <1>1, <1>2, <1>4, <3>1
  <2>2. CASE i # n
    <3>1. i \in 1 .. n - 1 /\ i \in 1 .. Len(names)
      BY <1>1, <2>2
    <3>2. c[i - 1] \in Nat /\ Calls[names[i]] \in Nat
      BY <3>1, CursorAt
    <3> DEFINE j == c[i - 1] + k
    <3>3. j \in Nat \ {0}
      BY <3>2
    <3>4. j <= Len(cmds) /\ cmds[j] = <<names[i], k>>
      BY <1>3, <3>1
    <3> HIDE DEF c, j
    <3>5. Len(cmds) \in Nat /\ Len(cmds) <= Len(more)
      BY <1>1, <1>2, <1>4
    <3>6. j \in 1 .. Len(cmds) /\ j <= Len(more)
      <4>1. Len(more) \in Nat
        BY <1>4
      <4> QED
        BY <3>3, <3>4, <3>5, <4>1
    <3>7. more[j] = cmds[j]
      BY <1>4, <3>6
    <3> QED
      BY <3>4, <3>6, <3>7 DEF j
  <2> QED
    BY <2>1, <2>2
<1>6. Len(more) = c[n]
  BY <1>1, <1>2, <1>4
<1> QED
  BY <1>4, <1>5, <1>6 DEF Placed, more

(* Of a simulation, the commands of the i-th view are its own calls, and     *)
(* there are as many as the cursor says.                                     *)
LEMMA IssuedAtCursor ==
  ASSUME NEW names \in Seq(Views)
  PROVE  Placed(names, Len(names), Issued(names)) /\ Len(Issued(names)) = CallsIn(names)
<1> DEFINE len == Len(names)
<1>1. len \in Nat
  OBVIOUS
<1>2. PICK f : /\ f = [k \in 0 .. len |-> IF k = 0 THEN <<>> ELSE WithCallsOf(f[k - 1], names[k])]
               /\ Issued(names) = f[len]
  BY <1>1, IssuedExists DEF Issued
<1> DEFINE S == {n \in 0 .. len : Placed(names, n, f[n])}
<1>3. 0 \in S
  <2>1. f[0] = <<>> /\ Cursor(names)[0] = 0
    BY <1>1, <1>2, CursorSteps
  <2>2. Placed(names, 0, f[0])
    BY <2>1 DEF Placed
  <2> QED
    BY <1>1, <2>2
<1>4. ASSUME NEW n \in 1 .. len, n - 1 \in S PROVE n \in S
  <2>1. n \in 0 .. len /\ n # 0
    BY <1>1
  <2>2. f[n] = WithCallsOf(f[n - 1], names[n])
    BY <1>2, <2>1
  <2>3. Placed(names, n, f[n])
    BY <1>4, <2>2, PlacedStep
  <2> QED
    BY <2>1, <2>3
<1> HIDE DEF S, len
<1>5. \A n \in 0 .. len : n \in S
  BY <1>1, <1>3, <1>4, UpTo
<1>6. Placed(names, Len(names), Issued(names))
  BY <1>1, <1>2, <1>5 DEF S, len
<1> QED
  BY <1>6 DEF Placed, CallsIn

(* A view is decoded from the returns of its own calls, whatever views share *)
(* its simulation: flattenReturns moves its cursor by what each issued.      *)
THEOREM EachDecodesItsOwn ==
  ASSUME NEW names \in Seq(Views), NEW i \in DOMAIN names
  PROVE  DecodedOwn(names, i)
<1>1. i \in 1 .. Len(names)
  OBVIOUS
<1>2. Placed(names, Len(names), Issued(names))
  BY IssuedAtCursor
<1>3. \A k \in 1 .. Calls[names[i]] :
        /\ Cursor(names)[i - 1] + k <= Len(Issued(names))
        /\ Issued(names)[Cursor(names)[i - 1] + k] = <<names[i], k>>
  BY <1>1, <1>2 DEF Placed
<1> QED
  BY <1>3 DEF DecodedOwn, Commands

-----------------------------------------------------------------------------
(* Simulations.                                                              *)

(* A list's cursor does not change when a view is added to it.               *)
LEMMA CursorOfMore ==
  ASSUME NEW names \in Seq(Views), NEW name \in Views
  PROVE  CallsIn(Append(names, name)) = CallsIn(names) + Calls[name]
<1> DEFINE c == Cursor(names)
           more == Append(names, name)
           d == Cursor(more)
           len == Len(names)
           S == {n \in 0 .. len : d[n] = c[n]}
<1>1. /\ len \in Nat /\ len + 1 # 0
      /\ more \in Seq(Views) /\ Len(more) = len + 1 /\ more[len + 1] = name
      /\ \A n \in 1 .. len : more[n] = names[n]
  OBVIOUS
<1>2. c = [n \in 0 .. len |-> IF n = 0 THEN 0 ELSE c[n - 1] + Calls[names[n]]]
  BY <1>1, CursorSteps
<1>3. d = [n \in 0 .. len + 1 |-> IF n = 0 THEN 0 ELSE d[n - 1] + Calls[more[n]]]
  BY <1>1, CursorSteps
<1>4. CallsIn(more) = d[len + 1] /\ CallsIn(names) = c[len]
  BY <1>1 DEF CallsIn
<1> HIDE DEF c, d, more, len
<1>5. 0 \in S
  BY <1>1, <1>2, <1>3
<1>6. ASSUME NEW n \in 1 .. len, n - 1 \in S PROVE n \in S
  <2>1. n \in 0 .. len /\ n \in 0 .. len + 1 /\ n # 0 /\ more[n] = names[n]
    BY <1>1
  <2>2. d[n] = d[n - 1] + Calls[more[n]] /\ c[n] = c[n - 1] + Calls[names[n]]
    BY <1>2, <1>3, <2>1
  <2> QED
    BY <1>6, <2>1, <2>2
<1> HIDE DEF S
<1>7. \A n \in 0 .. len : n \in S
  BY <1>1, <1>5, <1>6, UpTo
<1>8. d[len] = c[len]
  BY <1>1, <1>7 DEF S
<1>9. len + 1 \in 0 .. len + 1 /\ len + 1 - 1 = len
  BY <1>1
<1>10. d[len + 1] = d[len] + Calls[name]
  BY <1>1, <1>3, <1>9
<1> QED
  BY <1>4, <1>8, <1>10 DEF more

(* A view alone is a list that makes its calls.                              *)
LEMMA CallsOfOne ==
  ASSUME NEW name \in Views
  PROVE  <<name>> \in Seq(Views) /\ CallsIn(<<name>>) = Calls[name] /\ Range(<<name>>) = {name}
<1>1. CallsIn(<<>>) = 0
  BY CursorSteps DEF CallsIn
<1>2. <<>> \in Seq(Views) /\ Append(<<>>, name) = <<name>> /\ Calls[name] \in Nat
  BY CallsFew
<1>3. CallsIn(Append(<<>>, name)) = CallsIn(<<>>) + Calls[name]
  BY <1>2, CursorOfMore
<1>4. CallsIn(<<name>>) = Calls[name]
  BY <1>1, <1>2, <1>3
<1> QED
  BY <1>4 DEF Range

(* What is appended is in the list, besides what was.                        *)
LEMMA RangeOfMore ==
  ASSUME NEW S, NEW seq \in Seq(S), NEW x \in S
  PROVE  Range(Append(seq, x)) = Range(seq) \cup {x}
<1> DEFINE more == Append(seq, x)
           len == Len(seq)
<1>1. /\ len \in Nat /\ DOMAIN seq = 1 .. len /\ DOMAIN more = 1 .. len + 1 /\ more[len + 1] = x
      /\ \A i \in 1 .. len : more[i] = seq[i]
  OBVIOUS
<1> HIDE DEF more, len
<1>2. \A i \in 1 .. len + 1 : i = len + 1 \/ i \in 1 .. len
  BY <1>1
<1>3. len + 1 \in 1 .. len + 1 /\ \A i \in 1 .. len : i \in 1 .. len + 1
  BY <1>1
<1> QED
  BY <1>1, <1>2, <1>3 DEF Range, more

(* Simulations that fit, and between them ask for the first n views.         *)
Fit(names, n, chunks) ==
  /\ chunks \in Seq(Seq(Views))
  /\ \A k \in 1 .. Len(chunks) : CallsIn(chunks[k]) <= ChunkCalls /\ Range(chunks[k]) \subseteq Range(names)
  /\ \A i \in 1 .. n : \E k \in 1 .. Len(chunks) : names[i] \in Range(chunks[k])

(* One more view joins the last simulation, or begins one.                   *)
LEMMA FitStep ==
  ASSUME NEW names \in Seq(Views), NEW n \in 1 .. Len(names), NEW chunks, Fit(names, n - 1, chunks)
  PROVE  Fit(names, n, Packed(chunks, names[n]))
<1> DEFINE name == names[n]
           len == Len(chunks)
           S == Seq(Views)
<1>1. /\ n \in Nat /\ name \in Views /\ name \in Range(names) /\ Calls[name] \in 1 .. 5
      /\ \A i \in 1 .. n : i = n \/ i \in 1 .. n - 1
  BY CallsFew DEF Range
<1>2. /\ chunks \in Seq(S) /\ len \in Nat
      /\ \A k \in 1 .. len : /\ chunks[k] \in S /\ CallsIn(chunks[k]) <= ChunkCalls
                             /\ Range(chunks[k]) \subseteq Range(names)
      /\ \A i \in 1 .. n - 1 : \E k \in 1 .. len : names[i] \in Range(chunks[k])
  BY ElementOfSeq DEF Fit
<1>3. CASE chunks # <<>> /\ CallsIn(Last(chunks)) + Calls[name] <= ChunkCalls
  <2> DEFINE more == Append(chunks[len], name)
             next == [chunks EXCEPT ![len] = more]
  <2>1. len \in 1 .. len /\ Last(chunks) = chunks[len]
    BY <1>2, <1>3 DEF Last
  <2>2. Packed(chunks, name) = next
    BY <1>3, <2>1 DEF Packed
  <2>3. chunks[len] \in Seq(Views)
    BY <1>2, <2>1
  <2>4. more \in S /\ Range(more) = Range(chunks[len]) \cup {name}
    BY <1>1, <2>3, RangeOfMore
  <2>5. CallsIn(more) <= ChunkCalls
    BY <1>1, <1>3, <2>1, <2>3, CursorOfMore
  <2> HIDE DEF more, S, name
  <2>6. next \in Seq(S) /\ Len(next) = len
        /\ \A k \in 1 .. len : next[k] = IF k = len THEN more ELSE chunks[k]
    BY <1>2, <2>1, <2>4, ExceptSeq
  <2> HIDE DEF next
  <2>7. \A k \in 1 .. len : CallsIn(next[k]) <= ChunkCalls /\ Range(next[k]) \subseteq Range(names)
    BY <1>1, <1>2, <2>1, <2>4, <2>5, <2>6
  <2>8. \A k \in 1 .. len : Range(chunks[k]) \subseteq Range(next[k])
    BY <2>4, <2>6
  <2>9. name \in Range(next[len])
    BY <2>1, <2>4, <2>6
  <2>10. ASSUME NEW i \in 1 .. n PROVE \E k \in 1 .. len : names[i] \in Range(next[k])
    <3>1. CASE i = n
      BY <2>1, <2>9, <3>1 DEF name
    <3>2. CASE i # n
      BY <1>1, <1>2, <2>8, <3>2
    <3> QED
      BY <3>1, <3>2
  <2> QED
    BY <2>2, <2>6, <2>7, <2>10 DEF Fit, S, name
<1>4. CASE ~(chunks # <<>> /\ CallsIn(Last(chunks)) + Calls[name] <= ChunkCalls)
  <2> DEFINE next == Append(chunks, <<name>>)
  <2>1. Packed(chunks, name) = next
    BY <1>4 DEF Packed
  <2>2. <<name>> \in S /\ CallsIn(<<name>>) <= ChunkCalls /\ Range(<<name>>) = {name}
    BY <1>1, CallsOfOne DEF ChunkCalls
  <2> HIDE DEF S, name
  <2>3. /\ next \in Seq(S) /\ Len(next) = len + 1 /\ next[len + 1] = <<name>>
        /\ \A k \in 1 .. len : next[k] = chunks[k]
    BY <1>2, <2>2, AppendProperties
  <2>4. \A k \in 1 .. len + 1 : k = len + 1 \/ k \in 1 .. len
    BY <1>2
  <2>5. len + 1 \in 1 .. len + 1 /\ \A k \in 1 .. len : k \in 1 .. len + 1
    BY <1>2
  <2> HIDE DEF next
  <2>6. \A k \in 1 .. len + 1 : CallsIn(next[k]) <= ChunkCalls /\ Range(next[k]) \subseteq Range(names)
    BY <1>1, <1>2, <2>2, <2>3, <2>4
  <2>7. ASSUME NEW i \in 1 .. n PROVE \E k \in 1 .. len + 1 : names[i] \in Range(next[k])
    <3>1. CASE i = n
      BY <2>2, <2>3, <2>5, <3>1 DEF name
    <3>2. CASE i # n
      BY <1>1, <1>2, <2>3, <2>5, <3>2
    <3> QED
      BY <3>1, <3>2
  <2> QED
    BY <2>1, <2>3, <2>6, <2>7 DEF Fit, S, name
<1> QED
  BY <1>3, <1>4

(* So it is with the whole list.                                             *)
LEMMA ChunksFit ==
  ASSUME NEW names \in Seq(Views)
  PROVE  Fit(names, Len(names), Chunks(names))
<1> DEFINE len == Len(names)
<1>1. len \in Nat
  OBVIOUS
<1>2. PICK f : /\ f = [k \in 0 .. len |-> IF k = 0 THEN <<>> ELSE Packed(f[k - 1], names[k])]
               /\ Chunks(names) = f[len]
  BY <1>1, ChunksExist DEF Chunks
<1> DEFINE S == {n \in 0 .. len : Fit(names, n, f[n])}
<1>3. 0 \in S
  <2>1. f[0] = <<>>
    BY <1>1, <1>2
  <2>2. Fit(names, 0, f[0])
    BY <2>1 DEF Fit
  <2> QED
    BY <1>1, <2>2
<1>4. ASSUME NEW n \in 1 .. len, n - 1 \in S PROVE n \in S
  <2>1. n \in 0 .. len /\ n # 0
    BY <1>1
  <2>2. f[n] = Packed(f[n - 1], names[n])
    BY <1>2, <2>1
  <2>3. Fit(names, n, f[n])
    BY <1>4, <2>2, FitStep
  <2> QED
    BY <2>1, <2>3
<1> HIDE DEF S, len
<1>5. \A n \in 0 .. len : n \in S
  BY <1>1, <1>3, <1>4, UpTo
<1> QED
  BY <1>1, <1>2, <1>5 DEF S, len

(* However many views a read asks for, each of its simulations holds at most *)
(* as many commands as the endpoint takes, and each view is in one of them:  *)
(* runSpecs begins a simulation before the one that would overflow.          *)
THEOREM EverySimulationFits ==
  ASSUME NEW names \in Seq(Views)
  PROVE  /\ \A k \in DOMAIN Chunks(names) : /\ Chunks(names)[k] \in Seq(Views)
                                            /\ Len(Issued(Chunks(names)[k])) <= ChunkCalls
         /\ Range(names) = UNION {Range(Chunks(names)[k]) : k \in DOMAIN Chunks(names)}
<1> DEFINE chunks == Chunks(names)
           S == Seq(Views)
<1>1. Fit(names, Len(names), chunks)
  BY ChunksFit
<1>2. /\ chunks \in Seq(S)
      /\ \A k \in 1 .. Len(chunks) : CallsIn(chunks[k]) <= ChunkCalls /\ Range(chunks[k]) \subseteq Range(names)
      /\ \A i \in 1 .. Len(names) : \E k \in 1 .. Len(chunks) : names[i] \in Range(chunks[k])
  BY <1>1 DEF Fit
<1> HIDE DEF S, chunks
<1>3. DOMAIN chunks = 1 .. Len(chunks) /\ \A k \in 1 .. Len(chunks) : chunks[k] \in S
  BY <1>2, ElementOfSeq
<1>4. \A k \in DOMAIN chunks : Len(Issued(chunks[k])) <= ChunkCalls
  BY <1>2, <1>3, IssuedAtCursor DEF S
<1>5. \A name \in Range(names) : \E k \in DOMAIN chunks : name \in Range(chunks[k])
  BY <1>2, <1>3 DEF Range
<1>6. Range(names) = UNION {Range(chunks[k]) : k \in DOMAIN chunks}
  BY <1>2, <1>3, <1>5
<1> QED
  BY <1>3, <1>4, <1>6 DEF chunks, S

-----------------------------------------------------------------------------
(* Snapshots, and the names of the views.                                    *)

(* The views a snapshot takes of the first n of the table.                   *)
LEMMA SnapshotExists ==
  ASSUME NEW supplied, NEW len \in Nat
  PROVE  \E f : f = [k \in 0 .. len |-> IF k = 0 THEN <<>> ELSE Including(f[k - 1], ViewSpecs[k], supplied)]
<1> DEFINE Exists(n) == \E f : f = [k \in 0 .. n |-> IF k = 0 THEN <<>> ELSE Including(f[k - 1], ViewSpecs[k], supplied)]
           S == {n \in Nat : Exists(n)}
<1>1. 0 \in S
  <2> DEFINE g == [k \in 0 .. 0 |-> <<>>]
  <2>1. g = [k \in 0 .. 0 |-> IF k = 0 THEN <<>> ELSE Including(g[k - 1], ViewSpecs[k], supplied)]
    OBVIOUS
  <2> HIDE DEF g
  <2> QED
    BY <2>1
<1>2. ASSUME NEW n \in 1 .. len, n - 1 \in S PROVE n \in S
  <2>1. PICK f : f = [k \in 0 .. n - 1 |-> IF k = 0 THEN <<>> ELSE Including(f[k - 1], ViewSpecs[k], supplied)]
    BY <1>2
  <2> DEFINE g == [k \in 0 .. n |-> IF k = n THEN Including(f[n - 1], ViewSpecs[n], supplied) ELSE f[k]]
  <2>2. ASSUME NEW k \in 0 .. n
        PROVE  g[k] = IF k = 0 THEN <<>> ELSE Including(g[k - 1], ViewSpecs[k], supplied)
    BY <2>1
  <2>3. g = [k \in 0 .. n |-> IF k = 0 THEN <<>> ELSE Including(g[k - 1], ViewSpecs[k], supplied)]
    BY <2>2
  <2> HIDE DEF g
  <2> QED
    BY <2>3
<1> HIDE DEF S
<1>3. len \in S
  BY <1>1, <1>2, UpTo
<1> QED
  BY <1>3 DEF S

(* A snapshot asks for views of the table, each of which it supplies.        *)
LEMMA SnapshotType ==
  ASSUME NEW supplied
  PROVE  /\ Snapshot(supplied) \in Seq(Views)
         /\ \A name \in Range(Snapshot(supplied)) :
              \E i \in DOMAIN ViewSpecs : ViewSpecs[i].name = name /\ ViewSpecs[i].needs \subseteq supplied
<1> DEFINE len == Len(ViewSpecs)
           T == {name \in Views :
                   \E i \in DOMAIN ViewSpecs : ViewSpecs[i].name = name /\ ViewSpecs[i].needs \subseteq supplied}
<1>1. len \in Nat /\ DOMAIN ViewSpecs = 1 .. len
  BY ViewSpecsTable DEF Table
<1>2. PICK f : /\ f = [k \in 0 .. len |-> IF k = 0 THEN <<>> ELSE Including(f[k - 1], ViewSpecs[k], supplied)]
               /\ Snapshot(supplied) = f[len]
  BY <1>1, SnapshotExists DEF Snapshot
<1> DEFINE S == {n \in 0 .. len : f[n] \in Seq(T)}
<1>3. 0 \in S
  <2> HIDE DEF T, len
  <2>1. f[0] = <<>> /\ <<>> \in Seq(T) /\ 0 \in 0 .. len
    BY <1>1, <1>2
  <2> QED
    BY <2>1, Zenon
<1>4. ASSUME NEW n \in 1 .. len, n - 1 \in S PROVE n \in S
  <2>1. n \in 0 .. len /\ n # 0 /\ n \in DOMAIN ViewSpecs
    BY <1>1
  <2>2. f[n] = Including(f[n - 1], ViewSpecs[n], supplied) /\ f[n - 1] \in Seq(T)
    BY <1>2, <1>4, <2>1
  <2>3. ViewSpecs[n].name \in Views
    BY <2>1 DEF Views
  <2>4. ViewSpecs[n].needs \subseteq supplied => ViewSpecs[n].name \in T
    BY <2>1, <2>3
  <2> HIDE DEF T
  <2>5. f[n] \in Seq(T)
    BY <2>2, <2>4, AppendProperties DEF Including
  <2> QED
    BY <2>1, <2>5
<1> HIDE DEF S, len, T
<1>5. \A n \in 0 .. len : n \in S
  BY <1>1, <1>3, <1>4, UpTo
<1>6. Snapshot(supplied) \in Seq(T)
  BY <1>1, <1>2, <1>5 DEF S
<1>7. T \subseteq Views
  BY DEF T
<1>8. \A name \in Range(Snapshot(supplied)) : name \in T
  BY <1>6 DEF Range
<1> QED
  BY <1>6, <1>7, <1>8, SeqMonotonic DEF T

Names(specs) == {specs[i].name : i \in DOMAIN specs}

LEMMA NamesJoin ==
  ASSUME NEW a, NEW b, Table(a), Table(b)
  PROVE  Names(a \o b) = Names(a) \cup Names(b)
<1> DEFINE c == a \o b
           m == Len(a)
           n == Len(b)
<1>1. /\ m \in Nat /\ n \in Nat /\ DOMAIN a = 1 .. m /\ DOMAIN b = 1 .. n /\ DOMAIN c = 1 .. m + n
      /\ \A i \in 1 .. m : c[i] = a[i]
      /\ \A i \in 1 .. n : c[m + i] = b[i]
  BY DEF Table
<1> HIDE DEF c, m, n
<1>2. \A i \in 1 .. m + n : i \in 1 .. m \/ \E j \in 1 .. n : i = m + j
  <2> SUFFICES ASSUME NEW i \in 1 .. m + n, i \notin 1 .. m PROVE \E j \in 1 .. n : i = m + j
    OBVIOUS
  <2>1. i - m \in 1 .. n /\ i = m + (i - m)
    BY <1>1
  <2> QED
    BY <2>1
<1>3. \A i \in 1 .. m : i \in 1 .. m + n
  BY <1>1
<1>4. \A i \in 1 .. n : m + i \in 1 .. m + n
  BY <1>1
<1>5. \A i \in DOMAIN c : c[i].name \in Names(a) \cup Names(b)
  BY <1>1, <1>2 DEF Names
<1>6. \A i \in DOMAIN a : a[i].name \in Names(c)
  BY <1>1, <1>3 DEF Names
<1>7. \A i \in DOMAIN b : b[i].name \in Names(c)
  BY <1>1, <1>4 DEF Names
<1> QED
  BY <1>5, <1>6, <1>7 DEF Names, c

(* The views, group by group.                                                *)
LEMMA ViewsByGroup ==
  Views = Names(StatusSpecs) \cup Names(IdentitySpecs) \cup Names(SeatSpecs)
          \cup Names(ProbeSpecs) \cup Names(TemporalSpecs) \cup Names(CommitmentSpecs)
          \cup Names(CreditSpecs) \cup Names(CycleSpecs) \cup Names(PolicySpecs)
          \cup Names(SettlementSpecs) \cup Names(ConstantSpecs)
<1> DEFINE t1 == StatusSpecs \o IdentitySpecs
           t2 == t1 \o SeatSpecs
           t3 == t2 \o ProbeSpecs
           t4 == t3 \o TemporalSpecs
           t5 == t4 \o CommitmentSpecs
           t6 == t5 \o CreditSpecs
           t7 == t6 \o CycleSpecs
           t8 == t7 \o PolicySpecs
           t9 == t8 \o SettlementSpecs
           t10 == t9 \o ConstantSpecs
<1>1. Table(t1) /\ Names(t1) = Names(StatusSpecs) \cup Names(IdentitySpecs)
  BY GroupTables, TableJoin, NamesJoin
<1> HIDE DEF t1
<1>2. Table(t2) /\ Names(t2) = Names(t1) \cup Names(SeatSpecs)
  BY <1>1, GroupTables, TableJoin, NamesJoin
<1> HIDE DEF t2
<1>3. Table(t3) /\ Names(t3) = Names(t2) \cup Names(ProbeSpecs)
  BY <1>2, GroupTables, TableJoin, NamesJoin
<1> HIDE DEF t3
<1>4. Table(t4) /\ Names(t4) = Names(t3) \cup Names(TemporalSpecs)
  BY <1>3, GroupTables, TableJoin, NamesJoin
<1> HIDE DEF t4
<1>5. Table(t5) /\ Names(t5) = Names(t4) \cup Names(CommitmentSpecs)
  BY <1>4, GroupTables, TableJoin, NamesJoin
<1> HIDE DEF t5
<1>6. Table(t6) /\ Names(t6) = Names(t5) \cup Names(CreditSpecs)
  BY <1>5, GroupTables, TableJoin, NamesJoin
<1> HIDE DEF t6
<1>7. Table(t7) /\ Names(t7) = Names(t6) \cup Names(CycleSpecs)
  BY <1>6, GroupTables, TableJoin, NamesJoin
<1> HIDE DEF t7
<1>8. Table(t8) /\ Names(t8) = Names(t7) \cup Names(PolicySpecs)
  BY <1>7, GroupTables, TableJoin, NamesJoin
<1> HIDE DEF t8
<1>9. Table(t9) /\ Names(t9) = Names(t8) \cup Names(SettlementSpecs)
  BY <1>8, GroupTables, TableJoin, NamesJoin
<1> HIDE DEF t9
<1>10. Table(t10) /\ Names(t10) = Names(t9) \cup Names(ConstantSpecs)
  BY <1>9, GroupTables, TableJoin, NamesJoin
<1> HIDE DEF t10
<1>11. ViewSpecs = t10 /\ Views = Names(ViewSpecs)
  BY DEF ViewSpecs, Views, Names, t1, t2, t3, t4, t5, t6, t7, t8, t9, t10
<1> QED
  BY <1>1, <1>2, <1>3, <1>4, <1>5, <1>6, <1>7, <1>8, <1>9, <1>10, <1>11

(* The views the handles ask for by name.                                    *)
LEMMA ViewNames ==
  {"isIdle", "isDescending", "isOccupied", "isDemand", "isRetired", "assetId",
   "activeUsufructuaryAddr", "activeUsufructCapId", "pendingUsufructuaryAddr",
   "pendingUsufructCapId", "activeStakeBalanceMist", "pendingStakeBalanceMist",
   "activeCommittedTenures", "pendingCommittedTenures", "governanceCapIsValid",
   "usufructCapIsActive", "usufructCapIsPending", "usufructCapIsStale", "phaseStartMs",
   "tenureExpiryMs", "transitionIsReady", "nextTransitionMs", "handoverExpiryMs",
   "descentExpiryMs", "activeUsufructuaryTimeRemainingMs", "handoverExpiryIfBidAt",
   "retireCommitmentRemainingMs", "ensembleCommitmentRemainingMs", "lastRentPriceMist",
   "creditIsAccruing", "creditCappedAtMs", "cycleParams", "activeCeilingTotalMs",
   "activeHandoverTotalMs", "restPrice", "tenureDuration", "priceEscalation", "creditShape",
   "auctionShape", "floorPriceMist", "accruedCreditMist", "activeStakeBalanceRemainingMist",
   "nextFloorPriceMist", "handoverSettlement", "tenureSettlement", "protocolFeeBps",
   "bpsDenominator"}
  \subseteq Views
<1>1. {"isIdle", "isDescending", "isOccupied", "isDemand", "isRetired"} \subseteq
       Names(StatusSpecs)
  BY DEF Names, StatusSpecs, Ones, One, ViewSpec
<1>2. {"assetId", "activeUsufructuaryAddr", "activeUsufructCapId", "pendingUsufructuaryAddr",
       "pendingUsufructCapId"} \subseteq Names(IdentitySpecs)
  BY DEF Names, IdentitySpecs, Ones, One, ViewSpec
<1>3. {"activeStakeBalanceMist", "pendingStakeBalanceMist", "activeCommittedTenures",
       "pendingCommittedTenures"} \subseteq Names(SeatSpecs)
  BY DEF Names, SeatSpecs, Ones, One, Unrolled, ViewSpec
<1>4. {"governanceCapIsValid", "usufructCapIsActive", "usufructCapIsPending",
       "usufructCapIsStale"} \subseteq Names(ProbeSpecs)
  BY DEF Names, ProbeSpecs, Probing, ViewSpec
<1>5. {"phaseStartMs", "tenureExpiryMs", "transitionIsReady", "nextTransitionMs",
       "handoverExpiryMs", "descentExpiryMs", "activeUsufructuaryTimeRemainingMs",
       "handoverExpiryIfBidAt"} \subseteq Names(TemporalSpecs)
  BY DEF Names, TemporalSpecs, Ones, One, OneWithNow, ViewSpec
<1>6. {"retireCommitmentRemainingMs", "ensembleCommitmentRemainingMs"} \subseteq
       Names(CommitmentSpecs)
  BY DEF Names, CommitmentSpecs, Ones, One, OneWithNow, ViewSpec
<1>7. {"lastRentPriceMist", "creditIsAccruing", "creditCappedAtMs"} \subseteq Names(CreditSpecs)
  BY DEF Names, CreditSpecs, Ones, One, ViewSpec
<1>8. {"cycleParams", "activeCeilingTotalMs", "activeHandoverTotalMs"} \subseteq Names(CycleSpecs)
  BY DEF Names, CycleSpecs, Ones, One, Unrolled, ViewSpec
<1>9. {"restPrice", "tenureDuration", "priceEscalation", "creditShape", "auctionShape"} \subseteq
       Names(PolicySpecs)
  BY DEF Names, PolicySpecs, Unrolled, ShapeSpec, ViewSpec
<1>10. {"floorPriceMist", "accruedCreditMist", "activeStakeBalanceRemainingMist",
       "nextFloorPriceMist", "handoverSettlement", "tenureSettlement"} \subseteq
       Names(SettlementSpecs)
  BY DEF Names, SettlementSpecs, OneWithNow, ViewSpec
<1>11. {"protocolFeeBps", "bpsDenominator"} \subseteq Names(ConstantSpecs)
  BY DEF Names, ConstantSpecs, Constant, ViewSpec
<1> QED
  BY <1>1, <1>2, <1>3, <1>4, <1>5, <1>6, <1>7, <1>8, <1>9, <1>10, <1>11, ViewsByGroup
-----------------------------------------------------------------------------
(* The bindings.  A function stands in one row of the table, or in rows that *)
(* declare the same.                                                         *)

NowFns ==
  {"activeUsufructuaryTimeRemainingMs", "activeStakeBalanceRemainingMist",
   "handoverExpiryIfBidAt", "retireCommitmentRemainingMs", "ensembleCommitmentRemainingMs",
   "transitionIsReady", "nextTransitionMs", "accruedCreditMist", "floorPriceMist",
   "handoverSettlement"}
ProbeFns ==
  {"governanceCapIsValid", "usufructCapIsActive", "usufructCapIsPending", "usufructCapIsStale"}
BareFns ==
  {"protocolFeeBps", "bpsDenominator", "newDescentOff", "newRetireCommitmentImmediate",
   "newEnsembleCommitmentImmediate", "newLinear", "newSmoothstep", "newLogistic",
   "newHandoverOff", "newHandoverFullTenure", "newTenureSingle", "newTenureMulti"}
UnitFns == {"price", "duration", "tenures", "basisPoints"}
PairFns == {"newPriceCompoundDelta", "collectEarningsMessages", "collectFeeMessages"}
TimedPairFns == {"claimAsset", "retire", "borrowAsset", "burnStaleUsufructCap"}
TimedTripleFns ==
  {"extendRetireCommitment", "extendEnsembleCommitment", "updateEnsemble", "rent",
   "updateUsufructuaryRefundAddress"}

KindsOf(fn) ==
  IF fn \in NowFns THEN HereWith("u64")
  ELSE IF fn \in ProbeFns THEN HereWith("address")
  ELSE IF fn \in BareFns THEN Nothing
  ELSE IF fn \in UnitFns THEN <<"u64">>
  ELSE IF fn \in PairFns THEN Objects(2)
  ELSE IF fn \in TimedPairFns THEN Append(Objects(2), "clock")
  ELSE IF fn \in TimedTripleFns THEN Append(Objects(3), "clock")
  ELSE IF fn = "returnAsset" THEN Objects(3)
  ELSE IF fn = "newEnsemble" THEN Objects(8)
  ELSE IF fn = "integrate" THEN Append(Objects(5), "clock")
  ELSE IF fn = "integrateIntoPortfolio" THEN Append(Objects(7), "clock")
  ELSE IF fn = "applyPendingTransitionStates" THEN <<"object", "clock">>
  ELSE IF fn = "nextFloorPriceMist" THEN <<"object", "u64", "u64">>
  ELSE IF fn = "descentFloorAt" THEN <<"u64", "u64", "u64", "u64", "object", "u64">>
  ELSE IF fn = "usedCreditAt" THEN <<"u64", "u64", "u64", "object", "u64">>
  ELSE IF fn = "ascendingFloorWith" THEN <<"u64", "u64", "object">>
  ELSE IF fn = "newPowerLaw" THEN <<"u8", "u8">>
  ELSE IF fn = "newExponential" THEN <<"u8", "bool">>
  ELSE IF fn = "refundAddress" THEN <<"address">>
  ELSE Here

Coherent(rows) == \A row \in rows : \A fn \in row.names : row.kinds = KindsOf(fn)

LEMMA ClockKinds ==
  /\ \A fn \in TimedPairFns : KindsOf(fn) = Append(Objects(2), "clock")
  /\ \A fn \in TimedTripleFns : KindsOf(fn) = Append(Objects(3), "clock")
  /\ KindsOf("integrate") = Append(Objects(5), "clock")
  /\ KindsOf("integrateIntoPortfolio") = Append(Objects(7), "clock")
  /\ KindsOf("returnAsset") = Objects(3)
<1> USE DEF NowFns, ProbeFns, BareFns, UnitFns, PairFns, TimedPairFns, TimedTripleFns
<1>1. \A fn \in TimedPairFns : KindsOf(fn) = Append(Objects(2), "clock")
  BY DEF KindsOf
<1>2. \A fn \in TimedTripleFns : KindsOf(fn) = Append(Objects(3), "clock")
  BY DEF KindsOf
<1>3. KindsOf("integrate") = Append(Objects(5), "clock")
  BY DEF KindsOf
<1>4. KindsOf("integrateIntoPortfolio") = Append(Objects(7), "clock")
  BY DEF KindsOf
<1>5. KindsOf("returnAsset") = Objects(3)
  BY DEF KindsOf
<1> QED
  BY <1>1, <1>2, <1>3, <1>4, <1>5

(* The rows of functions that take the clock.                                *)
LEMMA ClockRows == Coherent(ListAndEnd) /\ Coherent(GovernAndRent) /\ Coherent(HoldSeat)
<1> DEFINE two == Append(Objects(2), "clock")
           three == Append(Objects(3), "clock")
           five == Append(Objects(5), "clock")
           seven == Append(Objects(7), "clock")
           none == Objects(3)
<1>1. /\ \A fn \in TimedPairFns : KindsOf(fn) = two
      /\ \A fn \in TimedTripleFns : KindsOf(fn) = three
      /\ KindsOf("integrate") = five /\ KindsOf("integrateIntoPortfolio") = seven
      /\ KindsOf("returnAsset") = none
  BY ClockKinds
<1>2. /\ ListAndEnd = {Takes({"integrate"}, five), Takes({"integrateIntoPortfolio"}, seven),
                       Takes({"claimAsset", "retire"}, two)}
      /\ GovernAndRent = {Takes({"extendRetireCommitment", "extendEnsembleCommitment",
                                 "updateEnsemble", "rent"}, three)}
      /\ HoldSeat = {Takes({"borrowAsset", "burnStaleUsufructCap"}, two), Takes({"returnAsset"}, none),
                     Takes({"updateUsufructuaryRefundAddress"}, three)}
  BY DEF ListAndEnd, GovernAndRent, HoldSeat
<1> HIDE DEF two, three, five, seven, none
<1>3. Coherent(ListAndEnd)
  BY <1>1, <1>2 DEF Coherent, Takes, TimedPairFns
<1>4. Coherent(GovernAndRent)
  BY <1>1, <1>2 DEF Coherent, Takes, TimedTripleFns
<1>5. Coherent(HoldSeat)
  BY <1>1, <1>2 DEF Coherent, Takes, TimedPairFns, TimedTripleFns
<1> QED
  BY <1>3, <1>4, <1>5

LEMMA RowsCoherent == Coherent(Rows)
<1> USE DEF Coherent, Takes, KindsOf, NowFns, ProbeFns, BareFns, UnitFns, PairFns, TimedPairFns,
            TimedTripleFns
<1>1. Coherent(ListAndEnd) /\ Coherent(GovernAndRent) /\ Coherent(HoldSeat)
  BY ClockRows
<1>4. Coherent(SettleAndPhase)
  BY DEF SettleAndPhase
<1>5. Coherent(StatusFlags)
  BY DEF StatusFlags
<1>6. Coherent(PolicyFlags)
  BY DEF PolicyFlags
<1>7. Coherent(Identity)
  BY DEF Identity
<1>8. Coherent(SeatIds)
  BY DEF SeatIds
<1>9. Coherent(SeatAmounts)
  BY DEF SeatAmounts
<1>10. Coherent(CycleTerms)
  BY DEF CycleTerms
<1>11. Coherent(PendingTerms)
  BY DEF PendingTerms
<1>12. Coherent(Boundaries)
  BY DEF Boundaries
<1>13. Coherent(RetireLockViews)
  BY DEF RetireLockViews
<1>14. Coherent(Probes)
  BY DEF Probes
<1>15. Coherent(Agenda)
  BY DEF Agenda
<1>16. Coherent(PureMath)
  BY DEF PureMath
<1>17. Coherent(CreditViews)
  BY DEF CreditViews
<1>18. Coherent(Contents)
  BY DEF Contents
<1>19. Coherent(Floors)
  BY DEF Floors
<1>20. Coherent(PolicyParts)
  BY DEF PolicyParts
<1>21. Coherent(CreditFlags)
  BY DEF CreditFlags
<1>22. Coherent(CreditAlphas)
  BY DEF CreditAlphas
<1>23. Coherent(AuctionFlags)
  BY DEF AuctionFlags
<1>24. Coherent(AuctionAlphas)
  BY DEF AuctionAlphas
<1>25. Coherent(PriceParts)
  BY DEF PriceParts
<1>26. Coherent(PolicyKinds)
  BY DEF PolicyKinds
<1>27. Coherent(RetireLockKinds)
  BY DEF RetireLockKinds
<1>28. Coherent(EnsembleLockViews)
  BY DEF EnsembleLockViews
<1>29. Coherent(Units)
  BY DEF Units
<1>30. Coherent(Shapes)
  BY DEF Shapes
<1>31. Coherent(Policies)
  BY DEF Policies
<1>32. Coherent(Ensemble)
  BY DEF Ensemble
<1>33. Coherent(CapCalls)
  BY DEF CapCalls
<1>34. Coherent(CollectEarnings)
  BY DEF CollectEarnings
<1>35. Coherent(CollectFees)
  BY DEF CollectFees
<1>36. Coherent(RefundAddress)
  BY DEF RefundAddress
<1> QED
  BY <1>1, <1>4, <1>5, <1>6, <1>7, <1>8, <1>9, <1>10, <1>11, <1>12, <1>13, <1>14, <1>15, <1>16, <1>17, <1>18, <1>19, <1>20, <1>21, <1>22, <1>23, <1>24, <1>25, <1>26, <1>27, <1>28, <1>29, <1>30, <1>31, <1>32, <1>33, <1>34, <1>35, <1>36 DEF Rows

Fns(rows) == UNION {row.names : row \in rows}

LEMMA Declared ==
  ASSUME NEW fn \in Wrappers
  PROVE  Declares[fn] = KindsOf(fn)
<1> DEFINE row == CHOOSE row \in Rows : fn \in row.names
<1>1. row \in Rows /\ fn \in row.names
  BY DEF Wrappers
<1>2. row.kinds = KindsOf(fn)
  BY <1>1, RowsCoherent DEF Coherent
<1> QED
  BY <1>2 DEF Declares

NowViews == NowFns \ {"handoverSettlement"}

(* What the reader hands a view, by its name.                                *)
Asks(name) ==
  IF name \in NowViews THEN {"escrowId", "nowMs"}
  ELSE IF name \in ProbeFns THEN {"escrowId", "probeCapId"}
  ELSE IF name = "handoverSettlement" THEN {"escrowId", "boundaryMs"}
  ELSE IF name = "nextFloorPriceMist" THEN {"escrowId", "totalBidMist", "tenures"}
  ELSE {"escrowId"}
ArgKind(arg) ==
  IF arg = "escrowId" THEN "object" ELSE IF arg = "probeCapId" THEN "address" ELSE "u64"
Suppliable == {"escrowId", "probeCapId", "nowMs", "boundaryMs", "totalBidMist", "tenures"}
Arguments(supplied) == {arg \in Suppliable : Given(supplied, arg) # "missing"}

Fitted(spec) ==
  /\ Len(spec.args) \in Nat /\ DOMAIN spec.args = 1 .. Len(spec.args)
  /\ \A k \in DOMAIN spec.args : spec.args[k] \in Asks(spec.name)
  /\ Asks(spec.name) \subseteq Arguments(spec.needs)
  /\ \A c \in DOMAIN spec.calls :
       LET kinds == Declares[spec.calls[c]]
       IN  /\ DOMAIN kinds = DOMAIN spec.args
           /\ \A k \in DOMAIN kinds : kinds[k] = ArgKind(spec.args[k])
FittedAll(specs) == \A i \in DOMAIN specs : Fitted(specs[i])

(* A function of the escrow alone, and the views that call such.             *)
Plain(fn) == fn \in Wrappers /\ KindsOf(fn) = Here

LEMMA PlainAsks ==
  ASSUME NEW fn, Plain(fn)
  PROVE  /\ Declares[fn] = <<"object">> /\ Asks(fn) = {"escrowId"}
         /\ DOMAIN Declares[fn] = 1 .. 1 /\ Declares[fn][1] = "object"
<1>1. fn \notin NowFns
  BY DEF Plain, KindsOf, Here, HereWith
<1>2. fn \notin ProbeFns
  BY <1>1 DEF Plain, KindsOf, Here, HereWith
<1>3. fn # "nextFloorPriceMist"
  BY DEF Plain, KindsOf, Here, HereWith, NowFns, ProbeFns, BareFns, UnitFns, PairFns, TimedPairFns,
         TimedTripleFns
<1>4. fn # "handoverSettlement"
  BY <1>1 DEF NowFns
<1>5. Declares[fn] = <<"object">>
  BY Declared DEF Plain, Here
<1> QED
  BY <1>1, <1>2, <1>3, <1>4, <1>5 DEF Asks, NowViews

LEMMA Supplies ==
  /\ "escrowId" \in Arguments({})
  /\ Arguments({"now"}) = {"escrowId", "nowMs"} /\ Arguments({"probe"}) = {"escrowId", "probeCapId"}
  /\ Arguments({"boundary"}) = {"escrowId", "boundaryMs"}
  /\ Arguments({"nextFloor"}) = {"escrowId", "totalBidMist", "tenures"}
  /\ \A a, b : a \subseteq b => Arguments(a) \subseteq Arguments(b)
  BY DEF Arguments, Suppliable, Given

LEMMA UnrolledFits ==
  ASSUME NEW name, NEW calls, NEW needs, Asks(name) = {"escrowId"}, \A c \in DOMAIN calls : Plain(calls[c])
  PROVE  Fitted(ViewSpec(name, calls, <<"escrowId">>, needs))
<1> DEFINE s == ViewSpec(name, calls, <<"escrowId">>, needs)
<1>1. /\ s.name = name /\ s.calls = calls /\ s.needs = needs /\ s.args = <<"escrowId">>
      /\ Len(s.args) = 1 /\ DOMAIN s.args = 1 .. 1 /\ s.args[1] = "escrowId"
  BY DEF ViewSpec
<1> HIDE DEF s
<1>2. Asks(name) \subseteq Arguments(needs)
  BY Supplies
<1>3. \A c \in DOMAIN calls : DOMAIN Declares[calls[c]] = 1 .. 1 /\ Declares[calls[c]][1] = "object"
  BY PlainAsks
<1>4. ArgKind("escrowId") = "object" /\ \A k \in 1 .. 1 : k = 1
  BY DEF ArgKind
<1> QED
  BY <1>1, <1>2, <1>3, <1>4 DEF Fitted, s

LEMMA OneFits ==
  ASSUME NEW fn, Plain(fn)
  PROVE  Fitted(One(fn))
<1>1. Asks(fn) = {"escrowId"}
  BY PlainAsks
<1>2. \A c \in DOMAIN <<fn>> : Plain(<<fn>>[c])
  OBVIOUS
<1> QED
  BY <1>1, <1>2, UnrolledFits DEF One

LEMMA OnesFit ==
  ASSUME NEW names, \A i \in DOMAIN names : Plain(names[i])
  PROVE  FittedAll(Ones(names))
  BY OneFits DEF FittedAll, Ones

LEMMA NowFits ==
  ASSUME NEW fn \in NowViews, fn \in Wrappers
  PROVE  Fitted(OneWithNow(fn))
<1>1. Declares[fn] = <<"object", "u64">> /\ Asks(fn) = {"escrowId", "nowMs"}
  BY Declared DEF KindsOf, NowViews, Asks, HereWith
<1> DEFINE s == OneWithNow(fn)
<1>2. /\ s.name = fn /\ s.calls = <<fn>> /\ s.needs = {"now"} /\ s.args = <<"escrowId", "nowMs">>
      /\ Len(s.args) = 2 /\ DOMAIN s.args = 1 .. 2 /\ s.args[1] = "escrowId" /\ s.args[2] = "nowMs"
  BY DEF OneWithNow, ViewSpec
<1> HIDE DEF s
<1>3. \A k \in 1 .. 2 : k = 1 \/ k = 2
  OBVIOUS
<1>4. DOMAIN Declares[fn] = 1 .. 2 /\ Declares[fn][1] = "object" /\ Declares[fn][2] = "u64"
  BY <1>1
<1>5. ArgKind("escrowId") = "object" /\ ArgKind("nowMs") = "u64"
  BY DEF ArgKind
<1>6. \A c \in DOMAIN s.calls : s.calls[c] = fn
  BY <1>2
<1>7. \A k \in 1 .. 2 : s.args[k] \in Asks(fn) /\ Declares[fn][k] = ArgKind(s.args[k])
  BY <1>1, <1>2, <1>3, <1>4, <1>5
<1> QED
  BY <1>1, <1>2, <1>4, <1>6, <1>7, Supplies DEF Fitted, s

LEMMA ProbeFits ==
  ASSUME NEW fn \in ProbeFns, fn \in Wrappers
  PROVE  Fitted(Probing(fn))
<1>1. Declares[fn] = <<"object", "address">> /\ Asks(fn) = {"escrowId", "probeCapId"}
  BY Declared DEF KindsOf, NowFns, NowViews, ProbeFns, Asks, HereWith
<1> DEFINE s == Probing(fn)
<1>2. /\ s.name = fn /\ s.calls = <<fn>> /\ s.needs = {"probe"} /\ s.args = <<"escrowId", "probeCapId">>
      /\ Len(s.args) = 2 /\ DOMAIN s.args = 1 .. 2 /\ s.args[1] = "escrowId" /\ s.args[2] = "probeCapId"
  BY DEF Probing, ViewSpec
<1> HIDE DEF s
<1>3. \A k \in 1 .. 2 : k = 1 \/ k = 2
  OBVIOUS
<1>4. DOMAIN Declares[fn] = 1 .. 2 /\ Declares[fn][1] = "object" /\ Declares[fn][2] = "address"
  BY <1>1
<1>5. ArgKind("escrowId") = "object" /\ ArgKind("probeCapId") = "address"
  BY DEF ArgKind
<1>6. \A c \in DOMAIN s.calls : s.calls[c] = fn
  BY <1>2
<1>7. \A k \in 1 .. 2 : s.args[k] \in Asks(fn) /\ Declares[fn][k] = ArgKind(s.args[k])
  BY <1>1, <1>2, <1>3, <1>4, <1>5
<1> QED
  BY <1>1, <1>2, <1>4, <1>6, <1>7, Supplies DEF Fitted, s

LEMMA ConstantFits ==
  ASSUME NEW fn \in {"protocolFeeBps", "bpsDenominator"}, fn \in Wrappers
  PROVE  Fitted(Constant(fn))
<1>1. Declares[fn] = <<>> /\ Asks(fn) = {"escrowId"}
  BY Declared DEF KindsOf, NowFns, NowViews, ProbeFns, BareFns, Asks, Nothing
<1> DEFINE s == Constant(fn)
<1>2. /\ s.name = fn /\ s.calls = <<fn>> /\ s.needs = {} /\ s.args = <<>>
      /\ Len(s.args) = 0 /\ DOMAIN s.args = 1 .. 0
  BY DEF Constant, ViewSpec
<1> HIDE DEF s
<1>3. \A c \in DOMAIN s.calls : s.calls[c] = fn
  BY <1>2
<1>4. DOMAIN Declares[fn] = 1 .. 0 /\ \A k \in 1 .. 0 : FALSE
  BY <1>1
<1>5. Asks(fn) \subseteq Arguments({})
  BY <1>1, Supplies
<1> QED
  BY <1>1, <1>2, <1>3, <1>4, <1>5 DEF Fitted, s

(* The two settlements that are asked with more than the escrow.             *)
LEMMA SettlementFits ==
  ASSUME {"nextFloorPriceMist", "handoverSettlement"} \subseteq Wrappers
  PROVE  /\ Fitted(ViewSpec("nextFloorPriceMist", <<"nextFloorPriceMist">>,
                            <<"escrowId", "totalBidMist", "tenures">>, {"nextFloor"}))
         /\ Fitted(ViewSpec("handoverSettlement", <<"handoverSettlement">>,
                            <<"escrowId", "boundaryMs">>, {"boundary"}))
<1> DEFINE s == ViewSpec("nextFloorPriceMist", <<"nextFloorPriceMist">>,
                         <<"escrowId", "totalBidMist", "tenures">>, {"nextFloor"})
           r == ViewSpec("handoverSettlement", <<"handoverSettlement">>,
                         <<"escrowId", "boundaryMs">>, {"boundary"})
<1>1. /\ Declares["nextFloorPriceMist"] = <<"object", "u64", "u64">>
      /\ Declares["handoverSettlement"] = <<"object", "u64">>
  BY Declared DEF KindsOf, HereWith, NowFns, ProbeFns, BareFns, UnitFns, PairFns, TimedPairFns, TimedTripleFns
<1>2. /\ Asks("nextFloorPriceMist") = {"escrowId", "totalBidMist", "tenures"}
      /\ Asks("handoverSettlement") = {"escrowId", "boundaryMs"}
  BY DEF Asks, NowFns, NowViews, ProbeFns
<1>3. /\ s.name = "nextFloorPriceMist" /\ s.calls = <<"nextFloorPriceMist">> /\ s.needs = {"nextFloor"}
      /\ s.args = <<"escrowId", "totalBidMist", "tenures">>
      /\ Len(s.args) = 3 /\ DOMAIN s.args = 1 .. 3
  BY DEF ViewSpec
<1>4. /\ r.name = "handoverSettlement" /\ r.calls = <<"handoverSettlement">> /\ r.needs = {"boundary"}
      /\ r.args = <<"escrowId", "boundaryMs">> /\ Len(r.args) = 2 /\ DOMAIN r.args = 1 .. 2
  BY DEF ViewSpec
<1> HIDE DEF s, r
<1>5. ArgKind("escrowId") = "object" /\ ArgKind("boundaryMs") = "u64"
      /\ ArgKind("totalBidMist") = "u64" /\ ArgKind("tenures") = "u64"
  BY DEF ArgKind
<1>6. (\A c \in DOMAIN s.calls : s.calls[c] = "nextFloorPriceMist")
      /\ (\A c \in DOMAIN r.calls : r.calls[c] = "handoverSettlement")
  BY <1>3, <1>4
<1>7. (\A k \in 1 .. 3 : k = 1 \/ k = 2 \/ k = 3) /\ (\A k \in 1 .. 2 : k = 1 \/ k = 2)
  OBVIOUS
<1>8. Fitted(s)
  <2>1. s.args[1] = "escrowId" /\ s.args[2] = "totalBidMist" /\ s.args[3] = "tenures"
    BY <1>3
  <2> DEFINE kinds == Declares["nextFloorPriceMist"]
  <2>2. DOMAIN kinds = 1 .. 3 /\ kinds[1] = "object" /\ kinds[2] = "u64" /\ kinds[3] = "u64"
    BY <1>1
  <2> HIDE DEF kinds
  <2>3. \A k \in 1 .. 3 : s.args[k] \in Asks("nextFloorPriceMist") /\ kinds[k] = ArgKind(s.args[k])
    BY <1>2, <1>5, <1>7, <2>1, <2>2
  <2> QED
    BY <1>2, <1>3, <1>6, <2>2, <2>3, Supplies DEF Fitted, kinds
<1>9. Fitted(r)
  <2>1. r.args[1] = "escrowId" /\ r.args[2] = "boundaryMs"
    BY <1>4
  <2> DEFINE kinds == Declares["handoverSettlement"]
  <2>2. DOMAIN kinds = 1 .. 2 /\ kinds[1] = "object" /\ kinds[2] = "u64"
    BY <1>1
  <2> HIDE DEF kinds
  <2>3. \A k \in 1 .. 2 : r.args[k] \in Asks("handoverSettlement") /\ kinds[k] = ArgKind(r.args[k])
    BY <1>2, <1>5, <1>7, <2>1, <2>2
  <2> QED
    BY <1>2, <1>4, <1>6, <2>2, <2>3, Supplies DEF Fitted, kinds
<1> QED
  BY <1>8, <1>9 DEF s, r

LEMMA FittedJoin ==
  ASSUME NEW a, NEW b, Table(a), Table(b), FittedAll(a), FittedAll(b)
  PROVE  FittedAll(a \o b)
<1> DEFINE c == a \o b
           m == Len(a)
           n == Len(b)
<1>1. /\ m \in Nat /\ n \in Nat /\ DOMAIN a = 1 .. m /\ DOMAIN b = 1 .. n /\ DOMAIN c = 1 .. m + n
      /\ \A i \in 1 .. m : c[i] = a[i]
      /\ \A i \in 1 .. n : c[m + i] = b[i]
  BY DEF Table
<1> HIDE DEF c, m, n
<1>2. ASSUME NEW i \in DOMAIN c PROVE Fitted(c[i])
  <2>1. CASE i \in 1 .. m
    BY <1>1, <2>1 DEF FittedAll
  <2>2. CASE i \notin 1 .. m
    <3>1. i - m \in 1 .. n /\ i = m + (i - m)
      BY <1>1, <1>2, <2>2
    <3>2. c[i] = b[i - m]
      BY <1>1, <3>1
    <3> QED
      BY <1>1, <3>1, <3>2 DEF FittedAll
  <2> QED
    BY <2>1, <2>2
<1> QED
  BY <1>2 DEF FittedAll, c

(* The functions the views call, by where the table declares them.           *)
LEMMA RowNames ==
  ASSUME NEW rows \in SUBSET Rows
  PROVE  Fns(rows) \subseteq Wrappers
  BY DEF Fns, Wrappers

(* The functions of the escrow alone that are called.                        *)
Plains ==
  {"isIdle", "isDescending", "isOccupied", "isDemand", "isLive", "isRetired", "isRented",
   "isRetiring", "assetId", "assetTypeName", "coinTypeName", "governanceCapId",
   "activeUsufructuaryAddr", "activeUsufructCapId", "pendingUsufructuaryAddr",
   "pendingUsufructCapId", "activeStakeBalanceMist", "pendingStakeBalanceMist",
   "activeUsufructuaryCommittedTenures", "pendingUsufructuaryCommittedTenures", "phaseStartMs",
   "tenureExpiryMs", "cycleFloorPriceMist", "cycleCeilingMs", "cycleHandoverMs", "cycleDescentMs",
   "activeCeilingTotalMs", "activeHandoverTotalMs", "pendingEnsembleFloorPriceMist",
   "pendingEnsembleCeilingMs", "pendingEnsembleHandoverMs", "pendingEnsembleDescentMs",
   "handoverExpiryMs", "descentExpiryMs", "tenureCeilingMs", "integratedAtMs",
   "retireCommitmentUnlocksAtMs", "retireCommitmentAnchorMs", "nextBoundaryMs",
   "lastRentPriceMist", "creditIsAccruing", "creditIsCapped", "creditCappedAtMs",
   "tenureSettlement", "earningsInboxId", "feeInboxId", "hasPendingEnsembleUpdate",
   "restPriceFloorMist", "descentCeilingMs", "handoverFloorMs", "retireCommitmentFloorMs",
   "creditShape", "auctionShape", "tenureCeilingFixedMs", "creditShapePowerLawAlphaNum",
   "creditShapePowerLawAlphaDen", "creditShapeExponentialAlphaAbs",
   "creditShapeExponentialAlphaNeg", "auctionShapePowerLawAlphaNum",
   "auctionShapePowerLawAlphaDen", "auctionShapeExponentialAlphaAbs",
   "auctionShapeExponentialAlphaNeg", "priceFnFixedDelta", "priceFnCompoundDeltaBps",
   "priceFnCompoundDeltaDelta", "restPriceKind", "tenureDurationKind", "tenureExtendKind",
   "handoverKind", "auctionWindowKind", "creditShapeKind", "auctionShapeKind", "priceFnKind",
   "priceFnDeltaMist", "retireCommitmentKind", "ensembleCommitmentUnlocksAtMs",
   "ensembleCommitmentAnchorMs", "ensembleCommitmentFloorMs", "ensembleCommitmentKind",
   "newDescentFixed", "newRetireCommitmentDeferred", "newEnsembleCommitmentDeferred",
   "newHandoverFixed", "newPriceFixedDelta", "newRestPriceFixed", "newTenureDurationFixed",
   "renounceGovernance", "burnUsufructCap"}

(* Those of the others that have kinds of their own.                         *)
Singular ==
  {"returnAsset", "newEnsemble", "integrate", "integrateIntoPortfolio",
   "applyPendingTransitionStates", "nextFloorPriceMist", "descentFloorAt", "usedCreditAt",
   "ascendingFloorWith", "newPowerLaw", "newExponential", "refundAddress"}
Special ==
  NowFns \cup ProbeFns \cup BareFns \cup UnitFns \cup PairFns \cup TimedPairFns
  \cup TimedTripleFns \cup Singular

(* Every function that a view or a transaction calls is declared.            *)
LEMMA CalledDeclared == Plains \cup Special \subseteq Wrappers
<1>1. {"integrate", "integrateIntoPortfolio", "claimAsset", "retire"}
      \subseteq Fns(ListAndEnd)
  BY DEF Fns, ListAndEnd, Takes
<1>2. {"extendRetireCommitment", "extendEnsembleCommitment", "updateEnsemble", "rent"}
      \subseteq Fns(GovernAndRent)
  BY DEF Fns, GovernAndRent, Takes
<1>3. {"borrowAsset", "burnStaleUsufructCap", "returnAsset", "updateUsufructuaryRefundAddress"}
      \subseteq Fns(HoldSeat)
  BY DEF Fns, HoldSeat, Takes
<1>4. {"isIdle", "isDescending", "isOccupied", "isDemand", "applyPendingTransitionStates"}
      \subseteq Fns(SettleAndPhase)
  BY DEF Fns, SettleAndPhase, Takes
<1>5. {"isLive", "isRetired", "isRented"} \subseteq Fns(StatusFlags)
  BY DEF Fns, StatusFlags, Takes
<1>6. {"isRetiring", "assetId", "assetTypeName", "coinTypeName", "governanceCapId"}
      \subseteq Fns(Identity)
  BY DEF Fns, Identity, Takes
<1>7. {"activeUsufructuaryAddr", "activeUsufructCapId", "pendingUsufructuaryAddr",
       "pendingUsufructCapId", "activeStakeBalanceMist"} \subseteq Fns(SeatIds)
  BY DEF Fns, SeatIds, Takes
<1>8. {"pendingStakeBalanceMist", "activeUsufructuaryCommittedTenures",
       "pendingUsufructuaryCommittedTenures", "phaseStartMs", "tenureExpiryMs"}
      \subseteq Fns(SeatAmounts)
  BY DEF Fns, SeatAmounts, Takes
<1>9. {"cycleFloorPriceMist", "cycleCeilingMs", "cycleHandoverMs", "cycleDescentMs",
       "activeCeilingTotalMs"} \subseteq Fns(CycleTerms)
  BY DEF Fns, CycleTerms, Takes
<1>10. {"activeHandoverTotalMs", "pendingEnsembleFloorPriceMist", "pendingEnsembleCeilingMs",
       "pendingEnsembleHandoverMs", "pendingEnsembleDescentMs"}
      \subseteq Fns(PendingTerms)
  BY DEF Fns, PendingTerms, Takes
<1>11. {"handoverExpiryMs", "descentExpiryMs", "activeUsufructuaryTimeRemainingMs",
       "activeStakeBalanceRemainingMist", "handoverExpiryIfBidAt"}
      \subseteq Fns(Boundaries)
  BY DEF Fns, Boundaries, Takes
<1>12. {"tenureCeilingMs", "integratedAtMs", "retireCommitmentUnlocksAtMs",
       "retireCommitmentAnchorMs", "retireCommitmentRemainingMs"}
      \subseteq Fns(RetireLockViews)
  BY DEF Fns, RetireLockViews, Takes
<1>13. {"governanceCapIsValid", "usufructCapIsActive", "usufructCapIsPending",
       "usufructCapIsStale", "transitionIsReady"} \subseteq Fns(Probes)
  BY DEF Fns, Probes, Takes
<1>14. {"nextBoundaryMs", "nextTransitionMs", "accruedCreditMist", "floorPriceMist",
       "nextFloorPriceMist"} \subseteq Fns(Agenda)
  BY DEF Fns, Agenda, Takes
<1>15. {"lastRentPriceMist", "descentFloorAt", "usedCreditAt", "ascendingFloorWith"}
      \subseteq Fns(PureMath)
  BY DEF Fns, PureMath, Takes
<1>16. {"creditIsAccruing", "creditIsCapped", "creditCappedAtMs", "tenureSettlement",
       "handoverSettlement"} \subseteq Fns(CreditViews)
  BY DEF Fns, CreditViews, Takes
<1>17. {"earningsInboxId", "feeInboxId", "hasPendingEnsembleUpdate", "protocolFeeBps"}
      \subseteq Fns(Contents)
  BY DEF Fns, Contents, Takes
<1>18. {"restPriceFloorMist", "descentCeilingMs", "handoverFloorMs", "retireCommitmentFloorMs",
       "creditShape", "bpsDenominator"} \subseteq Fns(Floors)
  BY DEF Fns, Floors, Takes
<1>19. {"auctionShape", "tenureCeilingFixedMs"} \subseteq Fns(PolicyParts)
  BY DEF Fns, PolicyParts, Takes
<1>20. {"creditShapePowerLawAlphaNum", "creditShapePowerLawAlphaDen",
       "creditShapeExponentialAlphaAbs", "creditShapeExponentialAlphaNeg"}
      \subseteq Fns(CreditAlphas)
  BY DEF Fns, CreditAlphas, Takes
<1>21. {"auctionShapePowerLawAlphaNum"} \subseteq Fns(AuctionFlags)
  BY DEF Fns, AuctionFlags, Takes
<1>22. {"auctionShapePowerLawAlphaDen", "auctionShapeExponentialAlphaAbs",
       "auctionShapeExponentialAlphaNeg"} \subseteq Fns(AuctionAlphas)
  BY DEF Fns, AuctionAlphas, Takes
<1>23. {"priceFnFixedDelta", "priceFnCompoundDeltaBps", "priceFnCompoundDeltaDelta",
       "restPriceKind", "tenureDurationKind"} \subseteq Fns(PriceParts)
  BY DEF Fns, PriceParts, Takes
<1>24. {"tenureExtendKind", "handoverKind", "auctionWindowKind", "creditShapeKind",
       "auctionShapeKind"} \subseteq Fns(PolicyKinds)
  BY DEF Fns, PolicyKinds, Takes
<1>25. {"priceFnKind", "priceFnDeltaMist", "retireCommitmentKind"}
      \subseteq Fns(RetireLockKinds)
  BY DEF Fns, RetireLockKinds, Takes
<1>26. {"ensembleCommitmentUnlocksAtMs", "ensembleCommitmentAnchorMs", "ensembleCommitmentFloorMs",
       "ensembleCommitmentKind", "ensembleCommitmentRemainingMs"}
      \subseteq Fns(EnsembleLockViews)
  BY DEF Fns, EnsembleLockViews, Takes
<1>27. {"newDescentFixed", "price", "duration", "tenures", "basisPoints", "newDescentOff",
       "newRetireCommitmentImmediate"} \subseteq Fns(Units)
  BY DEF Fns, Units, Takes
<1>28. {"newRetireCommitmentDeferred", "newEnsembleCommitmentDeferred",
       "newEnsembleCommitmentImmediate", "newLinear", "newSmoothstep", "newLogistic",
       "newPowerLaw", "newExponential"} \subseteq Fns(Shapes)
  BY DEF Fns, Shapes, Takes
<1>29. {"newHandoverFixed", "newPriceFixedDelta", "newRestPriceFixed", "newTenureDurationFixed",
       "newHandoverOff", "newHandoverFullTenure", "newPriceCompoundDelta"}
      \subseteq Fns(Policies)
  BY DEF Fns, Policies, Takes
<1>30. {"newTenureSingle", "newTenureMulti", "newEnsemble"} \subseteq Fns(Ensemble)
  BY DEF Fns, Ensemble, Takes
<1>31. {"renounceGovernance", "burnUsufructCap"} \subseteq Fns(CapCalls)
  BY DEF Fns, CapCalls, Takes
<1>32. {"collectEarningsMessages"} \subseteq Fns(CollectEarnings)
  BY DEF Fns, CollectEarnings, Takes
<1>33. {"collectFeeMessages"} \subseteq Fns(CollectFees)
  BY DEF Fns, CollectFees, Takes
<1>34. {"refundAddress"} \subseteq Fns(RefundAddress)
  BY DEF Fns, RefundAddress, Takes
<1> DEFINE groups == {ListAndEnd, GovernAndRent, HoldSeat, SettleAndPhase, StatusFlags, Identity, SeatIds,
           SeatAmounts, CycleTerms, PendingTerms, Boundaries, RetireLockViews, Probes,
           Agenda, PureMath, CreditViews, Contents, Floors, PolicyParts, CreditAlphas,
           AuctionFlags, AuctionAlphas, PriceParts, PolicyKinds, RetireLockKinds,
           EnsembleLockViews, Units, Shapes, Policies, Ensemble, CapCalls, CollectEarnings,
           CollectFees, RefundAddress}
<1>35. \A rows \in groups : rows \in SUBSET Rows
  BY DEF Rows
<1>36. UNION {Fns(rows) : rows \in groups} \subseteq Wrappers
  <2> HIDE DEF groups
  <2> QED
    BY <1>35, RowNames
<1>37. \A rows : rows \in groups => Fns(rows) \subseteq Wrappers
  <2> HIDE DEF groups
  <2> QED
    BY <1>36
<1>38. /\ Fns(ListAndEnd) \subseteq Wrappers
      /\ Fns(GovernAndRent) \subseteq Wrappers
      /\ Fns(HoldSeat) \subseteq Wrappers
      /\ Fns(SettleAndPhase) \subseteq Wrappers
      /\ Fns(StatusFlags) \subseteq Wrappers
      /\ Fns(Identity) \subseteq Wrappers
      /\ Fns(SeatIds) \subseteq Wrappers
      /\ Fns(SeatAmounts) \subseteq Wrappers
      /\ Fns(CycleTerms) \subseteq Wrappers
      /\ Fns(PendingTerms) \subseteq Wrappers
      /\ Fns(Boundaries) \subseteq Wrappers
      /\ Fns(RetireLockViews) \subseteq Wrappers
      /\ Fns(Probes) \subseteq Wrappers
      /\ Fns(Agenda) \subseteq Wrappers
      /\ Fns(PureMath) \subseteq Wrappers
      /\ Fns(CreditViews) \subseteq Wrappers
      /\ Fns(Contents) \subseteq Wrappers
      /\ Fns(Floors) \subseteq Wrappers
      /\ Fns(PolicyParts) \subseteq Wrappers
      /\ Fns(CreditAlphas) \subseteq Wrappers
      /\ Fns(AuctionFlags) \subseteq Wrappers
      /\ Fns(AuctionAlphas) \subseteq Wrappers
      /\ Fns(PriceParts) \subseteq Wrappers
      /\ Fns(PolicyKinds) \subseteq Wrappers
      /\ Fns(RetireLockKinds) \subseteq Wrappers
      /\ Fns(EnsembleLockViews) \subseteq Wrappers
      /\ Fns(Units) \subseteq Wrappers
      /\ Fns(Shapes) \subseteq Wrappers
      /\ Fns(Policies) \subseteq Wrappers
      /\ Fns(Ensemble) \subseteq Wrappers
      /\ Fns(CapCalls) \subseteq Wrappers
      /\ Fns(CollectEarnings) \subseteq Wrappers
      /\ Fns(CollectFees) \subseteq Wrappers
      /\ Fns(RefundAddress) \subseteq Wrappers
  BY <1>37
<1> HIDE DEF groups
<1> QED
  BY <1>1, <1>2, <1>3, <1>4, <1>5, <1>6, <1>7, <1>8, <1>9, <1>10, <1>11, <1>12, <1>13, <1>14,
     <1>15, <1>16, <1>17, <1>18, <1>19, <1>20, <1>21, <1>22, <1>23, <1>24, <1>25, <1>26,
     <1>27, <1>28, <1>29, <1>30, <1>31, <1>32, <1>33, <1>34, <1>38
     DEF Plains, Special, Singular, NowFns, ProbeFns, BareFns, UnitFns, PairFns, TimedPairFns,
         TimedTripleFns

LEMMA PlainsPlain == \A fn \in Plains : Plain(fn)
<1>1. \A fn \in {"isIdle", "isDescending", "isOccupied", "isDemand", "isLive", "isRetired",
                "isRented", "isRetiring", "assetId", "assetTypeName", "coinTypeName",
                "governanceCapId", "activeUsufructuaryAddr", "activeUsufructCapId",
                "pendingUsufructuaryAddr"} :
        KindsOf(fn) = Here
  BY DEF KindsOf, NowFns, ProbeFns, BareFns, UnitFns, PairFns, TimedPairFns, TimedTripleFns
<1>2. \A fn \in {"pendingUsufructCapId", "activeStakeBalanceMist", "pendingStakeBalanceMist",
                "activeUsufructuaryCommittedTenures", "pendingUsufructuaryCommittedTenures",
                "phaseStartMs", "tenureExpiryMs", "cycleFloorPriceMist", "cycleCeilingMs",
                "cycleHandoverMs", "cycleDescentMs", "activeCeilingTotalMs",
                "activeHandoverTotalMs", "pendingEnsembleFloorPriceMist",
                "pendingEnsembleCeilingMs"} :
        KindsOf(fn) = Here
  BY DEF KindsOf, NowFns, ProbeFns, BareFns, UnitFns, PairFns, TimedPairFns, TimedTripleFns
<1>3. \A fn \in {"pendingEnsembleHandoverMs", "pendingEnsembleDescentMs", "handoverExpiryMs",
                "descentExpiryMs", "tenureCeilingMs", "integratedAtMs",
                "retireCommitmentUnlocksAtMs", "retireCommitmentAnchorMs", "nextBoundaryMs",
                "lastRentPriceMist", "creditIsAccruing", "creditIsCapped", "creditCappedAtMs",
                "tenureSettlement", "earningsInboxId"} :
        KindsOf(fn) = Here
  BY DEF KindsOf, NowFns, ProbeFns, BareFns, UnitFns, PairFns, TimedPairFns, TimedTripleFns
<1>4. \A fn \in {"feeInboxId", "hasPendingEnsembleUpdate", "restPriceFloorMist",
                "descentCeilingMs", "handoverFloorMs", "retireCommitmentFloorMs", "creditShape",
                "auctionShape", "tenureCeilingFixedMs", "creditShapePowerLawAlphaNum",
                "creditShapePowerLawAlphaDen", "creditShapeExponentialAlphaAbs",
                "creditShapeExponentialAlphaNeg", "auctionShapePowerLawAlphaNum",
                "auctionShapePowerLawAlphaDen"} :
        KindsOf(fn) = Here
  BY DEF KindsOf, NowFns, ProbeFns, BareFns, UnitFns, PairFns, TimedPairFns, TimedTripleFns
<1>5. \A fn \in {"auctionShapeExponentialAlphaAbs", "auctionShapeExponentialAlphaNeg",
                "priceFnFixedDelta", "priceFnCompoundDeltaBps", "priceFnCompoundDeltaDelta",
                "restPriceKind", "tenureDurationKind", "tenureExtendKind", "handoverKind",
                "auctionWindowKind", "creditShapeKind", "auctionShapeKind", "priceFnKind",
                "priceFnDeltaMist", "retireCommitmentKind"} :
        KindsOf(fn) = Here
  BY DEF KindsOf, NowFns, ProbeFns, BareFns, UnitFns, PairFns, TimedPairFns, TimedTripleFns
<1>6. \A fn \in {"ensembleCommitmentUnlocksAtMs", "ensembleCommitmentAnchorMs",
                "ensembleCommitmentFloorMs", "ensembleCommitmentKind", "newDescentFixed",
                "newRetireCommitmentDeferred", "newEnsembleCommitmentDeferred",
                "newHandoverFixed", "newPriceFixedDelta", "newRestPriceFixed",
                "newTenureDurationFixed", "renounceGovernance", "burnUsufructCap"} :
        KindsOf(fn) = Here
  BY DEF KindsOf, NowFns, ProbeFns, BareFns, UnitFns, PairFns, TimedPairFns, TimedTripleFns
<1>7. \A fn \in Plains : KindsOf(fn) = Here
  BY <1>1, <1>2, <1>3, <1>4, <1>5, <1>6 DEF Plains
<1> QED
  BY <1>7, CalledDeclared DEF Plain

LEMMA OnesPlain ==
  ASSUME NEW names, \A i \in DOMAIN names : names[i] \in Plains
  PROVE  FittedAll(Ones(names))
  BY PlainsPlain, OnesFit

LEMMA UnrolledPlain ==
  ASSUME NEW name, NEW calls, Asks(name) = {"escrowId"}, \A c \in DOMAIN calls : calls[c] \in Plains
  PROVE  Fitted(Unrolled(name, calls))
  BY PlainsPlain, UnrolledFits DEF Unrolled

LEMMA OnesTable ==
  ASSUME NEW names, Len(names) \in Nat, DOMAIN names = 1 .. Len(names)
  PROVE  Table(Ones(names))
  BY DEF Table, Ones, One, ViewSpec

LEMMA StatusFit == FittedAll(StatusSpecs)
  BY OnesPlain DEF StatusSpecs, Plains

LEMMA IdentityFit == FittedAll(IdentitySpecs)
  BY OnesPlain DEF IdentitySpecs, Plains

LEMMA CreditFit == FittedAll(CreditSpecs)
  BY OnesPlain DEF CreditSpecs, Plains

LEMMA ConstantFit == FittedAll(ConstantSpecs)
<1>1. Fitted(Constant("protocolFeeBps")) /\ Fitted(Constant("bpsDenominator"))
  BY CalledDeclared, ConstantFits DEF Special, BareFns
<1> QED
  BY <1>1 DEF ConstantSpecs, FittedAll

LEMMA ProbeFit == FittedAll(ProbeSpecs)
<1>1. \A fn \in ProbeFns : Fitted(Probing(fn))
  BY CalledDeclared, ProbeFits DEF Special
<1>2. /\ Fitted(Probing("governanceCapIsValid")) /\ Fitted(Probing("usufructCapIsActive"))
      /\ Fitted(Probing("usufructCapIsPending")) /\ Fitted(Probing("usufructCapIsStale"))
  BY <1>1 DEF ProbeFns
<1> QED
  BY <1>2 DEF ProbeSpecs, FittedAll

LEMMA NowsFit == \A fn \in NowViews : Fitted(OneWithNow(fn))
  BY CalledDeclared, NowFits DEF Special, NowViews

LEMMA SeatFit == FittedAll(SeatSpecs)
<1> DEFINE a == Ones(<<"activeStakeBalanceMist", "pendingStakeBalanceMist">>)
           b == <<Unrolled("activeCommittedTenures", <<"activeUsufructuaryCommittedTenures">>),
                  Unrolled("pendingCommittedTenures", <<"pendingUsufructuaryCommittedTenures">>)>>
<1>1. Table(a) /\ FittedAll(a)
  BY OnesTable, OnesPlain DEF Plains
<1>2. Table(b)
  BY DEF Table, Unrolled, ViewSpec
<1>3. Fitted(b[1]) /\ Fitted(b[2])
  BY UnrolledPlain DEF Plains, Asks, NowViews, NowFns, ProbeFns
<1>4. FittedAll(b)
  <2>1. \A i \in DOMAIN b : i = 1 \/ i = 2
    OBVIOUS
  <2> HIDE DEF b
  <2> QED
    BY <1>3, <2>1 DEF FittedAll
<1>5. SeatSpecs = a \o b
  BY DEF SeatSpecs
<1> HIDE DEF a, b
<1> QED
  BY <1>1, <1>2, <1>4, <1>5, FittedJoin

LEMMA TemporalFit == FittedAll(TemporalSpecs)
<1> DEFINE a == Ones(<<"phaseStartMs", "tenureExpiryMs">>)
           b == <<OneWithNow("transitionIsReady"), OneWithNow("nextTransitionMs")>>
           c == Ones(<<"nextBoundaryMs", "handoverExpiryMs", "descentExpiryMs">>)
           d == <<OneWithNow("activeUsufructuaryTimeRemainingMs"), OneWithNow("handoverExpiryIfBidAt")>>
           e == Ones(<<"tenureCeilingMs", "integratedAtMs">>)
<1>1. Table(a) /\ FittedAll(a)
  BY OnesTable, OnesPlain DEF Plains
<1>2. Table(c) /\ FittedAll(c)
  BY OnesTable, OnesPlain DEF Plains
<1>3. Table(e) /\ FittedAll(e)
  BY OnesTable, OnesPlain DEF Plains
<1>4. Table(b) /\ Table(d)
  BY DEF Table, OneWithNow, ViewSpec
<1>5. FittedAll(b) /\ FittedAll(d)
  <2>1. {"transitionIsReady", "nextTransitionMs", "activeUsufructuaryTimeRemainingMs",
         "handoverExpiryIfBidAt"} \subseteq NowViews
    BY DEF NowViews, NowFns
  <2> QED
    BY <2>1, NowsFit DEF FittedAll
<1>6. TemporalSpecs = a \o b \o c \o d \o e
  BY DEF TemporalSpecs
<1> HIDE DEF a, b, c, d, e
<1>7. Table(a \o b) /\ FittedAll(a \o b)
  BY <1>1, <1>4, <1>5, TableJoin, FittedJoin
<1>8. Table(a \o b \o c) /\ FittedAll(a \o b \o c)
  BY <1>2, <1>7, TableJoin, FittedJoin
<1>9. Table(a \o b \o c \o d) /\ FittedAll(a \o b \o c \o d)
  BY <1>4, <1>5, <1>8, TableJoin, FittedJoin
<1> QED
  BY <1>3, <1>6, <1>9, FittedJoin

LEMMA CommitmentFit == FittedAll(CommitmentSpecs)
<1> DEFINE a == Ones(<<"retireCommitmentUnlocksAtMs", "retireCommitmentAnchorMs">>)
           b == <<OneWithNow("retireCommitmentRemainingMs")>>
           c == Ones(<<"ensembleCommitmentUnlocksAtMs", "ensembleCommitmentAnchorMs">>)
           d == <<OneWithNow("ensembleCommitmentRemainingMs")>>
<1>1. Table(a) /\ FittedAll(a)
  BY OnesTable, OnesPlain DEF Plains
<1>2. Table(c) /\ FittedAll(c)
  BY OnesTable, OnesPlain DEF Plains
<1>3. Table(b) /\ Table(d)
  BY DEF Table, OneWithNow, ViewSpec
<1>4. FittedAll(b) /\ FittedAll(d)
  <2>1. {"retireCommitmentRemainingMs", "ensembleCommitmentRemainingMs"} \subseteq NowViews
    BY DEF NowViews, NowFns
  <2> QED
    BY <2>1, NowsFit DEF FittedAll
<1>5. CommitmentSpecs = a \o b \o c \o d
  BY DEF CommitmentSpecs
<1> HIDE DEF a, b, c, d
<1>6. Table(a \o b) /\ FittedAll(a \o b)
  BY <1>1, <1>3, <1>4, TableJoin, FittedJoin
<1>7. Table(a \o b \o c) /\ FittedAll(a \o b \o c)
  BY <1>2, <1>6, TableJoin, FittedJoin
<1> QED
  BY <1>3, <1>4, <1>5, <1>7, FittedJoin

LEMMA CycleFit == FittedAll(CycleSpecs)
<1> DEFINE x == Unrolled("cycleParams", <<"cycleFloorPriceMist", "cycleCeilingMs",
                                          "cycleHandoverMs", "cycleDescentMs">>)
           y == Unrolled("pendingCycleParams",
                         <<"pendingEnsembleFloorPriceMist", "pendingEnsembleCeilingMs",
                           "pendingEnsembleHandoverMs", "pendingEnsembleDescentMs">>)
           b == Ones(<<"activeCeilingTotalMs", "activeHandoverTotalMs">>)
<1>1. Table(b) /\ FittedAll(b)
  BY OnesTable, OnesPlain DEF Plains
<1>2. Table(<<x, y>>)
  BY DEF Table, Unrolled, ViewSpec
<1>3. Fitted(x) /\ Fitted(y)
  BY UnrolledPlain DEF Plains, Asks, NowViews, NowFns, ProbeFns
<1>4. CycleSpecs = <<x, y>> \o b
  BY DEF CycleSpecs
<1> HIDE DEF b, x, y
<1>5. FittedAll(<<x, y>>)
  BY <1>3 DEF FittedAll
<1> QED
  BY <1>1, <1>2, <1>4, <1>5, FittedJoin

LEMMA PolicyFit == FittedAll(PolicySpecs)
<1> USE UnrolledPlain DEF Plains, Asks, NowViews, NowFns, ProbeFns
<1>1. /\ Fitted(Unrolled("auctionWindow", <<"auctionWindowKind", "descentCeilingMs">>))
      /\ Fitted(Unrolled("handover", <<"handoverKind", "handoverFloorMs">>))
      /\ Fitted(Unrolled("restPrice", <<"restPriceKind", "restPriceFloorMist">>))
      /\ Fitted(Unrolled("tenureDuration", <<"tenureDurationKind", "tenureCeilingFixedMs">>))
      /\ Fitted(Unrolled("tenureExtend", <<"tenureExtendKind">>))
  OBVIOUS
<1>2. /\ Fitted(Unrolled("priceEscalation", <<"priceFnKind", "priceFnFixedDelta",
                                  "priceFnCompoundDeltaBps", "priceFnCompoundDeltaDelta">>))
      /\ Fitted(Unrolled("priceEscalationDeltaMist", <<"priceFnDeltaMist">>))
      /\ Fitted(Unrolled("retireCommitment", <<"retireCommitmentKind", "retireCommitmentFloorMs">>))
      /\ Fitted(Unrolled("ensembleCommitment", <<"ensembleCommitmentKind", "ensembleCommitmentFloorMs">>))
  OBVIOUS
<1>3. /\ Fitted(ShapeSpec("creditShape", "creditShapeKind", "creditShapePowerLawAlphaNum",
              "creditShapePowerLawAlphaDen", "creditShapeExponentialAlphaAbs",
              "creditShapeExponentialAlphaNeg"))
      /\ Fitted(ShapeSpec("auctionShape", "auctionShapeKind", "auctionShapePowerLawAlphaNum",
              "auctionShapePowerLawAlphaDen", "auctionShapeExponentialAlphaAbs",
              "auctionShapeExponentialAlphaNeg"))
  BY DEF ShapeSpec
<1>4. DOMAIN PolicySpecs = 1 .. 11
  BY DEF PolicySpecs
<1>5. /\ Fitted(PolicySpecs[1]) /\ Fitted(PolicySpecs[2]) /\ Fitted(PolicySpecs[3])
      /\ Fitted(PolicySpecs[4]) /\ Fitted(PolicySpecs[5]) /\ Fitted(PolicySpecs[6])
      /\ Fitted(PolicySpecs[7]) /\ Fitted(PolicySpecs[8]) /\ Fitted(PolicySpecs[9])
      /\ Fitted(PolicySpecs[10]) /\ Fitted(PolicySpecs[11])
  BY <1>1, <1>2, <1>3 DEF PolicySpecs
<1> QED
  BY <1>4, <1>5 DEF FittedAll

LEMMA SettlementFit == FittedAll(SettlementSpecs)
<1>1. /\ Fitted(OneWithNow("floorPriceMist")) /\ Fitted(OneWithNow("accruedCreditMist"))
      /\ Fitted(OneWithNow("activeStakeBalanceRemainingMist"))
  BY NowsFit DEF NowViews, NowFns
<1>2. /\ Fitted(ViewSpec("nextFloorPriceMist", <<"nextFloorPriceMist">>,
                         <<"escrowId", "totalBidMist", "tenures">>, {"nextFloor"}))
      /\ Fitted(ViewSpec("handoverSettlement", <<"handoverSettlement">>,
                         <<"escrowId", "boundaryMs">>, {"boundary"}))
  BY CalledDeclared, SettlementFits DEF Special, Singular, NowFns
<1>3. Fitted(ViewSpec("tenureSettlement", <<"tenureSettlement">>, <<"escrowId">>, {"rented"}))
  BY PlainsPlain, UnrolledFits DEF Plains, Asks, NowViews, NowFns, ProbeFns
<1>4. DOMAIN SettlementSpecs = 1 .. 6
  BY DEF SettlementSpecs
<1>5. /\ Fitted(SettlementSpecs[1]) /\ Fitted(SettlementSpecs[2]) /\ Fitted(SettlementSpecs[3])
      /\ Fitted(SettlementSpecs[4]) /\ Fitted(SettlementSpecs[5]) /\ Fitted(SettlementSpecs[6])
  BY <1>1, <1>2, <1>3 DEF SettlementSpecs
<1> QED
  BY <1>4, <1>5 DEF FittedAll

LEMMA ViewsFit == FittedAll(ViewSpecs)
<1> DEFINE t1 == StatusSpecs \o IdentitySpecs
           t2 == t1 \o SeatSpecs
           t3 == t2 \o ProbeSpecs
           t4 == t3 \o TemporalSpecs
           t5 == t4 \o CommitmentSpecs
           t6 == t5 \o CreditSpecs
           t7 == t6 \o CycleSpecs
           t8 == t7 \o PolicySpecs
           t9 == t8 \o SettlementSpecs
           t10 == t9 \o ConstantSpecs
<1> USE GroupTables, TableJoin, FittedJoin
<1>1. Table(t1) /\ FittedAll(t1)
  BY StatusFit, IdentityFit
<1> HIDE DEF t1
<1>2. Table(t2) /\ FittedAll(t2)
  BY <1>1, SeatFit
<1> HIDE DEF t2
<1>3. Table(t3) /\ FittedAll(t3)
  BY <1>2, ProbeFit
<1> HIDE DEF t3
<1>4. Table(t4) /\ FittedAll(t4)
  BY <1>3, TemporalFit
<1> HIDE DEF t4
<1>5. Table(t5) /\ FittedAll(t5)
  BY <1>4, CommitmentFit
<1> HIDE DEF t5
<1>6. Table(t6) /\ FittedAll(t6)
  BY <1>5, CreditFit
<1> HIDE DEF t6
<1>7. Table(t7) /\ FittedAll(t7)
  BY <1>6, CycleFit
<1> HIDE DEF t7
<1>8. Table(t8) /\ FittedAll(t8)
  BY <1>7, PolicyFit
<1> HIDE DEF t8
<1>9. Table(t9) /\ FittedAll(t9)
  BY <1>8, SettlementFit
<1> HIDE DEF t9
<1>10. Table(t10) /\ FittedAll(t10)
  BY <1>9, ConstantFit
<1> HIDE DEF t10
<1>11. ViewSpecs = t10
  BY DEF ViewSpecs, t1, t2, t3, t4, t5, t6, t7, t8, t9, t10
<1> QED
  BY <1>10, <1>11

LEMMA SpecFits ==
  ASSUME NEW name \in Views
  PROVE  SpecOf[name].name = name /\ Fitted(SpecOf[name])
<1>1. PICK i \in DOMAIN ViewSpecs : ViewSpecs[i].name = name
  BY DEF Views
<1>2. SpecOf[name] = CHOOSE s \in Range(ViewSpecs) : s.name = name
  BY DEF SpecOf
<1>3. SpecOf[name] \in Range(ViewSpecs) /\ SpecOf[name].name = name
  BY <1>1, <1>2 DEF Range
<1> QED
  BY <1>3, ViewsFit DEF FittedAll, Range

(* Arguments are bound in order, the clock left out.                         *)
LEMMA BindsInOrder ==
  ASSUME NEW fn, NEW args, NEW n \in Nat, Len(args) = n,
         {i \in DOMAIN Declares[fn] : Declares[fn][i] \notin Inserted} = 1 .. n,
         \A i \in 1 .. n : Accepts(Declares[fn][i], args[i])
  PROVE  Binds(fn, args)
<1> DEFINE kinds == Declares[fn]
           asked == {i \in DOMAIN kinds : kinds[i] \notin Inserted}
           place(i) == Cardinality({k \in asked : k <= i})
<1>1. Binds(fn, args) = (Len(args) = Cardinality(asked) /\ \A i \in asked : Accepts(kinds[i], args[place(i)]))
  BY Zenon DEF Binds
<1>2. asked = 1 .. n
  OBVIOUS
<1>3. Cardinality(1 .. n) = n
  BY FS_Interval
<1>4. ASSUME NEW i \in 1 .. n PROVE Cardinality({k \in 1 .. n : k <= i}) = i
  <2>1. {k \in 1 .. n : k <= i} = 1 .. i
    OBVIOUS
  <2>2. Cardinality(1 .. i) = i
    BY FS_Interval
  <2> QED
    BY <2>1, <2>2
<1>5. \A i \in 1 .. n : Accepts(kinds[i], args[i])
  OBVIOUS
<1> HIDE DEF kinds
<1>6. \A i \in asked : Accepts(kinds[i], args[place(i)])
  BY <1>2, <1>4, <1>5
<1>7. Len(args) = Cardinality(asked)
  BY <1>2, <1>3
<1> QED
  BY <1>1, <1>6, <1>7

(* A view that is supplied what it asks for is never bound to a function of  *)
(* the contract with arguments it does not declare.                          *)
THEOREM EveryViewBinds ==
  ASSUME NEW name \in Views, NEW supplied, Asks(name) \subseteq Arguments(supplied)
  PROVE  SpecBinds(name, supplied)
<1> DEFINE args == SpecOf[name].args
           given == [k \in DOMAIN args |-> Given(supplied, args[k])]
<1>1. SUFFICES ASSUME NEW c \in DOMAIN SpecOf[name].calls
               PROVE  Binds(SpecOf[name].calls[c], given)
  BY DEF SpecBinds
<1> DEFINE fn == SpecOf[name].calls[c]
           n == Len(args)
<1>2. /\ n \in Nat /\ DOMAIN args = 1 .. n
      /\ \A k \in DOMAIN args : args[k] \in Asks(name)
      /\ DOMAIN Declares[fn] = DOMAIN args
      /\ \A k \in DOMAIN Declares[fn] : Declares[fn][k] = ArgKind(args[k])
  BY SpecFits DEF Fitted
<1>3. Len(given) = n
  BY <1>2
<1>4. \A k \in DOMAIN args : args[k] \in Suppliable /\ Given(supplied, args[k]) # "missing"
  BY <1>2 DEF Arguments
<1>5. \A k \in DOMAIN args : given[k] = Given(supplied, args[k])
  OBVIOUS
<1>6. \A arg \in Suppliable : Given(supplied, arg) # "missing" => Accepts(ArgKind(arg), Given(supplied, arg))
  BY DEF Suppliable, Given, ArgKind, Accepts, Encodes
<1>7. \A arg : ArgKind(arg) \notin Inserted
  BY DEF ArgKind, Inserted
<1> HIDE DEF args, given, fn, n
<1>8. {k \in DOMAIN Declares[fn] : Declares[fn][k] \notin Inserted} = 1 .. n
  BY <1>2, <1>7
<1>9. \A k \in 1 .. n : Accepts(Declares[fn][k], given[k])
  BY <1>2, <1>4, <1>5, <1>6
<1>10. Binds(fn, given)
  BY <1>2, <1>3, <1>8, <1>9, BindsInOrder
<1> QED
  BY <1>10 DEF fn

(* A snapshot asks for the views it supplies.                                *)
LEMMA SnapshotAsks ==
  ASSUME NEW supplied, NEW name \in Range(Snapshot(supplied))
  PROVE  name \in Views /\ Asks(name) \subseteq Arguments(supplied)
<1>1. PICK i \in DOMAIN ViewSpecs : ViewSpecs[i].name = name /\ ViewSpecs[i].needs \subseteq supplied
  BY SnapshotType
<1>2. Asks(name) \subseteq Arguments(ViewSpecs[i].needs)
  BY <1>1, ViewsFit DEF FittedAll, Fitted
<1>3. name \in Views
  BY <1>1 DEF Views
<1> QED
  BY <1>1, <1>2, <1>3, Supplies

-----------------------------------------------------------------------------
(* The transactions.                                                         *)

Bound(tx) == Len(tx) \in Nat /\ DOMAIN tx = 1 .. Len(tx) /\ WellBound(tx)

LEMMA BoundJoin ==
  ASSUME NEW a, NEW b, Bound(a), Bound(b)
  PROVE  Bound(a \o b)
<1> DEFINE c == a \o b
           m == Len(a)
           n == Len(b)
<1>1. /\ m \in Nat /\ n \in Nat /\ DOMAIN a = 1 .. m /\ DOMAIN b = 1 .. n
      /\ DOMAIN c = 1 .. m + n /\ Len(c) = m + n
      /\ \A i \in 1 .. m : c[i] = a[i]
      /\ \A i \in 1 .. n : c[m + i] = b[i]
  BY DEF Bound
<1> HIDE DEF c, m, n
<1>2. ASSUME NEW i \in DOMAIN c PROVE Binds(c[i].fn, c[i].args)
  <2>1. CASE i \in 1 .. m
    BY <1>1, <2>1 DEF Bound, WellBound
  <2>2. CASE i \notin 1 .. m
    <3>1. i - m \in 1 .. n /\ i = m + (i - m)
      BY <1>1, <1>2, <2>2
    <3>2. c[i] = b[i - m]
      BY <1>1, <3>1
    <3> QED
      BY <1>1, <3>1, <3>2 DEF Bound, WellBound
  <2> QED
    BY <2>1, <2>2
<1> QED
  BY <1>1, <1>2 DEF Bound, WellBound, c

LEMMA BoundOne ==
  ASSUME NEW fn, NEW args, Binds(fn, args)
  PROVE  Bound(MadeFrom(fn, args)) /\ Bound(<<Call(fn, args)>>)
  BY DEF Bound, WellBound, MadeFrom, Call

(* A function of objects alone, and the clock.                               *)
LEMMA ObjectsBind ==
  ASSUME NEW fn \in Wrappers, NEW n \in Nat,
         KindsOf(fn) = Objects(n) \/ KindsOf(fn) = Append(Objects(n), "clock"),
         NEW args, Len(args) = n, \A i \in 1 .. n : args[i] \in {"name", "value"}
  PROVE  Binds(fn, args)
<1> DEFINE kinds == Declares[fn]
<1>1. kinds = Objects(n) \/ kinds = Append(Objects(n), "clock")
  BY Declared
<1>2. Objects(n) \in Seq({"object"}) /\ Len(Objects(n)) = n /\ \A i \in 1 .. n : Objects(n)[i] = "object"
  BY DEF Objects
<1>3. CASE kinds = Objects(n)
  <2>1. DOMAIN kinds = 1 .. n /\ \A i \in 1 .. n : kinds[i] = "object"
    BY <1>3 DEF Objects
  <2> HIDE DEF kinds
  <2>2. {i \in DOMAIN kinds : kinds[i] \notin Inserted} = 1 .. n
    BY <2>1 DEF Inserted
  <2>3. \A i \in 1 .. n : Accepts(kinds[i], args[i])
    BY <2>1 DEF Accepts
  <2> QED
    BY <2>2, <2>3, BindsInOrder DEF kinds
<1>4. CASE kinds = Append(Objects(n), "clock")
  <2> DEFINE objects == Objects(n)
  <2>0. objects \in Seq({"object"}) /\ Len(objects) = n
    BY <1>2
  <2> HIDE DEF objects
  <2>1. /\ DOMAIN Append(objects, "clock") = 1 .. n + 1
        /\ \A i \in 1 .. n : Append(objects, "clock")[i] = objects[i]
        /\ Append(objects, "clock")[n + 1] = "clock"
    BY <2>0
  <2>2. /\ DOMAIN kinds = 1 .. n + 1 /\ \A i \in 1 .. n : kinds[i] = "object"
        /\ kinds[n + 1] = "clock"
    BY <1>2, <1>4, <2>1 DEF objects
  <2> HIDE DEF kinds
  <2>3. \A i \in 1 .. n + 1 : i \in 1 .. n \/ i = n + 1
    OBVIOUS
  <2>4. n + 1 \notin 1 .. n /\ \A i \in 1 .. n : i \in 1 .. n + 1
    OBVIOUS
  <2>5. {i \in DOMAIN kinds : kinds[i] \notin Inserted} = 1 .. n
    BY <2>2, <2>3, <2>4 DEF Inserted
  <2>6. \A i \in 1 .. n : Accepts(kinds[i], args[i])
    BY <2>2 DEF Accepts
  <2> QED
    BY <2>5, <2>6, BindsInOrder DEF kinds
<1> QED
  BY <1>1, <1>3, <1>4

(* One that takes nothing, and one that takes a number.                      *)
LEMMA MadeBinds ==
  ASSUME NEW fn \in BareFns
  PROVE  Bound(Made(fn))
<1>1. fn \in Wrappers /\ fn \notin NowFns /\ fn \notin ProbeFns
  BY CalledDeclared DEF Special, BareFns, NowFns, ProbeFns
<1>2. Declares[fn] = <<>>
  BY <1>1, Declared DEF KindsOf, Nothing
<1>3. {i \in DOMAIN Declares[fn] : Declares[fn][i] \notin Inserted} = 1 .. 0
  BY <1>2
<1>4. Len(<<>>) = 0 /\ \A i \in 1 .. 0 : Accepts(Declares[fn][i], <<>>[i])
  OBVIOUS
<1>5. Binds(fn, <<>>)
  BY <1>3, <1>4, BindsInOrder
<1> QED
  BY <1>5, BoundOne DEF Made

LEMMA UnitBinds ==
  ASSUME NEW fn \in UnitFns
  PROVE  Bound(Unit(fn))
<1>1. fn \in Wrappers /\ fn \notin NowFns /\ fn \notin ProbeFns /\ fn \notin BareFns
  BY CalledDeclared DEF Special, BareFns, NowFns, ProbeFns, UnitFns
<1>2. Declares[fn] = <<"u64">>
  BY <1>1, Declared DEF KindsOf
<1>3. DOMAIN Declares[fn] = 1 .. 1 /\ Declares[fn][1] = "u64" /\ \A i \in 1 .. 1 : i = 1
  BY <1>2
<1>4. {i \in DOMAIN Declares[fn] : Declares[fn][i] \notin Inserted} = 1 .. 1
  BY <1>3 DEF Inserted
<1>5. Len(<<"int">>) = 1 /\ \A i \in 1 .. 1 : Accepts(Declares[fn][i], <<"int">>[i])
  BY <1>3 DEF Accepts, Encodes
<1>6. Binds(fn, <<"int">>)
  BY <1>4, <1>5, BindsInOrder
<1> QED
  BY <1>6, BoundOne DEF Unit

(* One of a single object.                                                   *)
LEMMA PlainBinds ==
  ASSUME NEW fn \in Plains, NEW arg \in {"name", "value"}
  PROVE  Bound(MadeFrom(fn, <<arg>>))
<1>1. fn \in Wrappers /\ KindsOf(fn) = Here
  BY PlainsPlain DEF Plain
<1>2. Here = Objects(1)
  BY DEF Here, Objects
<1>3. Len(<<arg>>) = 1 /\ \A i \in 1 .. 1 : <<arg>>[i] \in {"name", "value"}
  OBVIOUS
<1>4. Binds(fn, <<arg>>)
  BY <1>1, <1>2, <1>3, ObjectsBind
<1> QED
  BY <1>4, BoundOne

(* The calls of which no two take the same.                                  *)
LEMMA SingularKinds ==
  /\ Declares["newPowerLaw"] = <<"u8", "u8">> /\ Declares["newExponential"] = <<"u8", "bool">>
  /\ Declares["refundAddress"] = <<"address">>
  /\ Declares["descentFloorAt"] = <<"u64", "u64", "u64", "u64", "object", "u64">>
  /\ Declares["usedCreditAt"] = <<"u64", "u64", "u64", "object", "u64">>
  /\ Declares["ascendingFloorWith"] = <<"u64", "u64", "object">>
<1>1. {"newPowerLaw", "newExponential", "refundAddress", "descentFloorAt", "usedCreditAt",
       "ascendingFloorWith"} \subseteq Wrappers
  BY CalledDeclared DEF Special, Singular
<1> QED
  BY <1>1, Declared
     DEF KindsOf, NowFns, ProbeFns, BareFns, UnitFns, PairFns, TimedPairFns, TimedTripleFns

LEMMA ShapeCallsBind ==
  /\ Bound(MadeFrom("newPowerLaw", <<"int", "int">>))
  /\ Bound(MadeFrom("newExponential", <<"int", "bool">>))
  /\ Bound(MadeFrom("refundAddress", <<"name">>))
<1>1. \A i \in 1 .. 2 : i = 1 \/ i = 2
  OBVIOUS
<1>2. Binds("newPowerLaw", <<"int", "int">>)
  <2> DEFINE kinds == Declares["newPowerLaw"]
  <2>1. DOMAIN kinds = 1 .. 2 /\ kinds[1] = "u8" /\ kinds[2] = "u8"
    BY SingularKinds
  <2> HIDE DEF kinds
  <2>2. {i \in DOMAIN kinds : kinds[i] \notin Inserted} = 1 .. 2
    BY <1>1, <2>1 DEF Inserted
  <2>3. Len(<<"int", "int">>) = 2 /\ \A i \in 1 .. 2 : Accepts(kinds[i], <<"int", "int">>[i])
    BY <1>1, <2>1 DEF Accepts, Encodes
  <2> QED
    BY <2>2, <2>3, BindsInOrder DEF kinds
<1>3. Binds("newExponential", <<"int", "bool">>)
  <2> DEFINE kinds == Declares["newExponential"]
  <2>1. DOMAIN kinds = 1 .. 2 /\ kinds[1] = "u8" /\ kinds[2] = "bool"
    BY SingularKinds
  <2> HIDE DEF kinds
  <2>2. {i \in DOMAIN kinds : kinds[i] \notin Inserted} = 1 .. 2
    BY <1>1, <2>1 DEF Inserted
  <2>3. Len(<<"int", "bool">>) = 2 /\ \A i \in 1 .. 2 : Accepts(kinds[i], <<"int", "bool">>[i])
    BY <1>1, <2>1 DEF Accepts, Encodes
  <2> QED
    BY <2>2, <2>3, BindsInOrder DEF kinds
<1>4. Binds("refundAddress", <<"name">>)
  <2> DEFINE kinds == Declares["refundAddress"]
  <2>1. DOMAIN kinds = 1 .. 1 /\ kinds[1] = "address" /\ \A i \in 1 .. 1 : i = 1
    BY SingularKinds
  <2> HIDE DEF kinds
  <2>2. {i \in DOMAIN kinds : kinds[i] \notin Inserted} = 1 .. 1
    BY <2>1 DEF Inserted
  <2>3. Len(<<"name">>) = 1 /\ \A i \in 1 .. 1 : Accepts(kinds[i], <<"name">>[i])
    BY <2>1 DEF Accepts, Encodes
  <2> QED
    BY <2>2, <2>3, BindsInOrder DEF kinds
<1> QED
  BY <1>2, <1>3, <1>4, BoundOne

(* The points of a curve.                                                    *)
LEMMA PointsBind ==
  /\ Binds(DescentSample.fn, DescentSample.args) /\ Binds(CreditSample.fn, CreditSample.args)
  /\ \A first \in {"int", "value"} : Binds("ascendingFloorWith", <<first, "int", "value">>)
<1>1. Binds(DescentSample.fn, DescentSample.args)
  <2> DEFINE kinds == Declares["descentFloorAt"]
             args == <<"int", "int", "int", "int", "value", "int">>
  <2>1. /\ DOMAIN kinds = 1 .. 6 /\ kinds[1] = "u64" /\ kinds[2] = "u64" /\ kinds[3] = "u64"
        /\ kinds[4] = "u64" /\ kinds[5] = "object" /\ kinds[6] = "u64"
    BY SingularKinds
  <2>2. /\ Len(args) = 6 /\ args[1] = "int" /\ args[2] = "int" /\ args[3] = "int"
        /\ args[4] = "int" /\ args[5] = "value" /\ args[6] = "int"
    OBVIOUS
  <2>3. DescentSample.fn = "descentFloorAt" /\ DescentSample.args = args
    BY DEF DescentSample, Call
  <2> HIDE DEF kinds, args
  <2>4. \A i \in 1 .. 6 : i = 1 \/ i = 2 \/ i = 3 \/ i = 4 \/ i = 5 \/ i = 6
    OBVIOUS
  <2>5. {i \in DOMAIN kinds : kinds[i] \notin Inserted} = 1 .. 6
    BY <2>1, <2>4 DEF Inserted
  <2>6. \A i \in 1 .. 6 : Accepts(kinds[i], args[i])
    BY <2>1, <2>2, <2>4 DEF Accepts, Encodes
  <2> QED
    BY <2>2, <2>3, <2>5, <2>6, BindsInOrder DEF kinds
<1>2. Binds(CreditSample.fn, CreditSample.args)
  <2> DEFINE kinds == Declares["usedCreditAt"]
             args == <<"int", "int", "int", "value", "int">>
  <2>1. /\ DOMAIN kinds = 1 .. 5 /\ kinds[1] = "u64" /\ kinds[2] = "u64" /\ kinds[3] = "u64"
        /\ kinds[4] = "object" /\ kinds[5] = "u64"
    BY SingularKinds
  <2>2. /\ Len(args) = 5 /\ args[1] = "int" /\ args[2] = "int" /\ args[3] = "int"
        /\ args[4] = "value" /\ args[5] = "int"
    OBVIOUS
  <2>3. CreditSample.fn = "usedCreditAt" /\ CreditSample.args = args
    BY DEF CreditSample, Call
  <2> HIDE DEF kinds, args
  <2>4. \A i \in 1 .. 5 : i = 1 \/ i = 2 \/ i = 3 \/ i = 4 \/ i = 5
    OBVIOUS
  <2>5. {i \in DOMAIN kinds : kinds[i] \notin Inserted} = 1 .. 5
    BY <2>1, <2>4 DEF Inserted
  <2>6. \A i \in 1 .. 5 : Accepts(kinds[i], args[i])
    BY <2>1, <2>2, <2>4 DEF Accepts, Encodes
  <2> QED
    BY <2>2, <2>3, <2>5, <2>6, BindsInOrder DEF kinds
<1>3. ASSUME NEW first \in {"int", "value"} PROVE Binds("ascendingFloorWith", <<first, "int", "value">>)
  <2> DEFINE kinds == Declares["ascendingFloorWith"]
             args == <<first, "int", "value">>
  <2>1. DOMAIN kinds = 1 .. 3 /\ kinds[1] = "u64" /\ kinds[2] = "u64" /\ kinds[3] = "object"
    BY SingularKinds
  <2>2. Len(args) = 3 /\ args[1] = first /\ args[2] = "int" /\ args[3] = "value"
    OBVIOUS
  <2> HIDE DEF kinds, args
  <2>4. \A i \in 1 .. 3 : i = 1 \/ i = 2 \/ i = 3
    OBVIOUS
  <2>5. {i \in DOMAIN kinds : kinds[i] \notin Inserted} = 1 .. 3
    BY <2>1, <2>4 DEF Inserted
  <2>6. \A i \in 1 .. 3 : Accepts(kinds[i], args[i])
    BY <2>1, <2>2, <2>4 DEF Accepts, Encodes
  <2> QED
    BY <2>2, <2>5, <2>6, BindsInOrder DEF kinds, args
<1> QED
  BY <1>1, <1>2, <1>3

(* The calls on objects.                                                     *)
LEMMA PairsBind ==
  /\ \A fn \in PairFns \cup TimedPairFns, a, b \in {"name", "value"} : Bound(MadeFrom(fn, <<a, b>>))
  /\ \A fn \in TimedTripleFns \cup {"returnAsset"}, a, b, c \in {"name", "value"} :
       Bound(MadeFrom(fn, <<a, b, c>>))
<1>1. ASSUME NEW fn \in PairFns \cup TimedPairFns, NEW a \in {"name", "value"}, NEW b \in {"name", "value"}
      PROVE  Bound(MadeFrom(fn, <<a, b>>))
  <2>1. fn \in Wrappers /\ (KindsOf(fn) = Objects(2) \/ KindsOf(fn) = Append(Objects(2), "clock"))
    BY CalledDeclared
       DEF Special, KindsOf, NowFns, ProbeFns, BareFns, UnitFns, PairFns, TimedPairFns
  <2>2. Len(<<a, b>>) = 2 /\ \A i \in 1 .. 2 : <<a, b>>[i] \in {"name", "value"}
    OBVIOUS
  <2>3. Binds(fn, <<a, b>>)
    BY <2>1, <2>2, ObjectsBind
  <2> QED
    BY <2>3, BoundOne
<1>2. ASSUME NEW fn \in TimedTripleFns \cup {"returnAsset"}, NEW a \in {"name", "value"},
             NEW b \in {"name", "value"}, NEW c \in {"name", "value"}
      PROVE  Bound(MadeFrom(fn, <<a, b, c>>))
  <2>1. fn \in Wrappers /\ (KindsOf(fn) = Objects(3) \/ KindsOf(fn) = Append(Objects(3), "clock"))
    BY CalledDeclared
       DEF Special, Singular, KindsOf, NowFns, ProbeFns, BareFns, UnitFns, PairFns, TimedPairFns, TimedTripleFns
  <2>2. Len(<<a, b, c>>) = 3 /\ \A i \in 1 .. 3 : <<a, b, c>>[i] \in {"name", "value"}
    OBVIOUS
  <2>3. Binds(fn, <<a, b, c>>)
    BY <2>1, <2>2, ObjectsBind
  <2> QED
    BY <2>3, BoundOne
<1> QED
  BY <1>1, <1>2

LEMMA LongBind ==
  /\ Bound(MadeFrom("newEnsemble", [i \in 1 .. 8 |-> "value"]))
  /\ Bound(MadeFrom("integrate", <<"value", "value", "value", "value", "name">>))
  /\ Bound(MadeFrom("integrateIntoPortfolio",
                    <<"value", "value", "value", "value", "name", "name", "name">>))
  /\ Bound(MadeFrom("applyPendingTransitionStates", <<"name">>))
<1> DEFINE e == [i \in 1 .. 8 |-> "value"]
           g == <<"value", "value", "value", "value", "name">>
           p == <<"value", "value", "value", "value", "name", "name", "name">>
           a == <<"name">>
<1>1. /\ {"newEnsemble", "integrate", "integrateIntoPortfolio", "applyPendingTransitionStates"}
         \subseteq Wrappers
  BY CalledDeclared DEF Special, Singular
<1>2. <<"object", "clock">> = Append(Objects(1), "clock")
  BY DEF Objects
<1>3. /\ KindsOf("newEnsemble") = Objects(8) /\ KindsOf("integrate") = Append(Objects(5), "clock")
      /\ KindsOf("integrateIntoPortfolio") = Append(Objects(7), "clock")
      /\ KindsOf("applyPendingTransitionStates") = Append(Objects(1), "clock")
  BY <1>2 DEF KindsOf, NowFns, ProbeFns, BareFns, UnitFns, PairFns, TimedPairFns, TimedTripleFns
<1>4. /\ Len(e) = 8 /\ Len(g) = 5 /\ Len(p) = 7 /\ Len(a) = 1
      /\ (\A i \in 1 .. 8 : e[i] \in {"name", "value"}) /\ (\A i \in 1 .. 5 : g[i] \in {"name", "value"})
      /\ (\A i \in 1 .. 7 : p[i] \in {"name", "value"}) /\ (\A i \in 1 .. 1 : a[i] \in {"name", "value"})
  OBVIOUS
<1> HIDE DEF e, g, p, a
<1>5. Binds("newEnsemble", e)
  <2>1. /\ "newEnsemble" \in Wrappers /\ 8 \in Nat /\ Len(e) = 8
        /\ \A i \in 1 .. 8 : e[i] \in {"name", "value"}
    BY <1>1, <1>4
  <2>2. KindsOf("newEnsemble") = Objects(8) \/ KindsOf("newEnsemble") = Append(Objects(8), "clock")
    BY <1>3
  <2> QED
    BY <2>1, <2>2, ObjectsBind, Zenon
<1>6. Binds("integrate", g)
  <2>1. /\ "integrate" \in Wrappers /\ 5 \in Nat /\ Len(g) = 5
        /\ \A i \in 1 .. 5 : g[i] \in {"name", "value"}
    BY <1>1, <1>4
  <2>2. KindsOf("integrate") = Objects(5) \/ KindsOf("integrate") = Append(Objects(5), "clock")
    BY <1>3
  <2> QED
    BY <2>1, <2>2, ObjectsBind, Zenon
<1>7. Binds("integrateIntoPortfolio", p)
  <2>1. /\ "integrateIntoPortfolio" \in Wrappers /\ 7 \in Nat /\ Len(p) = 7
        /\ \A i \in 1 .. 7 : p[i] \in {"name", "value"}
    BY <1>1, <1>4
  <2>2. KindsOf("integrateIntoPortfolio") = Objects(7) \/ KindsOf("integrateIntoPortfolio") = Append(Objects(7), "clock")
    BY <1>3
  <2> QED
    BY <2>1, <2>2, ObjectsBind, Zenon
<1>8. Binds("applyPendingTransitionStates", a)
  <2>1. /\ "applyPendingTransitionStates" \in Wrappers /\ 1 \in Nat /\ Len(a) = 1
        /\ \A i \in 1 .. 1 : a[i] \in {"name", "value"}
    BY <1>1, <1>4
  <2>2. KindsOf("applyPendingTransitionStates") = Objects(1) \/ KindsOf("applyPendingTransitionStates") = Append(Objects(1), "clock")
    BY <1>3
  <2> QED
    BY <2>1, <2>2, ObjectsBind, Zenon
<1>9. /\ Bound(MadeFrom("newEnsemble", e)) /\ Bound(MadeFrom("integrate", g))
      /\ Bound(MadeFrom("integrateIntoPortfolio", p))
      /\ Bound(MadeFrom("applyPendingTransitionStates", a))
  BY <1>5, <1>6, <1>7, <1>8, BoundOne
<1> QED
  BY <1>9 DEF e, g, p, a

(* The policies, whichever variants a market names.                          *)
LEMMA PoliciesBind ==
  /\ \A shape \in {"linear", "smoothstep", "logistic", "powerLaw", "exponential"} :
       Bound(ShapePtb(shape))
  /\ \A kind \in {"off", "fullTenure", "fixed"} : Bound(HandoverPtb(kind))
  /\ \A kind : Bound(DescentPtb(kind)) /\ Bound(EscalationPtb(kind))
  /\ \A kind : Bound(RetireCommitmentPtb(kind)) /\ Bound(EnsembleCommitmentPtb(kind))
<1>1. \A fn \in BareFns : Bound(Made(fn))
  BY MadeBinds
<1>2. Bound(Unit("duration")) /\ Bound(Unit("price")) /\ Bound(Unit("basisPoints"))
  BY UnitBinds DEF UnitFns
<1>3. ASSUME NEW shape \in {"linear", "smoothstep", "logistic", "powerLaw", "exponential"}
      PROVE  Bound(ShapePtb(shape))
  <2>1. CASE shape = "linear"
    BY <1>1, <2>1 DEF ShapePtb, BareFns
  <2>2. CASE shape = "smoothstep"
    BY <1>1, <2>2 DEF ShapePtb, BareFns
  <2>3. CASE shape = "logistic"
    BY <1>1, <2>3 DEF ShapePtb, BareFns
  <2>4. CASE shape = "powerLaw"
    BY <2>4, ShapeCallsBind DEF ShapePtb
  <2>5. CASE shape = "exponential"
    BY <2>5, ShapeCallsBind DEF ShapePtb
  <2> QED
    BY <2>1, <2>2, <2>3, <2>4, <2>5
<1>4. \A fn \in Plains : Bound(MadeFrom(fn, <<"value">>))
  BY PlainBinds
<1>5. ASSUME NEW kind \in {"off", "fullTenure", "fixed"} PROVE Bound(HandoverPtb(kind))
  <2>1. CASE kind = "off"
    BY <1>1, <2>1 DEF HandoverPtb, BareFns
  <2>2. CASE kind = "fullTenure"
    BY <1>1, <2>2 DEF HandoverPtb, BareFns
  <2>3. CASE kind = "fixed"
    <3>1. HandoverPtb(kind) = Unit("duration") \o MadeFrom("newHandoverFixed", <<"value">>)
      BY <2>3 DEF HandoverPtb
    <3>2. Bound(MadeFrom("newHandoverFixed", <<"value">>))
      BY <1>4 DEF Plains
    <3> QED
      BY <1>2, <3>1, <3>2, BoundJoin
  <2> QED
    BY <2>1, <2>2, <2>3
<1>6. ASSUME NEW kind PROVE Bound(DescentPtb(kind))
  <2>1. Bound(MadeFrom("newDescentFixed", <<"value">>)) /\ Bound(Made("newDescentOff"))
    BY <1>1, <1>4 DEF Plains, BareFns
  <2> QED
    BY <1>2, <2>1, BoundJoin DEF DescentPtb
<1>7. ASSUME NEW kind PROVE Bound(EscalationPtb(kind))
  <2>1. Bound(MadeFrom("newPriceFixedDelta", <<"value">>))
    BY <1>4 DEF Plains
  <2>2. Bound(MadeFrom("newPriceCompoundDelta", <<"value", "value">>))
    BY PairsBind DEF PairFns
  <2> QED
    BY <1>2, <2>1, <2>2, BoundJoin DEF EscalationPtb
<1>8. ASSUME NEW kind, NEW immediate \in BareFns, NEW deferred \in Plains
      PROVE  Bound(CommitmentPtb(kind, immediate, deferred))
  BY <1>1, <1>2, <1>4, BoundJoin DEF CommitmentPtb
<1>9. ASSUME NEW kind PROVE Bound(RetireCommitmentPtb(kind)) /\ Bound(EnsembleCommitmentPtb(kind))
  BY <1>8 DEF RetireCommitmentPtb, EnsembleCommitmentPtb, BareFns, Plains
<1> QED
  BY <1>3, <1>5, <1>6, <1>7, <1>9

(* A market and a listing.                                                   *)
Variants(cfg) ==
  /\ cfg.handover \in {"off", "fullTenure", "fixed"}
  /\ cfg.creditShape \in {"linear", "smoothstep", "logistic", "powerLaw", "exponential"}
  /\ cfg.auctionShape \in {"linear", "smoothstep", "logistic", "powerLaw", "exponential"}

LEMMA ListingBinds ==
  ASSUME NEW cfg, Variants(cfg)
  PROVE  Bound(EnsemblePtb(cfg)) /\ Bound(Listing(cfg))
<1>1. /\ Bound(Unit("price")) /\ Bound(Unit("duration"))
      /\ Bound(MadeFrom("newRestPriceFixed", <<"value">>))
      /\ Bound(MadeFrom("newTenureDurationFixed", <<"value">>))
      /\ Bound(Made(IF cfg.multi THEN "newTenureMulti" ELSE "newTenureSingle"))
  BY UnitBinds, PlainBinds, MadeBinds DEF UnitFns, Plains, BareFns
<1>2. /\ Bound(HandoverPtb(cfg.handover)) /\ Bound(DescentPtb(cfg.descent))
      /\ Bound(ShapePtb(cfg.creditShape)) /\ Bound(ShapePtb(cfg.auctionShape))
      /\ Bound(EscalationPtb(cfg.escalation))
  BY PoliciesBind DEF Variants
<1> DEFINE a == Unit("price") \o MadeFrom("newRestPriceFixed", <<"value">>)
           b == a \o Unit("duration")
           c == b \o MadeFrom("newTenureDurationFixed", <<"value">>)
           d == c \o Made(IF cfg.multi THEN "newTenureMulti" ELSE "newTenureSingle")
           e == d \o HandoverPtb(cfg.handover)
           f == e \o DescentPtb(cfg.descent)
           g == f \o ShapePtb(cfg.creditShape)
           h == g \o ShapePtb(cfg.auctionShape)
           i == h \o EscalationPtb(cfg.escalation)
           j == i \o MadeFrom("newEnsemble", [n \in 1 .. 8 |-> "value"])
<1>3. EnsemblePtb(cfg) = j
  BY DEF EnsemblePtb
<1>4. Bound(a)
  BY <1>1, BoundJoin
<1> HIDE DEF a
<1>5. Bound(b)
  BY <1>1, <1>4, BoundJoin
<1> HIDE DEF b
<1>6. Bound(c)
  BY <1>1, <1>5, BoundJoin
<1> HIDE DEF c
<1>7. Bound(d)
  BY <1>1, <1>6, BoundJoin
<1> HIDE DEF d
<1>8. Bound(e)
  BY <1>2, <1>7, BoundJoin
<1> HIDE DEF e
<1>9. Bound(f)
  BY <1>2, <1>8, BoundJoin
<1> HIDE DEF f
<1>10. Bound(g)
  BY <1>2, <1>9, BoundJoin
<1> HIDE DEF g
<1>11. Bound(h)
  BY <1>2, <1>10, BoundJoin
<1> HIDE DEF h
<1>12. Bound(i)
  BY <1>2, <1>11, BoundJoin
<1> HIDE DEF i
<1>13. Bound(j)
  BY <1>12, LongBind, BoundJoin
<1> HIDE DEF j
<1>14. Bound(EnsemblePtb(cfg))
  BY <1>3, <1>13
<1>15. Bound(RetireCommitmentPtb(cfg.retire)) /\ Bound(EnsembleCommitmentPtb(cfg.lock))
  BY PoliciesBind
<1> QED
  BY <1>14, <1>15, BoundJoin DEF Listing

LEMMA IntegrateBinds ==
  ASSUME NEW cfg, Variants(cfg)
  PROVE  Bound(IntegratePtb(cfg)) /\ Bound(IntegrateIntoPortfolioPtb(cfg))
  BY ListingBinds, LongBind, BoundJoin DEF IntegratePtb, IntegrateIntoPortfolioPtb

(* The writes of a governor and of a tenant.                                 *)
LEMMA GovernorBinds ==
  /\ Bound(RetirePtb) /\ Bound(ClaimAssetPtb)
  /\ \A kind : Bound(ExtendRetireCommitmentPtb(kind)) /\ Bound(ExtendEnsembleCommitmentPtb(kind))
  /\ \A cfg : Variants(cfg) => Bound(UpdateEnsemblePtb(cfg))
  /\ Bound(RenouncePtb) /\ Bound(ApplyPtb)
<1>1. Bound(RetirePtb) /\ Bound(ClaimAssetPtb)
  BY PairsBind DEF RetirePtb, ClaimAssetPtb, TimedPairFns
<1>2. Bound(RenouncePtb) /\ Bound(ApplyPtb)
  BY PlainBinds, LongBind DEF RenouncePtb, ApplyPtb, Plains
<1>3. \A fn \in TimedTripleFns : Bound(MadeFrom(fn, <<"name", "name", "value">>))
  BY PairsBind
<1>4. /\ Bound(MadeFrom("extendRetireCommitment", <<"name", "name", "value">>))
      /\ Bound(MadeFrom("extendEnsembleCommitment", <<"name", "name", "value">>))
      /\ Bound(MadeFrom("updateEnsemble", <<"name", "name", "value">>))
  BY <1>3 DEF TimedTripleFns
<1>5. \A kind : Bound(ExtendRetireCommitmentPtb(kind)) /\ Bound(ExtendEnsembleCommitmentPtb(kind))
  BY <1>4, PoliciesBind, BoundJoin DEF ExtendRetireCommitmentPtb, ExtendEnsembleCommitmentPtb
<1>6. \A cfg : Variants(cfg) => Bound(UpdateEnsemblePtb(cfg))
  BY <1>4, ListingBinds, BoundJoin DEF UpdateEnsemblePtb
<1> QED
  BY <1>1, <1>2, <1>5, <1>6

LEMMA NothingBinds == Bound(<<>>)
  BY DEF Bound, WellBound

LEMMA TenantBinds ==
  /\ Bound(RentPtb) /\ Bound(UpdateRefundAddressPtb) /\ Bound(BurnStalePtb) /\ Bound(BurnCapPtb)
  /\ \A uses : Bound(uses) => Bound(WithBorrowedAsset(uses))
<1>1. \A fn \in TimedTripleFns \cup {"returnAsset"}, a, b, c \in {"name", "value"} :
        Bound(MadeFrom(fn, <<a, b, c>>))
  BY PairsBind
<1>2. Bound(RentPtb)
  <2>1. Bound(MadeFrom("rent", <<"name", "value", "value">>))
    BY <1>1 DEF TimedTripleFns
  <2>2. Bound(Unit("tenures"))
    BY UnitBinds DEF UnitFns
  <2> QED
    BY <2>1, <2>2, BoundJoin DEF RentPtb
<1>3. Bound(UpdateRefundAddressPtb)
  <2>1. Bound(MadeFrom("updateUsufructuaryRefundAddress", <<"name", "name", "value">>))
    BY <1>1 DEF TimedTripleFns
  <2> QED
    BY <2>1, ShapeCallsBind, BoundJoin DEF UpdateRefundAddressPtb
<1>4. Bound(BurnStalePtb) /\ Bound(BorrowPtb)
  BY PairsBind DEF BurnStalePtb, BorrowPtb, TimedPairFns
<1>5. Bound(BurnCapPtb)
  BY PlainBinds DEF BurnCapPtb, Plains
<1>6. Bound(ReturnPtb)
  BY <1>1 DEF ReturnPtb
<1>7. \A uses : Bound(uses) => Bound(WithBorrowedAsset(uses))
  BY <1>4, <1>6, BoundJoin DEF WithBorrowedAsset
<1> QED
  BY <1>2, <1>3, <1>4, <1>5, <1>7

LEMMA CollectBinds ==
  ASSUME NEW kind, NEW coins, IsFiniteSet(coins)
  PROVE  Bound(CollectPtb(kind, coins))
<1> DEFINE fn == IF kind = "earnings" THEN "collectEarningsMessages" ELSE "collectFeeMessages"
           n == Cardinality(coins)
<1>1. n \in Nat
  BY FS_CardinalityType
<1>2. Bound(MadeFrom(fn, <<"name", "value">>))
  BY PairsBind DEF PairFns
<1>3. Binds(fn, <<"name", "value">>)
  BY <1>2 DEF Bound, WellBound, MadeFrom, Call
<1>4. CollectPtb(kind, coins) = [i \in 1 .. n |-> Call(fn, <<"name", "value">>)]
  BY DEF CollectPtb
<1> DEFINE tx == [i \in 1 .. n |-> Call(fn, <<"name", "value">>)]
<1> HIDE DEF fn, n
<1>5. Len(tx) = n /\ DOMAIN tx = 1 .. n
  BY <1>1
<1>6. ASSUME NEW i \in 1 .. n PROVE Binds(tx[i].fn, tx[i].args)
  <2>1. tx[i] = Call(fn, <<"name", "value">>)
    OBVIOUS
  <2>2. tx[i].fn = fn /\ tx[i].args = <<"name", "value">>
    BY <2>1 DEF Call
  <2> QED
    BY <1>3, <2>2
<1> HIDE DEF tx
<1> QED
  BY <1>1, <1>4, <1>5, <1>6 DEF Bound, WellBound, tx

(* The samples of a curve.                                                   *)
LEMMA SamplesBind ==
  ASSUME NEW shape \in {"linear", "smoothstep", "logistic", "powerLaw", "exponential"}, NEW n \in Nat
  PROVE  Bound(Samples(shape, CreditSample, n)) /\ Bound(Samples(shape, DescentSample, n))
<1>1. ASSUME NEW view, Binds(view.fn, view.args)
      PROVE  Bound([k \in 1 .. n |-> view])
  BY <1>1 DEF Bound, WellBound
<1>2. Bound(ShapePtb(shape))
  BY PoliciesBind
<1>3. Bound([k \in 1 .. n |-> CreditSample]) /\ Bound([k \in 1 .. n |-> DescentSample])
  BY <1>1, PointsBind
<1> QED
  BY <1>2, <1>3, BoundJoin DEF Samples

LEMMA LadderBinds ==
  ASSUME NEW kind, NEW steps \in Nat
  PROVE  Bound(EscalationLadderPtb(kind, steps))
<1> DEFINE rungs == [k \in 1 .. steps |->
                      Call("ascendingFloorWith", <<IF k = 1 THEN "int" ELSE "value", "int", "value">>)]
<1>1. \A k \in 1 .. steps : Binds("ascendingFloorWith", <<IF k = 1 THEN "int" ELSE "value", "int", "value">>)
  BY PointsBind
<1>2. Bound(rungs)
  BY <1>1 DEF Bound, WellBound, Call
<1>3. Bound(EscalationPtb(kind))
  BY PoliciesBind
<1>4. EscalationLadderPtb(kind, steps) = EscalationPtb(kind) \o rungs
  BY DEF EscalationLadderPtb
<1> HIDE DEF rungs
<1> QED
  BY <1>2, <1>3, <1>4, BoundJoin
=============================================================================
