----------------------------- MODULE SizeProofs -----------------------------
(***************************************************************************)
(* Sizes, for any units and any int64: what the loop of humanSize computes *)
(* for every size, and the sum of a torrent's files, which stays an int64. *)
(* Both are recursive; Recursion gives the functions their equations, and  *)
(* Least the induction.                                                    *)
(***************************************************************************)
EXTENDS Pages, Recursion, FiniteSetTheorems

-----------------------------------------------------------------------------
(* The loop of humanSize *)

LEMMA Quotient ==
    ASSUME NEW n \in Nat
    PROVE  /\ n \div Unit \in Nat
           /\ Unit * (n \div Unit) <= n /\ n < Unit * (n \div Unit) + Unit
           /\ n >= Unit => n \div Unit < n /\ n \div Unit >= 1
BY SizeAssumption

LEMMA Times ==
    ASSUME NEW a \in Nat, NEW b \in Nat, a <= b
    PROVE  Unit * a \in Nat /\ Unit * b \in Nat /\ Unit * a <= Unit * b
BY SizeAssumption

LEMMA TimesType == \A n \in Nat : Unit * n \in Nat
BY SizeAssumption

\* What the two recursions of the loop share: they go on with the quotient.
LEMMA LoopDefined ==
    ASSUME NEW base \in Nat, NEW step \in [Nat -> [Nat -> Nat]]
    PROVE  \E h \in [Nat -> Nat] :
              \A n \in Nat : h[n] = IF n < Unit THEN base ELSE step[n][h[n \div Unit]]
<1> DEFINE Base == {n \in Nat : n < Unit}
           pred == [n \in Nat |-> n \div Unit]
           rank == [n \in Nat |-> n]
<1>1. pred \in [Nat -> Nat] /\ rank \in [Nat -> Nat]
  BY Quotient
<1>2. ASSUME NEW n \in Nat \ Base PROVE rank[pred[n]] < rank[n]
  <2>1. n \in Nat /\ n >= Unit
    BY SizeAssumption
  <2>2. n \div Unit \in Nat /\ n \div Unit < n
    BY <2>1, Quotient
  <2> QED BY <2>1, <2>2
<1>3. \A n \in Nat : (n \in Base <=> n < Unit) /\ pred[n] = n \div Unit
  OBVIOUS
<1> HIDE DEF Base, pred, rank
<1>4. WellDefined(Nat, Nat, Base, base, pred, step, rank)
  BY <1>1, <1>2 DEF WellDefined
<1>5. PICK h \in [Nat -> Nat] : \A n \in Nat : Equation(h, n, Base, base, pred, step)
  BY <1>4, Existence
<1>6. ASSUME NEW n \in Nat
      PROVE  h[n] = IF n < Unit THEN base ELSE step[n][h[n \div Unit]]
  BY <1>3, <1>5 DEF Equation
<1> QED BY <1>6

\* What holds of the sizes below Unit, and of a size when of its quotient, holds of all.
LEMMA LoopInduction ==
    ASSUME NEW T \in SUBSET Nat,
           \A n \in Nat : n < Unit => n \in T,
           \A n \in Nat : n >= Unit /\ n \div Unit \in T => n \in T
    PROVE  T = Nat
<1>1. ASSUME NEW n \in Nat, \A k \in Nat : k < n => k \in T PROVE n \in T
  <2>1. CASE n < Unit
    BY <2>1
  <2>2. CASE ~(n < Unit)
    BY <1>1, <2>2, Quotient, SizeAssumption
  <2> QED BY <2>1, <2>2
<1> QED BY <1>1, Induction

LEMMA DivisionsEquation ==
    /\ Divisions \in [Nat -> Nat]
    /\ \A n \in Nat : Divisions[n] = IF n < Unit THEN 0 ELSE 1 + Divisions[n \div Unit]
<1> DEFINE step == [n \in Nat |-> [m \in Nat |-> 1 + m]]
<1>1. step \in [Nat -> [Nat -> Nat]] /\ \A n, m \in Nat : step[n][m] = 1 + m
  OBVIOUS
<1> HIDE DEF step
<1>2. PICK h \in [Nat -> Nat] :
         \A n \in Nat : h[n] = IF n < Unit THEN 0 ELSE step[n][h[n \div Unit]]
  <2>1. 0 \in Nat /\ step \in [Nat -> [Nat -> Nat]]
    BY <1>1
  <2> QED BY <2>1, LoopDefined
<1>3. h = [n \in Nat |-> IF n < Unit THEN 0 ELSE 1 + h[n \div Unit]]
  <2>1. \A n \in Nat : step[n][h[n \div Unit]] = 1 + h[n \div Unit]
    BY <1>1, Quotient
  <2> QED BY <1>2, <2>1
<1>4. Divisions = [n \in Nat |-> IF n < Unit THEN 0 ELSE 1 + Divisions[n \div Unit]]
  BY <1>3, Zenon DEF Divisions
<1>5. \A n \in Nat : Divisions[n] = IF n < Unit THEN 0 ELSE 1 + Divisions[n \div Unit]
  BY <1>4, Zenon
<1> DEFINE T == {n \in Nat : Divisions[n] \in Nat}
<1>6. T = Nat
  <2>1. \A n \in Nat : n < Unit => n \in T
    BY <1>5
  <2>2. \A n \in Nat : n >= Unit /\ n \div Unit \in T => n \in T
    BY <1>5, Quotient, SizeAssumption
  <2>3. T \in SUBSET Nat
    OBVIOUS
  <2> HIDE DEF T
  <2> QED BY <2>1, <2>2, <2>3, LoopInduction
<1>7. Divisions \in [Nat -> Nat]
  BY <1>4, <1>6
<1> QED BY <1>5, <1>7

LEMMA ProductEquation ==
    /\ Product \in [Nat -> Nat]
    /\ \A n \in Nat : Product[n] = IF n < Unit THEN Unit ELSE Unit * Product[n \div Unit]
<1> DEFINE step == [n \in Nat |-> [m \in Nat |-> Unit * m]]
<1>1. step \in [Nat -> [Nat -> Nat]] /\ \A n, m \in Nat : step[n][m] = Unit * m
  BY SizeAssumption
<1> HIDE DEF step
<1>2. PICK h \in [Nat -> Nat] :
         \A n \in Nat : h[n] = IF n < Unit THEN Unit ELSE step[n][h[n \div Unit]]
  <2>1. Unit \in Nat /\ step \in [Nat -> [Nat -> Nat]]
    BY <1>1, SizeAssumption
  <2> QED BY <2>1, LoopDefined
<1>3. h = [n \in Nat |-> IF n < Unit THEN Unit ELSE Unit * h[n \div Unit]]
  <2>1. \A n \in Nat : step[n][h[n \div Unit]] = Unit * h[n \div Unit]
    BY <1>1, Quotient
  <2> QED BY <1>2, <2>1
<1>4. Product = [n \in Nat |-> IF n < Unit THEN Unit ELSE Unit * Product[n \div Unit]]
  BY <1>3, Zenon DEF Product
<1>5. \A n \in Nat : Product[n] = IF n < Unit THEN Unit ELSE Unit * Product[n \div Unit]
  BY <1>4, Zenon
<1> DEFINE T == {n \in Nat : Product[n] \in Nat}
<1>6. T = Nat
  <2>1. \A n \in Nat : n < Unit => n \in T
    BY <1>5, SizeAssumption
  <2>2. \A n \in Nat : n >= Unit /\ n \div Unit \in T => n \in T
    BY <1>5, Quotient, TimesType, SizeAssumption
  <2>3. T \in SUBSET Nat
    OBVIOUS
  <2> HIDE DEF T
  <2> QED BY <2>1, <2>2, <2>3, LoopInduction
<1>7. Product \in [Nat -> Nat]
  BY <1>4, <1>6
<1> QED BY <1>5, <1>7

LEMMA WorthEquation ==
    /\ Worth \in [Nat -> Nat]
    /\ Worth[0] = Unit /\ \A k \in Nat : Worth[k + 1] = Unit * Worth[k]
<1> DEFINE step == [k \in Nat |-> [m \in Nat |-> Unit * m]]
           pred == [k \in Nat |-> IF k = 0 THEN 0 ELSE k - 1]
           rank == [k \in Nat |-> k]
<1>1. step \in [Nat -> [Nat -> Nat]] /\ \A n, m \in Nat : step[n][m] = Unit * m
  BY SizeAssumption
<1>2. /\ pred \in [Nat -> Nat] /\ rank \in [Nat -> Nat]
      /\ \A k \in Nat \ {0} : pred[k] = k - 1 /\ rank[pred[k]] < rank[k]
  OBVIOUS
<1> HIDE DEF step, pred, rank
<1>3. WellDefined(Nat, Nat, {0}, Unit, pred, step, rank)
  BY <1>1, <1>2, SizeAssumption DEF WellDefined
<1>4. PICK h \in [Nat -> Nat] : \A k \in Nat : Equation(h, k, {0}, Unit, pred, step)
  BY <1>3, Existence
<1>5. h = [k \in Nat |-> IF k = 0 THEN Unit ELSE Unit * h[k - 1]]
  <2>1. ASSUME NEW k \in Nat PROVE h[k] = IF k = 0 THEN Unit ELSE Unit * h[k - 1]
    <3>1. CASE k = 0
      BY <1>4, <3>1 DEF Equation
    <3>2. CASE k # 0
      <4>1. h[k] = step[k][h[k - 1]] /\ k - 1 \in Nat
        BY <1>2, <1>4, <3>2 DEF Equation
      <4> QED BY <1>1, <3>2, <4>1
    <3> QED BY <3>1, <3>2
  <2> QED BY <2>1
<1>6. Worth = [k \in Nat |-> IF k = 0 THEN Unit ELSE Unit * Worth[k - 1]]
  BY <1>5, Zenon DEF Worth
<1>7. \A k \in Nat : Worth[k] = IF k = 0 THEN Unit ELSE Unit * Worth[k - 1]
  BY <1>6, Zenon
<1> DEFINE T == {k \in Nat : Worth[k] \in Nat}
<1>8. T = Nat
  <2>1. ASSUME NEW k \in Nat, \A j \in Nat : j < k => j \in T PROVE k \in T
    <3>1. CASE k = 0
      BY <1>7, <3>1, SizeAssumption
    <3>2. CASE k # 0
      <4>1. k - 1 \in Nat /\ k - 1 < k
        BY <3>2
      <4> QED BY <1>7, <2>1, <3>2, <4>1, TimesType
    <3> QED BY <3>1, <3>2
  <2> HIDE DEF T
  <2>2. T \in SUBSET Nat
    BY DEF T
  <2> QED BY <2>1, <2>2, Induction
<1>9. Worth \in [Nat -> Nat]
  BY <1>6, <1>8
<1>10. ASSUME NEW k \in Nat PROVE Worth[k + 1] = Unit * Worth[k]
  <2>1. k + 1 \in Nat /\ k + 1 # 0 /\ (k + 1) - 1 = k
    OBVIOUS
  <2> QED BY <1>7, <2>1
<1> QED BY <1>7, <1>9, <1>10
-----------------------------------------------------------------------------
(* What it computes *)

LEMMA Larger == \A n \in Nat : n <= Unit * n
BY SizeAssumption

LEMMA WorthAtLeast == \A k \in Nat : Unit <= Worth[k]
<1> DEFINE T == {k \in Nat : Unit <= Worth[k]}
<1>1. ASSUME NEW k \in Nat, \A j \in Nat : j < k => j \in T PROVE k \in T
  <2>1. CASE k = 0
    BY <2>1, WorthEquation, SizeAssumption
  <2>2. CASE k # 0
    <3>1. PICK j \in Nat : k = j + 1
      <4>1. k - 1 \in Nat /\ k = (k - 1) + 1
        BY <2>2
      <4> QED BY <4>1
    <3>2. Unit <= Worth[j] /\ Worth[j] \in Nat
      BY <1>1, <3>1, WorthEquation
    <3>3. Worth[k] = Unit * Worth[j] /\ Worth[k] \in Nat /\ Worth[j] <= Worth[k]
      BY <3>1, <3>2, WorthEquation, Larger
    <3> QED BY <3>2, <3>3, SizeAssumption
  <2> QED BY <2>1, <2>2
<1>2. T \in SUBSET Nat
  OBVIOUS
<1> HIDE DEF T
<1>3. T = Nat
  BY <1>1, <1>2, Induction
<1> QED BY <1>3 DEF T

LEMMA WorthGrows ==
    ASSUME NEW a \in Nat, NEW b \in Nat, a <= b
    PROVE  Worth[a] <= Worth[b]
<1> DEFINE T == {k \in Nat : a <= k => Worth[a] <= Worth[k]}
<1>1. ASSUME NEW k \in Nat, \A j \in Nat : j < k => j \in T PROVE k \in T
  <2>1. CASE k <= a
    <3>1. a <= k => a = k
      BY <2>1
    <3>2. Worth[a] \in Nat
      BY WorthEquation
    <3> QED BY <3>1, <3>2
  <2>2. CASE ~(k <= a)
    <3>1. PICK j \in Nat : k = j + 1
      <4>1. k - 1 \in Nat /\ k = (k - 1) + 1
        BY <2>2
      <4> QED BY <4>1
    <3>2. Worth[a] <= Worth[j] /\ Worth[j] \in Nat /\ Worth[a] \in Nat
      BY <1>1, <2>2, <3>1, WorthEquation
    <3>3. Worth[k] = Unit * Worth[j] /\ Worth[k] \in Nat /\ Worth[j] <= Worth[k]
      BY <3>1, <3>2, WorthEquation, Larger
    <3> QED BY <3>2, <3>3
  <2> QED BY <2>1, <2>2
<1>2. T \in SUBSET Nat
  OBVIOUS
<1> HIDE DEF T
<1>3. T = Nat
  BY <1>1, <1>2, Induction
<1> QED BY <1>3 DEF T

\* div and exp go together: the one counts the factors of the other.
LEMMA ProductIsWorth == \A n \in Nat : Product[n] = Worth[Divisions[n]]
<1> DEFINE T == {n \in Nat : Product[n] = Worth[Divisions[n]]}
<1>1. \A n \in Nat : n < Unit => n \in T
  BY DivisionsEquation, ProductEquation, WorthEquation
<1>2. ASSUME NEW n \in Nat, n >= Unit, n \div Unit \in T PROVE n \in T
  <2> DEFINE q == n \div Unit
  <2>1. q \in Nat /\ Product[q] = Worth[Divisions[q]]
    BY <1>2
  <2>2. Divisions[q] \in Nat /\ Divisions[n] = 1 + Divisions[q] /\ Product[n] = Unit * Product[q]
    <3>1. ~(n < Unit)
      BY <1>2, SizeAssumption
    <3>2. Divisions[n] = 1 + Divisions[q] /\ Product[n] = Unit * Product[q]
      BY <3>1, DivisionsEquation, ProductEquation
    <3> QED BY <2>1, <3>2, DivisionsEquation
  <2>3. Worth[Divisions[q] + 1] = Unit * Worth[Divisions[q]]
    BY <2>2, WorthEquation
  <2>4. Divisions[n] = Divisions[q] + 1
    BY <2>2
  <2> HIDE DEF q
  <2> QED BY <2>1, <2>2, <2>3, <2>4
<1>3. T \in SUBSET Nat
  OBVIOUS
<1> HIDE DEF T
<1>4. T = Nat
  BY <1>1, <1>2, <1>3, LoopInduction
<1> QED BY <1>4 DEF T

\* The invariant of the loop, of the n2 that is left to divide.
LEMMA ProductBounds == \A n \in Nat : n >= 1 => Product[n] <= Unit * n /\ n < Product[n]
<1> DEFINE T == {n \in Nat : n >= 1 => Product[n] <= Unit * n /\ n < Product[n]}
<1>1. ASSUME NEW n \in Nat, n < Unit PROVE n \in T
  <2>1. Product[n] = Unit
    BY <1>1, ProductEquation
  <2>2. n >= 1 => Unit * 1 <= Unit * n
    BY Times
  <2> QED BY <1>1, <2>1, <2>2, SizeAssumption
<1>2. ASSUME NEW n \in Nat, n >= Unit, n \div Unit \in T PROVE n \in T
  <2> DEFINE q == n \div Unit
  <2>1. /\ q \in Nat /\ q >= 1 /\ Product[q] \in Nat
        /\ Unit * q <= n /\ n < Unit * q + Unit
    BY <1>2, Quotient, ProductEquation
  <2>2. Product[q] <= Unit * q /\ q + 1 <= Product[q]
    BY <1>2, <2>1
  <2>3. Product[n] = Unit * Product[q] /\ Product[n] \in Nat
    BY <1>2, <2>1, ProductEquation, SizeAssumption
  <2> HIDE DEF q
  <2>4. Unit * q \in Nat /\ Unit * n \in Nat
    BY <2>1, TimesType
  <2>5. Unit * Product[q] <= Unit * (Unit * q) /\ Unit * (Unit * q) <= Unit * n
    BY <2>1, <2>2, <2>4, Times
  <2>6. Unit * (q + 1) <= Unit * Product[q] /\ Unit * (q + 1) = Unit * q + Unit
    BY <2>1, <2>2, Times, SizeAssumption
  <2>7. Product[n] <= Unit * n
    BY <2>3, <2>4, <2>5, TimesType
  <2>8. n < Product[n]
    BY <2>1, <2>3, <2>4, <2>6, SizeAssumption
  <2> QED BY <2>7, <2>8
<1>3. T \in SUBSET Nat
  OBVIOUS
<1> HIDE DEF T
<1>4. T = Nat
  BY <1>1, <1>2, <1>3, LoopInduction
<1> QED BY <1>4 DEF T

\* The unit that is printed, for every size that has one.
LEMMA SizeOf ==
    ASSUME NEW n \in Nat, n >= Unit
    PROVE  /\ Exp(n) \in Nat /\ Div(n) \in Nat
           /\ Div(n) = Worth[Exp(n)]
           /\ Div(n) <= n /\ n < Unit * Div(n)
<1> DEFINE q == n \div Unit
<1>1. /\ q \in Nat /\ q >= 1
      /\ Unit * q <= n /\ n < Unit * q + Unit
  BY Quotient
<1>2. Product[q] \in Nat /\ Divisions[q] \in Nat
  BY <1>1, ProductEquation, DivisionsEquation
<1>3. Exp(n) = Divisions[q] /\ Div(n) = Product[q]
  BY DEF Exp, Div
<1> HIDE DEF q
<1>4. Product[q] <= Unit * q /\ q + 1 <= Product[q]
  BY <1>1, <1>2, ProductBounds
<1>5. Product[q] <= n
  BY <1>1, <1>2, <1>4, TimesType
<1>6. Unit * (q + 1) <= Unit * Product[q] /\ Unit * (q + 1) = Unit * q + Unit
  BY <1>1, <1>2, <1>4, Times, SizeAssumption
<1>7. n < Unit * Product[q]
  BY <1>1, <1>2, <1>6, TimesType, SizeAssumption
<1>8. Product[q] = Worth[Divisions[q]]
  BY <1>1, ProductIsWorth
<1> QED BY <1>2, <1>3, <1>5, <1>7, <1>8

\* The sizes that have one.
LEMMA PrintableSizes ==
    ASSUME NEW n \in Int
    PROVE  Printable(n) <=> n < Worth[Units]
<1>1. Units \in Nat /\ Worth[Units] \in Nat /\ Unit <= Worth[Units] /\ Unit \in Nat
  BY SizeAssumption, WorthEquation, WorthAtLeast
<1>2. CASE n < Unit
  BY <1>1, <1>2 DEF Printable
<1>3. CASE n >= Unit
  <2>1. n \in Nat
    BY <1>1, <1>3
  <2>2. /\ Exp(n) \in Nat /\ Worth[Exp(n)] \in Nat
        /\ Worth[Exp(n)] <= n /\ n < Unit * Worth[Exp(n)]
    BY <1>3, <2>1, SizeOf
  <2>3. Worth[Exp(n) + 1] = Unit * Worth[Exp(n)] /\ Worth[Exp(n) + 1] \in Nat
    BY <2>2, WorthEquation
  <2>4. CASE Exp(n) < Units
    <3>1. Worth[Exp(n) + 1] <= Worth[Units]
      BY <1>1, <2>2, <2>4, WorthGrows
    <3>2. n < Worth[Units]
      BY <1>1, <2>1, <2>2, <2>3, <3>1
    <3> QED BY <2>4, <3>2 DEF Printable
  <2>5. CASE ~(Exp(n) < Units)
    <3>1. Worth[Units] <= Worth[Exp(n)]
      BY <1>1, <2>2, <2>5, WorthGrows
    <3>2. ~(n < Worth[Units]) /\ ~(n < Unit)
      BY <1>1, <1>3, <2>1, <2>2, <3>1
    <3> QED BY <2>5, <3>2 DEF Printable
  <2> QED BY <2>4, <2>5
<1> QED BY <1>1, <1>2, <1>3
-----------------------------------------------------------------------------
(* The sum of the files *)

\* The element that the fold of the library takes out of a set of indices.
Some(s) == CHOOSE i \in s : TRUE

LEMMA OneLess ==
    ASSUME NEW k \in Nat, NEW s \in SUBSET (1..k)
    PROVE  /\ Cardinality(s) \in Nat
           /\ s # {} => /\ Some(s) \in 1..k /\ s \ {Some(s)} \in SUBSET (1..k)
                        /\ Cardinality(s \ {Some(s)}) \in Nat
                        /\ Cardinality(s \ {Some(s)}) < Cardinality(s)
<1>1. ASSUME NEW t \in SUBSET (1..k) PROVE IsFiniteSet(t) /\ Cardinality(t) \in Nat
  <2>1. IsFiniteSet(1..k)
    BY FS_Interval
  <2> QED BY <2>1, FS_Subset, FS_CardinalityType
<1>2. ASSUME s # {}
      PROVE  /\ Some(s) \in 1..k /\ s \ {Some(s)} \in SUBSET (1..k)
             /\ Cardinality(s \ {Some(s)}) \in Nat
             /\ Cardinality(s \ {Some(s)}) < Cardinality(s)
  <2>1. Some(s) \in s
    BY <1>2 DEF Some
  <2>2. Cardinality(s \ {Some(s)}) = Cardinality(s) - 1
    BY <1>1, <2>1, FS_RemoveElement
  <2>3. s \ {Some(s)} \in SUBSET (1..k) /\ Some(s) \in 1..k
    BY <2>1
  <2>4. Cardinality(s \ {Some(s)}) \in Nat /\ Cardinality(s) \in Nat
    BY <1>1, <2>3
  <2> QED BY <2>2, <2>3, <2>4
<1> QED BY <1>1, <1>2

\* The sum before it wraps.
SumOf(f) == FoldSeq(LAMBDA s, n : n + s, 0, f)

\* The recursion of the library's fold.
Folds(g, f) ==
    g = [s \in SUBSET DOMAIN f |-> IF s = {} THEN 0 ELSE
            g[s \ {CHOOSE x \in s : TRUE}] + f[CHOOSE x \in s : TRUE]]

\* What FoldSeq stands for, once a function of this recursion exists.
LEMMA FoldUnfolds ==
    ASSUME NEW f, NEW h, Folds(h, f)
    PROVE  \E g : Folds(g, f) /\ SumOf(f) = g[DOMAIN f]
BY Zenon DEF SumOf, Folds, FoldSeq, FoldFunction, FoldFunctionOnSet, MapThenFoldSet

\* The sum that FoldSeq makes of a finite list of sizes is a size.
LEMMA SumIsNat ==
    ASSUME NEW k \in Nat, NEW f \in [1..k -> Nat]
    PROVE  SumOf(f) \in Nat
<1> DEFINE X == SUBSET (1..k)
           pred == [s \in X |-> s \ {Some(s)}]
           rank == [s \in X |-> Cardinality(s)]
           step == [s \in X |-> [m \in Nat |-> IF s = {} THEN 0 ELSE m + f[Some(s)]]]
<1>1. pred \in [X -> X] /\ rank \in [X -> Nat]
  BY OneLess
<1>2. ASSUME NEW s \in X \ {{}} PROVE rank[pred[s]] < rank[s]
  <2>1. rank[pred[s]] = Cardinality(s \ {Some(s)}) /\ rank[s] = Cardinality(s)
    BY <1>2
  <2> QED BY <1>2, <2>1, OneLess
<1>3. step \in [X -> [Nat -> Nat]]
  <2>1. ASSUME NEW s \in X, NEW m \in Nat
        PROVE  (IF s = {} THEN 0 ELSE m + f[Some(s)]) \in Nat
    <3>1. CASE s = {}
      BY <3>1
    <3>2. CASE s # {}
      <4>1. f[Some(s)] \in Nat
        BY <3>2, OneLess
      <4> QED BY <3>2, <4>1
    <3> QED BY <3>1, <3>2
  <2> QED BY <2>1
<1>4. \A s \in X, m \in Nat : s # {} => pred[s] = s \ {Some(s)} /\ step[s][m] = m + f[Some(s)]
  OBVIOUS
<1> HIDE DEF pred, rank, step
<1>5. WellDefined(X, Nat, {{}}, 0, pred, step, rank)
  BY <1>1, <1>2, <1>3 DEF WellDefined
<1> HIDE DEF X
<1>6. PICK h \in [X -> Nat] : \A s \in X : Equation(h, s, {{}}, 0, pred, step)
  BY <1>5, Existence
<1> USE DEF X
<1>7. h = [s \in X |-> IF s = {} THEN 0 ELSE h[s \ {Some(s)}] + f[Some(s)]]
  <2>1. ASSUME NEW s \in X
        PROVE  h[s] = IF s = {} THEN 0 ELSE h[s \ {Some(s)}] + f[Some(s)]
    <3>1. CASE s = {}
      BY <1>6, <3>1 DEF Equation
    <3>2. CASE s # {}
      <4>1. h[s] = step[s][h[pred[s]]] /\ h[pred[s]] \in Nat
        BY <1>1, <1>6, <3>2 DEF Equation
      <4> QED BY <1>4, <3>2, <4>1
    <3> QED BY <3>1, <3>2
  <2> QED BY <2>1
<1>8. PICK g : /\ g = [s \in X |-> IF s = {} THEN 0 ELSE g[s \ {Some(s)}] + f[Some(s)]]
               /\ SumOf(f) = g[1..k]
  <2>1. DOMAIN f = 1..k
    OBVIOUS
  <2>2. Folds(h, f)
    BY <1>7, <2>1, Zenon DEF Folds, Some
  <2>3. PICK g : Folds(g, f) /\ SumOf(f) = g[DOMAIN f]
    BY <2>2, FoldUnfolds
  <2>4. g = [s \in X |-> IF s = {} THEN 0 ELSE g[s \ {Some(s)}] + f[Some(s)]]
    BY <2>1, <2>3, Zenon DEF Folds, Some
  <2>5. SumOf(f) = g[1..k]
    BY <2>1, <2>3, Zenon
  <2> QED BY <2>4, <2>5, Zenon
<1>9. \A s \in X : g[s] = IF s = {} THEN 0 ELSE g[s \ {Some(s)}] + f[Some(s)]
  BY <1>8, Zenon
<1> HIDE DEF X
<1> DEFINE T == {n \in Nat : \A s \in X : Cardinality(s) = n => g[s] \in Nat}
<1>10. ASSUME NEW n \in Nat, \A j \in Nat : j < n => j \in T PROVE n \in T
  <2> SUFFICES ASSUME NEW s \in X, Cardinality(s) = n PROVE g[s] \in Nat
    OBVIOUS
  <2>1. CASE s = {}
    <3>1. g[s] = 0
      BY <1>9, <2>1
    <3> QED BY <3>1
  <2>2. CASE s # {}
    <3>1. g[s] = g[s \ {Some(s)}] + f[Some(s)]
      BY <1>9, <2>2
    <3>2. f[Some(s)] \in Nat
      BY <2>2, OneLess DEF X
    <3>3. g[s \ {Some(s)}] \in Nat
      <4>1. /\ s \ {Some(s)} \in X /\ Cardinality(s \ {Some(s)}) \in Nat
            /\ Cardinality(s \ {Some(s)}) < n
        BY <2>2, OneLess DEF X
      <4> QED BY <1>10, <4>1
    <3> QED BY <3>1, <3>2, <3>3
  <2> QED BY <2>1, <2>2
<1>11. T = Nat
  <2>1. T \in SUBSET Nat
    OBVIOUS
  <2> HIDE DEF T
  <2> QED BY <1>10, <2>1, Induction
<1>12. g[1..k] \in Nat
  <2>1. 1..k \in X /\ Cardinality(1..k) \in Nat
    BY OneLess DEF X
  <2> QED BY <1>11, <2>1
<1> QED BY <1>8, <1>12, Zenon

\* A sum wraps to an int64, whatever it is.
LEMMA WrapType ==
    ASSUME NEW n \in Int
    PROVE  /\ Wrap(n) \in -(IntMax + 1)..IntMax
           /\ n \in 0..IntMax => Wrap(n) = n
<1> DEFINE m == 2 * IntMax + 2
<1>1. m \in Nat \ {0} /\ n + IntMax + 1 \in Int
  BY IntAssumption
<1> HIDE DEF m
<1>2. (n + IntMax + 1) % m \in 0..(m - 1)
  BY <1>1
<1>3. ASSUME NEW a \in Nat, a < m PROVE a % m = a
  BY <1>1, <1>3
<1> USE DEF m
<1>4. Wrap(n) \in -(IntMax + 1)..IntMax
  BY <1>2, IntAssumption DEF Wrap
<1>5. ASSUME n \in 0..IntMax PROVE Wrap(n) = n
  <2>1. (n + IntMax + 1) % m = n + IntMax + 1
    BY <1>3, <1>5, IntAssumption
  <2> QED BY <1>5, <2>1, IntAssumption DEF Wrap
<1> QED BY <1>4, <1>5

\* The size of a torrent is an int64, and the sum of its files when that is one.
LEMMA TotalType ==
    ASSUME NEW k \in Nat, NEW f \in [1..k -> Nat]
    PROVE  /\ Total(f) \in -(IntMax + 1)..IntMax
           /\ SumOf(f) <= IntMax => Total(f) = SumOf(f)
<1>1. PICK v \in Nat : SumOf(f) = v
  BY SumIsNat, Zenon
<1>2. Total(f) = Wrap(v)
  BY <1>1, Zenon DEF Total, SumOf
<1>3. v <= IntMax => v \in 0..IntMax
  BY IntAssumption
<1> QED BY <1>1, <1>2, <1>3, WrapType
=============================================================================
