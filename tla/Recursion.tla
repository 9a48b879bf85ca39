----------------------------- MODULE Recursion -----------------------------
(***************************************************************************)
(* What a recursive function is, for the proofs about the loops of the     *)
(* code.  f[x \in X] == ... means CHOOSE f : f = [x \in X |-> ...], which  *)
(* says something only when such a function exists.  The lemmas below are  *)
(* about the recursion of a loop: each x outside Base goes on with         *)
(* pred[x], of a smaller rank, and step combines the result with x.  All   *)
(* of it are functions and sets, not operators, so a proof can instantiate *)
(* the lemmas.                                                             *)
(***************************************************************************)
EXTENDS Integers, WellFoundedInduction, TLAPS

\* Induction, as the least counterexample.
LEMMA Least ==
    ASSUME NEW T \in SUBSET Nat, T # {}
    PROVE  \E m \in T : \A k \in T : m <= k
<1> DEFINE R == OpToRel(<, Nat)
<1>1. IsWellFoundedOn(R, Nat)
  BY NatLessThanWellFounded
<1>2. R = {ss \in Nat \X Nat : ss[1] < ss[2]}
  BY DEF OpToRel
<1> HIDE DEF R
<1>3. PICK m \in T : \A k \in T : <<k, m>> \notin R
  BY <1>1, WFMin
<1>4. ASSUME NEW k \in T PROVE m <= k
  <2>1. <<k, m>> \in Nat \X Nat /\ <<k, m>> \notin R
    BY <1>3
  <2>2. ~(k < m)
    BY <1>2, <2>1
  <2> QED BY <2>2
<1> QED BY <1>4

\* The same as a principle of induction: T is what is to be shown of every n.
LEMMA Induction ==
    ASSUME NEW T \in SUBSET Nat,
           \A n \in Nat : (\A k \in Nat : k < n => k \in T) => n \in T
    PROVE  T = Nat
<1> DEFINE C == Nat \ T
<1> SUFFICES ASSUME C # {} PROVE FALSE
  OBVIOUS
<1>1. PICK m \in C : \A k \in C : m <= k
  <2>1. C \in SUBSET Nat
    OBVIOUS
  <2> HIDE DEF C
  <2> QED BY <2>1, Least
<1>2. ASSUME NEW k \in Nat, k < m PROVE k \in T
  <2>1. m \in Nat /\ ~(m <= k)
    BY <1>1, <1>2
  <2> QED BY <1>1, <2>1
<1> QED BY <1>1, <1>2

\* The definition's equation, at one x.
Equation(h, x, Base, base, pred, step) ==
    h[x] = IF x \in Base THEN base ELSE step[x][h[pred[x]]]

\* The recursion ends, and stays among the values V.
WellDefined(X, V, Base, base, pred, step, rank) ==
    /\ base \in V /\ step \in [X -> [V -> V]]
    /\ pred \in [X -> X] /\ rank \in [X -> Nat]
    /\ \A x \in X \ Base : rank[pred[x]] < rank[x]

\* Two functions that satisfy the equation agree.
LEMMA Agreement ==
    ASSUME NEW X, NEW V, NEW Base, NEW base, NEW pred, NEW step, NEW rank,
           WellDefined(X, V, Base, base, pred, step, rank),
           NEW g, NEW h, NEW D \in SUBSET X,
           \A x \in D \ Base : pred[x] \in D,
           \A x \in D : /\ Equation(g, x, Base, base, pred, step)
                        /\ Equation(h, x, Base, base, pred, step)
    PROVE  \A x \in D : g[x] = h[x]
<1> DEFINE T == {rank[x] : x \in {y \in D : g[y] # h[y]}}
<1> SUFFICES ASSUME T # {} PROVE FALSE
  OBVIOUS
<1>1. T \in SUBSET Nat
  BY DEF WellDefined
<1>2. PICK m \in T : \A k \in T : m <= k
  BY <1>1, Least
<1>3. PICK x \in D : g[x] # h[x] /\ m = rank[x]
  OBVIOUS
<1>4. x \notin Base
  BY <1>3 DEF Equation
<1>5. g[pred[x]] # h[pred[x]]
  BY <1>3, <1>4 DEF Equation
<1>6. pred[x] \in D /\ rank[pred[x]] < rank[x] /\ rank[pred[x]] \in Nat /\ rank[x] \in Nat
  BY <1>4 DEF WellDefined
<1>7. rank[pred[x]] \in T
  BY <1>5, <1>6
<1>8. rank[x] <= rank[pred[x]]
  BY <1>2, <1>3, <1>7
<1> QED BY <1>6, <1>8

\* The function exists, and its values are in V.
LEMMA Existence ==
    ASSUME NEW X, NEW V, NEW Base, NEW base, NEW pred, NEW step, NEW rank,
           WellDefined(X, V, Base, base, pred, step, rank)
    PROVE  \E h \in [X -> V] : \A x \in X : Equation(h, x, Base, base, pred, step)
<1> DEFINE Below(n) == {x \in X : rank[x] < n}
           Partial(n) == {g \in [Below(n) -> V] :
                            \A x \in Below(n) : Equation(g, x, Base, base, pred, step)}
           Holes == {n \in Nat : Partial(n) = {}}
<1>0. /\ base \in V /\ step \in [X -> [V -> V]]
      /\ pred \in [X -> X] /\ rank \in [X -> Nat]
      /\ \A x \in X \ Base : rank[pred[x]] < rank[x]
  BY DEF WellDefined
<1>1. ASSUME NEW n \in Nat, NEW x \in Below(n) \ Base
      PROVE  pred[x] \in Below(n) /\ \A m \in Nat : n = m + 1 => pred[x] \in Below(m)
  <2>1. x \in X /\ pred[x] \in X /\ rank[pred[x]] \in Nat /\ rank[x] \in Nat
        /\ rank[pred[x]] < rank[x] /\ rank[x] < n
    BY <1>0, <1>1
  <2> QED BY <2>1
<1>2. Holes = {}
  <2> SUFFICES ASSUME Holes # {} PROVE FALSE
    OBVIOUS
  <2>1. PICK n \in Holes : \A k \in Holes : n <= k
    <3>1. Holes \in SUBSET Nat
      OBVIOUS
    <3> HIDE DEF Holes
    <3> QED BY <3>1, Least
  <2>2. CASE n = 0
    <3> DEFINE g == [x \in Below(n) |-> base]
    <3>1. Below(n) = {}
      BY <1>0, <2>2
    <3>2. g \in Partial(n)
      BY <1>0, <3>1
    <3> QED BY <2>1, <3>2
  <2>3. CASE n # 0
    <3>1. PICK m \in Nat : n = m + 1
      <4>1. n \in Nat
        BY <2>1
      <4>2. n - 1 \in Nat /\ n = (n - 1) + 1
        BY <2>3, <4>1
      <4> QED BY <4>2
    <3>2. PICK g \in Partial(m) : TRUE
      <4>1. m \notin Holes
        <5> HIDE DEF Holes
        <5> QED BY <2>1, <3>1
      <4> QED BY <4>1
    <3> DEFINE h == [x \in Below(n) |-> IF x \in Base THEN base ELSE step[x][g[pred[x]]]]
    <3>3. ASSUME NEW x \in Below(n) \ Base PROVE pred[x] \in Below(m) /\ g[pred[x]] \in V
      <4>1. pred[x] \in Below(m)
        BY <1>1, <2>1, <3>1, <3>3
      <4>2. g \in [Below(m) -> V]
        BY <3>2
      <4> HIDE DEF Below
      <4> QED BY <4>1, <4>2
    <3>4. h \in [Below(n) -> V]
      BY <1>0, <3>3
    <3>5. Below(m) \subseteq Below(n)
      BY <1>0, <3>1
    <3>6. ASSUME NEW y \in Below(m) PROVE h[y] = g[y]
      <4>1. Equation(g, y, Base, base, pred, step)
        BY <3>2, <3>6
      <4>2. y \in Below(n)
        BY <3>5, <3>6
      <4> HIDE DEF Below
      <4> QED BY <4>1, <4>2 DEF Equation
    <3>7. ASSUME NEW x \in Below(n) PROVE Equation(h, x, Base, base, pred, step)
      <4>1. CASE x \in Base
        BY <4>1 DEF Equation
      <4>2. CASE x \notin Base
        <5>1. h[pred[x]] = g[pred[x]]
          BY <3>3, <3>6, <4>2
        <5>2. h[x] = step[x][g[pred[x]]]
          BY <4>2
        <5> QED BY <4>2, <5>1, <5>2 DEF Equation
      <4> QED BY <4>1, <4>2
    <3>8. h \in Partial(n)
      BY <3>4, <3>7
    <3> QED BY <2>1, <3>8
  <2> QED BY <2>2, <2>3
<1> DEFINE G == [n \in Nat |-> CHOOSE g : g \in Partial(n)]
           h == [x \in X |-> G[rank[x] + 1][x]]
<1>3. ASSUME NEW n \in Nat PROVE G[n] \in Partial(n)
  BY <1>2
<1>4. ASSUME NEW x \in X
      PROVE  /\ rank[x] + 1 \in Nat /\ x \in Below(rank[x] + 1)
             /\ G[rank[x] + 1] \in Partial(rank[x] + 1)
  <2>1. rank[x] \in Nat
    BY <1>0
  <2>2. rank[x] + 1 \in Nat /\ x \in Below(rank[x] + 1)
    BY <2>1
  <2> HIDE DEF Below, Partial, G
  <2> QED BY <1>3, <2>2
<1>5. ASSUME NEW x \in X PROVE h[x] \in V /\ Equation(h, x, Base, base, pred, step)
  <2> DEFINE n == rank[x] + 1
             g == G[n]
  <2>1. n \in Nat /\ x \in Below(n) /\ g \in [Below(n) -> V] /\ h[x] = g[x]
        /\ \A y \in Below(n) : Equation(g, y, Base, base, pred, step)
    BY <1>4, <1>5
  <2>2. h[x] \in V
    <3> HIDE DEF Below, g, h
    <3> QED BY <2>1
  <2>3. Equation(g, x, Base, base, pred, step)
    BY <2>1
  <2>4. CASE x \in Base
    BY <2>1, <2>3, <2>4 DEF Equation
  <2>5. CASE x \notin Base
    <3> DEFINE y == pred[x]
               m == rank[y] + 1
               f == G[m]
               D == Below(m)
    <3>1. y \in X /\ m \in Nat /\ D \in SUBSET X /\ y \in D /\ m <= n /\ h[y] = f[y]
      <4>1. y \in X /\ rank[y] \in Nat /\ rank[x] \in Nat /\ rank[y] < rank[x]
        BY <1>0, <1>5, <2>5
      <4>2. h[y] = f[y]
        BY <4>1
      <4> HIDE DEF h, f
      <4> QED BY <4>1, <4>2
    <3>2. \A z \in D : Equation(f, z, Base, base, pred, step)
      BY <1>4, <3>1
    <3>3. D \subseteq Below(n)
      BY <1>0, <2>1, <3>1
    <3>4. \A z \in D : Equation(g, z, Base, base, pred, step)
      BY <2>1, <3>3
    <3>5. \A z \in D \ Base : pred[z] \in D
      BY <1>1, <3>1
    <3> HIDE DEF Below, Partial, Holes, G, h, g, f, D, m
    <3>6. \A z \in D : /\ Equation(f, z, Base, base, pred, step)
                       /\ Equation(g, z, Base, base, pred, step)
      BY <3>2, <3>4
    <3>7. \A z \in D : f[z] = g[z]
      BY <3>1, <3>5, <3>6, Agreement, Z3
    <3>8. f[y] = g[y]
      BY <3>1, <3>7
    <3> QED BY <2>1, <2>3, <2>5, <3>1, <3>8 DEF Equation
  <2> QED BY <2>2, <2>4, <2>5
<1>6. h \in [X -> V]
  BY <1>5
<1> HIDE DEF h
<1> QED BY <1>5, <1>6
=============================================================================
