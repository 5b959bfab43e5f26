---------------------------- MODULE NatRecursion ----------------------------
(***************************************************************************)
(* Induction and primitive recursion over the naturals in first-order      *)
(* form: the property is a set and the step a function, so that the facts  *)
(* can be cited without instantiating an operator parameter.  The replay   *)
(* of the wallet's events (Wallet.Reconstitute) is such a recursion.       *)
(* Counting, for the invariants that bound copies by workers or members.   *)
(***************************************************************************)
EXTENDS Integers, FiniteSetTheorems, WellFoundedInduction, TLAPS

\* A non-empty set of naturals has a least element.
LEMMA NatLeast ==
  ASSUME NEW T \in SUBSET Nat, T # {}
  PROVE  \E n \in T : \A m \in T : n <= m
<1> DEFINE R == OpToRel(<, Nat)
<1>1. \E x \in T : \A y \in T : ~ (<<y, x>> \in R)
  <2>1. IsWellFoundedOn(R, Nat) BY NatLessThanWellFounded
  <2> HIDE DEF R
  <2> QED BY <2>1, WFMin
<1>2. \A x, y \in Nat : <<y, x>> \in R <=> y < x
  BY DEF OpToRel
<1> HIDE DEF R
<1>3. PICK x \in T : \A y \in T : ~ (<<y, x>> \in R)  BY <1>1
<1>4. \A y \in T : x <= y
  <2> TAKE y \in T
  <2>1. x \in Nat /\ y \in Nat  OBVIOUS
  <2>2. ~(y < x)  BY <1>2, <1>3, <2>1
  <2> QED BY <2>1, <2>2
<1> QED BY <1>4

\* Induction: a set that has 0 and the successor of each natural it has
\* contains every natural.
LEMMA SetInduction ==
  ASSUME NEW A, 0 \in A, \A n \in Nat : n \in A => n + 1 \in A
  PROVE  \A n \in Nat : n \in A
<1> DEFINE T == Nat \ A
<1>1. SUFFICES ASSUME T # {} PROVE FALSE OBVIOUS
<1>2. PICK n \in T : \A m \in T : n <= m
  <2> T \in SUBSET Nat OBVIOUS
  <2> HIDE DEF T
  <2> QED BY <1>1, NatLeast
<1>3. n # 0 /\ n - 1 \in Nat /\ n - 1 \notin T BY <1>2
<1>4. n \in A BY <1>3, (n - 1) + 1 = n
<1> QED BY <1>4

\* Functions that give the next value from the index and the value so far.
RecursionSteps(S) == [Nat \X S -> S]

\* f is the sequence of values that starts with x0 and steps with g.
IsRecursion(f, S, x0, g) ==
    /\ f \in [Nat -> S]
    /\ f[0] = x0
    /\ \A n \in Nat : f[n + 1] = g[<<n, f[n]>>]

\* A step function g and a first value x0 define a function on Nat: the loop
\* of Wallet.Reconstitute has a result for every number of iterations.
LEMMA PrimitiveRecursion ==
  ASSUME NEW S, NEW x0 \in S, NEW g \in RecursionSteps(S)
  PROVE  \E f : IsRecursion(f, S, x0, g)
<1>0. g \in [Nat \X S -> S]  BY DEF RecursionSteps
<1> DEFINE Good(n, f) == f[0] = x0 /\ \A i \in 0..(n - 1) : f[i + 1] = g[<<i, f[i]>>]
           A == {n \in Nat : \E f \in [0..n -> S] : Good(n, f)}
<1>1. \A n \in Nat : \E f \in [0..n -> S] : Good(n, f)
  <2>1. 0 \in A
    <3>1. [i \in 0..0 |-> x0] \in [0..0 -> S] /\ Good(0, [i \in 0..0 |-> x0])
      OBVIOUS
    <3> QED BY <3>1
  <2>2. ASSUME NEW n \in Nat, n \in A PROVE n + 1 \in A
    <3>1. PICK f \in [0..n -> S] : Good(n, f)  BY <2>2
    <3> DEFINE e == [i \in 0..(n + 1) |-> IF i <= n THEN f[i] ELSE g[<<n, f[n]>>]]
    <3>2. g[<<n, f[n]>>] \in S  BY <1>0
    <3>3. e \in [0..(n + 1) -> S]  BY <3>2
    <3>4. e[0] = x0  BY <3>1
    <3>5. ASSUME NEW i \in 0..n PROVE e[i + 1] = g[<<i, e[i]>>]
      <4>1. e[i] = f[i]  OBVIOUS
      <4>2. CASE i = n
        <5>1. e[n + 1] = g[<<n, f[n]>>]  OBVIOUS
        <5> HIDE DEF e
        <5> QED BY <4>1, <4>2, <5>1
      <4>3. CASE i # n
        <5>1. i \in 0..(n - 1) /\ i + 1 \in 0..n /\ i + 1 <= n BY <4>3
        <5>2. e[i + 1] = f[i + 1]  BY <5>1
        <5> QED BY <3>1, <4>1, <5>1, <5>2
      <4> QED BY <4>2, <4>3
    <3>6. Good(n + 1, e)
      <4> (n + 1) - 1 = n  OBVIOUS
      <4> HIDE DEF e
      <4> QED BY <3>4, <3>5
    <3> HIDE DEF Good, e
    <3> QED BY <3>3, <3>6
  <2>3. \A n \in Nat : n \in A
    <3> HIDE DEF A
    <3> QED BY <2>1, <2>2, SetInduction
  <2> HIDE DEF Good
  <2> QED BY <2>3
<1> DEFINE h(n) == CHOOSE f \in [0..n -> S] : Good(n, f)
<1>2. \A n \in Nat : h(n) \in [0..n -> S] /\ Good(n, h(n))
  <2> HIDE DEF Good
  <2> QED BY <1>1
<1> HIDE DEF h
<1>3. \A n \in Nat : \A i \in 0..n : h(n)[i] \in S  BY <1>2
<1>4. \A n \in Nat : \A i \in Nat : i < n => h(n)[i + 1] = g[<<i, h(n)[i]>>]
  BY <1>2
<1> DEFINE B == {i \in Nat : \A n, m \in Nat : i <= n /\ i <= m => h(n)[i] = h(m)[i]}
<1>5. \A i \in Nat : i \in B
  <2>1. 0 \in B  BY <1>2
  <2>2. ASSUME NEW i \in Nat, i \in B PROVE i + 1 \in B
    <3>1. SUFFICES ASSUME NEW n \in Nat, NEW m \in Nat, i + 1 <= n, i + 1 <= m
                   PROVE h(n)[i + 1] = h(m)[i + 1]
      OBVIOUS
    <3>2. h(n)[i] = h(m)[i]  BY <2>2, <3>1
    <3>3. i < n /\ i < m  BY <3>1
    <3>4. h(n)[i + 1] = g[<<i, h(n)[i]>>]  BY <1>4, <3>3
    <3>5. h(m)[i + 1] = g[<<i, h(m)[i]>>]  BY <1>4, <3>3
    <3> QED BY <3>2, <3>4, <3>5
  <2> HIDE DEF B
  <2> QED BY <2>1, <2>2, SetInduction
<1> DEFINE F == [n \in Nat |-> h(n)[n]]
<1>6. F \in [Nat -> S]  BY <1>3
<1>7. F[0] = x0  BY <1>2
<1>8. ASSUME NEW n \in Nat PROVE F[n + 1] = g[<<n, F[n]>>]
  <2>1. h(n + 1)[n + 1] = g[<<n, h(n + 1)[n]>>]  BY <1>4
  <2>2. h(n + 1)[n] = h(n)[n]  BY <1>5
  <2> QED BY <2>1, <2>2
<1> HIDE DEF F
<1>9. IsRecursion(F, S, x0, g)  BY <1>6, <1>7, <1>8 DEF IsRecursion
<1> QED BY <1>9

-----------------------------------------------------------------------------
(* Counting.                                                               *)

\* Subsets of a finite set can be counted: how one more or one less element
\* changes a bound.
LEMMA CountSubsets ==
    ASSUME NEW S, IsFiniteSet(S), NEW P \in SUBSET S, NEW Q \in SUBSET S
    PROVE  /\ Cardinality(P) \in Nat /\ Cardinality(Q) \in Nat
           /\ P \subseteq Q => Cardinality(P) <= Cardinality(Q)
           /\ \A w \in S : /\ w \notin P /\ P \cup {w} \subseteq Q => Cardinality(P) + 1 <= Cardinality(Q)
                           /\ P \ {w} \subseteq Q => Cardinality(P) <= Cardinality(Q) + 1
<1>1. IsFiniteSet(P) /\ IsFiniteSet(Q)
    BY FS_Subset
<1>2. Cardinality(P) \in Nat /\ Cardinality(Q) \in Nat
    BY <1>1, FS_CardinalityType
<1>3. \A R \in SUBSET S : R \subseteq Q => Cardinality(R) <= Cardinality(Q)
    BY <1>1, FS_Subset
<1>4. ASSUME NEW w \in S, w \notin P, P \cup {w} \subseteq Q
      PROVE  Cardinality(P) + 1 <= Cardinality(Q)
    <2>1. Cardinality(P \cup {w}) = Cardinality(P) + 1
        BY <1>1, <1>4, FS_AddElement
    <2> QED BY <1>3, <1>4, <2>1
<1>5. ASSUME NEW w \in S, P \ {w} \subseteq Q
      PROVE  Cardinality(P) <= Cardinality(Q) + 1
    <2>1. CASE w \in P
        <3>1. Cardinality(P \ {w}) = Cardinality(P) - 1
            BY <1>1, <2>1, FS_RemoveElement
        <3>2. Cardinality(P \ {w}) <= Cardinality(Q)
            BY <1>3, <1>5
        <3> QED BY <1>2, <3>1, <3>2
    <2>2. CASE w \notin P
        <3>1. Cardinality(P) <= Cardinality(Q)
            BY <1>3, <1>5, <2>2
        <3> QED BY <1>2, <3>1
    <2> QED BY <2>1, <2>2
<1> QED BY <1>2, <1>3, <1>4, <1>5

=============================================================================
