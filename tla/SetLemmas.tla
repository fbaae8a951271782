----------------------------- MODULE SetLemmas -----------------------------
(***************************************************************************)
(* Least and greatest elements, and sums over finite sets.                 *)
(*                                                                         *)
(* SumFunctionOnSet is a fold, and what a fold computes for every set is   *)
(* proved by first-order means: a set of subsets has a least element, so   *)
(* the equations of a sum have one solution (SumIs).  From there on a sum  *)
(* of natural numbers is a cardinality (SumIsUnits).                       *)
(***************************************************************************)
EXTENDS FiniteSetsExt, FiniteSetTheorems, WellFoundedInduction, TLAPS

LEMMA LessThan ==
  \E R : IsWellFoundedOn(R, Nat) /\ \A x, y \in Nat : y < x => <<y, x>> \in R
  <1> DEFINE R == OpToRel(<, Nat)
  <1>1. IsWellFoundedOn(R, Nat)
    BY NatLessThanWellFounded, Zenon
  <1>2. \A x, y \in Nat : y < x => <<y, x>> \in R
    BY DEF OpToRel
  <1> HIDE DEF R
  <1> QED BY <1>1, <1>2

LEMMA LeastExists ==
  ASSUME NEW S, S \subseteq Nat, S # {}
  PROVE  \E m \in S : \A y \in S : m <= y
  <1> PICK R : /\ IsWellFoundedOn(R, Nat)
               /\ \A x, y \in Nat : y < x => <<y, x>> \in R
    BY LessThan
  <1> PICK m \in S : \A y \in S : ~(<<y, m>> \in R)
    BY WFMin
  <1>1. \A y \in S : m <= y
    <2> SUFFICES ASSUME NEW y \in S, y < m PROVE FALSE
      OBVIOUS
    <2> QED OBVIOUS
  <1> QED BY <1>1

\* A set of naturals up to n has a greatest element: n less the least of the
\* distances from n.
LEMMA MaxIsGreatest ==
  ASSUME NEW n \in Nat, NEW S, S \subseteq 0 .. n, S # {}
  PROVE  Max(S) \in S /\ \A y \in S : y <= Max(S)
  <1> DEFINE T == {n - s : s \in S}
  <1>1. \A s \in S : n - s \in T
    OBVIOUS
  <1>2. T \subseteq Nat
    <2> SUFFICES ASSUME NEW s \in S PROVE n - s \in Nat
      OBVIOUS
    <2> QED OBVIOUS
  <1>3. T # {}
    BY <1>1
  <1> PICK R : /\ IsWellFoundedOn(R, Nat)
               /\ \A x, y \in Nat : y < x => <<y, x>> \in R
    BY LessThan
  <1> PICK m \in T : \A y \in T : ~(<<y, m>> \in R)
    <2> HIDE DEF T
    <2> QED BY <1>2, <1>3, WFMin
  <1> PICK s \in S : m = n - s
    OBVIOUS
  <1> HIDE DEF T
  <1>4. \A y \in S : y <= s
    <2> SUFFICES ASSUME NEW y \in S, y > s PROVE FALSE
      OBVIOUS
    <2>1. n - y \in T /\ n - y < m
      BY <1>1
    <2> QED BY <1>2, <2>1
  <1> QED BY <1>4 DEF Max

-----------------------------------------------------------------------------
\* Of the subsets of a finite set there is one that contains no other.
LEMMA LeastSubset ==
  ASSUME NEW S, IsFiniteSet(S), NEW X, X \subseteq SUBSET S, X # {}
  PROVE  \E T \in X : \A U \in X : U \subseteq T => U = T
  <1> PICK R : R = StrictSubsetOrdering(S)
    OBVIOUS
  <1>1. IsWellFoundedOn(R, SUBSET S)
    BY FS_StrictSubsetOrderingWellFounded, FS_FiniteSubsetsOfFinite
  <1> PICK T \in X : \A U \in X : ~(<<U, T>> \in R)
    BY <1>1, WFMin
  <1>2. ASSUME NEW U \in X, U \subseteq T, U # T PROVE FALSE
    BY <1>2 DEF StrictSubsetOrdering
  <1> QED BY <1>2

\* A function into the integers takes a greatest value on a finite set: where
\* the fewest elements are above.
LEMMA GreatestValue ==
  ASSUME NEW S, IsFiniteSet(S), S # {}, NEW f, \A x \in S : f[x] \in Int
  PROVE  \E x \in S : \A y \in S : f[y] <= f[x]
  <1> DEFINE Above(x) == {y \in S : f[y] > f[x]}
  <1> DEFINE X == {Above(x) : x \in S}
  <1>1. X \subseteq SUBSET S /\ X # {}
    OBVIOUS
  <1>2. \E T \in X : \A U \in X : U \subseteq T => U = T
    <2> HIDE DEF X
    <2> QED BY <1>1, LeastSubset
  <1> PICK T \in X : \A U \in X : U \subseteq T => U = T
    BY <1>2
  <1> PICK x \in S : T = Above(x)
    OBVIOUS
  <1>3. ASSUME NEW y \in S, f[y] > f[x] PROVE FALSE
    <2>1. Above(y) \subseteq T /\ Above(y) \in X
      BY <1>3
    <2>2. y \in Above(x) /\ y \notin Above(y)
      BY <1>3
    <2> HIDE DEF Above
    <2> QED BY <2>1, <2>2
  <1> QED BY <1>3

\* h[T] is the sum of g over T, for every subset T of S.
Sums(g, S, h) ==
  /\ h \in [SUBSET S -> Nat] /\ h[{}] = 0
  /\ \A T \in SUBSET S : \A x \in T : h[T] = g[x] + h[T \ {x}]

\* One step of the fold, on f.
Unfold(g, S, f) ==
  [s \in SUBSET S |->
     IF s = {} THEN 0
     ELSE LET x == CHOOSE x \in s : TRUE IN g[x] + f[s \ {x}]]

LEMMA SumsUnfold ==
  ASSUME NEW S, NEW g, NEW h, Sums(g, S, h)
  PROVE  h = Unfold(g, S, h)
  <1>1. ASSUME NEW s \in SUBSET S PROVE h[s] = Unfold(g, S, h)[s]
    <2>1. CASE s = {}
      BY <2>1 DEF Sums, Unfold
    <2>2. CASE s # {}
      <3> PICK x : x = CHOOSE y \in s : TRUE
        OBVIOUS
      <3>1. x \in s
        BY <2>2
      <3> QED BY <2>2, <3>1 DEF Sums, Unfold
    <2> QED BY <2>1, <2>2
  <1> QED BY <1>1 DEF Unfold, Sums

LEMMA FoldUnfolds ==
  ASSUME NEW S, NEW g, NEW k, k = Unfold(g, S, k)
  PROVE  \E f : f = Unfold(g, S, f) /\ SumFunctionOnSet(g, S) = f[S]
  <1>1. SumFunctionOnSet(g, S) = (CHOOSE f : f = Unfold(g, S, f))[S]
    BY DEF SumFunctionOnSet, FoldFunctionOnSet, MapThenFoldSet, Unfold
  <1>2. (CHOOSE f : f = Unfold(g, S, f)) = Unfold(g, S, CHOOSE f : f = Unfold(g, S, f))
    OBVIOUS
  <1> QED BY <1>1, <1>2

LEMMA SumIs ==
  ASSUME NEW S, IsFiniteSet(S), NEW g, NEW h, Sums(g, S, h)
  PROVE  SumFunctionOnSet(g, S) = h[S]
  <1> PICK f : f = Unfold(g, S, f) /\ SumFunctionOnSet(g, S) = f[S]
    BY SumsUnfold, FoldUnfolds
  <1> DEFINE X == {T \in SUBSET S : f[T] # h[T]}
  <1>1. ASSUME X # {} PROVE FALSE
    <2>0. X \subseteq SUBSET S
      OBVIOUS
    <2> PICK Y : Y = X
      OBVIOUS
    <2> PICK T \in Y : \A U \in Y : U \subseteq T => U = T
      BY <1>1, <2>0, LeastSubset
    <2>1. T # {}
      BY DEF Unfold, Sums
    <2> PICK x : x = CHOOSE y \in T : TRUE
      OBVIOUS
    <2>2. x \in T
      BY <2>1
    <2>3. f[T] = g[x] + f[T \ {x}]
      BY <2>1 DEF Unfold
    <2>4. f[T \ {x}] = h[T \ {x}]
      BY <2>2
    <2> QED BY <2>2, <2>3, <2>4 DEF Sums
  <1> QED BY <1>1 DEF Sums

-----------------------------------------------------------------------------
\* Sums of natural numbers, one element for each unit.
Units(g, S) == {p \in S \X (Nat \ {0}) : p[2] <= g[p[1]]}

LEMMA UnitsOfOne ==
  ASSUME NEW g, NEW x, g[x] \in Nat
  PROVE  IsFiniteSet(Units(g, {x})) /\ Cardinality(Units(g, {x})) = g[x]
  <1> PICK n \in Nat : n = g[x]
    OBVIOUS
  <1>1. IsFiniteSet(1 .. n) /\ Cardinality(1 .. n) = n
    <2>1. 1 \in Int /\ n \in Int
      OBVIOUS
    <2>2. Cardinality(1 .. n) = IF 1 > n THEN 0 ELSE n - 1 + 1
      BY <2>1, FS_Interval
    <2> QED BY <2>1, <2>2, FS_Interval
  <1> DEFINE f == [k \in 1 .. n |-> <<x, k>>]
  <1>2. f \in Bijection(1 .. n, Units(g, {x}))
    <2>1. f \in [1 .. n -> Units(g, {x})]
      BY DEF Units
    <2>2. \A j, k \in 1 .. n : f[j] = f[k] => j = k
      OBVIOUS
    <2>3. \A p \in Units(g, {x}) : \E k \in 1 .. n : f[k] = p
      <3> SUFFICES ASSUME NEW p \in Units(g, {x})
                   PROVE  \E k \in 1 .. n : f[k] = p
        OBVIOUS
      <3>1. p = <<p[1], p[2]>> /\ p[1] = x /\ p[2] \in 1 .. n
        BY DEF Units
      <3> QED BY <3>1
    <2> HIDE DEF f
    <2> QED BY <2>1, <2>2, <2>3
            DEF Bijection, Injection, Surjection, IsInjective
  <1>3. ExistsBijection(1 .. n, Units(g, {x}))
    BY <1>2, Zenon DEF ExistsBijection
  <1> QED BY <1>1, <1>3, FS_Bijection

\* A set with one element more.
LEMMA UnitsOfMore ==
  ASSUME NEW g, NEW T, NEW x \in T, g[x] \in Nat,
         IsFiniteSet(Units(g, T \ {x}))
  PROVE  /\ IsFiniteSet(Units(g, T))
         /\ Cardinality(Units(g, T)) = g[x] + Cardinality(Units(g, T \ {x}))
  <1>1. /\ Units(g, T) = Units(g, {x}) \cup Units(g, T \ {x})
        /\ Units(g, {x}) \cap Units(g, T \ {x}) = {}
    BY DEF Units
  <1>2. /\ IsFiniteSet(Units(g, {x})) /\ Cardinality(Units(g, {x})) = g[x]
        /\ Cardinality(Units(g, T \ {x})) \in Nat
    BY UnitsOfOne, FS_CardinalityType
  <1>3. Cardinality(Units(g, {x}) \cap Units(g, T \ {x})) = 0
    BY <1>1, FS_EmptySet
  <1>4. /\ IsFiniteSet(Units(g, {x}) \cup Units(g, T \ {x}))
        /\ Cardinality(Units(g, {x}) \cup Units(g, T \ {x}))
             = Cardinality(Units(g, {x})) + Cardinality(Units(g, T \ {x}))
                 - Cardinality(Units(g, {x}) \cap Units(g, T \ {x}))
    BY <1>2, FS_Union
  <1> QED BY <1>1, <1>2, <1>3, <1>4

LEMMA UnitsFinite ==
  ASSUME NEW S, IsFiniteSet(S), NEW g, \A x \in S : g[x] \in Nat
  PROVE  \A T \in SUBSET S : IsFiniteSet(Units(g, T))
  <1> PICK X : X = {T \in SUBSET S : ~IsFiniteSet(Units(g, T))}
    OBVIOUS
  <1>1. ASSUME X # {} PROVE FALSE
    <2>0. X \subseteq SUBSET S
      OBVIOUS
    <2> PICK T \in X : \A U \in X : U \subseteq T => U = T
      BY <1>1, <2>0, LeastSubset
    <2>1. T # {}
      <3>1. Units(g, {}) = {}
        BY DEF Units
      <3> QED BY <3>1, FS_EmptySet
    <2> PICK x \in T : TRUE
      BY <2>1
    <2>2. IsFiniteSet(Units(g, T \ {x}))
      OBVIOUS
    <2> QED BY <2>2, UnitsOfMore
  <1> QED BY <1>1

LEMMA SumIsUnits ==
  ASSUME NEW S, IsFiniteSet(S), NEW g, \A x \in S : g[x] \in Nat
  PROVE  /\ IsFiniteSet(Units(g, S))
         /\ SumFunctionOnSet(g, S) = Cardinality(Units(g, S))
  <1> PICK h : h = [T \in SUBSET S |-> Cardinality(Units(g, T))]
    OBVIOUS
  <1>0. \A T \in SUBSET S : IsFiniteSet(Units(g, T))
    BY UnitsFinite
  <1>1. Sums(g, S, h)
    <2>1. h \in [SUBSET S -> Nat]
      BY <1>0, FS_CardinalityType
    <2>2. Units(g, {}) = {}
      BY DEF Units
    <2>3. h[{}] = 0
      BY <2>2, FS_EmptySet
    <2>4. ASSUME NEW T \in SUBSET S, NEW x \in T
          PROVE  h[T] = g[x] + h[T \ {x}]
      <3>1. IsFiniteSet(Units(g, T \ {x})) /\ g[x] \in Nat
        BY <1>0
      <3>2. Cardinality(Units(g, T)) = g[x] + Cardinality(Units(g, T \ {x}))
        BY <3>1, UnitsOfMore
      <3> QED BY <3>2
    <2> QED BY <2>1, <2>3, <2>4 DEF Sums
  <1> QED BY <1>0, <1>1, SumIs

LEMMA SumMonotone ==
  ASSUME NEW T, IsFiniteSet(T), NEW S, IsFiniteSet(S), NEW f, NEW g,
         \A x \in S : f[x] \in Nat, \A x \in T : g[x] \in Nat,
         \A x \in S : f[x] = 0 \/ (x \in T /\ f[x] <= g[x])
  PROVE  /\ SumFunctionOnSet(f, S) \in Nat /\ SumFunctionOnSet(g, T) \in Nat
         /\ SumFunctionOnSet(f, S) <= SumFunctionOnSet(g, T)
  <1>1. Units(f, S) \subseteq Units(g, T)
    BY DEF Units
  <1>2. /\ IsFiniteSet(Units(f, S)) /\ IsFiniteSet(Units(g, T))
        /\ SumFunctionOnSet(f, S) = Cardinality(Units(f, S))
        /\ SumFunctionOnSet(g, T) = Cardinality(Units(g, T))
    BY SumIsUnits
  <1> QED BY <1>1, <1>2, FS_Subset, FS_CardinalityType

LEMMA SumOfNone ==
  ASSUME NEW g
  PROVE  SumFunctionOnSet(g, {}) = 0
  <1>1. Units(g, {}) = {}
    BY DEF Units
  <1> QED BY <1>1, SumIsUnits, FS_EmptySet

LEMMA SumOfOne ==
  ASSUME NEW g, NEW x, g[x] \in Nat
  PROVE  SumFunctionOnSet(g, {x}) = g[x]
  BY SumIsUnits, UnitsOfOne, FS_Singleton
=============================================================================
