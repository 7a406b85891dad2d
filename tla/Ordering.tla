------------------------------ MODULE Ordering ------------------------------
(* Putting a finite set of numbers in order.                               *)
EXTENDS Naturals, FiniteSets, FiniteSetTheorems, WellFoundedInduction, TLAPS

IsAscending(f) == \A i, j \in DOMAIN f : i < j => f[i] < f[j]

InOrder(S) == CHOOSE f \in [1 .. Cardinality(S) -> S] : IsAscending(f)

(* Induction over the naturals, for a set of them.                         *)
LEMMA SetInduction ==
    ASSUME NEW S, 0 \in S, \A n \in Nat : n \in S => n + 1 \in S
    PROVE  Nat \subseteq S
<1> DEFINE R == OpToRel(<, Nat)
<1> SUFFICES ASSUME Nat \ S # {} PROVE FALSE
  OBVIOUS
<1>1. IsWellFoundedOn(R, Nat)
  BY NatLessThanWellFounded
<1>2. \E n \in Nat \ S : \A k \in Nat \ S : <<k, n>> \notin R
  <2> HIDE DEF R
  <2> QED
    BY <1>1, WFMin
<1>3. PICK n \in Nat \ S : \A k \in Nat \ S : <<k, n>> \notin R
  BY <1>2
<1>4. n - 1 \in Nat \ S /\ <<n - 1, n>> \in R
  <2>1. n \in Nat /\ n # 0
    OBVIOUS
  <2>2. n - 1 \in Nat \ S
    BY <2>1
  <2>3. <<n - 1, n>> \in R
    BY <2>1 DEF OpToRel
  <2> QED
    BY <2>2, <2>3
<1> QED
  BY <1>3, <1>4

LEMMA SomePositions ==
    ASSUME NEW n \in Nat, NEW S \in SUBSET (1 .. n)
    PROVE  IsFiniteSet(S) /\ Cardinality(S) \in Nat
<1>1. IsFiniteSet(1 .. n)
  BY FS_Interval
<1> QED
  BY <1>1, FS_Subset, FS_CardinalityType

(* Any set of positions can be put in order.                               *)
LEMMA OrderExists ==
    ASSUME NEW n \in Nat, NEW S \in SUBSET (1 .. n)
    PROVE  \E f \in [1 .. Cardinality(S) -> S] : IsAscending(f)
<1> DEFINE Orders(m) == \A T \in SUBSET (1 .. m) :
                \E f \in [1 .. Cardinality(T) -> T] : IsAscending(f)
           Good == {m \in Nat : Orders(m)}
<1>1. 0 \in Good
  <2> SUFFICES ASSUME NEW T \in SUBSET (1 .. 0)
               PROVE  \E f \in [1 .. Cardinality(T) -> T] : IsAscending(f)
    OBVIOUS
  <2>1. T = {} /\ Cardinality(T) = 0
    <3>1. T = {}
      OBVIOUS
    <3> QED
      BY <3>1, FS_EmptySet
  <2>2. [i \in 1 .. 0 |-> i] \in [1 .. Cardinality(T) -> T]
    BY <2>1
  <2>3. IsAscending([i \in 1 .. 0 |-> i])
    BY DEF IsAscending
  <2> QED
    BY <2>2, <2>3
<1>2. ASSUME NEW m \in Nat, m \in Good PROVE m + 1 \in Good
  <2> SUFFICES ASSUME NEW T \in SUBSET (1 .. m + 1)
               PROVE  \E f \in [1 .. Cardinality(T) -> T] : IsAscending(f)
    OBVIOUS
  <2> DEFINE lower == T \ {m + 1}
  <2>1. lower \in SUBSET (1 .. m) /\ IsFiniteSet(lower)
    <3>1. lower \subseteq 1 .. m
      OBVIOUS
    <3> QED
      BY <3>1, SomePositions
  <2>2. PICK f \in [1 .. Cardinality(lower) -> lower] : IsAscending(f)
    BY <1>2, <2>1
  <2>3. CASE m + 1 \notin T
    BY <2>2, <2>3
  <2>4. CASE m + 1 \in T
    <3> DEFINE k == Cardinality(lower)
               g == [i \in 1 .. k + 1 |-> IF i = k + 1 THEN m + 1 ELSE f[i]]
    <3>1. k \in Nat /\ Cardinality(T) = k + 1
      <4>1. lower \cup {m + 1} = T
        BY <2>4
      <4> QED
        BY <2>1, <4>1, FS_AddElement, FS_CardinalityType
    <3>2. \A i \in 1 .. k : f[i] \in lower
      BY <2>2
    <3>3. lower \subseteq T /\ \A x \in lower : x \in Nat /\ x < m + 1
      BY <2>1
    <3> HIDE DEF lower
    <3>4. IsAscending(f) /\ DOMAIN f = 1 .. k
      BY <2>2
    <3> HIDE DEF k
    <3>5. \A i \in 1 .. k + 1 : g[i] \in T
      <4> TAKE i \in 1 .. k + 1
      <4>1. CASE i = k + 1
        BY <2>4, <4>1
      <4>2. CASE i # k + 1
        <5>1. i \in 1 .. k /\ g[i] = f[i]
          BY <3>1, <4>2
        <5> QED
          BY <3>2, <3>3, <5>1
      <4> QED
        BY <4>1, <4>2
    <3>6. IsAscending(g)
      <4> SUFFICES ASSUME NEW i \in 1 .. k + 1, NEW j \in 1 .. k + 1, i < j
                   PROVE  g[i] < g[j]
        BY DEF IsAscending
      <4>1. i \in 1 .. k /\ g[i] = f[i] /\ f[i] \in lower
        BY <3>1, <3>2
      <4>2. CASE j = k + 1
        BY <3>1, <3>3, <4>1, <4>2
      <4>3. CASE j \in 1 .. k
        <5>1. g[j] = f[j]
          BY <3>1, <4>3
        <5> QED
          BY <3>4, <4>1, <4>3, <5>1 DEF IsAscending
      <4> QED
        BY <3>1, <4>2, <4>3
    <3>7. g \in [1 .. k + 1 -> T]
      BY <3>5
    <3> QED
      BY <3>1, <3>6, <3>7
  <2> QED
    BY <2>3, <2>4
<1>3. n \in Good
  <2> HIDE DEF Good
  <2> QED
    BY <1>1, <1>2, SetInduction
<1> QED
  BY <1>3

LEMMA InOrderOrders ==
    ASSUME NEW n \in Nat, NEW S \in SUBSET (1 .. n)
    PROVE  /\ InOrder(S) \in [1 .. Cardinality(S) -> S]
           /\ IsAscending(InOrder(S))
           /\ \A i, j \in 1 .. Cardinality(S) :
                 InOrder(S)[i] = InOrder(S)[j] => i = j
           /\ Cardinality(S) \in Nat
<1>1. IsFiniteSet(S) /\ Cardinality(S) \in Nat
  BY SomePositions
<1>2. \E f : f \in [1 .. Cardinality(S) -> S] /\ IsAscending(f)
  BY OrderExists
<1>3. InOrder(S) \in [1 .. Cardinality(S) -> S] /\ IsAscending(InOrder(S))
  BY <1>2 DEF InOrder, IsAscending
<1>4. ASSUME NEW i \in 1 .. Cardinality(S), NEW j \in 1 .. Cardinality(S),
             InOrder(S)[i] = InOrder(S)[j], i # j
      PROVE  FALSE
  <2> DEFINE f == InOrder(S)
  <2>1. DOMAIN f = 1 .. Cardinality(S) /\ f[i] \in Int /\ f[j] \in Int
    <3>1. f[i] \in S /\ f[j] \in S /\ S \subseteq Int
      BY <1>3
    <3> QED
      BY <1>3, <3>1
  <2>2. i < j \/ j < i
    BY <1>1, <1>4
  <2> HIDE DEF f
  <2>3. f[i] = f[j] /\ IsAscending(f)
    BY <1>3, <1>4 DEF f
  <2>4. f[i] < f[j] \/ f[j] < f[i]
    BY <2>1, <2>2, <2>3 DEF IsAscending
  <2> QED
    BY <2>1, <2>3, <2>4
<1> QED
  BY <1>1, <1>3, <1>4

(* Everything in the set is put in order.                                  *)
LEMMA InOrderReaches ==
    ASSUME NEW n \in Nat, NEW S \in SUBSET (1 .. n), NEW x \in S
    PROVE  \E i \in 1 .. Cardinality(S) : InOrder(S)[i] = x
<1> DEFINE f == InOrder(S)
           m == Cardinality(S)
<1>1. /\ f \in [1 .. m -> S] /\ m \in Nat /\ IsFiniteSet(S)
      /\ \A i, j \in 1 .. m : f[i] = f[j] => i = j
  BY InOrderOrders, SomePositions
<1> HIDE DEF f
<1>2. f \in Injection(1 .. m, S)
  BY <1>1 DEF Injection, IsInjective
<1>3. Cardinality(1 .. m) = m
  BY <1>1, FS_Interval
<1>4. f \in Surjection(1 .. m, S)
  <2> HIDE DEF m
  <2>1. Cardinality(1 .. m) = Cardinality(S)
    BY <1>3 DEF m
  <2> QED
    BY <1>1, <1>2, <2>1, FS_Injection
<1> QED
  BY <1>4 DEF Surjection, f

=============================================================================
