-------------------------- MODULE NumberSetsProofs --------------------------
(***************************************************************************)
(* The least and the largest element of a set of natural numbers: the      *)
(* library of the proof system has them only for predicates.               *)
(***************************************************************************)
EXTENDS Integers, FiniteSets, FiniteSetTheorems, WellFoundedInduction, TLAPS

LEMMA HasLeast ==
    ASSUME NEW S \in SUBSET Nat, S # {}
    PROVE  \E x \in S : \A y \in S : x <= y
PROOF
  <1>1. PICK x \in S : \A y \in S : ~(<<y, x>> \in OpToRel(<, Nat))
    BY NatLessThanWellFounded, WFMin
  <1>2. \A y \in S : x <= y
    <2> SUFFICES ASSUME NEW y \in S PROVE ~(y < x)
      OBVIOUS
    <2> QED
      BY <1>1 DEF OpToRel
  <1> QED
    BY <1>2

(* Take the element with the most elements up to it.                       *)
LEMMA HasGreatest ==
    ASSUME NEW S \in SUBSET Nat, IsFiniteSet(S), S # {}
    PROVE  \E x \in S : \A y \in S : y <= x
PROOF
  <1> DEFINE upTo(z) == {y \in S : y <= z}
             count == [z \in S |-> Cardinality(upTo(z))]
             n == Cardinality(S)
             T == {n - count[z] : z \in S}
  <1>1. n \in Nat /\ \A z \in S : IsFiniteSet(upTo(z)) /\ count[z] \in Nat /\ count[z] <= n
    <2> SUFFICES ASSUME NEW z \in S PROVE n \in Nat /\ IsFiniteSet(upTo(z)) /\ count[z] \in Nat /\ count[z] <= n
      OBVIOUS
    <2>1. upTo(z) \in SUBSET S
      OBVIOUS
    <2>2. count[z] = Cardinality(upTo(z))
      OBVIOUS
    <2> HIDE DEF upTo, count
    <2> QED
      BY <2>1, <2>2, FS_Subset, FS_CardinalityType
  <1>2. ASSUME NEW x \in S, NEW y \in S, y > x PROVE count[x] < count[y]
    <2> x \in Nat /\ y \in Nat
      OBVIOUS
    <2>1. upTo(x) \in SUBSET upTo(y) /\ y \in upTo(y) /\ y \notin upTo(x)
      <3>1. \A z \in S : z <= x => z <= y
        BY <1>2
      <3>2. upTo(x) \in SUBSET upTo(y)
        BY <3>1
      <3>3. y <= y /\ ~(y <= x)
        BY <1>2
      <3> QED
        BY <3>2, <3>3
    <2>2. upTo(x) # upTo(y) /\ count[x] = Cardinality(upTo(x)) /\ count[y] = Cardinality(upTo(y))
      BY <2>1
    <2>3. IsFiniteSet(upTo(y)) /\ count[x] \in Nat /\ count[y] \in Nat
      BY <1>1
    <2> HIDE DEF upTo, count
    <2>4. Cardinality(upTo(x)) <= Cardinality(upTo(y)) /\ Cardinality(upTo(x)) # Cardinality(upTo(y))
      BY <2>1, <2>2, <2>3, FS_Subset
    <2> QED
      BY <2>2, <2>3, <2>4
  <1> HIDE DEF count, n
  <1>3. T \in SUBSET Nat /\ T # {}
    <2>1. ASSUME NEW z \in S PROVE n - count[z] \in Nat
      <3>1. n \in Nat /\ count[z] \in Nat /\ count[z] <= n
        BY <1>1
      <3> QED
        BY <3>1
    <2> QED
      BY <2>1
  <1>4. PICK k \in T : \A m \in T : ~(<<m, k>> \in OpToRel(<, Nat))
    <2> HIDE DEF T
    <2> QED
      BY <1>3, NatLessThanWellFounded, WFMin
  <1>5. PICK x \in S : k = n - count[x]
    OBVIOUS
  <1>6. ASSUME NEW y \in S, y > x PROVE FALSE
    <2>1. n - count[y] \in T /\ n - count[y] < k
      <3>1. n \in Nat /\ count[x] \in Nat /\ count[y] \in Nat /\ count[x] < count[y]
        BY <1>1, <1>2, <1>6
      <3>2. n - count[y] < n - count[x]
        BY <3>1
      <3> QED
        BY <1>5, <3>2
    <2> QED
      BY <1>3, <1>4, <2>1 DEF OpToRel
  <1>7. \A y \in S : y <= x
    <2> SUFFICES ASSUME NEW y \in S PROVE y <= x
      OBVIOUS
    <2>1. x \in Nat /\ y \in Nat /\ ~(y > x)
      BY <1>6
    <2> QED
      BY <2>1
  <1> QED
    BY <1>7
=============================================================================
