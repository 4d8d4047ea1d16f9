---------------------------- MODULE SetInduction ----------------------------
(***************************************************************************)
(* Induction, for proofs about recursive functions: over the naturals, and *)
(* over the subsets of a finite set.  What is proved by induction is given *)
(* as the set of the numbers, or of the subsets, it holds of.              *)
(***************************************************************************)
EXTENDS Integers, FiniteSetTheorems, WellFoundedInduction, TLAPS

\* Every non-empty set of naturals has a least element.
LEMMA LeastNatural ==
  ASSUME NEW T \in SUBSET Nat, T # {}
  PROVE  \E m \in T : \A n \in T : m <= n
<1>1. PICK x \in T : \A y \in T : ~ (<<y, x>> \in OpToRel(<, Nat))
  BY WFMin, NatLessThanWellFounded, Zenon
<1>2. \A y \in Nat : y < x => <<y, x>> \in OpToRel(<, Nat)
  BY DEF OpToRel
<1>3. \A y \in T : ~ (y < x)
  BY <1>1, <1>2, Zenon
<1>4. QED
  BY <1>3

\* Induction over the naturals, for a set of them.
LEMMA NaturalsAll ==
  ASSUME NEW P \in SUBSET Nat, 0 \in P, \A n \in P : n + 1 \in P
  PROVE  P = Nat
<1> SUFFICES ASSUME Nat \ P # {} PROVE FALSE
  OBVIOUS
<1>1. PICK m \in Nat \ P : \A n \in Nat \ P : m <= n
  BY LeastNatural
<1>2. m - 1 \in Nat /\ m - 1 \in P
  BY <1>1
<1>3. QED
  BY <1>1, <1>2

\* Induction over the subsets of a finite set, for a set of them.
LEMMA SubsetsAll ==
  ASSUME NEW S, IsFiniteSet(S), NEW P \in SUBSET (SUBSET S),
         \A t \in SUBSET S : (\A x \in t : t \ {x} \in P) => t \in P
  PROVE  P = SUBSET S
<1> DEFINE Small == {n \in Nat : \A t \in SUBSET S : Cardinality(t) <= n => t \in P}
<1>1. \A t \in SUBSET S : IsFiniteSet(t) /\ Cardinality(t) \in Nat
  BY FS_Subset, FS_CardinalityType
<1>2. 0 \in Small
  <2>1. \A t \in SUBSET S : Cardinality(t) <= 0 => t = {}
    BY <1>1, FS_EmptySet
  <2>2. QED
    BY <2>1
<1>3. ASSUME NEW n \in Small PROVE n + 1 \in Small
  <2>1. ASSUME NEW t \in SUBSET S, Cardinality(t) <= n + 1, NEW x \in t PROVE t \ {x} \in P
    <3>1. Cardinality(t \ {x}) = Cardinality(t) - 1
      BY <1>1, FS_RemoveElement
    <3>2. Cardinality(t \ {x}) <= n
      BY <1>1, <2>1, <3>1
    <3>3. QED
      BY <3>2
  <2>2. QED
    BY <2>1
<1>4. Small = Nat
  <2> HIDE DEF Small
  <2>1. Small \in SUBSET Nat
    BY DEF Small
  <2>2. QED
    BY <1>2, <1>3, <2>1, NaturalsAll
<1>5. QED
  BY <1>1, <1>4

=============================================================================
