----------------------------- MODULE NaturalSets -----------------------------
(***************************************************************************)
(* Min and Max of sets of natural numbers, for the proofs about the        *)
(* modules that use them.                                                  *)
(***************************************************************************)
EXTENDS FiniteSetsExt, TLAPS, WellFoundedInduction

\* A nonempty set of naturals has a least element.
LEMMA LeastExists ==
  ASSUME NEW T \in SUBSET Nat, T # {}
  PROVE  \E x \in T : \A y \in T : x <= y
<1> DEFINE Less == OpToRel(<, Nat)
<1>1. IsWellFoundedOn(Less, Nat)
  BY NatLessThanWellFounded
<1>2. \A x, y \in Nat : <<y, x>> \in Less <=> y < x
  BY DEF OpToRel
<1> HIDE DEF Less
<1>3. PICK x \in T : \A y \in T : ~ (<<y, x>> \in Less)
  BY <1>1, WFMin, Zenon
<1>4. ASSUME NEW y \in T
      PROVE  x <= y
  <2>1. x \in Nat /\ y \in Nat
    OBVIOUS
  <2>2. ~ (y < x)
    BY <1>2, <1>3, <2>1, Zenon
  <2>3. QED
    BY <2>1, <2>2
<1>5. QED
  BY <1>4, Zenon

\* One with a bound has a greatest element.
LEMMA GreatestExists ==
  ASSUME NEW n \in Nat, NEW S \in SUBSET (0 .. n), S # {}
  PROVE  \E k \in S : \A i \in S : k >= i
<1> DEFINE T == {n - i : i \in S}
<1>1. T \in SUBSET Nat
  OBVIOUS
<1>2. T # {}
  BY Zenon
<1>3. \A i \in S : n - i \in T
  BY Zenon
<1> HIDE DEF T
<1>4. PICK x \in T : \A y \in T : x <= y
  BY <1>1, <1>2, LeastExists
<1>5. PICK k \in S : x = n - k
  BY Zenon DEF T
<1>6. \A i \in S : k >= i
  BY <1>3, <1>4, <1>5
<1>7. QED
  BY <1>6, Zenon

\* Max of a nonempty set of naturals with a bound is an element of it.
LEMMA MaxElement ==
  ASSUME NEW n \in Nat, NEW S \in SUBSET (0 .. n), S # {}
  PROVE  Max(S) \in S
<1>1. PICK k \in S : \A i \in S : k >= i
  BY GreatestExists
<1>2. QED
  BY <1>1, Zenon DEF Max

\* Max is the element that no other one exceeds.
LEMMA MaxIs ==
  ASSUME NEW S \in SUBSET Nat, NEW k \in S, \A i \in S : k >= i
  PROVE  Max(S) = k
<1>1. PICK x : x = Max(S)
  OBVIOUS
<1>2. x \in S /\ \A i \in S : x >= i
  BY <1>1, Zenon DEF Max
<1>3. x >= k /\ k >= x
  BY <1>2
<1>4. x \in Nat /\ k \in Nat
  BY <1>2
<1>5. QED
  BY <1>1, <1>3, <1>4

\* So is Min.
LEMMA MinElement ==
  ASSUME NEW S \in SUBSET Nat, S # {}
  PROVE  Min(S) \in S
<1>1. PICK x \in S : \A y \in S : x <= y
  BY LeastExists
<1>2. QED
  BY <1>1, Zenon DEF Min
=============================================================================
