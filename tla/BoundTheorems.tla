--------------------------- MODULE BoundTheorems ---------------------------
(***************************************************************************)
(* Sets of integers that are bounded below or above have a least or a      *)
(* greatest element: what the loops of the code that search for the first  *)
(* or the last of something rely on, and the form in which the proofs use  *)
(* induction (take the least counterexample).                              *)
(***************************************************************************)
EXTENDS Integers, TLAPS, WellFoundedInduction

\* A non-empty set of naturals has a least element.
LEMMA LeastExists ==
  ASSUME NEW S, S \subseteq Nat, S # {}
  PROVE  \E x \in S : \A y \in S : x <= y
<1> DEFINE R == OpToRel(<, Nat)
<1>1. PICK x \in S : \A y \in S : ~(<<y, x>> \in R)
  <2> HIDE DEF R
  <2>1. IsWellFoundedOn(R, Nat)
    BY NatLessThanWellFounded DEF R
  <2> QED  BY <2>1, WFMin
<1>2. \A y \in S : ~(y < x)
  <2> TAKE y \in S
  <2>1. y \in Nat /\ x \in Nat
    OBVIOUS
  <2>2. <<y, x>> \in R <=> y < x
    BY <2>1 DEF OpToRel
  <2> QED  BY <2>2, <1>1
<1> QED  BY <1>2

\* A non-empty set of integers between two bounds has a greatest element.
LEMMA GreatestExists ==
  ASSUME NEW a \in Int, NEW b \in Int, NEW S, S \subseteq a..b, S # {}
  PROVE  \E x \in S : \A y \in S : y <= x
<1> DEFINE T == {b - x : x \in S}
<1>1. T \subseteq Nat /\ T # {}
  OBVIOUS
<1>2. PICK t \in T : \A u \in T : t <= u
  <2> HIDE DEF T
  <2> QED  BY <1>1, LeastExists
<1>3. PICK x \in S : t = b - x
  OBVIOUS
<1>4. \A y \in S : b - x <= b - y
  BY <1>2, <1>3
<1> QED  BY <1>4
=============================================================================
