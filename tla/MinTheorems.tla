----------------------------- MODULE MinTheorems -----------------------------
(***************************************************************************)
(* A set of naturals that is not empty has a least element, which Min of   *)
(* FiniteSetsExt is.                                                       *)
(***************************************************************************)
EXTENDS FiniteSetsExt, WellFoundedInduction, TLAPS

LEMMA MinInSet ==
  ASSUME NEW S, S \subseteq Nat, S # {}
  PROVE  Min(S) \in S /\ \A x \in S : Min(S) <= x
<1>1. PICK m \in S : \A x \in S : ~ (x < m)
  <2> DEFINE Less == {ss \in Nat \X Nat : ss[1] < ss[2]}
  <2>1. IsWellFoundedOn(Less, Nat)
    BY NatLessThanWellFounded, Zenon DEF OpToRel
  <2>2. PICK m \in S : \A x \in S : <<x, m>> \notin Less
    BY <2>1, WFMin, Zenon
  <2> QED
    BY <2>2
<1>2. \A x \in S : m <= x
  BY <1>1
<1> QED
  BY <1>2 DEF Min
=============================================================================
