----------------------------- MODULE SetLemmas ------------------------------
(***************************************************************************)
(* Facts about sets that the proofs of several modules need.               *)
(***************************************************************************)
EXTENDS Naturals, FiniteSetsExt, TLAPS, WellFoundedInduction

\* A set of naturals that is not empty has a least member, which Min returns.
LEMMA MinMember ==
    ASSUME NEW S \in SUBSET Nat, S # {}
    PROVE  Min(S) \in S /\ \A x \in S : Min(S) <= x
<1>1. \E x \in S : \A y \in S : <<y, x>> \notin OpToRel(<, Nat)
  BY NatLessThanWellFounded, WFMin
<1>2. \A x, y \in Nat : y < x => <<y, x>> \in OpToRel(<, Nat)
  BY Zenon DEF OpToRel
<1>3. PICK x \in S : \A y \in S : ~(y < x)
  BY <1>1, <1>2
<1>4. \A y \in S : x <= y
  BY <1>3
<1> QED
  BY <1>4 DEF Min

=============================================================================
