---------------------------- MODULE LeastElement ----------------------------
(* A set of numbers that is not empty has a least element, and Min is it.    *)
EXTENDS Integers, FiniteSetsExt, FiniteSetTheorems, TLAPS

(***************************************************************************)
(* Min of FiniteSetsExt chooses a least element; that there is one follows  *)
(* from the well-foundedness of inclusion on the intervals 1..x.            *)
(***************************************************************************)
LEMMA MinIsLeast ==
  ASSUME NEW S \in SUBSET Nat, S # {}
  PROVE  Min(S) \in S /\ \A y \in S : Min(S) <= y
<1> DEFINE R == StrictSubsetOrdering(Nat)
           upTo == {1..x : x \in S}
<1>1. upTo \subseteq FiniteSubsetsOf(Nat) /\ upTo # {}
  <2>1. ASSUME NEW x \in S PROVE 1..x \in FiniteSubsetsOf(Nat)
    <3>1. IsFiniteSet(1..x)
      BY FS_Interval
    <3> QED
      BY <3>1 DEF FiniteSubsetsOf
  <2> QED
    BY <2>1
<1>2. IsWellFoundedOn(R, FiniteSubsetsOf(Nat))
  BY FS_StrictSubsetOrderingWellFounded
<1>3. \E T \in upTo : \A U \in upTo : ~ (<<U, T>> \in R)
  <2> HIDE DEF R, upTo
  <2> QED
    BY <1>1, <1>2, WFMin
<1>4. PICK x \in S : \A y \in S : <<1..y, 1..x>> \notin R
  BY <1>3
<1>5. ASSUME NEW y \in S PROVE x <= y
  <2>1. 1..y \in SUBSET Nat /\ 1..x \in SUBSET Nat
    OBVIOUS
  <2>2. ~ (1..y \subseteq 1..x /\ 1..y # 1..x)
    BY <1>4, <2>1 DEF StrictSubsetOrdering
  <2>3. CASE y < x
    <3>1. 1..y \subseteq 1..x /\ x \in 1..x /\ x \notin 1..y
      BY <2>3
    <3> QED
      BY <3>1, <2>2
  <2> QED
    BY <2>3
<1> QED
  BY <1>5 DEF Min

=============================================================================
