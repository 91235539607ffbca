---------------------------- MODULE LeastElements ----------------------------
(***************************************************************************)
(* The fact about natural numbers that the proofs about chunks and about   *)
(* slots need in place of an induction.                                    *)
(***************************************************************************)
EXTENDS Naturals, FiniteSetTheorems, WellFoundedInduction, TLAPS

(***************************************************************************)
(* A set of naturals that is not empty has a least element. To take the    *)
(* first chunk that breaks a rule is as good as an induction over chunks.  *)
(***************************************************************************)
LEMMA LeastElement ==
  ASSUME NEW T, T \subseteq Nat, T # {}
  PROVE  \E m \in T : \A k \in T : m <= k
PROOF
  <1>1. PICK t \in T : TRUE
    OBVIOUS
  <1>2. DEFINE U == {0..n : n \in T}
        R == StrictSubsetOrdering(Nat)
  <1>3. U \subseteq FiniteSubsetsOf(Nat) /\ U # {}
    <2>1. \A n \in T : IsFiniteSet(0..n) /\ 0..n \subseteq Nat
      BY FS_Interval
    <2>2. QED
      BY <2>1 DEF FiniteSubsetsOf
  <1>4. IsWellFoundedOn(R, FiniteSubsetsOf(Nat))
    BY FS_StrictSubsetOrderingWellFounded
  <1>5. \E x \in U : \A y \in U : ~ (<<y, x>> \in R)
    <2> HIDE DEF U, R
    <2> QED BY <1>3, <1>4, WFMin
  <1>6. PICK m \in T : \A y \in U : ~ (<<y, 0..m>> \in R)
    BY <1>5
  <1>7. ASSUME NEW k \in T, k < m PROVE FALSE
    <2>1. 0..k \in SUBSET Nat /\ 0..m \in SUBSET Nat /\ 0..k \subseteq 0..m
      BY <1>7
    <2>2. m \in 0..m /\ m \notin 0..k
      BY <1>7
    <2>3. <<0..k, 0..m>> \in R
      BY <2>1, <2>2 DEF StrictSubsetOrdering
    <2>4. QED BY <2>3, <1>6
  <1>8. QED BY <1>7
=============================================================================
