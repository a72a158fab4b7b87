------------------------------ MODULE NatLemmas ------------------------------
(***************************************************************************)
(* The least-number principle.  It follows from finite sets being well     *)
(* founded under inclusion, and proofs by induction over a loop or a table *)
(* start from it: pick the smallest counterexample.                        *)
(***************************************************************************)
EXTENDS Integers, FiniteSets, FiniteSetTheorems, WellFoundedInduction, TLAPS

\* Every set of natural numbers that is not empty has a least element.
LEMMA LeastNat ==
    ASSUME NEW T \in SUBSET Nat, T # {}
    PROVE  \E n \in T : \A m \in T : n <= m
<1>1. PICK t \in T : TRUE
  OBVIOUS
<1> DEFINE Upto == {(0..n) : n \in {m \in T : m <= t}}
<1>2. Upto # {} /\ Upto \subseteq FiniteSubsetsOf(0..t)
  <2>1. \A n \in T : IsFiniteSet(0..n)
    BY FS_Interval
  <2> QED  BY <1>1, <2>1 DEF FiniteSubsetsOf
<1>3. PICK U \in Upto : \A V \in Upto : <<V, U>> \notin StrictSubsetOrdering(0..t)
  <2> HIDE DEF Upto
  <2> QED  BY <1>2, FS_StrictSubsetOrderingWellFounded, WFMin
<1>4. PICK n \in T : n <= t /\ U = 0..n
  BY <1>3
<1>5. ASSUME NEW m \in T, m < n  PROVE FALSE
  <2>1. (0..m) \in Upto
    BY <1>4, <1>5
  <2>2. (0..m) \subseteq (0..n) /\ (0..m) # (0..n)
    BY <1>4, <1>5
  <2>3. <<0..m, 0..n>> \in StrictSubsetOrdering(0..t)
    BY <1>4, <2>2, <1>5, <1>1 DEF StrictSubsetOrdering
  <2> QED  BY <1>3, <1>4, <2>1, <2>3
<1> QED  BY <1>4, <1>5

=============================================================================
