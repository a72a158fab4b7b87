----------------------------- MODULE MCRwMemBp -----------------------------
(***************************************************************************)
(* Model checking of RwMemBp: handles, targets and client threads are      *)
(* model values, interchangeable in the runs that check safety only.       *)
(***************************************************************************)
EXTENDS RwMemBp, TLC

\* Every handle may be of every kind; or one of them of one kind only.
AllKinds == [f \in Files |-> Kinds]
MixedKinds ==
    LET one == CHOOSE f \in Files : TRUE
        k   == CHOOSE k \in Kinds : TRUE
    IN  [f \in Files |-> IF f = one THEN {k} ELSE Kinds]

Symmetry == Permutations(Files) \cup Permutations(Tasks) \cup
            Permutations(Callers)

=============================================================================
