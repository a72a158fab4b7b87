----------------------------- MODULE MCCeServer -----------------------------
(* Instances of CeServer for TLC.                                          *)
EXTENDS CeServer, TLC

\* Connections and heap addresses are interchangeable.
Symmetry == Permutations(Conns) \cup Permutations(Objs)
=============================================================================
