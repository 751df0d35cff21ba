---------------------------- MODULE MCSettlement ----------------------------
(* Symmetry for the safety runs of Settlement: the settles of the facilitator *)
(* are alike.                                                               *)
EXTENDS Settlement, TLC

Symmetry == Permutations(Slots)
=============================================================================
