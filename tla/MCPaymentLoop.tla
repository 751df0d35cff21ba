--------------------------- MODULE MCPaymentLoop ---------------------------
(* Symmetry for the safety runs of PaymentLoop: the slots of the server are *)
(* alike.                                                                   *)
EXTENDS PaymentLoop, TLC

Symmetry == Permutations(Runs)
=============================================================================
