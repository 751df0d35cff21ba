----------------------------- MODULE MCKeyStore -----------------------------
(* Instances of KeyStore for TLC. *)
EXTENDS KeyStore, TLC

CONSTANTS m1, m2

Symmetry == Permutations(Mints)
=============================================================================
