----------------------------- MODULE MCConsole -----------------------------
(* One goal from an earlier session, one opened by this page, a reload.    *)
EXTENDS Console, TLC

RequestSymmetry == Permutations(Posts) \cup Permutations(Runs)
=============================================================================
