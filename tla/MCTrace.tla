------------------------------ MODULE MCTrace -------------------------------
(* Two overlapping runs of one goal, and the file of either.               *)
EXTENDS Trace
=============================================================================
