---------------------------- MODULE MCRunServer ----------------------------
(* Instances of RunServer for TLC. *)
EXTENDS RunServer, TLC

CONSTANTS r1, r2, g1, g2, g3

\* Every choice of goals for two runs, up to exchanging the runs and exchanging
\* the storable goals g1 and g2.
MCRequests ==
  {r1 :> g1 @@ r2 :> g1, r1 :> g1 @@ r2 :> g2,
   r1 :> g1 @@ r2 :> g3, r1 :> g3 @@ r2 :> g3}
=============================================================================
