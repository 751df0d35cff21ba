----------------------------- MODULE MCPurchase -----------------------------
(* Two purchases of one resource, retries and a restart.                   *)
EXTENDS Purchase
=============================================================================
