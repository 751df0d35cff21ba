------------------------------ MODULE MCSigner ------------------------------
(* The signing service with its two callers and one stranger.              *)
EXTENDS Signer
=============================================================================
