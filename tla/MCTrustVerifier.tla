-------------------------- MODULE MCTrustVerifier --------------------------
(* Instances of TrustVerifier for TLC. *)
EXTENDS TrustVerifier
=============================================================================
