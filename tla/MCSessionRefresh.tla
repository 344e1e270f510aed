-------------------------- MODULE MCSessionRefresh --------------------------
(* Instances of SessionRefresh for TLC. *)
EXTENDS SessionRefresh, TLC

ProcessSymmetry == Permutations(Processes)
=============================================================================
