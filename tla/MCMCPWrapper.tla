---------------------------- MODULE MCMCPWrapper ----------------------------
(* Instances of MCPWrapper for TLC. *)
EXTENDS MCPWrapper, TLC

\* Every slot wraps the same server.
OneServer == [w \in Wrappers |-> "s1"]

\* One slot wraps s1 and the others s2.
TwoServers == [w \in Wrappers |-> IF w = "w1" THEN "s1" ELSE "s2"]
=============================================================================
