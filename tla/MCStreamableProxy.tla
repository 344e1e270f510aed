-------------------------- MODULE MCStreamableProxy --------------------------
(* Instances of StreamableProxy for TLC. *)
EXTENDS StreamableProxy, TLC

\* Clients that never use the same id, one each.
OwnIds == [c \in Conns |-> IF c = "c1" THEN {1} ELSE {2}]

\* Clients that all count from one.
SameIds == [c \in Conns |-> Ids]
\* No pin file, or one with a pin (all definitions are alike).
NoneOrPinned ==
  {None, [t \in Tools |-> [desc |-> "d1", schema |-> "x1"]]}
=============================================================================
