-------------------------- MODULE MCRequestHandler --------------------------
EXTENDS RequestHandler, TLC

Lists == { << >>, << "warn" >>, << "block", "log" >> }

OneList == { << "warn" >>, << >> }

Symmetry == Permutations(Slots) \cup Permutations(Ids)
=============================================================================
