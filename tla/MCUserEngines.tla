--------------------------- MODULE MCUserEngines ---------------------------
(* Small instances of UserEngines for TLC; requests are interchangeable.   *)
EXTENDS UserEngines, TLC

Symmetry == Permutations(Reqs)
=============================================================================
