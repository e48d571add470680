-------------------------- MODULE MCDebugObservers --------------------------
(* Small instances of DebugObservers for TLC. Nothing in it tells one      *)
(* connection, client id or event from another.                            *)
EXTENDS DebugObservers, TLC

Symmetry == Permutations(Conns) \cup Permutations(Clients) \cup Permutations(Events)
=============================================================================
