--------------------------- MODULE MCFileStorage ---------------------------
(* Small instances of FileStorage for TLC. Long begins with Short. Users    *)
(* and requests are interchangeable.                                       *)
EXTENDS FileStorage, TLC

CONSTANTS Short, Long
MCBegins == {<<Short, Long>>}

Symmetry == Permutations(Users) \cup Permutations(Requests)
=============================================================================
