----------------------------- MODULE MCRunLogs -----------------------------
(* Small instances of RunLogs for TLC. Everything but numbers and the root *)
(* directory is interchangeable.                                           *)
EXTENDS RunLogs, TLC

(* The second page of one log, which is past the end of an empty list.     *)
MCBits == 4
MCAsks == {<<1, 2>>}

Symmetry == Permutations(Chains) \cup Permutations(Runs) \cup Permutations(Msgs)
                \cup Permutations(Lists) \cup Permutations(Dels)
=============================================================================
