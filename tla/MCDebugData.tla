---------------------------- MODULE MCDebugData ----------------------------
(* Small instances of DebugData for TLC. Events are interchangeable, and so*)
(* are views, as far as safety goes.                                       *)
EXTENDS DebugData, TLC

(* No size, whose page is the whole log; the second page of one item; a    *)
(* negative size; and a page far past the end, whose start is 0 in four    *)
(* bits, so that it is answered with the first items.                      *)
MCBits == 4
SmallAsks == {<<0, 0>>, <<1, 2>>}
MCAsks == SmallAsks \cup {<<-1, 1>>, <<4, 5>>}

Symmetry == Permutations(Events) \cup Permutations(Views)

=============================================================================
