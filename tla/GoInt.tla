-------------------------------- MODULE GoInt --------------------------------
(***************************************************************************)
(* Go's signed integers: two's complement of a given width. Page numbers   *)
(* and page sizes come out of query strings unchecked (strconv.Atoi), and  *)
(* their products and sums wrap around without a word.                     *)
(***************************************************************************)
EXTENDS Integers

Half(bits) == 2^(bits - 1)

GoInts(bits) == -Half(bits) .. Half(bits) - 1

(* The value a result n that may not fit is given.                         *)
Wrap(n, bits) == ((n + Half(bits)) % (2 * Half(bits))) - Half(bits)

Fits(n, bits) == n \in GoInts(bits)
=============================================================================
