------------------------------- MODULE Bitmap -------------------------------
(***************************************************************************)
(* librereuse/util/bitmap.cc: a bitmap is a vector of words of WordBits    *)
(* bits, enough of them for `size` elements.  It is modelled by its size   *)
(* and the set of positions that are 1; the last word may have positions   *)
(* that stand for no element.                                              *)
(***************************************************************************)
EXTENDS Integers

CONSTANT WordBits   \* BITSET_SIZE

ASSUME WordAssumption == WordBits \in Nat \ {0}

\* Faulty: the number of words is rounded down.
PositionsRoundedDown(size) == 0 .. (size \div WordBits) * WordBits - 1

WordCount(size) == (size + WordBits - 1) \div WordBits
Positions(size) == 0 .. WordCount(size) * WordBits - 1

Filled(size, one) ==
    [size |-> size, bits |-> IF one THEN Positions(size) ELSE {}]

\* set(), called for every index of a set.
SetBits(bitmap, indices, value) ==
    [bitmap EXCEPT !.bits = IF value THEN @ \cup indices ELSE @ \ indices]

Get(bitmap, index) == index \in bitmap.bits

\* operator&= on bitmaps of one size.
AndAssign(left, right) == [left EXCEPT !.bits = @ \cap right.bits]
=============================================================================
