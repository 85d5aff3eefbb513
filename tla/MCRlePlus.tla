------------------------------ MODULE MCRlePlus ------------------------------
(***************************************************************************)
(* Words of 10 bits, so that a varint has at most two bytes. The inputs    *)
(* are all slices of up to three of the numbers at the limits of the kinds *)
(* of block and of the word, and intervals, in falling order, around the   *)
(* limits of a run of ones. The buffers are all that are made of a few     *)
(* bytes with different beginnings of blocks.                              *)
(***************************************************************************)
EXTENDS RlePlus

Numbers == {0, 1, 2, 3, 17, 18, 131, 511, 512, 1022, 1023}
Interval(a, n) == [i \in 1..n |-> a + n - i]
MCInputs ==
  UNION {[1..n -> Numbers] : n \in 0..3}
    \cup {Interval(a, n) : a \in {0, 5}, n \in 14..17}
MCBuffers ==
  UNION {[1..n -> {0, 1, 4, 12, 36, 60, 132, 192, 255}] : n \in 0..3}
    \cup [1..4 -> {0, 4, 16, 252}]
=============================================================================
