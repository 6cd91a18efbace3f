---------------------------- MODULE MCArrayMove ----------------------------
(* Arrays of every element width, at the alignments that differ, with sizes *)
(* that are and are not multiples of 8.                                     *)
EXTENDS ArrayMove

MCArrays ==
  {[src |-> 8, elem |-> 8, len |-> 2], [src |-> 8, elem |-> 4, len |-> 3],
   [src |-> 12, elem |-> 4, len |-> 2], [src |-> 10, elem |-> 2, len |-> 4],
   [src |-> 14, elem |-> 2, len |-> 2], [src |-> 13, elem |-> 1, len |-> 4]}
=============================================================================
