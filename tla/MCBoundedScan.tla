--------------------------- MODULE MCBoundedScan ---------------------------
(* Eight addresses; a pool of one range, of two adjacent ranges, and of two *)
(* ranges of different sizes with a gap between them.  Every pool ends at   *)
(* the last of the eight, which is the last address of the family too, or   *)
(* lies in the middle of one twice as large.                                *)
EXTENDS BoundedScan

MCParentLists ==
  { <<[lo |-> 0, hi |-> 7]>>,
    <<[lo |-> 0, hi |-> 3], [lo |-> 4, hi |-> 7]>>,
    <<[lo |-> 0, hi |-> 1], [lo |-> 4, hi |-> 7]>> }
=============================================================================
