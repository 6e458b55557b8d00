--------------------------- MODULE MCClaimLifecycle ---------------------------
(***************************************************************************)
(* Instances of ClaimLifecycle for TLC.                                    *)
(***************************************************************************)
EXTENDS ClaimLifecycle, TLC

CONSTANTS r1, r2, n1, n2, g1, g2

\* Requests are interchangeable, and so are names.
Symmetry == Permutations(Req) \cup Permutations(Block) \cup Permutations(Range)
=============================================================================
