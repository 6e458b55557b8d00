-------------------------- MODULE MCPoolAllocator --------------------------
(* Instances of PoolAllocator for TLC. *)
EXTENDS PoolAllocator, TLC

CONSTANTS t1, t2, k1, k2, k3, s1, s2

\* One leading unit of one address is reserved.
OneLeading == ReservedBlocks(1, 0, 1)

\* One unit at either end.
BothEnds == ReservedBlocks(1, 1, 1)

NoneReserved == ReservedBlocks(0, 0, 1)

Symmetry == Permutations(Txn) \cup Permutations(Key)
=============================================================================
