-------------------------------- MODULE Cidr --------------------------------
(***************************************************************************)
(* Address blocks of one pool, as internal/allocation sees them.           *)
(*                                                                         *)
(* A pool's range is normalised to the addresses 0 .. Size-1.  A CIDR is   *)
(* the pair of its first and last address (cidrBounds); a prefix length is *)
(* the number of addresses of the block it names (blockSize), a power of   *)
(* two, because only the size and the alignment of a block matter here.    *)
(***************************************************************************)
EXTENDS Integers, FiniteSets

CONSTANT Size   \* number of addresses of the pool

ASSUME SizeAssumption == Size \in Nat \ {0}

Addr == 0 .. Size - 1

Block == [lo : Addr, hi : Addr]

Overlap(a, b) == a.lo <= b.hi /\ b.lo <= a.hi

Addrs(b) == b.lo .. b.hi

\* The addresses a set of blocks covers, each counted once.
Covered(blocks) == { a \in Addr : \E b \in blocks : a \in Addrs(b) }

Measure(blocks) == Cardinality(Covered(blocks))

\* The addresses one more block adds to what `overlapping` already covers.
ConsumptionDelta(overlapping, block) ==
  Measure(overlapping \cup {block}) - Measure(overlapping)

\* The least multiple of n that is not below v.
AlignUp(v, n) == IF v % n = 0 THEN v ELSE v + (n - (v % n))

\* The blocks of n addresses that a prefix of that length can name.
AlignedBlocks(n) ==
  { [lo |-> a, hi |-> a + n - 1] : a \in { k \in Addr : k % n = 0 /\ k + n <= Size } }

FreeBlocks(taken, n) == { b \in AlignedBlocks(n) : \A t \in taken : ~Overlap(b, t) }

FreeBlocksFrom(taken, n, floor) == { b \in FreeBlocks(taken, n) : b.lo >= floor }

\* What first fit returns from a floor; defined when some block fits.
FirstFit(taken, n, floor) ==
  CHOOSE b \in FreeBlocksFrom(taken, n, floor) :
    \A c \in FreeBlocksFrom(taken, n, floor) : b.lo <= c.lo

FreeAddrsFrom(taken, floor) == { a \in Addr \ Covered(taken) : a >= floor }

\* Faulty variant: a high-water mark instead of the first hole.
FirstFree_HighWater(taken, floor) ==
  IF Covered(taken) = {} THEN floor
  ELSE 1 + CHOOSE a \in Covered(taken) : \A c \in Covered(taken) : c <= a

\* The lowest free address at or above the floor.
FirstFree(taken, floor) ==
  CHOOSE a \in FreeAddrsFrom(taken, floor) :
    \A c \in FreeAddrsFrom(taken, floor) : a <= c

\* The maximal runs of free addresses.
FreeRegions(taken) ==
  { r \in Block : /\ r.lo <= r.hi
                  /\ Addrs(r) \cap Covered(taken) = {}
                  /\ r.lo = 0 \/ r.lo - 1 \in Covered(taken)
                  /\ r.hi = Size - 1 \/ r.hi + 1 \in Covered(taken) }

\* The candidate selectBlock takes out of each free region that has room.
Candidates(taken, n) ==
  { c \in FreeRegions(taken) \X FreeBlocks(taken, n) :
      c[2].lo = AlignUp(c[1].lo, n) /\ c[2].hi <= c[1].hi }

RegionSize(r) == r.hi - r.lo + 1

\* Best fit: the smallest region with room, the lowest one among equals.
BestFits(taken, n) ==
  { c \in Candidates(taken, n) :
      \A d \in Candidates(taken, n) : RegionSize(c[1]) <= RegionSize(d[1]) }

BestFit(taken, n) ==
  (CHOOSE c \in BestFits(taken, n) : \A d \in BestFits(taken, n) : c[1].lo <= d[1].lo)[2]

\* The whole units a pool keeps for itself at either end of its range.
ReservedBlocks(leading, trailing, unit) ==
  { [lo |-> i * unit, hi |-> i * unit + unit - 1] :
      i \in (0 .. leading - 1) \cup ((Size \div unit) - trailing .. (Size \div unit) - 1) }

=============================================================================
