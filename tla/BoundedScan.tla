----------------------------- MODULE BoundedScan -----------------------------
(***************************************************************************)
(* The paged first-fit search (allocation/scan.go) driven by               *)
(* boundedFirstFit (allocator/boundedsearch.go): the rows are read a page  *)
(* at a time in PostgreSQL's inet order, a probe before every page looks   *)
(* for blocks that cover the cursor, and the scan keeps only the cursor.   *)
(*                                                                         *)
(* The search runs under the pool's row lock, so the rows stand still;     *)
(* what varies is the shape of the rows, the parents, the floor and where  *)
(* the pages end.                                                          *)
(***************************************************************************)
EXTENDS FreeSpace

CONSTANTS
  ParentLists,   \* the ranges a pool may have, each list ascending
  Families,      \* how many addresses the family may have: Size, or more
  Sizes,         \* block sizes a request may ask for
  MaxRows,       \* bound on the rows the search sees
  PageSize,      \* searchPageSize
  PageLimit      \* searchPageLimit

NoFloor == -1    \* a nil floor, and "no free address seen"

VARIABLES
  parents,   \* the pool's ranges
  family,    \* 2^bits, the number of addresses of the parents' family
  rows,      \* the blocks searchFilter selects
  size,      \* addresses of the block asked for
  floor,     \* the caller's hint
  step,      \* "probe", "page" or "end": what boundedFirstFit does next
  pages,     \* its loop counter
  scan       \* the Scan: parent index, cursor, last, firstFree, result, done, err

vars == <<parents, family, rows, size, floor, step, pages, scan>>
inputs == <<parents, family, rows, size, floor>>

Errors == {"", "out of order", "did not advance"}

Scan == [p : Nat, cursor : 0 .. Size, last : -1 .. Size - 1, free : -1 .. Size - 1,
         result : Block \cup {None}, done : BOOLEAN, err : Errors]

\* Every variable keeps its type; the cursor goes at most one past the last address.
TypeOK ==
  /\ parents \in ParentLists /\ family \in Families
  /\ rows \subseteq Block /\ size \in Sizes
  /\ floor \in -1 .. Size - 1
  /\ step \in {"probe", "page", "end"} /\ pages \in 0 .. PageLimit
  /\ scan \in Scan

-----------------------------------------------------------------------------
(***************************************************************************)
(* The Scan.                                                               *)
(***************************************************************************)
Parent(s) == parents[s.p]

\* Faulty variant: a nil floor is taken for an address.
AdvanceParent_NilFloor(s) ==
  LET ahead == { i \in DOMAIN parents : i > s.p /\ parents[i].hi >= floor }
  IN  IF ahead = {} THEN [s EXCEPT !.p = Len(parents) + 1, !.done = TRUE]
      ELSE [s EXCEPT !.p = Min(ahead), !.last = -1, !.cursor = floor]

\* The next parent that is not entirely below the floor.
AdvanceParent(s) ==
  LET ahead == { i \in DOMAIN parents : i > s.p /\ parents[i].hi >= floor }
  IN  IF ahead = {} THEN [s EXCEPT !.p = Len(parents) + 1, !.done = TRUE]
      ELSE [s EXCEPT !.p = Min(ahead), !.last = -1,
                     !.cursor = Max({parents[Min(ahead)].lo, floor})]

\* Faulty variant: remembers where a block of this size fits, not the hole.
NoteFirstFree_Aligned(s) ==
  IF s.free # NoFloor \/ AlignUp(s.cursor, size) >= Size THEN s
  ELSE [s EXCEPT !.free = AlignUp(s.cursor, size)]

NoteFirstFree(s) == IF s.free # NoFloor THEN s ELSE [s EXCEPT !.free = s.cursor]

\* Place a block in cursor .. hi if one fits there.
TryFit(s, hi) ==
  LET b == [lo |-> AlignUp(s.cursor, size), hi |-> AlignUp(s.cursor, size) + size - 1]
  IN  IF size > RegionSize(Parent(s)) \/ b.hi > hi THEN s
      ELSE [s EXCEPT !.result = b, !.done = TRUE]

FeedOne(s, b) ==
  LET t == IF b.lo > s.cursor THEN TryFit(NoteFirstFree(s), b.lo - 1) ELSE s
  IN  CASE s.done \/ s.err # "" -> s
        [] b.lo < s.last -> [s EXCEPT !.err = "out of order"]
        [] b.lo > Parent(s).hi \/ b.hi < s.cursor -> [s EXCEPT !.last = b.lo]
        [] t.done -> [t EXCEPT !.last = b.lo]
        [] OTHER -> [t EXCEPT !.last = b.lo, !.cursor = Max({@, b.hi + 1})]

Feed(s, blocks) == FoldLeft(LAMBDA acc, b : FeedOne(acc, b), s, blocks)

EndParent(s) ==
  LET t == IF s.cursor <= Parent(s).hi THEN TryFit(NoteFirstFree(s), Parent(s).hi) ELSE s
  IN  IF t.done THEN t ELSE AdvanceParent(t)

-----------------------------------------------------------------------------
(***************************************************************************)
(* The queries, and the loop around them.                                  *)
(***************************************************************************)
\* A number as an address: one too wide for the family becomes all zeros.
intToIP(n) == IF n < family THEN n ELSE 0

\* Where Need says to start.
From(s) == intToIP(s.cursor)

InParent(s) == { b \in rows : Addrs(b) \subseteq Addrs(Parent(s)) }

\* allocated_cidr >>= from
LoadBlocksCovering(s) == Ascending({ b \in InParent(s) : From(s) \in Addrs(b) })

\* allocated_cidr >= from in inet order: a wider block at `from` sorts below it.
LoadBlocksFrom(s) ==
  LET above == Ascending({ b \in InParent(s) :
                             b.lo > From(s) \/ b = [lo |-> From(s), hi |-> From(s)] })
  IN  SubSeq(above, 1, Min({PageSize, Len(above)}))

Aligned == { b \in Block : \E n \in Powers : b \in AlignedBlocks(n) }

\* Rows lie in the pool's ranges.  Rows of one address space do not overlap;
\* a search of every space sees overlapping rows, and has no floor.
Init ==
  /\ parents \in ParentLists /\ family \in Families
  /\ rows \in UNION { kSubset(k, { b \in Aligned :
                        \E i \in DOMAIN parents : Addrs(b) \subseteq Addrs(parents[i]) })
                      : k \in 0 .. MaxRows }
  /\ size \in Sizes
  /\ floor \in -1 .. Size - 1
  /\ floor # NoFloor => \A b, c \in rows : b # c => ~Overlap(b, c)
  /\ step = "probe" /\ pages = 0
  /\ scan = AdvanceParent([p |-> 0, cursor |-> 0, last |-> -1, free |-> NoFloor,
                           result |-> None, done |-> FALSE, err |-> ""])

Undecided == ~scan.done /\ scan.err = ""

\* Faulty variant: the probe runs once and its move of the cursor is trusted.
Probe_Once ==
  /\ step = "probe" /\ Undecided
  /\ scan' = Feed(scan, LoadBlocksCovering(scan))
  /\ step' = "page"
  /\ UNCHANGED <<inputs, pages>>

\* At the page limit the loop gives up with errSearchDidNotAdvance.
Probe ==
  /\ step = "probe" /\ Undecided
  /\ scan' = IF pages = PageLimit THEN [scan EXCEPT !.err = "did not advance"]
             ELSE Feed(scan, LoadBlocksCovering(scan))
  /\ IF From(scan') # From(scan)
     THEN step' = "probe" /\ pages' = pages + 1
     ELSE step' = "page" /\ pages' = pages
  /\ UNCHANGED inputs

Page ==
  /\ step = "page" /\ Undecided
  /\ scan' = IF LoadBlocksFrom(scan) = <<>> THEN EndParent(scan)
             ELSE Feed(scan, LoadBlocksFrom(scan))
  /\ step' = "probe" /\ pages' = pages + 1
  /\ UNCHANGED inputs

Return ==
  /\ ~Undecided /\ step # "end"
  /\ step' = "end"
  /\ UNCHANGED <<inputs, pages, scan>>

Next == Probe \/ Page \/ Return

Spec == Init /\ [][Next]_vars

-----------------------------------------------------------------------------
\* What the floor hides from the search.
Below == IF floor <= 0 THEN {} ELSE { [lo |-> a, hi |-> a] : a \in 0 .. floor - 1 }

FreeInParents ==
  { a \in Addr : /\ \E i \in DOMAIN parents : a \in Addrs(parents[i])
                 /\ \A b \in rows \cup Below : a \notin Addrs(b) }

WholePool == parents = <<[lo |-> 0, hi |-> Size - 1]>>

\* The last address of the family is one of the pool's, and taken.  One past it
\* is a cursor that intToIP turns into the family's first address.
FamilyEndTaken ==
  Last(parents).hi = family - 1 /\ \E b \in rows : family - 1 \in Addrs(b)

\* boundedFirstFit "returns the block FindFirstAvailableBlock would return over
\* the whole set", wherever the pages end and whatever covers the cursor; on a
\* pool of one range that is Cidr!FirstFit, which PoolAllocator uses.  The two
\* internal errors (ErrScanOutOfOrder, errSearchDidNotAdvance) only ever stand
\* in for ErrPoolExhausted, and only when the pool holds the last address of its
\* family and that address is taken; there they do occur, because the cursor
\* one past that address reads the pool again from address zero.
ScanAgrees ==
  LET found == FindFirstAvailableBlock(parents, rows \cup Below, size)
  IN  step = "end" =>
        /\ scan.err = "" => scan.result = found
        /\ scan.err # "" => found = None /\ FamilyEndTaken
        /\ WholePool /\ scan.result # None => scan.result = FirstFit(rows, size, Max({0, floor}))

\* The address cached as the next floor is the lowest free one, so no search
\* that starts from it steps over a hole, and there is none only when the pool
\* is full (Scan.FirstFree); a search that fails hands out no floor.
FloorIsLowestFree ==
  step = "end" /\ scan.err = "" =>
    IF scan.free = NoFloor THEN FreeInParents = {}
    ELSE scan.free \in FreeInParents /\ \A a \in FreeInParents : scan.free <= a

\* Every strategy hands out a block that is available, finds one whenever an
\* aligned one is free, and reports the consumption of the pool with it taken;
\* on a pool of one range best fit is Cidr!BestFit, which PoolAllocator uses.
AllocateIsExact ==
  pages = 0 /\ floor = NoFloor => \A strategy \in {"FirstFit", "BestFit", "LeastUtilized"} :
    LET r    == AllocateBlock(parents, rows, size, strategy)
        free == { b \in AlignedBlocks(size) : IsBlockAvailable(parents, rows, b) }
    IN  /\ r.block = None => free = {}
        /\ r.block # None => r.block \in free
        /\ WholePool /\ strategy = "BestFit" /\ free # {} => r.block = BestFit(rows, size)
        /\ r.consumed = Measure(rows \cup IF r.block = None THEN {} ELSE {r.block})

\* The free space of a parent decomposes into disjoint aligned blocks that cover
\* it exactly, and no two of them merge into a larger one (SubtractCIDR).
SplitIsExact ==
  pages = 0 /\ floor = NoFloor => \A i \in DOMAIN parents :
    LET out == SubtractCIDR(parents[i], rows)
    IN  /\ out \subseteq Aligned
        /\ Covered(out) = Addrs(parents[i]) \ Covered(rows)
        /\ \A b, c \in out : b # c =>
             /\ ~Overlap(b, c)
             /\ ~ \E d \in Aligned : Addrs(d) = Addrs(b) \cup Addrs(c)

\* A reservation keeps exactly the units asked for, at the two ends of the pool
\* as a whole, or reports why it cannot (ReservedBlocks).
ReservationIsAtTheEnds ==
  pages = 0 /\ floor = NoFloor /\ rows = {} => \A l, t \in 0 .. Size : \A unit \in Sizes :
    LET r     == ReservedIn(parents, l, t, unit)
        units == { b \in AlignedBlocks(unit) :
                     \E i \in DOMAIN parents : Addrs(b) \subseteq Addrs(parents[i]) }
        lead  == { b \in units : Cardinality({ c \in units : c.lo < b.lo }) < l }
        trail == { b \in units : Cardinality({ c \in units : c.lo > b.lo }) < t }
    IN  IF r.err = "" THEN r.out = lead \cup trail /\ Cardinality(r.out) = l + t
        ELSE \/ l + t > Cardinality(units)
             \/ \E i \in DOMAIN parents : unit > RegionSize(parents[i])
=============================================================================
