------------------------------ MODULE FreeSpace ------------------------------
(***************************************************************************)
(* The whole-set algorithms of internal/allocation over a list of parent   *)
(* ranges: the sweep that finds the free regions (cidr.go), the choice of  *)
(* a block by strategy and the measurement taken with it (allocate.go),    *)
(* the expansion of a reservation (reservation.go) and the decomposition   *)
(* of free space into CIDRs.  Cidr holds the definitions by which these    *)
(* are judged; here they are written the way the code computes them.       *)
(***************************************************************************)
EXTENDS Cidr, SequencesExt

None == [lo |-> -1, hi |-> -1]   \* a nil *net.IPNet

\* PostgreSQL's order on inet, which is also an order by first address.
Before(a, b) == a.lo < b.lo \/ (a.lo = b.lo /\ a.hi > b.hi)

RECURSIVE Ascending(_)
Ascending(blocks) ==
  IF blocks = {} THEN <<>>
  ELSE LET least == CHOOSE b \in blocks : \A c \in blocks \ {b} : Before(b, c)
       IN  <<least>> \o Ascending(blocks \ {least})

Within(parent, blocks) == { b \in blocks : b.lo \in Addrs(parent) }

\* Faulty variant: the cursor steps back when a nested block ends first.
Sweep_StepsBack(acc, b) ==
  [cursor  |-> b.hi + 1,
   regions |-> IF b.lo > acc.cursor
               THEN Append(acc.regions, [lo |-> acc.cursor, hi |-> b.lo - 1])
               ELSE acc.regions]

\* One block of the sweep: what lies between the cursor and it is free.
Sweep(acc, b) ==
  [cursor  |-> Max({acc.cursor, b.hi + 1}),
   regions |-> IF b.lo > acc.cursor
               THEN Append(acc.regions, [lo |-> acc.cursor, hi |-> b.lo - 1])
               ELSE acc.regions]

Regions(parent, blocks) ==
  LET swept == FoldLeft(LAMBDA acc, b : Sweep(acc, b), [cursor |-> parent.lo, regions |-> <<>>],
                        Ascending(Within(parent, blocks)))
  IN  IF swept.cursor > parent.hi THEN swept.regions
      ELSE Append(swept.regions, [lo |-> swept.cursor, hi |-> parent.hi])

TotalSize(regions) == FoldLeft(LAMBDA n, r : n + RegionSize(r), 0, regions)

ViewParent(parent, blocked) ==
  LET regions == Regions(parent, blocked)
  IN  [parent |-> parent, regions |-> regions, free |-> TotalSize(regions)]

ViewPool(parents, blocked) == [i \in DOMAIN parents |-> ViewParent(parents[i], blocked)]

FitIn(region, n) ==
  [lo |-> AlignUp(region.lo, n), hi |-> AlignUp(region.lo, n) + n - 1]

\* The regions, by parent and position, that have room for an aligned block.
Rooms(views, n) ==
  { c \in UNION { {i} \X DOMAIN views[i].regions : i \in DOMAIN views } :
      /\ n <= RegionSize(views[c[1]].parent)
      /\ FitIn(views[c[1]].regions[c[2]], n).hi <= views[c[1]].regions[c[2]].hi }

Earlier(c, d) == c[1] < d[1] \/ (c[1] = d[1] /\ c[2] < d[2])

\* How a strategy ranks a region; the earliest of the lowest rank is taken.
Rank(views, c, strategy) ==
  CASE strategy = "FirstFit"      -> 0
    [] strategy = "BestFit"       -> RegionSize(views[c[1]].regions[c[2]])
    [] strategy = "LeastUtilized" -> - views[c[1]].free

SelectRoom(views, n, strategy) ==
  CHOOSE c \in Rooms(views, n) : \A d \in Rooms(views, n) \ {c} :
    \/ Rank(views, c, strategy) < Rank(views, d, strategy)
    \/ Rank(views, c, strategy) = Rank(views, d, strategy) /\ Earlier(c, d)

\* The parts of a region on either side of a block taken out of it.
Remainder(region, block) ==
  (IF block.lo > region.lo THEN <<[lo |-> region.lo, hi |-> block.lo - 1]>> ELSE <<>>)
  \o (IF block.hi < region.hi THEN <<[lo |-> block.hi + 1, hi |-> region.hi]>> ELSE <<>>)

TakeFrom(view, i, block) ==
  [view EXCEPT
     !.regions = SubSeq(@, 1, i - 1) \o Remainder(@[i], block) \o SubSeq(@, i + 1, Len(@)),
     !.free    = @ - RegionSize(block)]

Consumed(views) ==
  LET total == FoldLeft(LAMBDA n, v : n + RegionSize(v.parent), 0, views)
      free  == FoldLeft(LAMBDA n, v : n + v.free, 0, views)
  IN  Max({0, total - free})

\* A block and the consumption of the pool once it is taken.
AllocateBlock(parents, blocked, n, strategy) ==
  LET views == ViewPool(parents, blocked)
  IN  IF Rooms(views, n) = {} THEN [block |-> None, consumed |-> Consumed(views)]
      ELSE LET c == SelectRoom(views, n, strategy)
               b == FitIn(views[c[1]].regions[c[2]], n)
           IN  [block    |-> b,
                consumed |-> Consumed([views EXCEPT ![c[1]] = TakeFrom(@, c[2], b)])]

FindFirstAvailableBlock(parents, blocked, n) ==
  LET views == ViewPool(parents, blocked)
      fits  == { i \in DOMAIN views : \E c \in Rooms(views, n) : c[1] = i }
  IN  IF fits = {} THEN None
      ELSE LET i == Min(fits)
               r == Min({ c[2] : c \in { d \in Rooms(views, n) : d[1] = i } })
           IN  FitIn(views[i].regions[r], n)

IsBlockAvailable(parents, blocked, want) ==
  /\ \E i \in DOMAIN parents : Addrs(want) \subseteq Addrs(parents[i])
  /\ \A b \in blocked : ~Overlap(want, b)

-----------------------------------------------------------------------------
(***************************************************************************)
(* Reservations and decomposition.                                         *)
(***************************************************************************)
UnitsToTake(want, available) == IF available >= want THEN want ELSE available

\* The k units at the front of one parent, or at its back.
FrontUnits(p, unit, k) ==
  { [lo |-> p.lo + i * unit, hi |-> p.lo + i * unit + unit - 1] : i \in 0 .. k - 1 }
BackUnits(p, unit, k) ==
  { [lo |-> p.hi + 1 - i * unit, hi |-> p.hi - (i - 1) * unit] : i \in 1 .. k }

\* Faulty variant: the run does not spill into the next range.
TakeLeading_FirstOnly(sorted, unit, count) ==
  FrontUnits(Head(sorted), unit, UnitsToTake(count, RegionSize(Head(sorted)) \div unit))

\* Walk the parents upwards, or downwards, until the count is met.
TakeLeading(sorted, unit, count) ==
  FoldLeft(LAMBDA acc, p :
             LET k == UnitsToTake(acc.left, RegionSize(p) \div unit)
             IN  [left |-> acc.left - k, out |-> acc.out \cup FrontUnits(p, unit, k)],
           [left |-> count, out |-> {}], sorted).out

TakeTrailing(sorted, unit, count) ==
  FoldLeft(LAMBDA acc, p :
             LET k == UnitsToTake(acc.left, RegionSize(p) \div unit)
             IN  [left |-> acc.left - k, out |-> acc.out \cup BackUnits(p, unit, k)],
           [left |-> count, out |-> {}], Reverse(sorted)).out

\* "invalid" and "too large" are the two errors of ReservedBlocks.
ReservedIn(parents, leading, trailing, unit) ==
  LET sorted == Ascending(ToSet(parents))
      units  == FoldLeft(LAMBDA n, p : n + (RegionSize(p) \div unit), 0, sorted)
  IN  CASE leading = 0 /\ trailing = 0 -> [err |-> "", out |-> {}]
        [] \E p \in ToSet(parents) : unit > RegionSize(p) -> [err |-> "invalid", out |-> {}]
        [] leading + trailing > units -> [err |-> "too large", out |-> {}]
        [] OTHER -> [err |-> "",
                     out |-> TakeLeading(sorted, unit, leading)
                             \cup TakeTrailing(sorted, unit, trailing)]

Powers == { n \in 1 .. Size : \E k \in 0 .. Size : n = 2 ^ k }

\* Faulty variant: always the smallest block.
SplitRegion_Hosts(cursor, end) == { [lo |-> a, hi |-> a] : a \in cursor .. end }

RECURSIVE SplitRegion(_, _)
\* Greedy: the largest aligned block that fits at the cursor, then the rest.
SplitRegion(cursor, end) ==
  IF cursor > end THEN {}
  ELSE LET n == Max({ k \in Powers : cursor % k = 0 /\ cursor + k - 1 <= end })
       IN  {[lo |-> cursor, hi |-> cursor + n - 1]} \cup SplitRegion(cursor + n, end)

SubtractCIDR(parent, blocks) ==
  UNION { SplitRegion(r.lo, r.hi) : r \in ToSet(Regions(parent, blocks)) }

=============================================================================
