-------------------------- MODULE PoolFloorProofs ---------------------------
(***************************************************************************)
(* What the proofs about PoolAllocator rest on.  First fit and best fit    *)
(* choose among the free blocks, and a consumption delta is exactly what a *)
(* block adds to, or a release takes from, the addresses already covered.  *)
(* What the actions build has the type the variables have.  One session at *)
(* a time holds the pool lock, and only it has uncommitted rows.  Last,    *)
(* the search floors of pools that stay FirstFit and are not carved: no    *)
(* free address ever lies under a committed floor, and a request is told   *)
(* the pool is exhausted only when it is.                                  *)
(***************************************************************************)
EXTENDS PoolAllocator, FiniteSetTheorems, WellFoundedInduction, TLAPS

----------------------------------------------------------------------------
\* Blocks

\* Every non-empty set of natural numbers has a least element.
LEMMA LeastNat ==
  ASSUME NEW S \in SUBSET Nat, S # {}
  PROVE  \E a \in S : \A c \in S : a <= c
<1>1. \E x \in S : \A y \in S : ~ (<<y, x>> \in OpToRel(<, Nat))
  BY Zenon, NatLessThanWellFounded, WFMin
<1>2. PICK x \in S : \A y \in S : ~ (<<y, x>> \in OpToRel(<, Nat))
  BY Zenon, <1>1
<1>3. ASSUME NEW y \in S PROVE x <= y
  <2>1. <<y, x>> \in Nat \X Nat => ~(y < x)
    BY <1>2 DEF OpToRel
  <2> QED BY <2>1
<1> QED BY <1>3

\* A region or block of Nat bounds: some member of a non-empty set of blocks
\* has the lowest first address.
LEMMA LowestBlock ==
  ASSUME NEW B, B # {}, \A b \in B : b.lo \in Nat
  PROVE  \E b \in B : \A c \in B : b.lo <= c.lo
<1> DEFINE L == { b.lo : b \in B }
<1>1. L \in SUBSET Nat /\ L # {}
  OBVIOUS
<1>2. PICK a \in L : \A c \in L : a <= c
  <2> HIDE DEF L
  <2> QED BY <1>1, LeastNat
<1>3. PICK b \in B : b.lo = a
  OBVIOUS
<1>4. \A c \in B : b.lo <= c.lo
  BY <1>2, <1>3
<1> QED BY <1>4

----------------------------------------------------------------------------
\* Choosing a block

\* A block of n addresses lies inside the pool.
LEMMA AlignedBlockInPool ==
  ASSUME NEW n \in Nat \ {0}, NEW b \in AlignedBlocks(n)
  PROVE  /\ b \in Block
         /\ b.lo <= b.hi
         /\ b.hi = b.lo + n - 1
BY SizeAssumption DEF AlignedBlocks, Block, Addr

\* First fit returns a free block whenever there is one at or above a floor.
LEMMA FirstFitIsFree ==
  ASSUME NEW taken, NEW n \in Nat \ {0}, NEW from,
         FreeBlocksFrom(taken, n, from) # {}
  PROVE  FirstFit(taken, n, from) \in FreeBlocksFrom(taken, n, from)
<1> DEFINE B == FreeBlocksFrom(taken, n, from)
<1>1. \A b \in B : b.lo \in Nat
  BY AlignedBlockInPool, SizeAssumption DEF FreeBlocksFrom, FreeBlocks, Block, Addr
<1>2. \E b \in B : \A c \in B : b.lo <= c.lo
  <2> HIDE DEF B
  <2> SUFFICES B # {} BY <1>1, LowestBlock
  <2> QED BY DEF B
<1> QED BY <1>2 DEF FirstFit

\* The lowest block of a free block is itself free, so there is a first free
\* address for raiseSearchFloor to record.
LEMMA FirstFreeIsAddr ==
  ASSUME NEW taken, NEW n \in Nat \ {0}, NEW from \in Int,
         \A t \in taken : t.lo \in Int /\ t.hi \in Int,
         FreeBlocksFrom(taken, n, from) # {}
  PROVE  FirstFree(taken, from) \in Addr
<1> DEFINE F == FreeAddrsFrom(taken, from)
<1>1. PICK b \in FreeBlocksFrom(taken, n, from) : TRUE
  OBVIOUS
<1>2. b.lo \in Addr /\ b.lo <= b.hi /\ b.lo >= from /\ b.hi \in Addr
  BY AlignedBlockInPool DEF FreeBlocksFrom, FreeBlocks, Block
<1>3. ASSUME NEW t \in taken PROVE b.lo \notin Addrs(t)
  BY <1>2, SizeAssumption DEF FreeBlocksFrom, FreeBlocks, Overlap, Addrs, Addr
<1>4. b.lo \in F
  BY <1>2, <1>3 DEF FreeAddrsFrom, Covered
<1>5. F \in SUBSET Nat
  BY SizeAssumption DEF FreeAddrsFrom, Addr
<1>6. \E a \in F : \A c \in F : a <= c
  <2> HIDE DEF F
  <2> QED BY <1>4, <1>5, LeastNat
<1>7. FirstFree(taken, from) \in F
  BY <1>6 DEF FirstFree
<1> QED BY <1>7 DEF FreeAddrsFrom

\* Best fit returns a free block whenever some region has room.
LEMMA BestFitIsFree ==
  ASSUME NEW taken, NEW n \in Nat \ {0}, Candidates(taken, n) # {}
  PROVE  BestFit(taken, n) \in FreeBlocks(taken, n)
<1> DEFINE C == Candidates(taken, n)
           B == BestFits(taken, n)
           Z == { RegionSize(c[1]) : c \in C }
           L == { c[1].lo : c \in B }
<1>1. \A c \in C : c[1].lo \in Nat /\ RegionSize(c[1]) \in Nat /\ c[2] \in FreeBlocks(taken, n)
  BY SizeAssumption DEF Candidates, FreeRegions, Block, Addr, RegionSize
<1>2. PICK z \in Z : \A y \in Z : z <= y
  <2>1. Z \in SUBSET Nat /\ Z # {}
    BY <1>1
  <2> HIDE DEF Z
  <2> QED BY <2>1, LeastNat
<1>3. B # {}
  BY <1>2 DEF BestFits
<1>4. B \subseteq C
  BY DEF BestFits
<1>5. PICK l \in L : \A y \in L : l <= y
  <2>1. L \in SUBSET Nat /\ L # {}
    BY <1>1, <1>3, <1>4
  <2> HIDE DEF L
  <2> QED BY <2>1, LeastNat
<1>6. \E c \in B : \A d \in B : c[1].lo <= d[1].lo
  BY <1>5
<1>7. PICK c \in B : BestFit(taken, n) = c[2]
  BY Zenon, <1>6 DEF BestFit
<1> QED BY <1>1, <1>4, <1>7

----------------------------------------------------------------------------
\* Counting addresses

\* A measure is a number of addresses.
LEMMA MeasureType ==
  ASSUME NEW V
  PROVE  /\ IsFiniteSet(Covered(V))
         /\ Measure(V) \in Nat
<1>1. IsFiniteSet(Addr)
  BY SizeAssumption, FS_Interval DEF Addr
<1>2. IsFiniteSet(Covered(V))
  BY <1>1, FS_Subset DEF Covered
<1> QED BY <1>2, FS_CardinalityType DEF Measure

\* Only the bounds of the blocks count.
LEMMA CoveredByBounds ==
  ASSUME NEW V, NEW W,
         \A v \in V : \E w \in W : v.lo = w.lo /\ v.hi = w.hi,
         \A w \in W : \E v \in V : v.lo = w.lo /\ v.hi = w.hi
  PROVE  Covered(V) = Covered(W) /\ Measure(V) = Measure(W)
<1>1. Covered(V) = Covered(W)
  BY DEF Covered, Addrs
<1> QED BY <1>1 DEF Measure

\* What a larger set covers beyond a smaller one is the difference of the
\* measures.
LEMMA MeasureDifference ==
  ASSUME NEW V, NEW W, V \subseteq W
  PROVE  Cardinality(Covered(W) \ Covered(V)) = Measure(W) - Measure(V)
<1>1. Covered(W) \cap Covered(V) = Covered(V)
  BY DEF Covered
<1> HIDE DEF Covered
<1>2. Cardinality(Covered(W) \ Covered(V)) = Cardinality(Covered(W)) - Cardinality(Covered(W) \cap Covered(V))
  BY Zenon, MeasureType, FS_Difference
<1> QED BY Zenon, <1>1, <1>2 DEF Measure

\* consumptionDelta counts against the overlapping blocks alone, and what it
\* counts is what the block adds to everything held.
LEMMA DeltaIsExact ==
  ASSUME NEW V, NEW c, c.lo \in Int, c.hi \in Int,
         \A r \in V : r.lo \in Int /\ r.hi \in Int
  PROVE  Measure(V \cup {c}) =
           Measure(V) + ConsumptionDelta({ r \in V : Overlap(r, c) }, c)
<1> DEFINE O == { r \in V : Overlap(r, c) }
<1>1. Covered(V \cup {c}) \ Covered(V) = Covered(O \cup {c}) \ Covered(O)
  <2>1. ASSUME NEW a \in Addr, a \in Addrs(c), NEW r \in V, a \in Addrs(r)
        PROVE  r \in O
    BY <2>1, SizeAssumption DEF Addrs, Overlap, Addr
  <2> QED BY <2>1 DEF Covered
<1> HIDE DEF O
<1>2. Measure(V \cup {c}) - Measure(V) = Measure(O \cup {c}) - Measure(O)
  BY Zenon, <1>1, MeasureDifference
<1>3. /\ Measure(V) \in Nat /\ Measure(V \cup {c}) \in Nat
      /\ Measure(O) \in Nat /\ Measure(O \cup {c}) \in Nat
  BY MeasureType
<1> QED BY <1>2, <1>3 DEF ConsumptionDelta, O

\* Blocks that overlap nothing held add their own measure.
LEMMA MeasureDisjoint ==
  ASSUME NEW V, NEW W,
         \A v \in V : v.lo \in Int /\ v.hi \in Int,
         \A w \in W : w.lo \in Int /\ w.hi \in Int,
         \A v \in V, w \in W : ~Overlap(w, v)
  PROVE  Measure(V \cup W) = Measure(V) + Measure(W)
<1>1. Covered(V \cup W) = Covered(V) \cup Covered(W)
  BY DEF Covered
<1>2. Covered(V) \cap Covered(W) = {}
  BY SizeAssumption DEF Covered, Addrs, Overlap, Addr
<1> HIDE DEF Covered
<1>3. Cardinality({}) = 0
  BY FS_EmptySet
<1>4. IsFiniteSet(Covered(V)) /\ IsFiniteSet(Covered(W)) /\ Measure(V) \in Nat /\ Measure(W) \in Nat
  BY MeasureType
<1>5. Cardinality(Covered(V) \cup Covered(W)) =
        Cardinality(Covered(V)) + Cardinality(Covered(W)) - Cardinality(Covered(V) \cap Covered(W))
  BY <1>4, FS_Union
<1>6. Cardinality(Covered(V) \cup Covered(W)) = Measure(V) + Measure(W) - 0
  BY Zenon, <1>2, <1>3, <1>5 DEF Measure
<1>7. Measure(V \cup W) = Cardinality(Covered(V) \cup Covered(W))
  BY Zenon, <1>1 DEF Measure
<1> QED BY <1>4, <1>6, <1>7

\* Measures grow with the set.
LEMMA MeasureMonotone ==
  ASSUME NEW V, NEW W, V \subseteq W
  PROVE  Measure(V) <= Measure(W)
<1>1. Covered(V) \subseteq Covered(W)
  BY DEF Covered
<1> HIDE DEF Covered
<1> QED BY <1>1, MeasureType, FS_Subset DEF Measure

----------------------------------------------------------------------------
\* Typing of what the actions build

\* Changing who inserts, deletes or binds a row leaves everything else alone.
LEMMA RowVersions ==
  ASSUME NEW r \in Row, NEW x \in Txn \cup {NoTxn}, NEW b \in BOOLEAN
  PROVE  /\ [r EXCEPT !.xmax = x] \in Row
         /\ [r EXCEPT !.xmin = x] \in Row
         /\ [r EXCEPT !.bound = b] \in Row
BY DEF Row

\* What the actions build has its type: the row of a reservation,
LEMMA ReservationRowType ==
  ASSUME NEW b \in Reserved, NEW t \in Txn
  PROVE  ReservationRow(b, t) \in Row
BY ReservedAssumption, ConstantsAssumption DEF ReservationRow, Row, Block, Purpose

\* a request,
LEMMA RequestType ==
  ASSUME NEW r \in Request
  PROVE  /\ r.op \in {"Claim", "Child", "Carve"}
         /\ r.key \in Key
         /\ r.space \in Space
         /\ r.n \in Nat \ {0}
         /\ r.policy \in {"Delete", "Retain"}
BY ZenonT(60), ConstantsAssumption DEF Request

\* A search that finds something chooses a free block.
LEMMA ChosenIsFree ==
  ASSUME NEW t \in Txn, req[t] \in Request, Fits(t) # {}
  PROVE  /\ Chosen(t) \in FreeBlocks(Taken(t), req[t].n)
         /\ Chosen(t) \in Block
         /\ Chosen(t).lo <= Chosen(t).hi
<1>1. req[t].n \in Nat \ {0}
  BY RequestType
<1>2. Chosen(t) \in FreeBlocks(Taken(t), req[t].n)
  <2>1. CASE strategy = "BestFit"
    BY <1>1, <2>1, BestFitIsFree DEF Chosen, Fits
  <2>2. CASE strategy # "BestFit"
    BY <1>1, <2>2, FirstFitIsFree DEF Chosen, Fits, FreeBlocksFrom
  <2> QED BY <2>1, <2>2
<1> QED BY <1>1, <1>2, AlignedBlockInPool DEF FreeBlocks

\* the row of an allocation,
LEMMA NewRowType ==
  ASSUME NEW t \in Txn, req[t] \in Request, Fits(t) # {}
  PROVE  NewRow(t) \in Row
<1>1. Chosen(t).lo \in Addr /\ Chosen(t).hi \in Addr
  BY ChosenIsFree DEF Block
<1> QED BY <1>1, RequestType DEF NewRow, Row, Purpose

\* the running total,
LEMMA TotalType ==
  ASSUME NEW t \in Txn, pendConsumed \in Nat \cup {NoTotal}
  PROVE  Total(t) \in Nat
BY MeasureType DEF Total

\* what an allocation adds to it,
LEMMA DeltaType ==
  ASSUME NEW O, NEW b
  PROVE  ConsumptionDelta(O, b) \in Nat
<1>1. O \subseteq O \cup {b}
  OBVIOUS
<1>2. Measure(O) <= Measure(O \cup {b})
  BY <1>1, MeasureMonotone
<1>3. Measure(O) \in Nat /\ Measure(O \cup {b}) \in Nat
  BY MeasureType
<1> QED BY <1>2, <1>3 DEF ConsumptionDelta

\* what a release leaves of it,
LEMMA AfterReleaseType ==
  ASSUME NEW t \in Txn, pendConsumed \in Nat \cup {NoTotal}
  PROVE  AfterRelease(t) \in Nat
<1> DEFINE V == Visible(t)
           W == Visible(t) \cup Deleting(t)
<1>1. Measure(V) \in Nat /\ Measure(W) \in Nat
  BY MeasureType
<1>2. Measure(V) <= Measure(W)
  BY MeasureMonotone
<1> HIDE DEF V, W
<1>3. Measure(W) - Measure(V) \in Nat
  BY <1>1, <1>2
<1> QED BY <1>1, <1>3 DEF AfterRelease, V, W

\* the lowest address that was freed,
LEMMA LowestType ==
  ASSUME NEW D, D # {}, \A r \in D : r.lo \in Addr
  PROVE  Lowest(D) \in Addr
<1> DEFINE L == { r.lo : r \in D }
<1>1. L \in SUBSET Nat /\ L # {}
  BY SizeAssumption DEF Addr
<1>2. \E a \in L : \A c \in L : a <= c
  <2> HIDE DEF L
  <2> QED BY <1>1, LeastNat
<1>3. Lowest(D) \in L
  BY <1>2 DEF Lowest
<1> QED BY <1>3

----------------------------------------------------------------------------
\* Type correctness

\* the floor a session has locked,
LEMMA LockFloorType ==
  ASSUME TypeOK, NEW t \in Txn, req[t] \in Request, NEW v,
         UsesFloor(t) => v \in Addr, LockFloor(t, v)
  PROVE  /\ floorLock' \in [Space -> Txn \cup {NoTxn}]
         /\ pendFloor' \in [Space -> Addr \cup {NoFloor}]
BY RequestType DEF LockFloor, TypeOK

\* and the one it leaves behind.
LEMMA ObservedType ==
  ASSUME TypeOK, NEW t \in Txn, req[t] \in Request
  PROVE  Observed(t) \in Addr
BY RequestType, SizeAssumption DEF Observed, TypeOK, Addr

\* A delete keeps the type of the rows.
LEMMA StartDeleteType ==
  ASSUME TypeOK, NEW t \in Txn, NEW D \in SUBSET rows, StartDelete(t, D)
  PROVE  /\ rows' \in SUBSET Row
         /\ todo' \in [Txn -> SUBSET Space]
         /\ pc' = [pc EXCEPT ![t] = "lower"]
         /\ UNCHANGED <<floorVars, totalVars, poolLock, pool, strategy>>
<1>1. ASSUME NEW q \in rows' PROVE q \in Row
  <2>1. PICK r \in rows : q = IF r \in D THEN [r EXCEPT !.xmax = t] ELSE r
    BY DEF StartDelete
  <2>2. r \in Row
    BY DEF TypeOK
  <2> QED BY ZenonT(60), <2>1, <2>2, RowVersions
<1> QED BY <1>1 DEF StartDelete, TypeOK

\* Giving up the locks keeps their types.
LEMMA UnlockType ==
  ASSUME TypeOK, NEW t \in Txn, Unlock(t)
  PROVE  /\ floorLock' \in [Space -> Txn \cup {NoTxn}]
         /\ poolLock' \in Txn \cup {NoTxn}
         /\ todo' \in [Txn -> SUBSET Space]
BY DEF Unlock, TypeOK

\* Every step keeps the types.
LEMMA TypeStep ==
  ASSUME TypeOK, LockInv, Next
  PROVE  TypeOK'
<1> USE DEF floorVars, totalVars
<1>1. ASSUME NEW t \in Txn, LockPool(t) PROVE TypeOK'
  <2> DEFINE new == NewReservations(t)
  <2>1. new \subseteq Reserved
    BY DEF NewReservations
  <2>2. rows' \in SUBSET Row
    BY <1>1, <2>1, ReservationRowType DEF LockPool, TypeOK
  <2>3. pendConsumed' \in Nat \cup {NoTotal}
    <3>1. Measure(new) \in Nat /\ Total(t) \in Nat
      BY MeasureType, TotalType DEF TypeOK
    <3> QED BY <1>1, <3>1 DEF LockPool, TypeOK
  <2> QED BY <1>1, <2>2, <2>3 DEF LockPool, TypeOK
<1>2. ASSUME NEW t \in Txn, Allocate(t) PROVE TypeOK'
  <2>1. req[t] \in Request /\ Fits(t) # {}
    BY Zenon, <1>2 DEF Allocate, LockInv
  <2>2. rows' \in SUBSET Row
    BY <1>2, <2>1, NewRowType DEF Allocate, TypeOK
  <2>3. pendConsumed' \in Nat \cup {NoTotal}
    <3>1. Total(t) \in Nat /\ ConsumptionDelta(Overlapping(t, Chosen(t)), Chosen(t)) \in Nat
      BY DeltaType, TotalType DEF TypeOK
    <3> QED BY <1>2, <3>1 DEF Allocate
  <2>4. UsesFloor(t) => FirstFree(Taken(t), Observed(t)) \in Addr
    <3>1. ASSUME UsesFloor(t) PROVE FreeBlocksFrom(Taken(t), req[t].n, Observed(t)) # {}
      BY <2>1, <3>1 DEF UsesFloor, Fits
    <3>2. \A r \in Taken(t) : r.lo \in Int /\ r.hi \in Int
      BY SizeAssumption DEF Taken, Visible, TypeOK, Row, Addr
    <3>3. Observed(t) \in Int /\ req[t].n \in Nat \ {0}
      BY <2>1, ObservedType, RequestType, SizeAssumption DEF Addr
    <3> QED BY Zenon, <3>1, <3>2, <3>3, FirstFreeIsAddr
  <2>5. LockFloor(t, FirstFree(Taken(t), Observed(t)))
    BY <1>2 DEF Allocate
  <2>6. /\ floorLock' \in [Space -> Txn \cup {NoTxn}]
        /\ pendFloor' \in [Space -> Addr \cup {NoFloor}]
    BY <2>1, <2>4, <2>5, LockFloorType
  <2> QED BY SMTT(60), <1>2, <2>2, <2>3, <2>6 DEF Allocate, TypeOK
<1>3. ASSUME NEW t \in Txn, Refuse(t) PROVE TypeOK'
  <2>1. req[t] \in Request /\ LockFloor(t, Observed(t))
    BY Zenon, <1>3 DEF Refuse, LockInv
  <2>2. /\ floorLock' \in [Space -> Txn \cup {NoTxn}]
        /\ pendFloor' \in [Space -> Addr \cup {NoFloor}]
    BY <2>1, ObservedType, LockFloorType
  <2> QED BY <1>3, <2>2 DEF Refuse, TypeOK
<1>4. ASSUME NEW t \in Txn, Release(t) PROVE TypeOK'
  <2>1. PICK r \in rows : StartDelete(t, {r})
    BY <1>4 DEF Release
  <2>2. {r} \in SUBSET rows
    OBVIOUS
  <2> QED BY Zenon, <1>4, <2>1, <2>2, StartDeleteType DEF Release, TypeOK
<1>5. ASSUME NEW t \in Txn, Retain(t) PROVE TypeOK'
  BY ZenonT(60), <1>5, RowVersions DEF Retain, TypeOK
<1>6. ASSUME NEW t \in Txn, LowerFloor(t) PROVE TypeOK'
  <2>1. Deleting(t) # {} /\ \A r \in Deleting(t) : r.lo \in Addr
    BY Zenon, <1>6 DEF LowerFloor, LockInv, Deleting, TypeOK, Row
  <2>2. Lowest(Deleting(t)) \in Addr
    BY <2>1, LowestType
  <2> QED BY SMTT(30), <1>6, <2>2 DEF LowerFloor, TypeOK
<1>7. ASSUME NEW t \in Txn, Recount(t) PROVE TypeOK'
  <2>1. AfterRelease(t) \in Nat
    BY AfterReleaseType DEF TypeOK
  <2> QED BY <1>7, <2>1 DEF Recount, TypeOK
<1>8. ASSUME NEW t \in Txn, CheckEmpty(t) PROVE TypeOK'
  BY Zenon, <1>8 DEF CheckEmpty, TypeOK
<1>9. ASSUME NEW t \in Txn, ReleaseReservations(t) PROVE TypeOK'
  <2> DEFINE D == { r \in Live : r.purpose = "Reservation" }
  <2>1. D \in SUBSET rows
    BY DEF Live
  <2>2. CASE D = {}
    BY Zenon, <1>9, <2>2 DEF ReleaseReservations, TypeOK
  <2>3. CASE D # {}
    <3>1. StartDelete(t, D) /\ UNCHANGED req
      BY <1>9, <2>3 DEF ReleaseReservations
    <3> HIDE DEF D
    <3>2. /\ rows' \in SUBSET Row /\ todo' \in [Txn -> SUBSET Space] /\ pc' = [pc EXCEPT ![t] = "lower"]
          /\ UNCHANGED <<floorVars, totalVars, poolLock, pool, strategy>>
      BY Zenon, <2>1, <3>1, StartDeleteType
    <3> QED BY Zenon, <3>1, <3>2 DEF TypeOK, floorVars, totalVars
  <2> QED BY <2>2, <2>3
<1>10. ASSUME NEW t \in Txn, LockForDrop(t) PROVE TypeOK'
  BY <1>10 DEF LockForDrop, TypeOK
<1>11. ASSUME NEW t \in Txn, DropPool(t) PROVE TypeOK'
  BY <1>11, ZenonT(60) DEF DropPool, TypeOK
<1>12. ASSUME NEW t \in Txn, Commit(t) PROVE TypeOK'
  <2>1. ASSUME NEW q \in rows' PROVE q \in Row
    <3>1. PICK r \in rows : q = IF r.xmin = t THEN [r EXCEPT !.xmin = NoTxn] ELSE r
      BY <1>12 DEF Commit
    <3>2. r \in Row
      BY DEF TypeOK
    <3> QED BY ZenonT(60), <3>1, <3>2, RowVersions
  <2>2. /\ floorLock' \in [Space -> Txn \cup {NoTxn}]
        /\ poolLock' \in Txn \cup {NoTxn}
        /\ todo' \in [Txn -> SUBSET Space]
    BY <1>12, UnlockType DEF Commit
  <2> QED BY SMTT(60), <1>12, <2>1, <2>2 DEF Commit, TypeOK
<1>13. ASSUME NEW t \in Txn, Abort(t) PROVE TypeOK'
  <2>1. ASSUME NEW q \in rows' PROVE q \in Row
    <3>1. PICK r \in rows : q = IF r.xmax = t THEN [r EXCEPT !.xmax = NoTxn] ELSE r
      BY <1>13 DEF Abort
    <3>2. r \in Row
      BY DEF TypeOK
    <3> QED BY ZenonT(60), <3>1, <3>2, RowVersions
  <2>2. /\ floorLock' \in [Space -> Txn \cup {NoTxn}]
        /\ poolLock' \in Txn \cup {NoTxn}
        /\ todo' \in [Txn -> SUBSET Space]
    BY Zenon, <1>13, UnlockType DEF Abort
  <2> QED BY ZenonT(60), <1>13, <2>1, <2>2 DEF Abort, TypeOK
<1>14. CASE CreatePool
  BY <1>14 DEF CreatePool, TypeOK
<1>15. CASE UpdateStrategy
  BY <1>15 DEF UpdateStrategy, TypeOK
<1> QED
  BY ZenonT(60), <1>1, <1>2, <1>3, <1>4, <1>5, <1>6, <1>7, <1>8, <1>9, <1>10, <1>11, <1>12,
     <1>13, <1>14, <1>15 DEF Next, TxnStep

----------------------------------------------------------------------------
\* Locks and row versions: every step keeps LockInv

\* A session that marks rows as deleted is one that holds them.
LEMMA StartDeleteLock ==
  ASSUME TypeOK, LockInv, NEW t \in Txn, pc[t] \in {"idle", "checked"},
         NEW D \in SUBSET rows, D # {},
         \A r \in D : /\ r.xmin = NoTxn /\ r.xmax = NoTxn
                      /\ r.bound => r.policy = "Delete",
         StartDelete(t, D), UNCHANGED req
  PROVE  LockInv'
<1> USE DEF floorVars, totalVars
<1>1. ASSUME NEW q \in rows'
      PROVE  \E r \in rows : \/ r \notin D /\ q = r
                             \/ r \in D /\ q = [r EXCEPT !.xmax = t]
  BY DEF StartDelete
<1>2. ASSUME NEW r \in rows
      PROVE  IF r \in D THEN [r EXCEPT !.xmax = t] \in rows' ELSE r \in rows'
  BY ZenonT(60)  DEF StartDelete
<1>3. /\ pc' = [pc EXCEPT ![t] = "lower"] /\ poolLock' = poolLock
      /\ \A u \in Txn \ {t} : todo'[u] = todo[u]
  BY DEF StartDelete, TypeOK
<1>4. \A u \in Txn : poolLock' = u <=> pc'[u] \in HoldsPool
  BY <1>3 DEF LockInv, TypeOK, HoldsPool
<1>5. \A u \in Txn : pc'[u] = "search" => req'[u] \in Request
  BY <1>3 DEF LockInv, TypeOK
<1>6. ASSUME NEW u \in Txn, pc'[u] = "lower" PROVE Deleting(u)' # {}
  <2>1. CASE u = t
    <3>1. PICK r \in D : TRUE
      OBVIOUS
    <3>2. [r EXCEPT !.xmax = t] \in rows' /\ r \in Row
      BY <1>2 DEF TypeOK
    <3>3. [r EXCEPT !.xmax = t].xmax = t
      BY <3>2 DEF Row
    <3> QED BY ZenonT(60), <2>1, <3>2, <3>3 DEF Deleting
  <2>2. CASE u # t
    <3>1. PICK r \in rows : r.xmax = u
      BY SMTT(60), <1>3, <1>6, <2>2 DEF LockInv, Deleting, TypeOK
    <3>2. r \notin D
      BY <3>1, ConstantsAssumption
    <3> QED BY ZenonT(60), <1>2, <3>1, <3>2 DEF Deleting
  <2> QED BY <2>1, <2>2
<1>7. \A u \in Txn : todo'[u] # {} => pc'[u] = "lower"
  BY <1>3 DEF LockInv, TypeOK
<1>8. ASSUME NEW q \in rows'
      PROVE  /\ q.purpose = "Reservation" => ~q.bound
             /\ q.xmax # NoTxn => /\ q.xmin = NoTxn
                                  /\ pc'[q.xmax] \in {"lower", "done"}
                                  /\ q.bound => q.policy = "Delete"
  <2>1. PICK r \in rows : \/ r \notin D /\ q = r
                          \/ r \in D /\ q = [r EXCEPT !.xmax = t]
    BY <1>1
  <2>2. r \in Row
    BY DEF TypeOK
  <2> QED BY SMTT(60), <1>3, <2>1, <2>2 DEF LockInv, TypeOK, Row
<1>9. ASSUME NEW q \in rows', q.xmin # NoTxn
      PROVE  q.xmin = poolLock' /\ pc'[q.xmin] # "fk" /\ Deleting(q.xmin)' = {}
  <2>1. PICK r \in rows : \/ r \notin D /\ q = r
                          \/ r \in D /\ q = [r EXCEPT !.xmax = t]
    BY <1>1
  <2>2. r \in Row /\ r \notin D /\ q = r
    BY <1>9, <2>1 DEF TypeOK, Row
  <2>3. r.xmin = poolLock /\ pc[r.xmin] # "fk" /\ Deleting(r.xmin) = {} /\ r.xmin \in Txn
    BY <1>9, <2>2 DEF LockInv, Row
  <2>4. r.xmin # t
    BY <2>3 DEF LockInv, HoldsPool
  <2>5. ASSUME NEW p \in rows' PROVE p.xmax # r.xmin
    <3>1. PICK w \in rows : \/ w \notin D /\ p = w
                            \/ w \in D /\ p = [w EXCEPT !.xmax = t]
      BY <1>1
    <3>2. w \in Row /\ w.xmax # r.xmin
      BY <2>3 DEF Deleting, TypeOK
    <3> QED BY <2>4, <3>1, <3>2 DEF Row
  <2> QED BY <1>3, <2>2, <2>3, <2>4, <2>5 DEF Deleting, TypeOK
<1> QED BY SMTT(60), <1>4, <1>5, <1>6, <1>7, <1>8, <1>9 DEF LockInv

\* Rows that t inserts under the pool lock, by LockPool or Allocate.
LEMMA InsertLock ==
  ASSUME TypeOK, LockInv, NEW t \in Txn, NEW N \in SUBSET Row,
         \A r \in N : r.xmin = t /\ r.xmax = NoTxn /\ (r.purpose = "Reservation" => ~r.bound),
         rows' = rows \cup N,
         pc[t] \in {"idle", "search"}, poolLock \in {NoTxn, t}, poolLock' = t,
         \/ pc' = [pc EXCEPT ![t] = "search"] /\ req'[t] \in Request
         \/ pc' = [pc EXCEPT ![t] = "done"],
         \A u \in Txn \ {t} : req'[u] = req[u],
         UNCHANGED todo
  PROVE  LockInv'
<1>1. \A u \in Txn : poolLock' = u <=> pc'[u] \in HoldsPool
  BY ConstantsAssumption DEF LockInv, TypeOK, HoldsPool
<1>2. \A u \in Txn : pc'[u] = "search" => req'[u] \in Request
  BY DEF LockInv, TypeOK
<1>3. \A u \in Txn : Deleting(u)' = Deleting(u)
  BY ConstantsAssumption DEF Deleting
<1>4. \A u \in Txn : pc'[u] = "lower" => Deleting(u)' # {}
  BY <1>3 DEF LockInv, TypeOK
<1>5. \A u \in Txn : todo'[u] # {} => pc'[u] = "lower"
  BY DEF LockInv, TypeOK
<1>6. Deleting(t) = {}
  BY ConstantsAssumption DEF LockInv, Deleting
<1>7. ASSUME NEW r \in rows', r.xmin # NoTxn
      PROVE  r.xmin = poolLock' /\ pc'[r.xmin] # "fk" /\ Deleting(r.xmin)' = {}
  <2>1. r.xmin = t
    BY <1>7 DEF LockInv
  <2> QED BY <1>3, <1>6, <2>1 DEF TypeOK
<1>8. ASSUME NEW r \in rows'
      PROVE  /\ r.purpose = "Reservation" => ~r.bound
             /\ r.xmax # NoTxn => /\ r.xmin = NoTxn
                                  /\ pc'[r.xmax] \in {"lower", "done"}
                                  /\ r.bound => r.policy = "Delete"
  <2>1. CASE r \in N
    BY <2>1
  <2>2. CASE r \in rows
    <3>1. r \in Row
      BY <2>2 DEF TypeOK
    <3> QED BY <2>2, <3>1 DEF LockInv, TypeOK, Row
  <2> QED BY <2>1, <2>2
<1> QED BY SMTT(60), <1>1, <1>2, <1>4, <1>5, <1>7, <1>8 DEF LockInv

\* A session without locks or rows of its own goes on to the drop of the pool.
LEMMA AsideLock ==
  ASSUME TypeOK, LockInv, NEW t \in Txn, pc[t] \in {"idle", "checked"},
         NEW p \in {"checked", "drop"}, pc' = [pc EXCEPT ![t] = p],
         \A u \in Txn \ {t} : req'[u] = req[u], UNCHANGED <<rows, poolLock, todo>>
  PROVE  LockInv'
<1>1. \A u \in Txn : Deleting(u)' = Deleting(u)
  BY DEF Deleting
<1>2. pc'[t] = p /\ \A u \in Txn \ {t} : pc'[u] = pc[u]
  BY DEF TypeOK
<1>3. \A u \in Txn : /\ poolLock' = u <=> pc'[u] \in HoldsPool
                     /\ pc'[u] = "search" => req'[u] \in Request
                     /\ pc'[u] = "lower" => Deleting(u)' # {}
                     /\ todo'[u] # {} => pc'[u] = "lower"
  BY <1>1, <1>2 DEF LockInv, HoldsPool
<1>4. \A r \in rows : /\ r.xmin # NoTxn => r.xmin # t
                      /\ r.xmax # NoTxn => r.xmax # t
                      /\ r.xmin \in Txn \cup {NoTxn} /\ r.xmax \in Txn \cup {NoTxn}
  BY DEF LockInv, HoldsPool, TypeOK, Row
<1>5. \A r \in rows : r.purpose = "Reservation" => ~r.bound
  BY DEF LockInv
<1>6. \A r \in rows : r.xmin # NoTxn =>
        r.xmin = poolLock /\ pc'[r.xmin] # "fk" /\ Deleting(r.xmin) = {}
  BY <1>2, <1>4 DEF LockInv
<1>7. \A r \in rows : r.xmax # NoTxn =>
        r.xmin = NoTxn /\ pc'[r.xmax] \in {"lower", "done"} /\ (r.bound => r.policy = "Delete")
  BY <1>2, <1>4 DEF LockInv
<1> QED BY <1>1, <1>3, <1>5, <1>6, <1>7 DEF LockInv, Deleting

\* Every step keeps the lock and the uncommitted rows together.
LEMMA LockStep ==
  ASSUME TypeOK, LockInv, Next
  PROVE  LockInv'
<1> USE DEF floorVars, totalVars
<1>1. ASSUME NEW t \in Txn, LockPool(t) PROVE LockInv'
  <2> DEFINE N == { ReservationRow(b, t) : b \in NewReservations(t) }
  <2>1. N \in SUBSET Row
    BY ReservationRowType DEF NewReservations
  <2>2. \A r \in N : r.xmin = t /\ r.xmax = NoTxn /\ (r.purpose = "Reservation" => ~r.bound)
    BY DEF ReservationRow
  <2>3. /\ rows' = rows \cup N /\ pc[t] = "idle" /\ poolLock = NoTxn /\ poolLock' = t
        /\ pc' = [pc EXCEPT ![t] = "search"] /\ req'[t] \in Request
        /\ \A u \in Txn \ {t} : req'[u] = req[u]
        /\ UNCHANGED todo
    BY <1>1 DEF LockPool, TypeOK
  <2> HIDE DEF N
  <2> QED BY ZenonT(60), <2>1, <2>2, <2>3, InsertLock
<1>2. ASSUME NEW t \in Txn, Allocate(t) PROVE LockInv'
  <2>1. req[t] \in Request /\ Fits(t) # {} /\ poolLock = t
    BY <1>2 DEF Allocate, LockInv, HoldsPool
  <2>2. {NewRow(t)} \in SUBSET Row
    BY <2>1, NewRowType
  <2>3. NewRow(t).xmin = t /\ NewRow(t).xmax = NoTxn /\ NewRow(t).purpose # "Reservation"
    BY DEF NewRow
  <2>4. /\ rows' = rows \cup {NewRow(t)} /\ pc[t] = "search" /\ poolLock' = t
        /\ pc' = [pc EXCEPT ![t] = "done"] /\ UNCHANGED <<req, todo>>
    BY <1>2, <2>1 DEF Allocate
  <2> QED BY ZenonT(60), <2>1, <2>2, <2>3, <2>4, InsertLock
<1>3. ASSUME NEW t \in Txn, Refuse(t) PROVE LockInv'
  BY <1>3 DEF Refuse, LockInv, TypeOK, HoldsPool, Deleting, Row
<1>4. ASSUME NEW t \in Txn, Release(t) PROVE LockInv'
  <2>1. PICK r \in rows : /\ r.xmin = NoTxn /\ r.xmax = NoTxn
                          /\ r.bound => r.policy = "Delete"
                          /\ StartDelete(t, {r})
    BY ZenonT(60), <1>4 DEF Release
  <2>2. {r} \in SUBSET rows /\ {r} # {}
    OBVIOUS
  <2>3. pc[t] = "idle" /\ UNCHANGED req
    BY <1>4 DEF Release
  <2> QED BY Zenon, <2>1, <2>2, <2>3, StartDeleteLock
<1>5. ASSUME NEW t \in Txn, Retain(t) PROVE LockInv'
  <2>1. PICK r \in rows : /\ r.xmin = NoTxn /\ r.xmax = NoTxn
                          /\ rows' = (rows \ {r}) \cup {[r EXCEPT !.bound = FALSE]}
    BY <1>5 DEF Retain
  <2>2. r \in Row
    BY DEF TypeOK
  <2>3. /\ [r EXCEPT !.bound = FALSE].xmin = NoTxn
        /\ [r EXCEPT !.bound = FALSE].xmax = NoTxn
        /\ [r EXCEPT !.bound = FALSE].bound = FALSE
    BY <2>1, <2>2 DEF Row
  <2>4. \A u \in Txn : Deleting(u)' = Deleting(u)
    BY ZenonT(60), <2>1, <2>3, ConstantsAssumption DEF Deleting
  <2>5. UNCHANGED <<poolLock, pc, req, todo>>
    BY <1>5 DEF Retain
  <2>6. \A q \in rows' : q \in rows \/ q = [r EXCEPT !.bound = FALSE]
    BY <2>1
  <2>7. ASSUME NEW q \in rows', q.xmin # NoTxn
        PROVE  q.xmin = poolLock' /\ pc'[q.xmin] # "fk" /\ Deleting(q.xmin)' = {}
    <3>1. q \in rows /\ q.xmin \in Txn
      BY <2>3, <2>6, <2>7 DEF TypeOK, Row
    <3> QED BY <2>4, <2>5, <2>7, <3>1 DEF LockInv
  <2>8. ASSUME NEW q \in rows'
        PROVE  /\ q.purpose = "Reservation" => ~q.bound
               /\ q.xmax # NoTxn => /\ q.xmin = NoTxn
                                    /\ pc'[q.xmax] \in {"lower", "done"}
                                    /\ q.bound => q.policy = "Delete"
    BY ZenonT(60), <2>3, <2>5, <2>6 DEF LockInv
  <2> QED BY <2>4, <2>5, <2>7, <2>8 DEF LockInv
<1>6. ASSUME NEW t \in Txn, LowerFloor(t) PROVE LockInv'
  BY <1>6, ZenonT(60) DEF LowerFloor, LockInv, TypeOK, HoldsPool, Deleting
<1>7. ASSUME NEW t \in Txn, Recount(t) PROVE LockInv'
  <2>1. \A r \in rows : r.xmin = NoTxn
    BY <1>7 DEF Recount, LockInv
  <2>2. \A u \in Txn : Deleting(u)' = Deleting(u)
    BY <1>7 DEF Recount, Deleting
  <2> QED BY <1>7, <2>1, <2>2, ConstantsAssumption, SMTT(60) DEF Recount, LockInv, TypeOK, HoldsPool, Row
<1>8. ASSUME NEW t \in Txn, CheckEmpty(t) PROVE LockInv'
  <2>1. /\ pc[t] = "idle" /\ pc' = [pc EXCEPT ![t] = "checked"]
        /\ req' = [req EXCEPT ![t] = Dropping] /\ UNCHANGED <<rows, poolLock, todo>>
    BY <1>8 DEF CheckEmpty
  <2> QED BY Zenon, <2>1, AsideLock DEF TypeOK
<1>9. ASSUME NEW t \in Txn, ReleaseReservations(t) PROVE LockInv'
  <2> DEFINE D == { r \in Live : r.purpose = "Reservation" }
  <2>1. D \in SUBSET rows
    BY DEF Live
  <2>2. CASE D = {}
    <3>1. /\ pc[t] = "checked" /\ pc' = [pc EXCEPT ![t] = "drop"]
          /\ UNCHANGED <<rows, poolLock, todo, req>>
      BY <1>9, <2>2 DEF ReleaseReservations
    <3> QED BY Zenon, <3>1, AsideLock
  <2>3. CASE D # {}
    <3>1. StartDelete(t, D) /\ UNCHANGED req /\ pc[t] = "checked"
      BY <1>9, <2>3 DEF ReleaseReservations
    <3>2. \A r \in D : r.xmin = NoTxn /\ r.xmax = NoTxn /\ (r.bound => r.policy = "Delete")
      BY <1>9 DEF ReleaseReservations, Live, LockInv
    <3> HIDE DEF D
    <3> QED BY <2>1, <2>3, <3>1, <3>2, StartDeleteLock
  <2> QED BY <2>2, <2>3
<1>10. ASSUME NEW t \in Txn, LockForDrop(t) PROVE LockInv'
  <2>1. \A r \in rows : r.xmin = NoTxn
    BY <1>10 DEF LockForDrop, LockInv
  <2>2. \A u \in Txn : Deleting(u)' = Deleting(u)
    BY <1>10 DEF LockForDrop, Deleting
  <2> QED BY <1>10, <2>1, <2>2, ConstantsAssumption, SMTT(60) DEF LockForDrop, LockInv, TypeOK, HoldsPool, Row
<1>11. ASSUME NEW t \in Txn, DropPool(t) PROVE LockInv'
  <2>1. poolLock = t
    BY <1>11 DEF DropPool, LockInv, HoldsPool
  <2>2. \A r \in rows : r.xmin = NoTxn
    BY <1>11, <2>1 DEF DropPool, LockInv
  <2>3. \A u \in Txn : Deleting(u)' = Deleting(u)
    BY <1>11 DEF DropPool, Deleting
  <2> QED BY <1>11, <2>1, <2>2, <2>3, ConstantsAssumption, ZenonT(60) DEF DropPool, LockInv, TypeOK, HoldsPool, Row
<1>12. ASSUME NEW t \in Txn, Commit(t) PROVE LockInv'
  <2>1. poolLock = t /\ poolLock' = NoTxn
    BY <1>12 DEF Commit, Unlock, LockInv, HoldsPool
  <2>2. ASSUME NEW q \in rows'
        PROVE  \E r \in rows : /\ r.xmax # t
                               /\ q = IF r.xmin = t THEN [r EXCEPT !.xmin = NoTxn] ELSE r
    BY <1>12 DEF Commit
  <2>3. ASSUME NEW q \in rows'
        PROVE  /\ q.xmin = NoTxn
               /\ q.purpose = "Reservation" => ~q.bound
               /\ q.xmax # NoTxn => /\ q \in rows
                                    /\ q.xmax # t
    <3>1. PICK r \in rows : /\ r.xmax # t
                            /\ q = IF r.xmin = t THEN [r EXCEPT !.xmin = NoTxn] ELSE r
      BY <2>2
    <3>2. r \in Row
      BY DEF TypeOK
    <3> QED BY SMTT(60), <2>1, <3>1, <3>2, ConstantsAssumption DEF LockInv, Row
  <2>4. ASSUME NEW u \in Txn \ {t}, pc[u] = "lower" PROVE Deleting(u)' # {}
    <3>1. PICK r \in rows : r.xmax = u
      BY <2>4 DEF LockInv, Deleting
    <3>2. r.xmin = NoTxn /\ r.xmax # t
      BY <3>1, ConstantsAssumption DEF LockInv
    <3>3. r \in rows'
      BY <1>12, <3>2, ConstantsAssumption DEF Commit
    <3> QED BY <3>1, <3>3 DEF Deleting
  <2>5. /\ \A u \in Txn \ {t} : pc'[u] = pc[u] /\ req'[u] = req[u] /\ todo'[u] = todo[u]
        /\ pc'[t] \in {"idle", "drop"} /\ todo'[t] = {}
    BY <1>12 DEF Commit, Unlock, TypeOK
  <2>6. \A u \in Txn : poolLock' = u <=> pc'[u] \in HoldsPool
    BY SMTT(60), <2>1, <2>5, ConstantsAssumption DEF LockInv, HoldsPool
  <2>7. ASSUME NEW q \in rows', q.xmax # NoTxn
        PROVE  pc'[q.xmax] \in {"lower", "done"} /\ (q.bound => q.policy = "Delete")
    <3>1. q \in rows /\ q.xmax \in Txn \ {t}
      BY <2>3, <2>7 DEF TypeOK, Row
    <3> QED BY <2>5, <2>7, <3>1 DEF LockInv
  <2> QED BY <2>3, <2>4, <2>5, <2>6, <2>7, ZenonT(60) DEF LockInv
<1>13. ASSUME NEW t \in Txn, Abort(t) PROVE LockInv'
  <2>1. ASSUME NEW q \in rows'
        PROVE  \E r \in rows : /\ r.xmin # t
                               /\ q = IF r.xmax = t THEN [r EXCEPT !.xmax = NoTxn] ELSE r
    BY <1>13 DEF Abort
  <2>2. ASSUME NEW q \in rows'
        PROVE  /\ q.xmin # t
               /\ q.xmin # NoTxn => q \in rows
               /\ q.purpose = "Reservation" => ~q.bound
               /\ q.xmax # NoTxn => q \in rows /\ q.xmax # t
    <3>1. PICK r \in rows : /\ r.xmin # t
                            /\ q = IF r.xmax = t THEN [r EXCEPT !.xmax = NoTxn] ELSE r
      BY <2>1
    <3>2. r \in Row
      BY DEF TypeOK
    <3> QED BY SMTT(60), <3>1, <3>2, ConstantsAssumption DEF LockInv, Row
  <2>3. /\ \A u \in Txn \ {t} : pc'[u] = pc[u] /\ req'[u] = req[u] /\ todo'[u] = todo[u]
        /\ pc'[t] = "idle" /\ todo'[t] = {}
        /\ poolLock' = IF poolLock = t THEN NoTxn ELSE poolLock
    BY <1>13 DEF Abort, Unlock, TypeOK
  <2>4. \A u \in Txn : poolLock' = u <=> pc'[u] \in HoldsPool
    BY <2>3, ConstantsAssumption DEF LockInv, HoldsPool
  <2>5. ASSUME NEW u \in Txn \ {t}, pc[u] = "lower" PROVE Deleting(u)' # {}
    <3>1. PICK r \in rows : r.xmax = u
      BY <2>5 DEF LockInv, Deleting
    <3>2. r.xmin = NoTxn /\ r.xmax # t
      BY <3>1, ConstantsAssumption DEF LockInv
    <3>3. r \in rows'
      BY <1>13, <3>2, ConstantsAssumption DEF Abort
    <3> QED BY <3>1, <3>3 DEF Deleting
  <2>6. ASSUME NEW q \in rows', q.xmin # NoTxn
        PROVE  q.xmin = poolLock' /\ pc'[q.xmin] # "fk" /\ Deleting(q.xmin)' = {}
    <3>1. q \in rows /\ q.xmin \in Txn \ {t}
      BY <2>2, <2>6 DEF TypeOK, Row
    <3>2. q.xmin = poolLock /\ pc[q.xmin] # "fk" /\ Deleting(q.xmin) = {}
      BY <2>6, <3>1 DEF LockInv
    <3>3. \A p \in rows' : p.xmax # q.xmin
      BY <2>2, <3>1, <3>2, ConstantsAssumption DEF Deleting
    <3> QED BY <2>3, <3>1, <3>2, <3>3 DEF Deleting
  <2>7. ASSUME NEW q \in rows', q.xmax # NoTxn
        PROVE  /\ q.xmin = NoTxn /\ pc'[q.xmax] \in {"lower", "done"}
               /\ q.bound => q.policy = "Delete"
    <3>1. q \in rows /\ q.xmax \in Txn \ {t}
      BY <2>2, <2>7 DEF TypeOK, Row
    <3> QED BY <2>3, <2>7, <3>1 DEF LockInv
  <2> QED BY <2>2, <2>3, <2>4, <2>5, <2>6, <2>7, ZenonT(60) DEF LockInv
<1>14. CASE CreatePool
  BY Zenon, <1>14 DEF CreatePool, LockInv, Deleting
<1>15. CASE UpdateStrategy
  BY <1>15 DEF UpdateStrategy, LockInv, Deleting
<1> QED
  BY ZenonT(60), <1>1, <1>2, <1>3, <1>4, <1>5, <1>6, <1>7, <1>8, <1>9, <1>10, <1>11, <1>12,
     <1>13, <1>14, <1>15 DEF Next, TxnStep

\* A transaction that is about to insert sees every row there is.
LEMMA InserterSeesAll ==
  ASSUME TypeOK, LockInv, NEW t \in Txn, pc[t] \in {"idle", "search"},
         poolLock \in {NoTxn, t}
  PROVE  Visible(t) = rows
BY ConstantsAssumption DEF LockInv, Visible

----------------------------------------------------------------------------
(***************************************************************************)
(* Search floors                                                           *)
(***************************************************************************)
\* Every search stands on a floor.
FloorsAlwaysUsed == Strategies = {"FirstFit"} /\ "Carve" \notin Ops

Within(a, b) == b.lo <= a /\ a <= b.hi
Same(r, b) == r.lo = b.lo /\ r.hi = b.hi
Kin(r, q) == Same(r, q) /\ r.space = q.space /\ r.purpose = q.purpose

\* Q holds all that R holds.
Shows(R, Q) == \A r \in R : \E q \in Q : Kin(r, q)

\* Below f, space s has only what rows R or the reserved positions hold.
Guarded(R, s, f) ==
  \A a \in Addr : a < f => \/ \E r \in R : Blocks(r, s) /\ Within(a, r)
                           \/ \E b \in Reserved : Within(a, b)

\* Rows are claims of a space, or reserved positions: all of those, or none.
RowKinds ==
  /\ \A r \in rows : \/ r.purpose = "Claim" /\ r.space \in Space
                     \/ r.purpose = "Reservation" /\ \E b \in Reserved : Same(r, b)
  /\ \A r \in rows : r.purpose = "Claim" => \A b \in Reserved : ~ Overlap(r, b)
  /\ \A r \in rows : r.purpose = "Reservation" => \A b \in Reserved :
       \E q \in rows : /\ q.purpose = "Reservation" /\ Same(q, b)
                       /\ q.xmin = r.xmin /\ q.xmax = r.xmax

\* Who may hold a floor.
Raising == {"lower", "done", "exhausted", "conflict"}

\* A floor is right for what is committed, and a held one for what its holder sees.
FloorsGuard ==
  /\ \A s \in Space : Guarded(Live, s, floor[s])
  /\ \A s \in Space : floorLock[s] = NoTxn => pendFloor[s] = floor[s]
  /\ \A t \in Txn, s \in Space : floorLock[s] = t =>
       pc[t] \in Raising /\ pendFloor[s] # NoFloor /\ Guarded(Visible(t), s, pendFloor[s])

\* A claim's space has a floor; who deletes the claim has lowered it, or will.
ClaimsHaveFloors ==
  /\ \A r \in rows : r.purpose = "Claim" =>
       /\ IF r.xmin = NoTxn THEN floor[r.space] # NoFloor ELSE floorLock[r.space] = r.xmin
       /\ r.xmax # NoTxn => \/ r.space \in todo[r.xmax]
                            \/ floorLock[r.space] = r.xmax /\ pendFloor[r.space] <= r.lo
  /\ \A t \in Txn : \A s \in todo[t] : floor[s] # NoFloor

\* A search sees every reserved position held.
SearchSeesReserved ==
  \A t \in Txn : pc[t] \in {"search", "exhausted"} =>
    \A b \in Reserved : \E r \in Visible(t) : r.purpose = "Reservation" /\ Same(r, b)

FloorInv ==
  RowKinds /\ FloorsGuard /\ ClaimsHaveFloors /\ SearchSeesReserved /\ ExhaustedOnlyWhenFull

\* The sessions other than t are where they were, and still see what they saw.
OthersGoOn(t) ==
  \A u \in Txn \ {t} : pc'[u] = pc[u] /\ req'[u] = req[u] /\ Shows(Visible(u), Visible(u)')

-----------------------------------------------------------------------------
\* What is shown is shown as it was.
LEMMA ShowsItself == ASSUME NEW R PROVE Shows(R, R)
BY DEF Shows, Kin, Same

\* A guard stays one over rows with the same bounds, for a floor no higher.
LEMMA GuardKept ==
  ASSUME NEW R, NEW Q, NEW s, NEW f \in Int, NEW g \in Int, g <= f, Guarded(R, s, f),
         Shows(R, Q)
  PROVE  Guarded(Q, s, g)
<1> SUFFICES ASSUME NEW a \in Addr, a < g, ~ \E b \in Reserved : Within(a, b)
             PROVE  \E q \in Q : Blocks(q, s) /\ Within(a, q)
  BY DEF Guarded
<1>1. a < f
  BY SizeAssumption DEF Addr
<1>2. PICK r \in R : Blocks(r, s) /\ Within(a, r)
  BY <1>1 DEF Guarded
<1>3. PICK q \in Q : Kin(r, q)
  BY DEF Shows
<1> QED BY <1>2, <1>3 DEF Kin, Same, Blocks, Within

\* It stays one for the same floor.
LEMMA GuardStays ==
  ASSUME NEW R, NEW Q, NEW s, NEW f \in Int, Guarded(R, s, f), Shows(R, Q)
  PROVE  Guarded(Q, s, f)
<1>1. f <= f
  OBVIOUS
<1> QED BY Zenon, <1>1, GuardKept

\* Floors are numbers.
LEMMA FloorsTyped ==
  ASSUME TypeOK, NEW s \in Space
  PROVE  floor[s] \in Int /\ pendFloor[s] \in Int
<1>1. floor[s] \in Addr \cup {NoFloor} /\ pendFloor[s] \in Addr \cup {NoFloor}
  BY Zenon DEF TypeOK
<1> QED BY <1>1, SizeAssumption DEF Addr, NoFloor

\* A committed floor is right for the committed rows.
LEMMA FloorGuards ==
  ASSUME FloorInv, NEW s \in Space
  PROVE  Guarded(Live, s, floor[s])
BY Zenon DEF FloorInv, FloorsGuard

\* A held floor is right for what its holder sees.
LEMMA HeldGuards ==
  ASSUME FloorInv, NEW s \in Space, NEW t \in Txn, floorLock[s] = t
  PROVE  pc[t] \in Raising /\ pendFloor[s] # NoFloor /\ Guarded(Visible(t), s, pendFloor[s])
BY Zenon DEF FloorInv, FloorsGuard

\* A search that found nothing still finds nothing in rows with the same bounds.
LEMMA ExhaustedKept ==
  ASSUME NEW t \in Txn, pc[t] = "exhausted" => FreeBlocks(Taken(t), req[t].n) = {},
         pc'[t] = pc[t], req'[t] = req[t],
         Shows(Visible(t), Visible(t)')
  PROVE  pc'[t] = "exhausted" => FreeBlocks(Taken(t)', req'[t].n) = {}
<1> SUFFICES ASSUME pc[t] = "exhausted", NEW b \in FreeBlocks(Taken(t)', req[t].n) PROVE FALSE
  BY Zenon
<1>1. b \in AlignedBlocks(req[t].n) /\ \A q \in Taken(t)' : ~ Overlap(b, q)
  BY Zenon DEF FreeBlocks
<1>2. PICK r \in Taken(t) : Overlap(b, r)
  BY <1>1 DEF FreeBlocks
<1>3. r \in Visible(t) /\ (req[t].op = "Carve" \/ Blocks(r, req[t].space))
  BY DEF Taken
<1>4. PICK q \in Visible(t)' : Kin(r, q)
  BY <1>3 DEF Shows
<1>5. q \in Taken(t)'
  BY Zenon, <1>3, <1>4 DEF Taken, Kin, Same, Blocks
<1> QED BY Zenon, <1>1, <1>2, <1>4, <1>5 DEF Overlap, Kin, Same

\* The floors, when t alone has changed what it holds of them.
LEMMA FloorsKept ==
  ASSUME TypeOK, FloorInv, NEW t \in Txn, OthersGoOn(t), Shows(Live, Live'), UNCHANGED floor,
         \A s \in Space : floorLock'[s] = NoTxn => pendFloor'[s] = floor[s],
         \A s \in Space, u \in Txn \ {t} : floorLock'[s] = u => floorLock[s] = u /\ pendFloor'[s] = pendFloor[s],
         \A s \in Space : floorLock'[s] = t =>
           pc'[t] \in Raising /\ pendFloor'[s] # NoFloor /\ Guarded(Visible(t)', s, pendFloor'[s])
  PROVE  FloorsGuard'
<1>1. ASSUME NEW s \in Space PROVE Guarded(Live', s, floor'[s])
  <2>1. floor[s] \in Int /\ Guarded(Live, s, floor[s]) /\ floor'[s] = floor[s]
    BY Zenon, FloorsTyped, FloorGuards
  <2> QED BY Zenon, <2>1, GuardStays
<1>2. ASSUME NEW s \in Space, NEW u \in Txn, floorLock'[s] = u
      PROVE  pc'[u] \in Raising /\ pendFloor'[s] # NoFloor /\ Guarded(Visible(u)', s, pendFloor'[s])
  <2>1. CASE u = t
    BY Zenon, <1>2, <2>1
  <2>2. CASE u # t
    <3>1. /\ floorLock[s] = u /\ pendFloor'[s] = pendFloor[s]
          /\ pc'[u] = pc[u] /\ Shows(Visible(u), Visible(u)')
      BY Zenon, <1>2, <2>2 DEF OthersGoOn
    <3>2. /\ pendFloor[s] \in Int /\ Guarded(Visible(u), s, pendFloor[s])
          /\ pc[u] \in Raising /\ pendFloor[s] # NoFloor
      BY Zenon, <3>1, FloorsTyped, HeldGuards
    <3>3. Guarded(Visible(u)', s, pendFloor[s])
      BY Zenon, <3>1, <3>2, GuardStays
    <3> QED BY Zenon, <3>1, <3>2, <3>3
  <2> QED BY Zenon, <2>1, <2>2
<1> QED BY Zenon, <1>1, <1>2 DEF FloorsGuard

\* The searches of the others see and find what they did.
LEMMA SearchersKept ==
  ASSUME FloorInv, NEW t \in Txn, OthersGoOn(t),
         NEW u \in Txn \ {t}
  PROVE  /\ pc'[u] \in {"search", "exhausted"} =>
              \A b \in Reserved : \E q \in Visible(u)' : q.purpose = "Reservation" /\ Same(q, b)
         /\ pc'[u] = "exhausted" => FreeBlocks(Taken(u)', req'[u].n) = {}
<1>1. pc'[u] = pc[u] /\ req'[u] = req[u] /\ Shows(Visible(u), Visible(u)')
  BY DEF OthersGoOn
<1>2. ASSUME pc[u] \in {"search", "exhausted"}, NEW b \in Reserved
      PROVE  \E q \in Visible(u)' : q.purpose = "Reservation" /\ Same(q, b)
  <2>1. PICK r \in Visible(u) : r.purpose = "Reservation" /\ Same(r, b)
    BY <1>2 DEF FloorInv, SearchSeesReserved
  <2>2. PICK q \in Visible(u)' : Kin(r, q)
    BY Zenon, <1>1 DEF Shows
  <2> QED BY Zenon, <2>1, <2>2 DEF Kin, Same
<1>3. pc[u] = "exhausted" => FreeBlocks(Taken(u), req[u].n) = {}
  BY DEF FloorInv, ExhaustedOnlyWhenFull
<1>4. pc'[u] = "exhausted" => FreeBlocks(Taken(u)', req'[u].n) = {}
  BY Zenon, <1>1, <1>3, ExhaustedKept
<1> QED BY Zenon, <1>1, <1>2, <1>4

\* Likewise when t is at no search either.
LEMMA NoNewSearch ==
  ASSUME FloorInv, NEW t \in Txn, OthersGoOn(t), pc'[t] \notin {"search", "exhausted"}
  PROVE  SearchSeesReserved' /\ ExhaustedOnlyWhenFull'
<1>1. ASSUME NEW u \in Txn
      PROVE  /\ pc'[u] \in {"search", "exhausted"} =>
                  \A b \in Reserved : \E q \in Visible(u)' : q.purpose = "Reservation" /\ Same(q, b)
             /\ pc'[u] = "exhausted" => FreeBlocks(Taken(u)', req'[u].n) = {}
  BY Zenon, SearchersKept
<1> QED BY Zenon, <1>1 DEF SearchSeesReserved, ExhaustedOnlyWhenFull

\* A row with the bounds, space and purpose of a proper one is proper.
LEMMA KinIsProper ==
  ASSUME NEW r, NEW q, Kin(r, q),
         \/ r.purpose = "Claim" /\ r.space \in Space
         \/ r.purpose = "Reservation" /\ \E b \in Reserved : Same(r, b),
         r.purpose = "Claim" => \A b \in Reserved : ~ Overlap(r, b)
  PROVE  /\ \/ q.purpose = "Claim" /\ q.space \in Space
            \/ q.purpose = "Reservation" /\ \E b \in Reserved : Same(q, b)
         /\ q.purpose = "Claim" => \A b \in Reserved : ~ Overlap(q, b)
<1>1. q.lo = r.lo /\ q.hi = r.hi /\ q.space = r.space /\ q.purpose = r.purpose
  BY Zenon DEF Kin, Same
<1>2. q.purpose = "Claim" => \A b \in Reserved : ~ Overlap(q, b)
  BY Zenon, <1>1 DEF Overlap
<1>3. (\E b \in Reserved : Same(r, b)) => \E b \in Reserved : Same(q, b)
  BY Zenon, <1>1 DEF Same
<1> QED BY Zenon, <1>1, <1>2, <1>3

\* What f makes of the rows K.
Mapped(K, f) == { f[r] : r \in K }

\* f keeps the bounds of the rows K, and keeps or drops the reserved positions together.
KeepsKinds(K, f) ==
  /\ K \subseteq rows
  /\ \A r \in K : Kin(r, f[r])
  /\ \A r \in K, w \in rows :
       r.purpose = "Reservation" /\ w.purpose = "Reservation" /\ w.xmin = r.xmin /\ w.xmax = r.xmax =>
         w \in K /\ f[w].xmin = f[r].xmin /\ f[w].xmax = f[r].xmax

\* Rows that keep their bounds stay what they are.
LEMMA RowsMapped ==
  ASSUME RowKinds, NEW K, NEW f, KeepsKinds(K, f), rows' = Mapped(K, f)
  PROVE  RowKinds'
<1> USE DEF KeepsKinds, Mapped
<1>1. ASSUME NEW q \in rows'
      PROVE  /\ \/ q.purpose = "Claim" /\ q.space \in Space
                \/ q.purpose = "Reservation" /\ \E b \in Reserved : Same(q, b)
             /\ q.purpose = "Claim" => \A b \in Reserved : ~ Overlap(q, b)
  <2>1. PICK r \in K : q = f[r] /\ Kin(r, q)
    BY Zenon
  <2>2. /\ \/ r.purpose = "Claim" /\ r.space \in Space
           \/ r.purpose = "Reservation" /\ \E b \in Reserved : Same(r, b)
        /\ r.purpose = "Claim" => \A b \in Reserved : ~ Overlap(r, b)
    BY Zenon DEF RowKinds
  <2> QED BY Zenon, <2>1, <2>2, KinIsProper
<1>2. ASSUME NEW q \in rows', q.purpose = "Reservation", NEW b \in Reserved
      PROVE  \E p \in rows' : /\ p.purpose = "Reservation" /\ Same(p, b)
                              /\ p.xmin = q.xmin /\ p.xmax = q.xmax
  <2>1. PICK r \in K : q = f[r] /\ Kin(r, q)
    BY Zenon
  <2>2. r.purpose = "Reservation"
    BY Zenon, <1>2, <2>1 DEF Kin
  <2>3. PICK w \in rows : /\ w.purpose = "Reservation" /\ Same(w, b)
                          /\ w.xmin = r.xmin /\ w.xmax = r.xmax
    BY Zenon, <2>1, <2>2 DEF RowKinds
  <2>4. w \in K /\ f[w].xmin = q.xmin /\ f[w].xmax = q.xmax
    BY Zenon, <2>1, <2>2, <2>3
  <2>5. Kin(w, f[w]) /\ f[w] \in rows'
    BY Zenon, <2>4
  <2>6. f[w].purpose = "Reservation" /\ Same(f[w], b)
    BY Zenon, <2>3, <2>5 DEF Kin, Same
  <2> QED BY Zenon, <2>4, <2>5, <2>6
<1> QED BY Zenon, <1>1, <1>2 DEF RowKinds

\* Claims that stay, when only floors nobody held have been taken.
LEMMA ClaimsKept ==
  ASSUME FloorInv, NEW r \in rows, r.purpose = "Claim",
         \A z \in Space : floorLock[z] # NoTxn => floorLock'[z] = floorLock[z] /\ pendFloor'[z] = pendFloor[z]
  PROVE  /\ IF r.xmin = NoTxn THEN floor[r.space] # NoFloor ELSE floorLock'[r.space] = r.xmin
         /\ r.xmax # NoTxn => \/ r.space \in todo[r.xmax]
                              \/ floorLock'[r.space] = r.xmax /\ pendFloor'[r.space] <= r.lo
BY Zenon DEF FloorInv, ClaimsHaveFloors, RowKinds

\* A step that leaves bounds, row versions and floors as they are, and brings no
\* session to a search or to a floor.
LEMMA FloorFrame ==
  ASSUME TypeOK, FloorInv,
         \A r \in rows : \E q \in rows' : Kin(r, q) /\ q.xmin = r.xmin /\ q.xmax = r.xmax,
         \A q \in rows' : \E r \in rows : Kin(r, q) /\ q.xmin = r.xmin /\ q.xmax = r.xmax,
         UNCHANGED <<floorVars, todo>>,
         \A t \in Txn : \/ pc'[t] = pc[t] /\ req'[t] = req[t]
                        \/ pc[t] \in Raising /\ pc'[t] \in Raising \ {"exhausted"}
                        \/ pc[t] \notin Raising /\ pc'[t] \notin {"search", "exhausted"}
  PROVE  FloorInv'
<1> USE DEF floorVars
<1>1. RowKinds'
  <2>1. ASSUME NEW q \in rows'
        PROVE  /\ \/ q.purpose = "Claim" /\ q.space \in Space
                  \/ q.purpose = "Reservation" /\ \E b \in Reserved : Same(q, b)
               /\ q.purpose = "Claim" => \A b \in Reserved : ~ Overlap(q, b)
    <3>1. PICK r \in rows : Kin(r, q)
      BY Zenon
    <3>2. /\ \/ r.purpose = "Claim" /\ r.space \in Space
             \/ r.purpose = "Reservation" /\ \E b \in Reserved : Same(r, b)
          /\ r.purpose = "Claim" => \A b \in Reserved : ~ Overlap(r, b)
      BY Zenon DEF FloorInv, RowKinds
    <3> QED BY Zenon, <3>1, <3>2, KinIsProper
  <2>2. ASSUME NEW q \in rows', q.purpose = "Reservation", NEW b \in Reserved
        PROVE  \E p \in rows' : /\ p.purpose = "Reservation" /\ Same(p, b)
                                /\ p.xmin = q.xmin /\ p.xmax = q.xmax
    <3>1. PICK r \in rows : Kin(r, q) /\ q.xmin = r.xmin /\ q.xmax = r.xmax
      BY Zenon
    <3>2. PICK w \in rows : /\ w.purpose = "Reservation" /\ Same(w, b)
                            /\ w.xmin = r.xmin /\ w.xmax = r.xmax
      BY Zenon, <2>2, <3>1 DEF FloorInv, RowKinds, Kin
    <3>3. PICK p \in rows' : Kin(w, p) /\ p.xmin = w.xmin /\ p.xmax = w.xmax
      BY Zenon
    <3>4. p.purpose = "Reservation" /\ Same(p, b)
      BY Zenon, <3>2, <3>3 DEF Kin, Same
    <3> QED BY Zenon, <3>1, <3>2, <3>3, <3>4
  <2> QED BY Zenon, <2>1, <2>2 DEF RowKinds
<1>2. \A t \in Txn : Shows(Visible(t), Visible(t)')
  BY Zenon DEF Visible, Shows
<1>3. Shows(Live, Live')
  BY Zenon DEF Live, Shows
<1>4. FloorsGuard'
  <2>1. ASSUME NEW s \in Space PROVE Guarded(Live', s, floor'[s])
    <3>1. floor[s] \in Int /\ Guarded(Live, s, floor[s]) /\ floor'[s] = floor[s]
      BY Zenon, FloorsTyped, FloorGuards
    <3> QED BY Zenon, <1>3, <3>1, GuardStays
  <2>2. ASSUME NEW s \in Space, NEW t \in Txn, floorLock[s] = t
        PROVE  /\ pc'[t] \in Raising /\ pendFloor[s] # NoFloor
               /\ Guarded(Visible(t)', s, pendFloor[s])
    <3>1. /\ pendFloor[s] \in Int /\ Guarded(Visible(t), s, pendFloor[s])
          /\ pc[t] \in Raising /\ pendFloor[s] # NoFloor
      BY Zenon, <2>2, FloorsTyped, HeldGuards
    <3>2. pc'[t] \in Raising
      BY Zenon, <3>1
    <3> QED BY Zenon, <1>2, <3>1, <3>2, GuardStays
  <2> QED BY Zenon, <2>1, <2>2 DEF FloorInv, FloorsGuard
<1>5. ClaimsHaveFloors'
  <2>1. ASSUME NEW q \in rows', q.purpose = "Claim"
        PROVE  /\ IF q.xmin = NoTxn THEN floor[q.space] # NoFloor ELSE floorLock[q.space] = q.xmin
               /\ q.xmax # NoTxn => \/ q.space \in todo[q.xmax]
                                    \/ floorLock[q.space] = q.xmax /\ pendFloor[q.space] <= q.lo
    <3>1. PICK r \in rows : Kin(r, q) /\ q.xmin = r.xmin /\ q.xmax = r.xmax
      BY Zenon
    <3>2. q.purpose = r.purpose /\ q.space = r.space /\ q.lo = r.lo
      BY Zenon, <3>1 DEF Kin, Same
    <3>3. /\ IF r.xmin = NoTxn THEN floor[r.space] # NoFloor ELSE floorLock[r.space] = r.xmin
          /\ r.xmax # NoTxn => \/ r.space \in todo[r.xmax]
                               \/ floorLock[r.space] = r.xmax /\ pendFloor[r.space] <= r.lo
      BY Zenon, <2>1, <3>2 DEF FloorInv, ClaimsHaveFloors
    <3> QED BY Zenon, <3>1, <3>2, <3>3
  <2> QED BY Zenon, <2>1 DEF FloorInv, ClaimsHaveFloors
<1>6. SearchSeesReserved'
  <2>1. ASSUME NEW t \in Txn, pc'[t] \in {"search", "exhausted"}, NEW b \in Reserved
        PROVE  \E q \in Visible(t)' : q.purpose = "Reservation" /\ Same(q, b)
    <3>1. pc[t] \in {"search", "exhausted"}
      BY Zenon, <2>1 DEF Raising
    <3>2. PICK r \in Visible(t) : r.purpose = "Reservation" /\ Same(r, b)
      BY Zenon, <3>1 DEF FloorInv, SearchSeesReserved
    <3>3. PICK q \in Visible(t)' : Kin(r, q)
      BY Zenon, <1>2 DEF Shows
    <3> QED BY Zenon, <3>2, <3>3 DEF Kin, Same
  <2> QED BY Zenon, <2>1 DEF SearchSeesReserved
<1>7. ExhaustedOnlyWhenFull'
  <2>1. ASSUME NEW t \in Txn PROVE pc'[t] = "exhausted" => FreeBlocks(Taken(t)', req'[t].n) = {}
    <3>1. CASE pc'[t] = pc[t] /\ req'[t] = req[t]
      <4>1. pc[t] = "exhausted" => FreeBlocks(Taken(t), req[t].n) = {}
        BY Zenon DEF FloorInv, ExhaustedOnlyWhenFull
      <4> QED BY Zenon, <1>2, <3>1, <4>1, ExhaustedKept
    <3>2. CASE pc'[t] # "exhausted"
      BY Zenon, <3>2
    <3> QED BY Zenon, <3>1, <3>2 DEF Raising
  <2> QED BY Zenon, <2>1 DEF ExhaustedOnlyWhenFull
<1> QED BY Zenon, <1>1, <1>4, <1>5, <1>6, <1>7 DEF FloorInv

\* Actions that only move a session on, or change who holds a row for whom.
LEMMA QuietFloor ==
  ASSUME TypeOK, LockInv, FloorInv, NEW t \in Txn,
         Retain(t) \/ Recount(t) \/ CheckEmpty(t) \/ LockForDrop(t) \/ CreatePool
  PROVE  FloorInv'
<1> USE DEF floorVars
<1>1. CASE Retain(t)
  <2>1. PICK r \in rows : rows' = (rows \ {r}) \cup {[r EXCEPT !.bound = FALSE]}
    BY <1>1 DEF Retain
  <2> DEFINE x == [r EXCEPT !.bound = FALSE]
  <2>2. r \in Row
    BY Zenon DEF TypeOK
  <2>3. Kin(r, x) /\ x.xmin = r.xmin /\ x.xmax = r.xmax
    BY <2>2 DEF Row, Kin, Same
  <2>4. \A q \in rows : Kin(q, q)
    BY DEF Kin, Same
  <2>5. rows' = (rows \ {r}) \cup {x}
    BY <2>1
  <2>6. UNCHANGED <<floorVars, todo, pc, req>>
    BY <1>1 DEF Retain
  <2> HIDE DEF x
  <2>7. /\ \A q \in rows : \E p \in rows' : Kin(q, p) /\ p.xmin = q.xmin /\ p.xmax = q.xmax
        /\ \A q \in rows' : \E p \in rows : Kin(p, q) /\ q.xmin = p.xmin /\ q.xmax = p.xmax
    BY Zenon, <2>3, <2>4, <2>5
  <2> QED BY Zenon, <2>6, <2>7, FloorFrame
<1>2. CASE ~ Retain(t)
  <2>1. rows' = rows /\ UNCHANGED <<floorVars, todo>>
    BY Zenon, <1>2 DEF Recount, CheckEmpty, LockForDrop, CreatePool
  <2>2. \A u \in Txn \ {t} : pc'[u] = pc[u] /\ req'[u] = req[u]
    BY Zenon, <1>2 DEF Recount, CheckEmpty, LockForDrop, CreatePool, TypeOK
  <2>3. \/ pc'[t] = pc[t] /\ req'[t] = req[t]
        \/ pc[t] = "lower" /\ pc'[t] = "done"
        \/ pc[t] \in {"idle", "drop"} /\ pc'[t] \in {"checked", "fk", "idle"}
    BY Zenon, <1>2 DEF Recount, CheckEmpty, LockForDrop, CreatePool, TypeOK
  <2>4. \A q \in rows : Kin(q, q)
    BY DEF Kin, Same
  <2> QED BY Zenon, <2>1, <2>2, <2>3, <2>4, FloorFrame DEF Raising
<1> QED BY <1>1, <1>2

\* While t alone inserts, what it observed of its space's floor is right for all rows.
LEMMA ObservedGuards ==
  ASSUME TypeOK, FloorInv, NEW t \in Txn, req[t] \in Request, req[t].space \in Space,
         UsesFloor(t), floorLock[req[t].space] = NoTxn
  PROVE  Observed(t) \in Addr /\ Guarded(rows, req[t].space, Observed(t))
<1> DEFINE s == req[t].space
<1>1. Observed(t) \in Addr
  BY Zenon, ObservedType
<1>2. pendFloor[s] = floor[s] /\ Guarded(Live, s, floor[s])
  BY Zenon DEF FloorInv, FloorsGuard
<1>3. Observed(t) = IF floor[s] # NoFloor THEN floor[s] ELSE 0
  BY Zenon, <1>2 DEF Observed
<1>4. CASE floor[s] = NoFloor
  <2>1. Observed(t) = 0
    BY Zenon, <1>3, <1>4
  <2>2. \A a \in Addr : ~ (a < 0)
    BY SizeAssumption DEF Addr
  <2> QED BY Zenon, <1>1, <2>1, <2>2 DEF Guarded
<1>5. CASE floor[s] # NoFloor
  BY Zenon, <1>1, <1>2, <1>3, <1>5 DEF Guarded, Live
<1> QED BY Zenon, <1>1, <1>4, <1>5

\* A search that finds nothing above the floor it observed would find nothing below.
LEMMA NothingBelowObserved ==
  ASSUME TypeOK, FloorInv, NEW t \in Txn, NEW s, NEW n \in Nat \ {0}, NEW f \in Addr,
         pc[t] = "search", Visible(t) = rows, Guarded(rows, s, f),
         FreeBlocksFrom({ r \in rows : Blocks(r, s) }, n, f) = {}
  PROVE  FreeBlocks({ r \in rows : Blocks(r, s) }, n) = {}
<1> SUFFICES ASSUME NEW b \in FreeBlocks({ r \in rows : Blocks(r, s) }, n) PROVE FALSE
  OBVIOUS
<1>1. b.lo \in Addr /\ b.lo <= b.hi /\ b.hi \in Addr
  BY AlignedBlockInPool DEF FreeBlocks, Block
<1>2. b.lo < f
  BY <1>1, SizeAssumption DEF FreeBlocksFrom, Addr
<1>3. PICK r \in rows : Blocks(r, s) /\ Within(b.lo, r)
  <2>1. ASSUME NEW c \in Reserved, Within(b.lo, c)
        PROVE  \E r \in rows : Blocks(r, s) /\ Within(b.lo, r)
    <3>1. PICK r \in rows : r.purpose = "Reservation" /\ Same(r, c)
      BY DEF FloorInv, SearchSeesReserved
    <3> QED BY <2>1, <3>1 DEF Same, Within, Blocks
  <2>2. \/ \E r \in rows : Blocks(r, s) /\ Within(b.lo, r)
        \/ \E c \in Reserved : Within(b.lo, c)
    BY Zenon, <1>1, <1>2 DEF Guarded
  <2> QED BY Zenon, <2>1, <2>2
<1>4. r \in Row
  BY Zenon DEF TypeOK
<1>5. Overlap(b, r)
  BY <1>1, <1>3, <1>4, SizeAssumption DEF Within, Overlap, Row, Addr
<1> QED BY <1>3, <1>5 DEF FreeBlocks

\* Refused while it searched: the floor it locks is the one it started from.
LEMMA RefuseFloor ==
  ASSUME FloorsAlwaysUsed, TypeOK, LockInv, FloorInv, NEW t \in Txn, Refuse(t)
  PROVE  FloorInv'
<1> DEFINE s == req[t].space
<1>1. /\ pc[t] = "search" /\ req[t] \in Request /\ s \in Space /\ req[t].n \in Nat \ {0}
      /\ poolLock = t /\ req[t].op # "Carve"
  <2>1. pc[t] = "search"
    BY Zenon DEF Refuse
  <2>2. req[t] \in Request /\ poolLock = t
    BY Zenon, <2>1 DEF LockInv, HoldsPool
  <2>3. req[t].op # "Carve"
    BY <2>2 DEF Request, FloorsAlwaysUsed
  <2> QED BY Zenon, <2>1, <2>2, <2>3, RequestType
<1>2. UsesFloor(t)
  BY Zenon, <1>1 DEF UsesFloor, FloorsAlwaysUsed, TypeOK
<1>3. /\ floorLock[s] = NoTxn
      /\ floorLock' = [floorLock EXCEPT ![s] = t]
      /\ pendFloor' = [pendFloor EXCEPT ![s] = Observed(t)]
  BY Zenon, <1>2 DEF Refuse, LockFloor
<1>4. pc'[t] \in {"exhausted", "conflict"} /\ \A u \in Txn \ {t} : pc'[u] = pc[u]
  BY Zenon DEF Refuse, TypeOK
<1>5. UNCHANGED <<rows, floor, todo, req>>
  BY DEF Refuse
<1>6. Visible(t) = rows /\ Live' = Live /\ \A u \in Txn : Visible(u)' = Visible(u)
  BY Zenon, <1>1, <1>5, InserterSeesAll DEF Live, Visible
<1>7. Observed(t) \in Addr /\ Guarded(rows, s, Observed(t))
  BY Zenon, <1>1, <1>2, <1>3, ObservedGuards
<1>8. OthersGoOn(t) /\ Shows(Live, Live')
  BY Zenon, <1>4, <1>5, <1>6, ShowsItself DEF OthersGoOn
<1>9. \A z \in Space : /\ pendFloor'[z] = IF z = s THEN Observed(t) ELSE pendFloor[z]
                       /\ floorLock'[z] = IF z = s THEN t ELSE floorLock[z]
  BY Zenon, <1>3 DEF TypeOK
<1>10. FloorsGuard'
  <2>1. \A z \in Space : floorLock'[z] = NoTxn => pendFloor'[z] = floor[z]
    BY ZenonT(30), <1>9, ConstantsAssumption DEF FloorInv, FloorsGuard
  <2>2. \A z \in Space, u \in Txn \ {t} : floorLock'[z] = u => floorLock[z] = u /\ pendFloor'[z] = pendFloor[z]
    BY Zenon, <1>9
  <2>3. ASSUME NEW z \in Space, floorLock'[z] = t
        PROVE  pc'[t] \in Raising /\ pendFloor'[z] # NoFloor /\ Guarded(Visible(t)', z, pendFloor'[z])
    <3>1. z = s
      BY Zenon, <1>1, <1>9, <2>3 DEF FloorInv, FloorsGuard, Raising
    <3>2. Observed(t) # NoFloor
      BY <1>7, SizeAssumption DEF Addr, NoFloor
    <3> HIDE DEF s
    <3> QED BY Zenon, <1>4, <1>6, <1>7, <1>9, <3>1, <3>2 DEF Raising
  <2> QED BY Zenon, <1>5, <1>8, <2>1, <2>2, <2>3, FloorsKept
<1>11. ClaimsHaveFloors'
  <2>1. \A z \in Space : floorLock[z] # NoTxn => floorLock'[z] = floorLock[z] /\ pendFloor'[z] = pendFloor[z]
    BY <1>3, <1>9
  <2> QED BY Zenon, <1>5, <2>1, ClaimsKept DEF FloorInv, ClaimsHaveFloors
<1>12. SearchSeesReserved'
  <2>1. \A u \in Txn : pc'[u] \in {"search", "exhausted"} => pc[u] \in {"search", "exhausted"}
    BY <1>1, <1>4
  <2> QED BY <1>6, <2>1 DEF FloorInv, SearchSeesReserved
<1>13. ExhaustedOnlyWhenFull'
  <2>1. ASSUME pc'[t] = "exhausted" PROVE FreeBlocks(Taken(t)', req'[t].n) = {}
    <3>1. Fits(t) = {}
      BY <2>1 DEF Refuse, TypeOK
    <3>2. FreeBlocksFrom(Taken(t), req[t].n, Observed(t)) = {}
      BY <3>1, <1>2 DEF Fits, UsesFloor
    <3>3. Taken(t)' = Taken(t) /\ Taken(t) = { r \in rows : Blocks(r, s) }
      BY Zenon, <1>1, <1>5, <1>6 DEF Taken
    <3> HIDE DEF s
    <3> QED BY Zenon, <1>1, <1>5, <1>6, <1>7, <3>2, <3>3, NothingBelowObserved
  <2>2. ASSUME NEW u \in Txn \ {t} PROVE pc'[u] = "exhausted" => FreeBlocks(Taken(u)', req'[u].n) = {}
    BY Zenon, <1>8, SearchersKept
  <2> QED BY <2>1, <2>2 DEF ExhaustedOnlyWhenFull
<1>14. RowKinds'
  BY <1>5 DEF FloorInv, RowKinds
<1> QED BY <1>10, <1>11, <1>12, <1>13, <1>14 DEF FloorInv

\* Lowest is at most every row's first address.
LEMMA LowestIsLeast ==
  ASSUME NEW D, D # {}, \A r \in D : r.lo \in Addr
  PROVE  Lowest(D) \in Addr /\ \A r \in D : Lowest(D) <= r.lo
<1> DEFINE L == { r.lo : r \in D }
<1>1. L \in SUBSET Nat /\ L # {}
  BY SizeAssumption DEF Addr
<1>2. PICK a \in L : \A c \in L : a <= c
  <2> HIDE DEF L
  <2> QED BY <1>1, LeastNat
<1>3. \E x \in L : \A r \in D : x <= r.lo
  BY Zenon, <1>2
<1>4. \A r \in D : Lowest(D) <= r.lo
  BY <1>3 DEF Lowest
<1> QED BY <1>4, LowestType

\* The trigger's update of one floor.
LEMMA LowerFloorFloor ==
  ASSUME TypeOK, LockInv, FloorInv, NEW t \in Txn, LowerFloor(t)
  PROVE  FloorInv'
<1> DEFINE D == Deleting(t)
<1>1. PICK s \in todo[t] :
        /\ floorLock[s] = NoTxn
        /\ floorLock' = [floorLock EXCEPT ![s] = t]
        /\ pendFloor' = [pendFloor EXCEPT ![s] = IF Lowest(D) < @ THEN Lowest(D) ELSE @]
        /\ todo' = [todo EXCEPT ![t] = @ \ {s}]
  BY Zenon DEF LowerFloor
<1>2. UNCHANGED <<rows, floor, pc, req>> /\ pc[t] = "lower"
  BY Zenon DEF LowerFloor
<1>3. s \in Space
  BY DEF TypeOK
<1>4. Lowest(D) \in Addr /\ \A r \in D : Lowest(D) <= r.lo
  <2>1. D # {} /\ \A r \in D : r.lo \in Addr
    BY Zenon, <1>2 DEF LockInv, Deleting, TypeOK, Row
  <2> HIDE DEF D
  <2> QED BY Zenon, <2>1, LowestIsLeast
<1>5. floor[s] \in Addr /\ pendFloor[s] = floor[s] /\ Guarded(Live, s, floor[s])
  BY Zenon, <1>1, <1>3 DEF FloorInv, FloorsGuard, ClaimsHaveFloors, TypeOK
<1> DEFINE v == IF Lowest(D) < floor[s] THEN Lowest(D) ELSE floor[s]
<1>6. pendFloor'[s] = v /\ floorLock'[s] = t
  BY <1>1, <1>3, <1>5 DEF TypeOK
<1>7. \A z \in Space \ {s} : pendFloor'[z] = pendFloor[z] /\ floorLock'[z] = floorLock[z]
  BY <1>1 DEF TypeOK
<1>8. v \in Addr /\ v <= floor[s] /\ v <= Lowest(D) /\ v # NoFloor
  <2> HIDE DEF D
  <2>1. Lowest(D) \in Addr /\ floor[s] \in Addr
    BY Zenon, <1>4, <1>5
  <2> QED BY <2>1, SizeAssumption DEF Addr, NoFloor
<1>9. Guarded(Visible(t), s, v)
  <2> SUFFICES ASSUME NEW a \in Addr, a < v, ~ \E b \in Reserved : Within(a, b)
               PROVE  \E r \in Visible(t) : Blocks(r, s) /\ Within(a, r)
    BY Zenon DEF Guarded
  <2> HIDE DEF v
  <2>1. a < floor[s] /\ a < Lowest(D)
    <3> HIDE DEF D
    <3>1. Lowest(D) \in Addr /\ floor[s] \in Addr
      BY Zenon, <1>4, <1>5
    <3> QED BY <1>8, <3>1, SizeAssumption DEF Addr
  <2>2. PICK r \in Live : Blocks(r, s) /\ Within(a, r)
    BY Zenon, <1>5, <2>1 DEF Guarded
  <2>3. r \in rows /\ r.xmin = NoTxn /\ r.lo \in Addr
    BY DEF Live, TypeOK, Row
  <2>4. r \notin D
    <3> HIDE DEF D
    <3> QED BY <1>4, <2>1, <2>2, <2>3, SizeAssumption DEF Within, Addr
  <2>5. r \in Visible(t)
    BY Zenon, <2>3, <2>4 DEF Visible, Deleting
  <2> QED BY <2>2, <2>5
<1>10. Live' = Live /\ \A u \in Txn : Visible(u)' = Visible(u)
  BY Zenon, <1>2 DEF Live, Visible
<1> HIDE DEF v
<1>11. FloorsGuard'
  <2>1. OthersGoOn(t) /\ Shows(Live, Live')
    BY Zenon, <1>2, <1>10, ShowsItself DEF OthersGoOn
  <2>2. \A z \in Space : floorLock'[z] = NoTxn => pendFloor'[z] = floor[z]
    BY Zenon, <1>6, <1>7, ConstantsAssumption DEF FloorInv, FloorsGuard
  <2>3. \A z \in Space, u \in Txn \ {t} : floorLock'[z] = u => floorLock[z] = u /\ pendFloor'[z] = pendFloor[z]
    BY <1>6, <1>7
  <2>4. ASSUME NEW z \in Space, floorLock'[z] = t
        PROVE  pc'[t] \in Raising /\ pendFloor'[z] # NoFloor /\ Guarded(Visible(t)', z, pendFloor'[z])
    <3>1. CASE z = s
      BY Zenon, <1>2, <1>6, <1>8, <1>9, <1>10, <3>1 DEF Raising
    <3>2. CASE z # s
      BY Zenon, <1>2, <1>7, <1>10, <2>4, <3>2 DEF FloorInv, FloorsGuard
    <3> QED BY Zenon, <3>1, <3>2
  <2> QED BY Zenon, <1>2, <2>1, <2>2, <2>3, <2>4, FloorsKept
<1>12. ClaimsHaveFloors'
  <2>1. \A u \in Txn : todo'[u] = IF u = t THEN todo[t] \ {s} ELSE todo[u]
    BY Zenon, <1>1 DEF TypeOK
  <2>2. ASSUME NEW r \in rows, r.purpose = "Claim"
        PROVE  /\ IF r.xmin = NoTxn THEN floor[r.space] # NoFloor ELSE floorLock'[r.space] = r.xmin
               /\ r.xmax # NoTxn => \/ r.space \in todo'[r.xmax]
                                    \/ floorLock'[r.space] = r.xmax /\ pendFloor'[r.space] <= r.lo
    <3>1. /\ r.space \in Space /\ r.xmax \in Txn \cup {NoTxn} /\ r.lo \in Addr
          /\ IF r.xmin = NoTxn THEN floor[r.space] # NoFloor ELSE floorLock[r.space] = r.xmin
          /\ r.xmax # NoTxn => \/ r.space \in todo[r.xmax]
                               \/ floorLock[r.space] = r.xmax /\ pendFloor[r.space] <= r.lo
      BY Zenon, <2>2 DEF FloorInv, ClaimsHaveFloors, RowKinds, TypeOK, Row
    <3>2. CASE r.space # s
      BY Zenon, <1>7, <2>1, <3>1, <3>2
    <3>3. CASE r.space = s
      <4>1. r.xmin = NoTxn
        BY Zenon, <1>1, <3>1, <3>3
      <4>2. r.xmax = t => v <= r.lo
        <5>1. r.xmax = t => Lowest(D) <= r.lo
          BY <1>4 DEF Deleting
        <5> HIDE DEF D
        <5>2. Lowest(D) \in Addr /\ r.lo \in Addr
          BY Zenon, <1>4, <3>1
        <5> QED BY <1>8, <5>1, <5>2, SizeAssumption DEF Addr
      <4> QED BY Zenon, <1>1, <1>6, <2>1, <3>1, <3>3, <4>1, <4>2
    <3> QED BY Zenon, <3>2, <3>3
  <2>3. \A u \in Txn : \A z \in todo'[u] : floor[z] # NoFloor
    BY <2>1 DEF FloorInv, ClaimsHaveFloors
  <2> QED BY Zenon, <1>2, <2>2, <2>3 DEF ClaimsHaveFloors
<1>13. RowKinds' /\ SearchSeesReserved'
  BY Zenon, <1>2, <1>10 DEF FloorInv, RowKinds, SearchSeesReserved
<1>14. ExhaustedOnlyWhenFull'
  BY Zenon, <1>2, <1>10 DEF FloorInv, ExhaustedOnlyWhenFull, Taken
<1> QED BY <1>11, <1>12, <1>13, <1>14 DEF FloorInv

\* The drop of an empty pool takes the floors, which nobody holds, with it.
LEMMA DropPoolFloor ==
  ASSUME TypeOK, LockInv, FloorInv, NEW t \in Txn, DropPool(t)
  PROVE  FloorInv'
<1>1. pc[t] = "fk" /\ poolLock = t /\ UNCHANGED <<rows, floorLock, todo>>
  BY Zenon DEF DropPool, LockInv, HoldsPool
<1>2. \A u \in Txn \ {t} : pc'[u] = pc[u] /\ req'[u] = req[u] /\ pc[u] \notin HoldsPool
  BY Zenon, <1>1 DEF DropPool, LockInv, TypeOK
<1>3. pc'[t] = "idle"
  BY Zenon DEF DropPool, TypeOK
<1>4. CASE rows # {}
  <2>1. UNCHANGED floorVars
    BY <1>4 DEF DropPool, floorVars
  <2>2. \A q \in rows : Kin(q, q)
    BY DEF Kin, Same
  <2> QED BY <1>1, <1>2, <1>3, <2>1, <2>2, FloorFrame DEF Raising
<1>5. CASE rows = {}
  <2>1. \A u \in Txn : pc[u] # "lower"
    BY <1>5 DEF LockInv, Deleting
  <2>2. \A u \in Txn : pc[u] \notin Raising
    BY Zenon, <1>1, <1>2, <2>1 DEF HoldsPool, Raising
  <2>3. \A s \in Space : floorLock[s] = NoTxn
    BY <2>2 DEF FloorInv, FloorsGuard, TypeOK
  <2>4. \A u \in Txn : todo[u] = {}
    BY Zenon, <2>1 DEF LockInv
  <2>5. \A s \in Space : floor'[s] = NoFloor /\ pendFloor'[s] = NoFloor
    BY <1>5 DEF DropPool
  <2>6. \A u \in Txn : pc'[u] \notin {"search", "exhausted"}
    BY <1>2, <1>3 DEF HoldsPool
  <2>7. FloorsGuard'
    <3>1. \A s \in Space : Guarded(Live', s, floor'[s])
      BY <2>5, SizeAssumption DEF Guarded, NoFloor, Addr
    <3> QED BY Zenon, <1>1, <2>3, <2>5, <3>1, ConstantsAssumption DEF FloorsGuard
  <2>8. RowKinds' /\ ClaimsHaveFloors'
    BY Zenon, <1>1, <1>5, <2>4 DEF RowKinds, ClaimsHaveFloors
  <2>9. SearchSeesReserved' /\ ExhaustedOnlyWhenFull'
    BY <2>6 DEF SearchSeesReserved, ExhaustedOnlyWhenFull
  <2> QED BY <2>7, <2>8, <2>9 DEF FloorInv
<1> QED BY <1>4, <1>5

\* A delete puts off lowering the floors its rows block, all of which exist.
LEMMA StartDeleteFloor ==
  ASSUME TypeOK, LockInv, FloorInv, NEW t \in Txn, pc[t] \in {"idle", "checked"},
         NEW D \in SUBSET rows, \A r \in D : r.xmin = NoTxn /\ r.xmax = NoTxn,
         (\A r \in D : r.purpose # "Reservation") \/ D = { r \in Live : r.purpose = "Reservation" },
         StartDelete(t, D), UNCHANGED req
  PROVE  FloorInv'
<1> DEFINE f == [r \in rows |-> IF r \in D THEN [r EXCEPT !.xmax = t] ELSE r]
<1>1. rows' = { f[r] : r \in rows }
  BY DEF StartDelete
<1>2. \A r \in rows : Kin(r, f[r]) /\ f[r].xmin = r.xmin /\ f[r].xmax = IF r \in D THEN t ELSE r.xmax
  BY DEF TypeOK, Row, Kin, Same
<1> HIDE DEF f
<1>3. /\ UNCHANGED <<floor, pendFloor, floorLock>>
      /\ \A u \in Txn : todo'[u] = IF u = t THEN { s \in Space : floor[s] # NoFloor /\ \E r \in D : Blocks(r, s) }
                                   ELSE todo[u]
  BY DEF StartDelete, floorVars, TypeOK
<1>4. pc'[t] = "lower" /\ \A u \in Txn \ {t} : pc'[u] = pc[u]
  BY DEF StartDelete, TypeOK
<1>5. Shows(Live, Live')
  BY Zenon, <1>1, <1>2 DEF Live, Shows
<1>6. OthersGoOn(t)
  <2>1. \A u \in Txn \ {t} : Shows(Visible(u), Visible(u)')
    BY Zenon, <1>1, <1>2 DEF Visible, Shows
  <2> QED BY Zenon, <1>4, <2>1 DEF OthersGoOn
<1>7. FloorsGuard'
  <2>1. \A s \in Space : floorLock[s] # t
    BY DEF FloorInv, FloorsGuard, Raising
  <2>2. \A s \in Space : floorLock'[s] = NoTxn => pendFloor'[s] = floor[s]
    BY Zenon, <1>3 DEF FloorInv, FloorsGuard
  <2> QED BY Zenon, <1>3, <1>5, <1>6, <2>1, <2>2, FloorsKept
<1>8. RowKinds'
  <2>1. ASSUME NEW r \in rows, NEW w \in rows, r.purpose = "Reservation", w.purpose = "Reservation",
               w.xmin = r.xmin, w.xmax = r.xmax
        PROVE  f[w].xmin = f[r].xmin /\ f[w].xmax = f[r].xmax
    <3>1. w \in D <=> r \in D
      BY <2>1 DEF Live
    <3> QED BY <1>2, <2>1, <3>1
  <2>2. KeepsKinds(rows, f)
    BY <1>2, <2>1 DEF KeepsKinds
  <2>3. rows' = Mapped(rows, f)
    BY Zenon, <1>1 DEF Mapped
  <2> QED BY Zenon, <2>2, <2>3, RowsMapped DEF FloorInv
<1>9. ClaimsHaveFloors'
  <2>1. ASSUME NEW q \in rows', q.purpose = "Claim"
        PROVE  /\ IF q.xmin = NoTxn THEN floor[q.space] # NoFloor ELSE floorLock[q.space] = q.xmin
               /\ q.xmax # NoTxn => \/ q.space \in todo'[q.xmax]
                                    \/ floorLock[q.space] = q.xmax /\ pendFloor[q.space] <= q.lo
    <3>1. PICK r \in rows : q = f[r]
      BY <1>1
    <3>2. /\ q.purpose = r.purpose /\ q.space = r.space /\ q.lo = r.lo /\ q.xmin = r.xmin
          /\ q.xmax = IF r \in D THEN t ELSE r.xmax
      BY Zenon, <1>2, <3>1 DEF Kin, Same
    <3>3. /\ r.space \in Space /\ r.xmax \in Txn \cup {NoTxn}
          /\ IF r.xmin = NoTxn THEN floor[r.space] # NoFloor ELSE floorLock[r.space] = r.xmin
          /\ r.xmax # NoTxn => \/ r.space \in todo[r.xmax]
                               \/ floorLock[r.space] = r.xmax /\ pendFloor[r.space] <= r.lo
      BY Zenon, <2>1, <3>2 DEF FloorInv, ClaimsHaveFloors, RowKinds, TypeOK, Row
    <3>4. CASE r \in D
      <4>1. r.xmin = NoTxn /\ Blocks(r, r.space)
        BY <3>4 DEF Blocks
      <4> QED BY Zenon, <1>3, <3>2, <3>3, <3>4, <4>1
    <3>5. CASE r \notin D
      <4>1. r.xmax # t
        BY Zenon, ConstantsAssumption DEF LockInv
      <4> QED BY Zenon, <1>3, <3>2, <3>3, <3>5, <4>1
    <3> QED BY Zenon, <3>4, <3>5
  <2>2. \A u \in Txn : \A s \in todo'[u] : floor[s] # NoFloor
    BY ZenonT(30), <1>3 DEF FloorInv, ClaimsHaveFloors
  <2> QED BY Zenon, <1>3, <2>1, <2>2 DEF ClaimsHaveFloors
<1>10. SearchSeesReserved' /\ ExhaustedOnlyWhenFull'
  BY <1>4, <1>6, NoNewSearch
<1> QED BY <1>7, <1>8, <1>9, <1>10 DEF FloorInv

\* Rows that are added hide nothing.
LEMMA InsertKeepsGuards ==
  ASSUME NEW N, rows' = rows \cup N
  PROVE  Shows(Live, Live') /\ \A u \in Txn : Shows(Visible(u), Visible(u)')
BY DEF Live, Visible, Kin, Same, Shows

\* A request finds the reserved positions held, or has them held.
LEMMA LockPoolFloor ==
  ASSUME TypeOK, LockInv, FloorInv, NEW t \in Txn, LockPool(t)
  PROVE  FloorInv'
<1> DEFINE new == NewReservations(t)
           N == { ReservationRow(b, t) : b \in new }
<1>1. /\ pc[t] = "idle" /\ poolLock = NoTxn /\ rows' = rows \cup N
      /\ pc' = [pc EXCEPT ![t] = "search"] /\ UNCHANGED <<floor, pendFloor, floorLock, todo>>
      /\ \A u \in Txn \ {t} : req'[u] = req[u]
  BY DEF LockPool, floorVars, TypeOK
<1>2. Visible(t) = rows
  BY Zenon, <1>1, InserterSeesAll
<1>3. \A q \in N : /\ q.purpose = "Reservation" /\ q.xmin = t /\ q.xmax = NoTxn
                   /\ \E b \in Reserved : Same(q, b)
  <2>1. \A b : LET q == ReservationRow(b, t)
              IN  q.purpose = "Reservation" /\ q.xmin = t /\ q.xmax = NoTxn /\ Same(q, b)
    BY DEF ReservationRow, Same
  <2>2. new \subseteq Reserved
    BY Zenon DEF NewReservations
  <2> QED BY Zenon, <2>1, <2>2
<1>4. (\E r \in rows : r.purpose = "Reservation") \/ new = Reserved
  <2> SUFFICES ASSUME \A r \in rows : r.purpose # "Reservation" PROVE new = Reserved
    OBVIOUS
  <2>1. \A r \in rows, b \in Reserved : ~ Overlap(b, r)
    BY DEF FloorInv, RowKinds, Overlap
  <2> QED BY <1>2, <2>1 DEF NewReservations
<1>5. \A b \in new : \E q \in N : q.purpose = "Reservation" /\ Same(q, b) /\ q.xmin = t /\ q.xmax = NoTxn
  <2>1. \A b \in Reserved : LET q == ReservationRow(b, t)
                            IN  q.purpose = "Reservation" /\ Same(q, b) /\ q.xmin = t /\ q.xmax = NoTxn
    BY Zenon DEF ReservationRow, Same
  <2>2. new \subseteq Reserved
    BY DEF NewReservations
  <2> HIDE DEF new
  <2> QED BY <2>1, <2>2
<1>6. new = {} \/ new = Reserved
  BY <1>2, <1>4 DEF NewReservations
<1> HIDE DEF new, N
<1>7. Shows(Live, Live') /\ \A u \in Txn : Shows(Visible(u), Visible(u)')
  BY Zenon, <1>1, InsertKeepsGuards
<1>8. OthersGoOn(t) /\ pc'[t] = "search"
  BY <1>1, <1>7 DEF OthersGoOn, TypeOK
<1>9. FloorsGuard'
  <2>1. \A s \in Space : floorLock[s] # t
    BY Zenon, <1>1 DEF FloorInv, FloorsGuard, Raising
  <2>2. \A s \in Space : floorLock'[s] = NoTxn => pendFloor'[s] = floor[s]
    BY Zenon, <1>1 DEF FloorInv, FloorsGuard
  <2> QED BY Zenon, <1>1, <1>7, <1>8, <2>1, <2>2, FloorsKept
<1>10. RowKinds'
  <2>1. ASSUME NEW q \in rows'
        PROVE  /\ \/ q.purpose = "Claim" /\ q.space \in Space
                  \/ q.purpose = "Reservation" /\ \E b \in Reserved : Same(q, b)
               /\ q.purpose = "Claim" => \A b \in Reserved : ~ Overlap(q, b)
    BY Zenon, <1>1, <1>3 DEF FloorInv, RowKinds
  <2>2. ASSUME NEW q \in rows', q.purpose = "Reservation", NEW b \in Reserved
        PROVE  \E p \in rows' : /\ p.purpose = "Reservation" /\ Same(p, b)
                                /\ p.xmin = q.xmin /\ p.xmax = q.xmax
    <3>1. CASE q \in rows
      <4>1. PICK p \in rows : /\ p.purpose = "Reservation" /\ Same(p, b)
                              /\ p.xmin = q.xmin /\ p.xmax = q.xmax
        BY Zenon, <2>2, <3>1 DEF FloorInv, RowKinds
      <4> QED BY Zenon, <1>1, <4>1
    <3>2. CASE q \in N
      <4>1. new = Reserved
        BY <1>6, <3>2 DEF N
      <4>2. PICK p \in N : p.purpose = "Reservation" /\ Same(p, b) /\ p.xmin = t /\ p.xmax = NoTxn
        BY <1>5, <4>1
      <4> QED BY Zenon, <1>1, <1>3, <3>2, <4>2
    <3> QED BY Zenon, <1>1, <3>1, <3>2
  <2> QED BY <2>1, <2>2 DEF RowKinds
<1>11. ClaimsHaveFloors'
  BY Zenon, <1>1, <1>3 DEF FloorInv, ClaimsHaveFloors
<1>12. ASSUME NEW b \in Reserved
       PROVE  \E q \in Visible(t)' : q.purpose = "Reservation" /\ Same(q, b)
  <2>1. CASE new = Reserved
    <3>1. PICK p \in N : p.purpose = "Reservation" /\ Same(p, b) /\ p.xmin = t /\ p.xmax = NoTxn
      BY <1>5, <2>1
    <3> QED BY Zenon, <1>1, <3>1, ConstantsAssumption DEF Visible
  <2>2. CASE \E r \in rows : r.purpose = "Reservation"
    <3>1. PICK p \in rows : p.purpose = "Reservation" /\ Same(p, b)
      BY <2>2 DEF FloorInv, RowKinds
    <3>2. PICK q \in Visible(t)' : Kin(p, q)
      BY <1>2, <1>7 DEF Shows
    <3> QED BY <3>1, <3>2 DEF Kin, Same
  <2> QED BY <1>4, <2>1, <2>2
<1>13. SearchSeesReserved' /\ ExhaustedOnlyWhenFull'
  <2>1. ASSUME NEW u \in Txn
        PROVE  /\ pc'[u] \in {"search", "exhausted"} =>
                    \A b \in Reserved : \E q \in Visible(u)' : q.purpose = "Reservation" /\ Same(q, b)
               /\ pc'[u] = "exhausted" => FreeBlocks(Taken(u)', req'[u].n) = {}
    BY Zenon, <1>8, <1>12, SearchersKept
  <2> QED BY Zenon, <2>1 DEF SearchSeesReserved, ExhaustedOnlyWhenFull
<1> QED BY <1>9, <1>10, <1>11, <1>13 DEF FloorInv

\* The first free address at or above a floor has nothing free between the two.
LEMMA FirstFreeIsFirst ==
  ASSUME NEW taken, NEW n \in Nat \ {0}, NEW from \in Int,
         \A t \in taken : t.lo \in Int /\ t.hi \in Int,
         FreeBlocksFrom(taken, n, from) # {}
  PROVE  /\ FirstFree(taken, from) \in Addr
         /\ \A a \in Addr : from <= a /\ a < FirstFree(taken, from) => \E t \in taken : Within(a, t)
<1> DEFINE F == FreeAddrsFrom(taken, from)
<1>1. PICK b \in FreeBlocksFrom(taken, n, from) : TRUE
  OBVIOUS
<1>2. b.lo \in Addr /\ b.lo <= b.hi /\ b.lo >= from /\ b.hi \in Addr
  BY AlignedBlockInPool DEF FreeBlocksFrom, FreeBlocks, Block
<1>3. \A t \in taken : ~ Overlap(b, t)
  BY DEF FreeBlocksFrom, FreeBlocks
<1>4. b.lo \in F
  BY <1>2, <1>3, SizeAssumption DEF FreeAddrsFrom, Covered, Addrs, Overlap, Addr
<1>5. F \in SUBSET Nat /\ F # {} /\ F \subseteq Addr
  BY <1>4, SizeAssumption DEF FreeAddrsFrom, Addr
<1>6. \E a \in F : \A c \in F : a <= c
  <2> HIDE DEF F
  <2> QED BY <1>5, LeastNat
<1>7. FirstFree(taken, from) \in F /\ \A c \in F : FirstFree(taken, from) <= c
  BY <1>6 DEF FirstFree
<1>8. ASSUME NEW a \in Addr, from <= a, a < FirstFree(taken, from)
      PROVE  \E t \in taken : Within(a, t)
  <2>1. a \notin F
    <3> DEFINE w == FirstFree(taken, from)
    <3>1. w \in Addr /\ \A c \in F : w <= c
      BY <1>5, <1>7
    <3>2. a < w
      BY <1>8
    <3> HIDE DEF F, w
    <3>3. w \in Int /\ a \in Int
      BY <3>1, SizeAssumption DEF Addr
    <3> QED BY <3>1, <3>2, <3>3
  <2>2. a \in Covered(taken)
    BY <1>8, <2>1, SizeAssumption DEF FreeAddrsFrom, Addr
  <2> QED BY <2>2, SizeAssumption DEF Covered, Addrs, Within, Addr
<1> QED BY <1>5, <1>7, <1>8

\* Above what it observed an allocation raises the floor over taken addresses only.
LEMMA RaisedGuards ==
  ASSUME TypeOK, NEW t \in Txn, NEW s, NEW n \in Nat \ {0}, NEW f \in Addr,
         NEW T, T = { r \in rows : Blocks(r, s) }, Guarded(rows, s, f), FreeBlocksFrom(T, n, f) # {}
  PROVE  FirstFree(T, f) \in Addr /\ Guarded(rows, s, FirstFree(T, f))
<1> DEFINE v == FirstFree(T, f)
<1>1. \A r \in T : r.lo \in Int /\ r.hi \in Int
  BY SizeAssumption DEF TypeOK, Row, Addr
<1>2. f \in Int
  BY SizeAssumption DEF Addr
<1>3. v \in Addr /\ \A a \in Addr : f <= a /\ a < v => \E r \in T : Within(a, r)
  BY Zenon, <1>1, <1>2, FirstFreeIsFirst
<1> HIDE DEF v
<1>4. ASSUME NEW a \in Addr, a < v, ~ \E b \in Reserved : Within(a, b)
      PROVE  \E r \in rows : Blocks(r, s) /\ Within(a, r)
  <2>1. CASE a < f
    BY <1>4, <2>1 DEF Guarded
  <2>2. CASE f <= a
    BY <1>3, <1>4, <2>2
  <2> QED BY <1>2, <2>1, <2>2, SizeAssumption DEF Addr
<1>5. Guarded(rows, s, v)
  BY <1>4 DEF Guarded
<1> QED BY <1>3, <1>5 DEF v

\* An allocation raises its floor to the first hole it saw.
LEMMA AllocateFloor ==
  ASSUME FloorsAlwaysUsed, TypeOK, LockInv, FloorInv, NEW t \in Txn, Allocate(t)
  PROVE  FloorInv'
<1> DEFINE s == req[t].space
           x == NewRow(t)
           v == FirstFree(Taken(t), Observed(t))
<1>1. /\ pc[t] = "search" /\ req[t] \in Request /\ s \in Space /\ req[t].n \in Nat \ {0}
      /\ poolLock = t /\ req[t].op # "Carve" /\ Fits(t) # {}
  <2>1. pc[t] = "search" /\ Fits(t) # {}
    BY DEF Allocate
  <2>2. req[t] \in Request /\ poolLock = t
    BY Zenon, <2>1 DEF LockInv, HoldsPool
  <2>3. req[t].op # "Carve"
    BY <2>2 DEF Request, FloorsAlwaysUsed
  <2> QED BY Zenon, <2>1, <2>2, <2>3, RequestType
<1>2. UsesFloor(t)
  BY <1>1 DEF UsesFloor, FloorsAlwaysUsed, TypeOK
<1>3. /\ floorLock[s] = NoTxn
      /\ floorLock' = [floorLock EXCEPT ![s] = t]
      /\ pendFloor' = [pendFloor EXCEPT ![s] = v]
  BY <1>2 DEF Allocate, LockFloor
<1>4. rows' = rows \cup {x} /\ UNCHANGED <<floor, todo, req>>
  BY DEF Allocate
<1>5. Visible(t) = rows /\ Taken(t) = { r \in rows : Blocks(r, s) }
  BY Zenon, <1>1, InserterSeesAll DEF Taken
<1>6. /\ x.purpose = "Claim" /\ x.space = s /\ x.xmin = t /\ x.xmax = NoTxn
      /\ x.lo = Chosen(t).lo /\ x.hi = Chosen(t).hi
  BY Zenon, <1>1 DEF NewRow
<1>7. \A r \in Taken(t) : ~ Overlap(Chosen(t), r)
  BY Zenon, <1>1, ChosenIsFree DEF FreeBlocks
<1>8. v \in Addr /\ Guarded(rows, s, v)
  <2>1. Observed(t) \in Addr /\ Guarded(rows, s, Observed(t))
    BY Zenon, <1>1, <1>2, <1>3, ObservedGuards
  <2>2. FreeBlocksFrom(Taken(t), req[t].n, Observed(t)) # {}
    BY Zenon, <1>1, <1>2 DEF Fits, UsesFloor
  <2> HIDE DEF s
  <2> QED BY Zenon, <1>1, <1>5, <2>1, <2>2, RaisedGuards
<1> HIDE DEF x, v
<1>9. Shows(Live, Live') /\ \A u \in Txn : Shows(Visible(u), Visible(u)')
  BY <1>4, InsertKeepsGuards
<1>10. pc'[t] = "done" /\ OthersGoOn(t)
  BY Zenon, <1>4, <1>9 DEF Allocate, TypeOK, OthersGoOn
<1>11. \A z \in Space : /\ pendFloor'[z] = IF z = s THEN v ELSE pendFloor[z]
                        /\ floorLock'[z] = IF z = s THEN t ELSE floorLock[z]
  BY Zenon, <1>3 DEF TypeOK
<1>12. FloorsGuard'
  <2>1. \A z \in Space : floorLock'[z] = NoTxn => pendFloor'[z] = floor[z]
    BY ZenonT(30), <1>11, ConstantsAssumption DEF FloorInv, FloorsGuard
  <2>2. \A z \in Space, u \in Txn \ {t} : floorLock'[z] = u => floorLock[z] = u /\ pendFloor'[z] = pendFloor[z]
    BY Zenon, <1>11
  <2>3. ASSUME NEW z \in Space, floorLock'[z] = t
        PROVE  pc'[t] \in Raising /\ pendFloor'[z] # NoFloor /\ Guarded(Visible(t)', z, pendFloor'[z])
    <3>1. z = s
      BY Zenon, <1>1, <1>11, <2>3 DEF FloorInv, FloorsGuard, Raising
    <3>2. v # NoFloor /\ v \in Int
      BY <1>8, SizeAssumption DEF Addr, NoFloor
    <3> HIDE DEF s
    <3>3. Guarded(Visible(t)', s, v)
      BY <1>5, <1>8, <1>9, <3>2, GuardKept
    <3> QED BY Zenon, <1>10, <1>11, <3>1, <3>2, <3>3 DEF Raising
  <2> QED BY Zenon, <1>4, <1>9, <1>10, <2>1, <2>2, <2>3, FloorsKept
<1>13. RowKinds'
  <2>1. \A b \in Reserved : ~ Overlap(x, b)
    <3> SUFFICES ASSUME NEW b \in Reserved, Overlap(x, b) PROVE FALSE
      OBVIOUS
    <3>1. PICK r \in rows : r.purpose = "Reservation" /\ Same(r, b)
      BY Zenon, <1>1, <1>5 DEF FloorInv, SearchSeesReserved
    <3>2. r \in Taken(t)
      BY Zenon, <1>5, <3>1 DEF Blocks
    <3> QED BY Zenon, <1>6, <1>7, <3>1, <3>2 DEF Overlap, Same
  <2>2. \A q \in rows' : \/ q.purpose = "Claim" /\ q.space \in Space
                         \/ q.purpose = "Reservation" /\ \E b \in Reserved : Same(q, b)
    BY Zenon, <1>1, <1>4, <1>6 DEF FloorInv, RowKinds
  <2>3. \A q \in rows' : q.purpose = "Claim" => \A b \in Reserved : ~ Overlap(q, b)
    BY <1>4, <2>1 DEF FloorInv, RowKinds
  <2>4. ASSUME NEW q \in rows', q.purpose = "Reservation", NEW b \in Reserved
        PROVE  \E p \in rows' : /\ p.purpose = "Reservation" /\ Same(p, b)
                                /\ p.xmin = q.xmin /\ p.xmax = q.xmax
    <3>1. q \in rows
      BY Zenon, <1>4, <1>6, <2>4
    <3>2. PICK p \in rows : /\ p.purpose = "Reservation" /\ Same(p, b)
                            /\ p.xmin = q.xmin /\ p.xmax = q.xmax
      BY Zenon, <2>4, <3>1 DEF FloorInv, RowKinds
    <3> QED BY Zenon, <1>4, <3>2
  <2> QED BY <2>2, <2>3, <2>4 DEF RowKinds
<1>14. ClaimsHaveFloors'
  <2>1. \A z \in Space : floorLock[z] # NoTxn => floorLock'[z] = floorLock[z] /\ pendFloor'[z] = pendFloor[z]
    BY <1>3, <1>11
  <2>2. x.xmin # NoTxn /\ floorLock'[x.space] = x.xmin /\ x.xmax = NoTxn
    BY Zenon, <1>1, <1>6, <1>11, ConstantsAssumption
  <2>3. ASSUME NEW r \in rows', r.purpose = "Claim"
        PROVE  /\ IF r.xmin = NoTxn THEN floor[r.space] # NoFloor ELSE floorLock'[r.space] = r.xmin
               /\ r.xmax # NoTxn => \/ r.space \in todo[r.xmax]
                                    \/ floorLock'[r.space] = r.xmax /\ pendFloor'[r.space] <= r.lo
    <3>1. CASE r \in rows
      BY Zenon, <2>1, <2>3, <3>1, ClaimsKept
    <3>2. CASE r = x
      BY <2>2, <3>2
    <3> QED BY Zenon, <1>4, <3>1, <3>2
  <2>4. \A u \in Txn : \A z \in todo[u] : floor[z] # NoFloor
    BY Zenon DEF FloorInv, ClaimsHaveFloors
  <2> QED BY Zenon, <1>4, <2>3, <2>4 DEF ClaimsHaveFloors
<1>15. SearchSeesReserved' /\ ExhaustedOnlyWhenFull'
  BY <1>10, NoNewSearch
<1> QED BY <1>12, <1>13, <1>14, <1>15 DEF FloorInv

\* What a commit deletes is a reserved position, or lies in a space whose floor it holds.
LEMMA DeletedUnderHeldFloor ==
  ASSUME FloorInv, NEW t \in Txn, todo[t] = {}, NEW r \in rows, r.xmax = t
  PROVE  \/ r.purpose = "Reservation" /\ \E b \in Reserved : Same(r, b)
         \/ r.purpose = "Claim" /\ floorLock[r.space] = t
BY Zenon, ConstantsAssumption DEF FloorInv, RowKinds, ClaimsHaveFloors

\* So the floors it does not hold stay right without what it deletes.
LEMMA GuardedWithoutDeleted ==
  ASSUME FloorInv, NEW t \in Txn, todo[t] = {}, NEW R \in SUBSET rows, NEW Q, NEW s \in Space,
         floorLock[s] # t, NEW h \in Int, Guarded(R, s, h), Shows({ r \in R : r.xmax # t }, Q)
  PROVE  Guarded(Q, s, h)
<1> SUFFICES ASSUME NEW a \in Addr, a < h, ~ \E b \in Reserved : Within(a, b)
             PROVE  \E q \in Q : Blocks(q, s) /\ Within(a, q)
  BY Zenon DEF Guarded
<1>1. PICK r \in R : Blocks(r, s) /\ Within(a, r)
  BY Zenon DEF Guarded
<1>2. r.xmax # t
  <2> SUFFICES ASSUME r.xmax = t PROVE FALSE
    OBVIOUS
  <2>1. \/ r.purpose = "Reservation" /\ \E b \in Reserved : Same(r, b)
        \/ r.purpose = "Claim" /\ floorLock[r.space] = t
    <3>1. r \in rows
      BY Zenon
    <3> QED BY Zenon, <3>1, DeletedUnderHeldFloor
  <2> QED BY Zenon, <1>1, <2>1 DEF Blocks, Same, Within
<1>3. PICK q \in Q : Kin(r, q)
  BY Zenon, <1>2 DEF Shows
<1> QED BY Zenon, <1>1, <1>3 DEF Kin, Same, Blocks, Within

\* A commit publishes the floors it holds together with the rows they are right for.
LEMMA CommitFloor ==
  ASSUME TypeOK, LockInv, FloorInv, NEW t \in Txn, Commit(t)
  PROVE  FloorInv'
<1> DEFINE K == { q \in rows : q.xmax # t }
           f == [r \in rows |-> IF r.xmin = t THEN [r EXCEPT !.xmin = NoTxn] ELSE r]
<1>1. rows' = { f[r] : r \in K }
  BY DEF Commit
<1>2. \A r \in rows : /\ Kin(r, f[r]) /\ f[r].xmax = r.xmax
                      /\ f[r].xmin = IF r.xmin = t THEN NoTxn ELSE r.xmin
  BY DEF TypeOK, Row, Kin, Same
<1> HIDE DEF f
<1>3. /\ pc[t] = "done" /\ poolLock = t /\ UNCHANGED pendFloor
      /\ \A s \in Space : /\ floor'[s] = IF floorLock[s] = t THEN pendFloor[s] ELSE floor[s]
                          /\ floorLock'[s] = IF floorLock[s] = t THEN NoTxn ELSE floorLock[s]
      /\ \A u \in Txn : todo'[u] = IF u = t THEN {} ELSE todo[u]
  BY DEF Commit, Unlock, LockInv, HoldsPool, TypeOK
<1>4. pc'[t] \in {"drop", "idle"} /\ \A u \in Txn \ {t} : pc'[u] = pc[u]
  BY DEF Commit, TypeOK
<1>5. \A u \in Txn \ {t} : pc[u] \notin HoldsPool
  BY Zenon, <1>3 DEF LockInv
<1>6. \A r \in rows : f[r].xmin = NoTxn
  <2>1. \A r \in rows : r.xmin # NoTxn => r.xmin = t
    BY Zenon, <1>3 DEF LockInv
  <2> QED BY Zenon, <1>2, <2>1
<1>7. todo[t] = {}
  BY Zenon, <1>3 DEF LockInv
<1>8. Shows(K, Live')
  BY <1>1, <1>2, <1>6 DEF Live, Shows
<1>9. \A u \in Txn : Shows({ r \in Visible(u) : r.xmax # t }, Visible(u)')
  <2> SUFFICES ASSUME NEW u \in Txn, NEW r \in Visible(u), r.xmax # t
               PROVE  f[r] \in Visible(u)' /\ Kin(r, f[r])
    BY DEF Shows
  <2>1. r \in K /\ r \in rows /\ r.xmax # u
    BY DEF Visible
  <2> QED BY Zenon, <1>1, <1>2, <1>6, <2>1 DEF Visible
<1>10. FloorsGuard'
  <2>1. ASSUME NEW s \in Space, floorLock[s] = t PROVE Guarded(Live', s, floor'[s])
    <3>1. pendFloor[s] \in Int /\ Guarded(Visible(t), s, pendFloor[s])
      BY Zenon, <2>1, FloorsTyped, HeldGuards
    <3>2. Shows(Visible(t), Live')
      BY Zenon, <1>8 DEF Visible, Shows
    <3>3. floor'[s] = pendFloor[s]
      BY <1>3, <2>1
    <3>4. Guarded(Live', s, pendFloor[s])
      BY Zenon, <3>1, <3>2, GuardStays
    <3> QED BY Zenon, <3>3, <3>4
  <2>2. ASSUME NEW s \in Space, floorLock[s] # t PROVE Guarded(Live', s, floor'[s])
    <3>1. floor[s] \in Int /\ Guarded(Live, s, floor[s]) /\ floor'[s] = floor[s]
      <4>1. floor[s] \in Int /\ Guarded(Live, s, floor[s])
        BY Zenon, FloorsTyped, FloorGuards
      <4> QED BY Zenon, <1>3, <2>2, <4>1
    <3>2. Live \in SUBSET rows /\ Shows({ r \in Live : r.xmax # t }, Live')
      BY <1>8 DEF Live, Shows
    <3> QED BY Zenon, <1>7, <2>2, <3>1, <3>2, GuardedWithoutDeleted
  <2>3. ASSUME NEW s \in Space, NEW u \in Txn, floorLock'[s] = u
        PROVE  pc'[u] \in Raising /\ pendFloor[s] # NoFloor /\ Guarded(Visible(u)', s, pendFloor[s])
    <3>1. floorLock[s] = u /\ u # t
      BY Zenon, <1>3, <2>3, ConstantsAssumption
    <3>2. /\ pendFloor[s] \in Int /\ Guarded(Visible(u), s, pendFloor[s])
          /\ pc[u] \in Raising /\ pendFloor[s] # NoFloor
      BY Zenon, <3>1, FloorsTyped, HeldGuards
    <3>3. Visible(u) \in SUBSET rows
      BY DEF Visible
    <3>4. Guarded(Visible(u)', s, pendFloor[s])
      BY Zenon, <1>7, <1>9, <3>1, <3>2, <3>3, GuardedWithoutDeleted
    <3> QED BY Zenon, <1>4, <3>1, <3>2, <3>4
  <2>4. ASSUME NEW s \in Space, floorLock'[s] = NoTxn PROVE pendFloor[s] = floor'[s]
    BY Zenon, <1>3, <2>4 DEF FloorInv, FloorsGuard
  <2> QED BY Zenon, <1>3, <2>1, <2>2, <2>3, <2>4 DEF FloorsGuard
<1>11. RowKinds'
  <2>1. KeepsKinds(K, f)
    BY Zenon, <1>2 DEF KeepsKinds
  <2>2. rows' = Mapped(K, f)
    BY Zenon, <1>1 DEF Mapped
  <2> HIDE DEF K
  <2> QED BY <2>1, <2>2, RowsMapped DEF FloorInv
<1>12. ClaimsHaveFloors'
  <2>1. ASSUME NEW q \in rows', q.purpose = "Claim"
        PROVE  /\ q.xmin = NoTxn /\ floor'[q.space] # NoFloor
               /\ q.xmax # NoTxn => \/ q.space \in todo'[q.xmax]
                                    \/ floorLock'[q.space] = q.xmax /\ pendFloor[q.space] <= q.lo
    <3>1. PICK r \in rows : q = f[r] /\ r.xmax # t
      BY <1>1
    <3>2. /\ q.purpose = r.purpose /\ q.space = r.space /\ q.lo = r.lo /\ q.xmin = NoTxn
          /\ q.xmax = r.xmax
      BY Zenon, <1>2, <1>6, <3>1 DEF Kin, Same
    <3>3. /\ r.space \in Space /\ r.xmin \in {NoTxn, t} /\ r.xmax \in Txn \cup {NoTxn}
          /\ IF r.xmin = NoTxn THEN floor[r.space] # NoFloor ELSE floorLock[r.space] = r.xmin
          /\ r.xmax # NoTxn => \/ r.space \in todo[r.xmax]
                               \/ floorLock[r.space] = r.xmax /\ pendFloor[r.space] <= r.lo
      BY Zenon, <1>3, <2>1, <3>2 DEF FloorInv, ClaimsHaveFloors, RowKinds, LockInv, TypeOK, Row
    <3>4. floorLock[r.space] = t => pendFloor[r.space] # NoFloor
      BY Zenon, <3>3 DEF FloorInv, FloorsGuard
    <3>5. floor'[r.space] # NoFloor
      BY Zenon, <1>3, <3>3, <3>4
    <3> QED BY Zenon, <1>3, <3>1, <3>2, <3>3, <3>5
  <2>2. ASSUME NEW u \in Txn, NEW s \in todo'[u] PROVE floor'[s] # NoFloor
    <3>1. s \in todo[u] /\ s \in Space /\ floor[s] # NoFloor
      BY Zenon, <1>3 DEF FloorInv, ClaimsHaveFloors, TypeOK
    <3>2. floorLock[s] = t => pendFloor[s] # NoFloor
      BY Zenon, <3>1 DEF FloorInv, FloorsGuard
    <3> QED BY Zenon, <1>3, <3>1, <3>2
  <2> QED BY Zenon, <1>3, <2>1, <2>2 DEF ClaimsHaveFloors
<1>13. SearchSeesReserved' /\ ExhaustedOnlyWhenFull'
  <2>1. \A u \in Txn : pc'[u] \notin {"search", "exhausted"}
    BY Zenon, <1>4, <1>5 DEF HoldsPool
  <2> QED BY Zenon, <2>1 DEF SearchSeesReserved, ExhaustedOnlyWhenFull
<1> QED BY <1>10, <1>11, <1>12, <1>13 DEF FloorInv

\* A rollback puts the floors it holds back to what is committed.
LEMMA AbortFloor ==
  ASSUME TypeOK, LockInv, FloorInv, NEW t \in Txn, Abort(t)
  PROVE  FloorInv'
<1> DEFINE K == { q \in rows : q.xmin # t }
           f == [r \in rows |-> IF r.xmax = t THEN [r EXCEPT !.xmax = NoTxn] ELSE r]
<1>1. rows' = { f[r] : r \in K }
  BY DEF Abort
<1>2. \A r \in rows : /\ Kin(r, f[r]) /\ f[r].xmin = r.xmin
                      /\ f[r].xmax = IF r.xmax = t THEN NoTxn ELSE r.xmax
  BY DEF TypeOK, Row, Kin, Same
<1> HIDE DEF f
<1>3. /\ UNCHANGED floor
      /\ \A s \in Space : /\ pendFloor'[s] = IF floorLock[s] = t THEN floor[s] ELSE pendFloor[s]
                          /\ floorLock'[s] = IF floorLock[s] = t THEN NoTxn ELSE floorLock[s]
      /\ \A u \in Txn : todo'[u] = IF u = t THEN {} ELSE todo[u]
  BY DEF Abort, Unlock, TypeOK
<1>4. pc'[t] = "idle" /\ \A u \in Txn \ {t} : pc'[u] = pc[u] /\ req'[u] = req[u]
  BY DEF Abort, TypeOK
<1>5. Shows(Live, Live')
  BY Zenon, <1>1, <1>2, ConstantsAssumption DEF Live, Shows
<1>6. OthersGoOn(t)
  <2> SUFFICES ASSUME NEW u \in Txn \ {t}, NEW r \in Visible(u)
               PROVE  f[r] \in Visible(u)' /\ Kin(r, f[r])
    BY Zenon, <1>4 DEF OthersGoOn, Shows
  <2>1. r \in rows /\ r.xmax # u /\ r.xmin \in {NoTxn, u}
    BY DEF Visible
  <2>2. r \in K
    BY <2>1, ConstantsAssumption
  <2>3. f[r] \in rows' /\ f[r].xmin = r.xmin /\ f[r].xmax # u
    BY Zenon, <1>1, <1>2, <2>1, <2>2, ConstantsAssumption
  <2> QED BY Zenon, <1>2, <2>1, <2>3 DEF Visible
<1>7. FloorsGuard'
  <2>1. \A s \in Space : floorLock'[s] = NoTxn => pendFloor'[s] = floor[s]
    BY Zenon, <1>3 DEF FloorInv, FloorsGuard
  <2>2. \A s \in Space, u \in Txn \ {t} : floorLock'[s] = u => floorLock[s] = u /\ pendFloor'[s] = pendFloor[s]
    BY Zenon, <1>3, ConstantsAssumption
  <2>3. \A s \in Space : floorLock'[s] # t
    BY Zenon, <1>3, ConstantsAssumption
  <2> QED BY Zenon, <1>3, <1>5, <1>6, <2>1, <2>2, <2>3, FloorsKept
<1>8. RowKinds'
  <2>1. KeepsKinds(K, f)
    BY Zenon, <1>2 DEF KeepsKinds
  <2>2. rows' = Mapped(K, f)
    BY Zenon, <1>1 DEF Mapped
  <2> HIDE DEF K
  <2> QED BY <2>1, <2>2, RowsMapped DEF FloorInv
<1>9. ClaimsHaveFloors'
  <2>1. ASSUME NEW q \in rows', q.purpose = "Claim"
        PROVE  /\ IF q.xmin = NoTxn THEN floor[q.space] # NoFloor ELSE floorLock'[q.space] = q.xmin
               /\ q.xmax # NoTxn => \/ q.space \in todo'[q.xmax]
                                    \/ floorLock'[q.space] = q.xmax /\ pendFloor'[q.space] <= q.lo
    <3>1. PICK r \in rows : q = f[r] /\ r.xmin # t
      BY <1>1
    <3>2. /\ q.purpose = r.purpose /\ q.space = r.space /\ q.lo = r.lo /\ q.xmin = r.xmin
          /\ q.xmax = IF r.xmax = t THEN NoTxn ELSE r.xmax
      BY Zenon, <1>2, <3>1 DEF Kin, Same
    <3>3. /\ r.space \in Space /\ r.xmax \in Txn \cup {NoTxn}
          /\ IF r.xmin = NoTxn THEN floor[r.space] # NoFloor ELSE floorLock[r.space] = r.xmin
          /\ r.xmax # NoTxn => \/ r.space \in todo[r.xmax]
                               \/ floorLock[r.space] = r.xmax /\ pendFloor[r.space] <= r.lo
      BY Zenon, <2>1, <3>2 DEF FloorInv, ClaimsHaveFloors, RowKinds, TypeOK, Row
    <3> QED BY Zenon, <1>3, <3>1, <3>2, <3>3
  <2>2. \A u \in Txn : \A s \in todo'[u] : floor[s] # NoFloor
    BY ZenonT(30), <1>3 DEF FloorInv, ClaimsHaveFloors
  <2> QED BY Zenon, <1>3, <2>1, <2>2 DEF ClaimsHaveFloors
<1>10. SearchSeesReserved' /\ ExhaustedOnlyWhenFull'
  BY Zenon, <1>4, <1>6, NoNewSearch
<1> QED BY <1>7, <1>8, <1>9, <1>10 DEF FloorInv

-----------------------------------------------------------------------------
\* A pool starts with no floor above a free address.
LEMMA FloorInit == Init => FloorInv
<1> SUFFICES ASSUME Init PROVE FloorInv
  OBVIOUS
<1>1. \A s \in Space : Guarded(Live, s, floor[s])
  BY SizeAssumption DEF Init, Guarded, NoFloor, Addr
<1>2. FloorsGuard
  BY <1>1, ConstantsAssumption DEF Init, FloorsGuard
<1>3. RowKinds /\ ClaimsHaveFloors /\ SearchSeesReserved /\ ExhaustedOnlyWhenFull
  BY Zenon DEF Init, RowKinds, ClaimsHaveFloors, SearchSeesReserved, ExhaustedOnlyWhenFull
<1> QED BY <1>2, <1>3 DEF FloorInv

\* Every step preserves FloorInv.
LEMMA FloorStep ==
  ASSUME FloorsAlwaysUsed, TypeOK, LockInv, FloorInv, [Next]_vars
  PROVE  FloorInv'
<1>1. ASSUME NEW t \in Txn, Release(t) PROVE FloorInv'
  <2>1. PICK r \in rows : /\ r.xmin = NoTxn /\ r.xmax = NoTxn /\ r.purpose # "Reservation"
                          /\ StartDelete(t, {r})
    BY Zenon, <1>1 DEF Release
  <2>2. pc[t] = "idle" /\ UNCHANGED req
    BY Zenon, <1>1 DEF Release
  <2>3. {r} \in SUBSET rows
    OBVIOUS
  <2> QED BY Zenon, <2>1, <2>2, <2>3, StartDeleteFloor
<1>2. ASSUME NEW t \in Txn, ReleaseReservations(t) PROVE FloorInv'
  <2> DEFINE D == { r \in Live : r.purpose = "Reservation" }
  <2>1. D \in SUBSET rows /\ \A r \in D : r.xmin = NoTxn
    BY DEF Live
  <2>2. pc[t] = "checked" /\ UNCHANGED req /\ \A r \in D : r.xmax = NoTxn
    BY <1>2 DEF ReleaseReservations
  <2>3. CASE D = {}
    <3>1. pc' = [pc EXCEPT ![t] = "drop"] /\ UNCHANGED <<rows, floorVars, todo>>
      BY <1>2, <2>3 DEF ReleaseReservations
    <3>2. pc'[t] = "drop" /\ \A u \in Txn \ {t} : pc'[u] = pc[u]
      BY <3>1 DEF TypeOK
    <3>3. \A q \in rows : Kin(q, q)
      BY DEF Kin, Same
    <3> QED BY Zenon, <2>2, <3>1, <3>2, <3>3, FloorFrame DEF Raising
  <2>4. CASE D # {}
    <3>1. StartDelete(t, D)
      BY <1>2, <2>4 DEF ReleaseReservations
    <3>2. D = { r \in Live : r.purpose = "Reservation" }
      OBVIOUS
    <3> HIDE DEF D
    <3> QED BY <2>1, <2>2, <3>1, <3>2, StartDeleteFloor
  <2> QED BY <2>3, <2>4
<1>3. ASSUME NEW t \in Txn, TxnStep(t) PROVE FloorInv'
  BY <1>1, <1>2, <1>3, LockPoolFloor, AllocateFloor, RefuseFloor, QuietFloor, LowerFloorFloor,
     DropPoolFloor, CommitFloor, AbortFloor DEF TxnStep
<1>4. ASSUME CreatePool PROVE FloorInv'
  <2>1. UNCHANGED <<rows, floorVars, todo, pc, req>>
    BY <1>4 DEF CreatePool
  <2>2. \A q \in rows : Kin(q, q)
    BY DEF Kin, Same
  <2> QED BY Zenon, <2>1, <2>2, FloorFrame
<1>5. ASSUME UpdateStrategy PROVE FALSE
  BY <1>5 DEF UpdateStrategy, FloorsAlwaysUsed, TypeOK
<1>6. CASE UNCHANGED vars
  <2>1. UNCHANGED <<rows, floorVars, todo, pc, req>>
    BY <1>6 DEF vars, floorVars
  <2>2. \A q \in rows : Kin(q, q)
    BY DEF Kin, Same
  <2> QED BY Zenon, <2>1, <2>2, FloorFrame
<1> QED BY <1>3, <1>4, <1>5, <1>6 DEF Next

=============================================================================
