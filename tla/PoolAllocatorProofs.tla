------------------------ MODULE PoolAllocatorProofs -------------------------
(***************************************************************************)
(* Safety of PoolAllocator for every pool size, every number of sessions,  *)
(* keys and address spaces, every set of reserved positions and every      *)
(* strategy: IInv is inductive, and the properties follow from it.  Every  *)
(* step keeps RowsApart (no two rows hold the same address of one address  *)
(* space), TotalInv (the running total is the number of distinct addresses *)
(* the rows hold) and DroppedInv (a dropped pool leaves nothing behind).   *)
(***************************************************************************)
EXTENDS PoolFloorProofs

----------------------------------------------------------------------------
\* Rows stay apart

\* Rewriting rows without touching bounds, purpose or space keeps them apart.
LEMMA ApartImage ==
  ASSUME RowsApart, NEW S \in SUBSET rows, NEW f \in [rows -> Row],
         rows' = { f[r] : r \in S },
         \A r \in S : /\ f[r].lo = r.lo /\ f[r].hi = r.hi
                      /\ f[r].purpose = r.purpose /\ f[r].space = r.space
  PROVE  RowsApart'
<1>1. ASSUME NEW q \in rows' PROVE q.lo <= q.hi
  BY DEF RowsApart
<1>2. ASSUME NEW p \in rows', NEW q \in rows', p # q PROVE Compatible(p, q)
  <2>1. PICK r \in S : p = f[r]
    OBVIOUS
  <2>2. PICK w \in S : q = f[w]
    OBVIOUS
  <2>3. r # w
    BY <1>2, <2>1, <2>2
  <2>4. Compatible(r, w)
    BY <2>3 DEF RowsApart
  <2> QED BY <2>1, <2>2, <2>4 DEF Compatible, Overlap
<1> QED BY <1>1, <1>2 DEF RowsApart, Compatible, Overlap

\* Marking rows as deleted moves none of them.
LEMMA StartDeleteApart ==
  ASSUME TypeOK, RowsApart, NEW t \in Txn, NEW D \in SUBSET rows, StartDelete(t, D)
  PROVE  RowsApart'
<1> DEFINE f == [r \in rows |-> IF r \in D THEN [r EXCEPT !.xmax = t] ELSE r]
<1>1. \A r \in rows : r \in Row
  BY DEF TypeOK
<1>2. f \in [rows -> Row]
  BY ZenonT(60), <1>1, RowVersions
<1>3. rows' = { f[r] : r \in rows }
  BY DEF StartDelete
<1>4. \A r \in rows : /\ f[r].lo = r.lo /\ f[r].hi = r.hi
                      /\ f[r].purpose = r.purpose /\ f[r].space = r.space
  BY <1>1 DEF Row
<1> HIDE DEF f
<1> QED BY SMTT(60), <1>2, <1>3, <1>4, ApartImage

\* Every step keeps the rows apart.
LEMMA ApartStep ==
  ASSUME TypeOK, LockInv, RowsApart, Next
  PROVE  RowsApart'
<1> USE DEF floorVars, totalVars
<1>0. \A r \in rows : r \in Row
  BY DEF TypeOK
<1>1. ASSUME NEW t \in Txn, LockPool(t) PROVE RowsApart'
  <2> DEFINE N == { ReservationRow(b, t) : b \in NewReservations(t) }
  <2>1. rows' = rows \cup N
    BY <1>1 DEF LockPool
  <2>2. Visible(t) = rows
    BY <1>1, InserterSeesAll DEF LockPool
  <2>3. ASSUME NEW p \in N
        PROVE  p.lo <= p.hi /\ \A r \in rows : ~Overlap(p, r) /\ ~Overlap(r, p)
    <3>1. PICK b \in NewReservations(t) : p = ReservationRow(b, t)
      OBVIOUS
    <3>2. b \in Reserved /\ \A r \in rows : ~Overlap(b, r)
      BY <2>2 DEF NewReservations
    <3>3. p.lo = b.lo /\ p.hi = b.hi
      BY <3>1 DEF ReservationRow
    <3> QED BY <3>2, <3>3, ReservedAssumption DEF Overlap
  <2>4. ASSUME NEW p \in N, NEW q \in N, p # q PROVE ~Overlap(p, q)
    <3>1. PICK b \in NewReservations(t) : p = ReservationRow(b, t)
      OBVIOUS
    <3>2. PICK c \in NewReservations(t) : q = ReservationRow(c, t)
      OBVIOUS
    <3>3. b # c /\ b \in Reserved /\ c \in Reserved
      BY <2>4, <3>1, <3>2 DEF NewReservations
    <3> QED BY <3>1, <3>2, <3>3, ReservedAssumption DEF ReservationRow, Overlap
  <2> HIDE DEF N
  <2> QED BY <2>1, <2>3, <2>4 DEF RowsApart, Compatible, Overlap
<1>2. ASSUME NEW t \in Txn, Allocate(t) PROVE RowsApart'
  <2>1. pc[t] = "search" /\ poolLock = t /\ req[t] \in Request /\ Fits(t) # {}
    BY <1>2 DEF Allocate, LockInv, HoldsPool
  <2>2. Visible(t) = rows
    BY <2>1, InserterSeesAll
  <2>3. Chosen(t).lo <= Chosen(t).hi /\ \A r \in Taken(t) : ~Overlap(Chosen(t), r)
    BY <2>1, ChosenIsFree DEF FreeBlocks
  <2>4. /\ NewRow(t).lo = Chosen(t).lo /\ NewRow(t).hi = Chosen(t).hi
        /\ NewRow(t).space = IF req[t].op = "Carve" THEN PoolDigest ELSE req[t].space
        /\ NewRow(t).purpose = IF req[t].op = "Carve" THEN "PoolCarve" ELSE "Claim"
    BY DEF NewRow
  <2>5. ASSUME NEW r \in rows
        PROVE  Compatible(NewRow(t), r) /\ Compatible(r, NewRow(t))
    <3>1. CASE r \in Taken(t)
      BY <2>3, <2>4, <3>1 DEF Compatible, Overlap
    <3>2. CASE r \notin Taken(t)
      BY <2>2, <2>4, <3>2 DEF Taken, Blocks, Compatible
    <3> QED BY <3>1, <3>2
  <2>6. rows' = rows \cup {NewRow(t)}
    BY <1>2 DEF Allocate
  <2> QED BY <2>3, <2>4, <2>5, <2>6, ZenonT(60) DEF RowsApart, Compatible, Overlap
<1>3. ASSUME NEW t \in Txn, Release(t) PROVE RowsApart'
  <2>1. PICK r \in rows : StartDelete(t, {r})
    BY SMTT(60), <1>3 DEF Release
  <2>2. {r} \in SUBSET rows
    OBVIOUS
  <2> QED BY <2>1, <2>2, StartDeleteApart
<1>4. ASSUME NEW t \in Txn, Retain(t) PROVE RowsApart'
  <2>1. PICK r \in rows : rows' = (rows \ {r}) \cup {[r EXCEPT !.bound = FALSE]}
    BY <1>4 DEF Retain
  <2> DEFINE f == [q \in rows |-> IF q = r THEN [r EXCEPT !.bound = FALSE] ELSE q]
  <2>2. f \in [rows -> Row]
    BY ZenonT(60), <1>0, RowVersions
  <2>3. rows' = { f[q] : q \in rows }
    BY <2>1
  <2>4. \A q \in rows : /\ f[q].lo = q.lo /\ f[q].hi = q.hi
                        /\ f[q].purpose = q.purpose /\ f[q].space = q.space
    BY <1>0 DEF Row
  <2> HIDE DEF f
  <2> QED BY <2>2, <2>3, <2>4, ApartImage
<1>5. ASSUME NEW t \in Txn, ReleaseReservations(t) PROVE RowsApart'
  <2> DEFINE D == { r \in Live : r.purpose = "Reservation" }
  <2>1. D \in SUBSET rows
    BY DEF Live
  <2>2. CASE D = {}
    BY <1>5, <2>2 DEF ReleaseReservations, RowsApart, Compatible, Overlap
  <2>3. CASE D # {}
    <3>1. StartDelete(t, D)
      BY <1>5, <2>3 DEF ReleaseReservations
    <3> HIDE DEF D
    <3> QED BY <2>1, <3>1, StartDeleteApart
  <2> QED BY <2>2, <2>3
<1>6. ASSUME NEW t \in Txn, Commit(t) PROVE RowsApart'
  <2> DEFINE S == { r \in rows : r.xmax # t }
             f == [r \in rows |-> IF r.xmin = t THEN [r EXCEPT !.xmin = NoTxn] ELSE r]
  <2>1. f \in [rows -> Row]
    BY ZenonT(60), <1>0, RowVersions
  <2>2. rows' = { f[r] : r \in S }
    BY <1>6 DEF Commit
  <2>3. \A r \in S : /\ f[r].lo = r.lo /\ f[r].hi = r.hi
                     /\ f[r].purpose = r.purpose /\ f[r].space = r.space
    BY <1>0 DEF Row
  <2>4. S \in SUBSET rows
    OBVIOUS
  <2> HIDE DEF S, f
  <2> QED BY <2>1, <2>2, <2>3, <2>4, ApartImage
<1>7. ASSUME NEW t \in Txn, Abort(t) PROVE RowsApart'
  <2> DEFINE S == { r \in rows : r.xmin # t }
             f == [r \in rows |-> IF r.xmax = t THEN [r EXCEPT !.xmax = NoTxn] ELSE r]
  <2>1. f \in [rows -> Row]
    BY ZenonT(60), <1>0, RowVersions
  <2>2. rows' = { f[r] : r \in S }
    BY <1>7 DEF Abort
  <2>3. \A r \in S : /\ f[r].lo = r.lo /\ f[r].hi = r.hi
                     /\ f[r].purpose = r.purpose /\ f[r].space = r.space
    BY <1>0 DEF Row
  <2>4. S \in SUBSET rows
    OBVIOUS
  <2> HIDE DEF S, f
  <2> QED BY <2>1, <2>2, <2>3, <2>4, ApartImage
<1>8. ASSUME UNCHANGED rows PROVE RowsApart'
  BY <1>8 DEF RowsApart, Compatible, Overlap
<1> QED
  BY ZenonT(60), <1>1, <1>2, <1>3, <1>4, <1>5, <1>6, <1>7, <1>8
  DEF Next, TxnStep, Refuse, LowerFloor, Recount, CheckEmpty, LockForDrop, DropPool,
      CreatePool, UpdateStrategy

----------------------------------------------------------------------------
\* The total is exact

\* Rewriting every row without touching its bounds, its inserter, or whether
\* the holder of the pool lock is deleting it, leaves every count as it was.
LEMMA TotalFrame ==
  ASSUME TypeOK, LockInv, TotalInv, NEW f \in [rows -> Row],
         rows' = { f[r] : r \in rows },
         \A r \in rows : /\ f[r].lo = r.lo /\ f[r].hi = r.hi /\ f[r].xmin = r.xmin
                         /\ poolLock # NoTxn => (f[r].xmax = poolLock <=> r.xmax = poolLock),
         UNCHANGED <<consumed, pendConsumed, poolLock>>,
         \A u \in Txn : /\ pc'[u] \in HoldsPool <=> pc[u] \in HoldsPool
                        /\ pc'[u] = "fk" <=> pc[u] = "fk"
  PROVE  TotalInv'
<1>1. ConsumptionExact'
  <2>1. \A v \in Live : \E w \in Live' : v.lo = w.lo /\ v.hi = w.hi
    BY SMTT(60) DEF Live
  <2>2. \A w \in Live' : \E v \in Live : v.lo = w.lo /\ v.hi = w.hi
    BY SMTT(60) DEF Live
  <2>3. Measure(Live) = Measure(Live') /\ (Live = {} => Live' = {})
    BY ZenonT(60), <2>1, <2>2, CoveredByBounds
  <2> QED BY <2>3 DEF TotalInv, ConsumptionExact
<1>2. (poolLock' = NoTxn \/ \E t \in Txn : pc'[t] = "fk") => pendConsumed' = consumed'
  BY DEF TotalInv
<1>3. ASSUME NEW t \in Txn, pc'[t] \in HoldsPool \ {"fk"}
      PROVE  IF pendConsumed' = NoTotal THEN Visible(t)' = {}
             ELSE pendConsumed' = Measure(Visible(t)')
  <2>1. pc[t] \in HoldsPool \ {"fk"} /\ poolLock = t /\ poolLock # NoTxn
    BY <1>3, ConstantsAssumption, SMTT(60) DEF LockInv
  <2>2. \A v \in Visible(t) : \E w \in Visible(t)' : v.lo = w.lo /\ v.hi = w.hi
    BY <2>1 DEF Visible
  <2>3. \A w \in Visible(t)' : \E v \in Visible(t) : v.lo = w.lo /\ v.hi = w.hi
    BY <2>1 DEF Visible
  <2>4. Measure(Visible(t)) = Measure(Visible(t)') /\ (Visible(t) = {} => Visible(t)' = {})
    BY ZenonT(60), <2>2, <2>3, CoveredByBounds
  <2> QED BY <2>1, <2>4 DEF TotalInv
<1> QED BY <1>1, <1>2, <1>3 DEF TotalInv

\* A delete under way leaves the committed total alone.
LEMMA StartDeleteTotal ==
  ASSUME TypeOK, LockInv, TotalInv, NEW t \in Txn, pc[t] \in {"idle", "checked"},
         NEW D \in SUBSET rows, StartDelete(t, D), \A r \in D : r.xmax = NoTxn
  PROVE  TotalInv'
<1> DEFINE f == [r \in rows |-> IF r \in D THEN [r EXCEPT !.xmax = t] ELSE r]
<1>1. \A r \in rows : r \in Row
  BY DEF TypeOK
<1>2. f \in [rows -> Row]
  BY ZenonT(60), <1>1, RowVersions
<1>3. rows' = { f[r] : r \in rows }
  BY DEF StartDelete
<1>4. poolLock # t
  BY DEF LockInv, HoldsPool
<1>5. \A r \in rows : /\ f[r].lo = r.lo /\ f[r].hi = r.hi /\ f[r].xmin = r.xmin
                      /\ poolLock # NoTxn => (f[r].xmax = poolLock <=> r.xmax = poolLock)
  BY <1>1, <1>4 DEF Row
<1>6. UNCHANGED <<consumed, pendConsumed, poolLock>>
  BY DEF StartDelete, totalVars
<1>7. \A u \in Txn : /\ pc'[u] \in HoldsPool <=> pc[u] \in HoldsPool
                     /\ pc'[u] = "fk" <=> pc[u] = "fk"
  BY DEF StartDelete, TypeOK, HoldsPool
<1> HIDE DEF f
<1> QED BY SMTT(60), <1>2, <1>3, <1>5, <1>6, <1>7, TotalFrame

\* Steps that leave the rows and the total alone and move no one in or out of
\* the pool lock.
LEMMA TotalStutter ==
  ASSUME TypeOK, LockInv, TotalInv, UNCHANGED <<rows, consumed, pendConsumed, poolLock>>,
         \A u \in Txn : /\ pc'[u] \in HoldsPool <=> pc[u] \in HoldsPool
                        /\ pc'[u] = "fk" <=> pc[u] = "fk"
  PROVE  TotalInv'
<1> DEFINE f == [r \in rows |-> r]
<1>1. f \in [rows -> Row]
  BY DEF TypeOK
<1>2. rows' = { f[r] : r \in rows }
  OBVIOUS
<1>3. \A r \in rows : /\ f[r].lo = r.lo /\ f[r].hi = r.hi /\ f[r].xmin = r.xmin
                      /\ poolLock # NoTxn => (f[r].xmax = poolLock <=> r.xmax = poolLock)
  OBVIOUS
<1> HIDE DEF f
<1> QED BY ZenonT(60), <1>1, <1>2, <1>3, TotalFrame

\* The ends of a row are numbers.
LEMMA RowBounds ==
  ASSUME TypeOK
  PROVE  \A r \in rows : r.lo \in Int /\ r.hi \in Int
BY SizeAssumption, SMTT(60) DEF TypeOK, Row, Addr

\* A session that takes the free pool lock finds the total equal to what it sees.
LEMMA TotalAtLock ==
  ASSUME TypeOK, LockInv, TotalInv, NEW t \in Txn, poolLock = NoTxn
  PROVE  /\ Live = rows
         /\ pendConsumed = consumed
         /\ pendConsumed = NoTotal => rows = {}
         /\ pendConsumed # NoTotal => pendConsumed = Measure(rows)
<1>1. Live = rows
  BY DEF Live, LockInv
<1> QED BY <1>1 DEF TotalInv, ConsumptionExact

\* Every step keeps the total.
LEMMA TotalStep ==
  ASSUME TypeOK, LockInv, TotalInv, Next
  PROVE  TotalInv'
<1> USE DEF floorVars, totalVars
<1>0. \A r \in rows : r \in Row
  BY DEF TypeOK
<1>1. ASSUME NEW t \in Txn, LockPool(t) PROVE TotalInv'
  <2> DEFINE new == NewReservations(t)
             N == { ReservationRow(b, t) : b \in new }
  <2>1. /\ rows' = rows \cup N /\ poolLock = NoTxn /\ poolLock' = t /\ consumed' = consumed
        /\ pendConsumed' = IF new = {} THEN pendConsumed ELSE Total(t) + Measure(new)
        /\ pc' = [pc EXCEPT ![t] = "search"] /\ pc[t] = "idle"
    BY <1>1 DEF LockPool
  <2>2. Visible(t) = rows
    BY <2>1, InserterSeesAll
  <2>3. Live' = Live
    BY <2>1, ConstantsAssumption, SMTT(60) DEF Live, ReservationRow
  <2>4. Visible(t)' = rows \cup N
    <3>1. \A r \in N : r.xmin = t /\ r.xmax = NoTxn
      BY SMTT(60) DEF ReservationRow
    <3> HIDE DEF N
    <3> QED BY SMTT(60), <2>1, <2>2, <3>1, ConstantsAssumption DEF Visible
  <2>5. Measure(rows \cup N) = Measure(rows \cup new)
    <3>1. \A v \in rows \cup N : \E w \in rows \cup new : v.lo = w.lo /\ v.hi = w.hi
      BY SMTT(60) DEF ReservationRow
    <3>2. ASSUME NEW w \in new PROVE \E v \in N : v.lo = w.lo /\ v.hi = w.hi
      <4>1. /\ ReservationRow(w, t) \in N
            /\ ReservationRow(w, t).lo = w.lo /\ ReservationRow(w, t).hi = w.hi
        BY ZenonT(60)  DEF ReservationRow
      <4> QED BY <4>1
    <3> HIDE DEF N, new
    <3> QED BY <3>1, <3>2, CoveredByBounds
  <2>6. Measure(rows \cup new) = Measure(rows) + Measure(new)
    <3>1. \A b \in new : b.lo \in Int /\ b.hi \in Int
      BY ReservedAssumption, SizeAssumption DEF NewReservations, Block, Addr
    <3>2. \A r \in rows, b \in new : ~Overlap(b, r)
      BY SMTT(60), <2>2 DEF NewReservations
    <3> HIDE DEF new
    <3> QED BY <3>1, <3>2, RowBounds, MeasureDisjoint
  <2>7. Total(t) = Measure(rows)
    BY <2>1, <2>2, TotalAtLock DEF Total
  <2>8. IF pendConsumed' = NoTotal THEN Visible(t)' = {} ELSE pendConsumed' = Measure(Visible(t)')
    <3>1. CASE new = {}
      <4>1. Visible(t)' = rows
        BY <2>4, <3>1
      <4> QED BY <2>1, <3>1, <4>1, TotalAtLock
    <3>2. CASE new # {}
      <4>1. Measure(rows) \in Nat /\ Measure(new) \in Nat
        BY MeasureType
      <4>2. pendConsumed' = Measure(rows) + Measure(new)
        BY <2>1, <2>7, <3>2
      <4> HIDE DEF new, N
      <4> QED BY SMTT(60), <2>4, <2>5, <2>6, <4>1, <4>2 DEF NoTotal
    <3> QED BY <3>1, <3>2
  <2>9. ASSUME NEW u \in Txn PROVE pc'[u] # "fk" /\ (pc'[u] \in HoldsPool => u = t)
    BY SMTT(60), <2>1, ConstantsAssumption DEF LockInv, TypeOK, HoldsPool
  <2>10. poolLock' # NoTxn /\ ConsumptionExact'
    BY SMTT(60), <2>1, <2>3, ConstantsAssumption DEF TotalInv, ConsumptionExact
  <2> QED BY <2>8, <2>9, <2>10 DEF TotalInv
<1>2. ASSUME NEW t \in Txn, Allocate(t) PROVE TotalInv'
  <2> DEFINE c == Chosen(t)
  <2>1. pc[t] = "search" /\ poolLock = t /\ req[t] \in Request /\ Fits(t) # {}
    BY <1>2 DEF Allocate, LockInv, HoldsPool
  <2>2. /\ rows' = rows \cup {NewRow(t)} /\ poolLock' = t /\ consumed' = consumed
        /\ pendConsumed' = Total(t) + ConsumptionDelta(Overlapping(t, c), c)
        /\ pc' = [pc EXCEPT ![t] = "done"]
    BY <1>2, <2>1 DEF Allocate
  <2>3. Visible(t) = rows
    BY <2>1, InserterSeesAll
  <2>4. c.lo \in Int /\ c.hi \in Int
    BY <2>1, ChosenIsFree, SizeAssumption DEF Block, Addr
  <2>5. /\ NewRow(t).lo = c.lo /\ NewRow(t).hi = c.hi
        /\ NewRow(t).xmin = t /\ NewRow(t).xmax = NoTxn
    BY DEF NewRow
  <2>6. Live' = Live
    BY <2>2, <2>5, ConstantsAssumption DEF Live
  <2>7. Visible(t)' = rows \cup {NewRow(t)}
    BY SMTT(60), <2>2, <2>3, <2>5, ConstantsAssumption DEF Visible
  <2> HIDE DEF c
  <2>8. Measure(rows \cup {NewRow(t)}) = Measure(rows \cup {c})
    <3>1. \A v \in rows \cup {NewRow(t)} : \E w \in rows \cup {c} : v.lo = w.lo /\ v.hi = w.hi
      BY <2>5
    <3>2. \A w \in rows \cup {c} : \E v \in rows \cup {NewRow(t)} : v.lo = w.lo /\ v.hi = w.hi
      BY <2>5
    <3> QED BY <3>1, <3>2, CoveredByBounds
  <2>9. Measure(rows \cup {c}) = Measure(rows) + ConsumptionDelta(Overlapping(t, c), c)
    BY <2>3, <2>4, RowBounds, DeltaIsExact DEF Overlapping
  <2>10. Total(t) = Measure(rows)
    BY <2>1, <2>3 DEF Total, TotalInv, HoldsPool
  <2>11. pendConsumed' = Measure(Visible(t)') /\ pendConsumed' # NoTotal
    <3>1. Measure(Visible(t)') \in Nat
      BY MeasureType
    <3>2. pendConsumed' = Measure(Visible(t)')
      BY <2>2, <2>7, <2>8, <2>9, <2>10
    <3> QED BY <3>1, <3>2 DEF NoTotal
  <2>12. ASSUME NEW u \in Txn PROVE pc'[u] # "fk" /\ (pc'[u] \in HoldsPool => u = t)
    BY <2>1, <2>2 DEF LockInv, TypeOK, HoldsPool
  <2>13. poolLock' # NoTxn /\ ConsumptionExact'
    BY <2>2, <2>6, ConstantsAssumption DEF TotalInv, ConsumptionExact
  <2> QED BY <2>11, <2>12, <2>13 DEF TotalInv
<1>3. ASSUME NEW t \in Txn, Refuse(t) PROVE TotalInv'
  <2>1. UNCHANGED <<rows, consumed, pendConsumed, poolLock>>
    BY <1>3 DEF Refuse
  <2>2. \A u \in Txn : /\ pc'[u] \in HoldsPool <=> pc[u] \in HoldsPool
                       /\ pc'[u] = "fk" <=> pc[u] = "fk"
    BY <1>3 DEF Refuse, TypeOK, HoldsPool
  <2> QED BY <2>1, <2>2, TotalStutter
<1>4. ASSUME NEW t \in Txn, Release(t) PROVE TotalInv'
  <2>1. PICK r \in rows : StartDelete(t, {r}) /\ r.xmax = NoTxn
    BY <1>4 DEF Release
  <2>2. {r} \in SUBSET rows /\ pc[t] = "idle"
    BY <1>4 DEF Release
  <2> QED BY <2>1, <2>2, StartDeleteTotal
<1>5. ASSUME NEW t \in Txn, Retain(t) PROVE TotalInv'
  <2>1. PICK r \in rows : rows' = (rows \ {r}) \cup {[r EXCEPT !.bound = FALSE]}
    BY <1>5 DEF Retain
  <2> DEFINE f == [q \in rows |-> IF q = r THEN [r EXCEPT !.bound = FALSE] ELSE q]
  <2>2. f \in [rows -> Row]
    BY ZenonT(60), <1>0, RowVersions
  <2>3. rows' = { f[q] : q \in rows }
    BY <2>1
  <2>4. \A q \in rows : /\ f[q].lo = q.lo /\ f[q].hi = q.hi /\ f[q].xmin = q.xmin
                        /\ poolLock # NoTxn => (f[q].xmax = poolLock <=> q.xmax = poolLock)
    BY <1>0 DEF Row
  <2>5. UNCHANGED <<consumed, pendConsumed, poolLock, pc>>
    BY <1>5 DEF Retain
  <2> HIDE DEF f
  <2> QED BY SMTT(60), <2>2, <2>3, <2>4, <2>5, TotalFrame
<1>6. ASSUME NEW t \in Txn, LowerFloor(t) PROVE TotalInv'
  <2>1. UNCHANGED <<rows, consumed, pendConsumed, poolLock, pc>>
    BY <1>6 DEF LowerFloor
  <2> QED BY <2>1, TotalStutter
<1>7. ASSUME NEW t \in Txn, Recount(t) PROVE TotalInv'
  <2>1. /\ poolLock = NoTxn /\ poolLock' = t /\ pendConsumed' = AfterRelease(t)
        /\ rows' = rows /\ consumed' = consumed /\ pc' = [pc EXCEPT ![t] = "done"]
    BY <1>7 DEF Recount
  <2>2. Visible(t) \cup Deleting(t) = rows
    <3>1. \A r \in rows : r.xmin = NoTxn
      BY <2>1, TotalAtLock DEF Live
    <3> QED BY <3>1 DEF Visible, Deleting
  <2>3. Measure(Visible(t)) \in Nat /\ Measure(rows) \in Nat
    BY MeasureType
  <2>4. AfterRelease(t) = Measure(Visible(t))
    <3>1. CASE pendConsumed = NoTotal
      BY <3>1 DEF AfterRelease
    <3>2. CASE pendConsumed # NoTotal
      <4>1. pendConsumed = Measure(rows)
        BY <2>1, <3>2, TotalAtLock
      <4>2. Measure(Visible(t) \cup Deleting(t)) = Measure(rows)
        BY <2>2
      <4>3. AfterRelease(t) = LET freed == Measure(rows) - Measure(Visible(t))
                              IN  IF Measure(rows) < freed THEN 0 ELSE Measure(rows) - freed
        BY <3>2, <4>1, <4>2 DEF AfterRelease
      <4> QED BY <2>3, <4>3
    <3> QED BY <3>1, <3>2
  <2>5. Visible(t)' = Visible(t) /\ Live' = Live
    BY <2>1 DEF Visible, Live
  <2>6. pendConsumed' = Measure(Visible(t)') /\ pendConsumed' # NoTotal
    BY <2>1, <2>3, <2>4, <2>5 DEF NoTotal
  <2>7. ASSUME NEW u \in Txn PROVE pc'[u] # "fk" /\ (pc'[u] \in HoldsPool => u = t)
    BY <2>1, ConstantsAssumption DEF LockInv, TypeOK, HoldsPool
  <2>8. poolLock' # NoTxn /\ ConsumptionExact'
    BY <2>1, <2>5, ConstantsAssumption DEF TotalInv, ConsumptionExact
  <2> QED BY <2>6, <2>7, <2>8 DEF TotalInv
<1>8. ASSUME NEW t \in Txn, CheckEmpty(t) PROVE TotalInv'
  <2>1. UNCHANGED <<rows, consumed, pendConsumed, poolLock>>
    BY <1>8 DEF CheckEmpty
  <2>2. \A u \in Txn : /\ pc'[u] \in HoldsPool <=> pc[u] \in HoldsPool
                       /\ pc'[u] = "fk" <=> pc[u] = "fk"
    BY <1>8 DEF CheckEmpty, TypeOK, HoldsPool
  <2> QED BY <2>1, <2>2, TotalStutter
<1>9. ASSUME NEW t \in Txn, ReleaseReservations(t) PROVE TotalInv'
  <2> DEFINE D == { r \in Live : r.purpose = "Reservation" }
  <2>1. D \in SUBSET rows
    BY DEF Live
  <2>2. CASE D = {}
    <3>1. UNCHANGED <<rows, consumed, pendConsumed, poolLock>>
      BY <1>9, <2>2 DEF ReleaseReservations
    <3>2. \A u \in Txn : /\ pc'[u] \in HoldsPool <=> pc[u] \in HoldsPool
                         /\ pc'[u] = "fk" <=> pc[u] = "fk"
      BY <1>9, <2>2 DEF ReleaseReservations, TypeOK, HoldsPool
    <3> QED BY <3>1, <3>2, TotalStutter
  <2>3. CASE D # {}
    <3>1. StartDelete(t, D) /\ pc[t] = "checked" /\ \A r \in D : r.xmax = NoTxn
      BY <1>9, <2>3 DEF ReleaseReservations
    <3> HIDE DEF D
    <3> QED BY <2>1, <3>1, StartDeleteTotal
  <2> QED BY <2>2, <2>3
<1>10. ASSUME NEW t \in Txn, LockForDrop(t) PROVE TotalInv'
  <2>1. poolLock = NoTxn /\ UNCHANGED <<rows, consumed, pendConsumed>> /\ pendConsumed = consumed
    BY <1>10 DEF LockForDrop, TotalInv
  <2>2. ASSUME NEW u \in Txn PROVE pc'[u] \in HoldsPool => pc'[u] = "fk"
    <3>1. \E s \in {"fk", "idle"} : pc' = [pc EXCEPT ![t] = s]
      BY <1>10 DEF LockForDrop
    <3>2. pc[u] \notin HoldsPool
      <4>1. poolLock = u <=> pc[u] \in HoldsPool
        BY DEF LockInv
      <4>2. poolLock # u
        BY <2>1, ConstantsAssumption
      <4> QED BY <4>1, <4>2
    <3>3. CASE u = t
      <4>1. pc'[t] \in {"fk", "idle"}
        BY <3>1 DEF TypeOK
      <4> QED BY <3>3, <4>1 DEF HoldsPool
    <3>4. CASE u # t
      <4>1. pc'[u] = pc[u]
        BY <3>1, <3>4 DEF TypeOK
      <4> QED BY <3>2, <4>1
    <3> QED BY <3>3, <3>4
  <2>3. ConsumptionExact'
    BY <2>1 DEF TotalInv, ConsumptionExact, Live
  <2> QED BY <2>1, <2>2, <2>3 DEF TotalInv
<1>11. ASSUME NEW t \in Txn, DropPool(t) PROVE TotalInv'
  <2>1. poolLock = t /\ pendConsumed = consumed /\ UNCHANGED rows
    BY <1>11 DEF DropPool, LockInv, HoldsPool, TotalInv
  <2>2. ASSUME NEW u \in Txn PROVE pc'[u] \notin HoldsPool
    BY <1>11, <2>1 DEF DropPool, LockInv, TypeOK, HoldsPool
  <2>3. pendConsumed' = consumed'
    BY <1>11, <2>1 DEF DropPool
  <2>4. ConsumptionExact'
    <3>1. CASE rows = {}
      BY <1>11, <2>1, <3>1 DEF DropPool, ConsumptionExact, Live
    <3>2. CASE rows # {}
      BY <1>11, <2>1, <3>2 DEF DropPool, ConsumptionExact, Live, TotalInv
    <3> QED BY <3>1, <3>2
  <2> QED BY <2>2, <2>3, <2>4 DEF TotalInv
<1>12. ASSUME NEW t \in Txn, Commit(t) PROVE TotalInv'
  <2>1. /\ pc[t] = "done" /\ poolLock = t /\ poolLock' = NoTxn
        /\ consumed' = pendConsumed /\ pendConsumed' = pendConsumed
    BY <1>12 DEF Commit, Unlock, LockInv, HoldsPool
  <2>2. ASSUME NEW u \in Txn PROVE pc'[u] \notin HoldsPool
    BY <1>12, <2>1 DEF Commit, LockInv, TypeOK, HoldsPool
  <2>3. \A w \in Live' : \E v \in Visible(t) : v.lo = w.lo /\ v.hi = w.hi
    <3>1. SUFFICES ASSUME NEW w \in Live' PROVE \E v \in Visible(t) : v.lo = w.lo /\ v.hi = w.hi
      OBVIOUS
    <3>2. PICK v \in rows : /\ v.xmax # t
                            /\ w = IF v.xmin = t THEN [v EXCEPT !.xmin = NoTxn] ELSE v
      BY <1>12 DEF Commit, Live
    <3>3. v \in Visible(t)
      BY <2>1, <3>2 DEF LockInv, Visible
    <3>4. v.lo = w.lo /\ v.hi = w.hi
      BY <1>0, <3>2 DEF Row
    <3> QED BY <3>3, <3>4
  <2>4. \A v \in Visible(t) : \E w \in Live' : v.lo = w.lo /\ v.hi = w.hi
    <3>1. SUFFICES ASSUME NEW v \in Visible(t) PROVE \E w \in Live' : v.lo = w.lo /\ v.hi = w.hi
      OBVIOUS
    <3> DEFINE w == IF v.xmin = t THEN [v EXCEPT !.xmin = NoTxn] ELSE v
    <3>2. v \in rows /\ v.xmax # t /\ v.xmin \in {NoTxn, t} /\ v \in Row
      BY <1>0 DEF Visible
    <3>3. w \in rows'
      BY ZenonT(60), <1>12, <3>2 DEF Commit
    <3>4. w.xmin = NoTxn /\ v.lo = w.lo /\ v.hi = w.hi
      BY <3>2 DEF Row
    <3> QED BY ZenonT(60), <3>3, <3>4 DEF Live
  <2>5. Measure(Visible(t)) = Measure(Live') /\ (Visible(t) = {} => Live' = {})
    BY ZenonT(60), <2>3, <2>4, CoveredByBounds
  <2>6. ConsumptionExact'
    BY SMTT(60), <2>1, <2>5 DEF TotalInv, HoldsPool, ConsumptionExact
  <2> QED BY SMTT(60), <2>1, <2>2, <2>6 DEF TotalInv
<1>13. ASSUME NEW t \in Txn, Abort(t) PROVE TotalInv'
  <2> DEFINE f == [r \in rows |-> IF r.xmax = t THEN [r EXCEPT !.xmax = NoTxn] ELSE r]
  <2>1. consumed' = consumed /\ pc' = [pc EXCEPT ![t] = "idle"]
    BY <1>13 DEF Abort
  <2>2. \A r \in rows : /\ f[r] \in Row /\ f[r].lo = r.lo /\ f[r].hi = r.hi /\ f[r].xmin = r.xmin
                        /\ f[r].xmax = IF r.xmax = t THEN NoTxn ELSE r.xmax
    BY <1>0 DEF Row
  <2>3. rows' = { f[r] : r \in { q \in rows : q.xmin # t } }
    BY <1>13 DEF Abort
  <2>4. CASE poolLock = t
    <3>1. poolLock' = NoTxn /\ pendConsumed' = consumed'
      BY <1>13, <2>1, <2>4 DEF Abort, Unlock
    <3>2. ASSUME NEW u \in Txn PROVE pc'[u] \notin HoldsPool
      BY <2>1, <2>4 DEF LockInv, TypeOK, HoldsPool
    <3>3. \A w \in Live' : \E v \in Live : v.lo = w.lo /\ v.hi = w.hi
      <4> HIDE DEF f
      <4> QED BY <2>2, <2>3 DEF Live
    <3>4. \A v \in Live : \E w \in Live' : v.lo = w.lo /\ v.hi = w.hi
      <4> HIDE DEF f
      <4>1. SUFFICES ASSUME NEW v \in Live PROVE \E w \in Live' : v.lo = w.lo /\ v.hi = w.hi
        OBVIOUS
      <4>2. v \in rows /\ v.xmin = NoTxn /\ v.xmin # t
        BY ConstantsAssumption DEF Live
      <4>3. f[v] \in rows' /\ f[v].xmin = NoTxn
        BY <2>2, <2>3, <4>2
      <4> QED BY <2>2, <4>2, <4>3 DEF Live
    <3>5. Measure(Live) = Measure(Live') /\ (Live = {} => Live' = {})
      BY <3>3, <3>4, CoveredByBounds
    <3>6. ConsumptionExact'
      BY <2>1, <3>5 DEF TotalInv, ConsumptionExact
    <3> QED BY <3>1, <3>2, <3>6 DEF TotalInv
  <2>5. CASE poolLock # t
    <3>1. UNCHANGED <<consumed, pendConsumed, poolLock>>
      BY <1>13, <2>1, <2>5 DEF Abort, Unlock
    <3>2. \A r \in rows : r.xmin # t
      BY <2>5, ConstantsAssumption DEF LockInv
    <3>3. rows' = { f[r] : r \in rows }
      BY <2>3, <3>2
    <3>4. f \in [rows -> Row]
      BY <2>2
    <3>5. \A u \in Txn : /\ pc'[u] \in HoldsPool <=> pc[u] \in HoldsPool
                         /\ pc'[u] = "fk" <=> pc[u] = "fk"
      BY SMTT(60), <2>1, <2>5 DEF LockInv, TypeOK, HoldsPool
    <3> HIDE DEF f
    <3>6. \A r \in rows : /\ f[r].lo = r.lo /\ f[r].hi = r.hi /\ f[r].xmin = r.xmin
                          /\ poolLock # NoTxn => (f[r].xmax = poolLock <=> r.xmax = poolLock)
      BY <2>2, <2>5
    <3> QED BY SMTT(60), <3>1, <3>3, <3>4, <3>5, <3>6, TotalFrame
  <2> QED BY <2>4, <2>5
<1>14. CASE CreatePool
  BY <1>14, TotalStutter DEF CreatePool
<1>15. CASE UpdateStrategy
  BY <1>15, TotalStutter DEF UpdateStrategy
<1> QED
  BY ZenonT(60), <1>1, <1>2, <1>3, <1>4, <1>5, <1>6, <1>7, <1>8, <1>9, <1>10, <1>11, <1>12,
     <1>13, <1>14, <1>15 DEF Next, TxnStep

----------------------------------------------------------------------------
\* A dropped pool leaves nothing behind

\* Every step leaves a dropped pool empty.
LEMMA DroppedStep ==
  ASSUME TypeOK, LockInv, DroppedInv, Next
  PROVE  DroppedInv'
<1> USE DEF floorVars, totalVars, NoOrphanRows, DroppedInv
<1>1. ASSUME NEW t \in Txn, TxnStep(t) PROVE DroppedInv'
  <2>1. CASE pool
    <3>1. ASSUME DropPool(t) PROVE DroppedInv'
      <4>1. CASE rows = {}
        BY <2>1, <3>1, <4>1 DEF DropPool
      <4>2. CASE rows # {}
        BY ZenonT(60), <2>1, <3>1, <4>2 DEF DropPool
      <4> QED BY <4>1, <4>2
    <3>2. ASSUME pool' = pool PROVE DroppedInv'
      BY SMTT(60), <2>1, <3>2
    <3>3. pool' = pool \/ DropPool(t)
      BY SMTT(60), <1>1 DEF TxnStep, LockPool, Allocate, Refuse, Release, StartDelete, Retain, LowerFloor,
              Recount, CheckEmpty, ReleaseReservations, LockForDrop, Commit, Abort
    <3> QED BY <3>1, <3>2, <3>3
  <2>2. CASE ~pool
    <3>1. rows = {} /\ poolLock = NoTxn /\ consumed = NoTotal /\ \A s \in Space : floor[s] = NoFloor
      BY <2>2
    <3>2. pc[t] \notin HoldsPool /\ Deleting(t) = {}
      BY <3>1, ConstantsAssumption DEF LockInv, Deleting
    <3>3. pc[t] \notin HoldsPool \cup {"lower"}
      BY <3>2 DEF LockInv
    <3>4. Live = {}
      BY <3>1 DEF Live
    <3>5. \/ ReleaseReservations(t) \/ LockForDrop(t) \/ Abort(t)
      BY SMTT(60), <1>1, <2>2, <3>1, <3>3
      DEF TxnStep, LockPool, Allocate, Refuse, Release, Retain, LowerFloor, Recount, CheckEmpty,
          DropPool, Commit, HoldsPool
    <3>6. CASE ReleaseReservations(t)
      BY SMTT(60), <2>2, <3>1, <3>4, <3>6 DEF ReleaseReservations
    <3>7. CASE LockForDrop(t)
      BY <2>2, <3>1, <3>7 DEF LockForDrop
    <3>8. CASE Abort(t)
      BY SMTT(60), <2>2, <3>1, <3>8 DEF Abort, Unlock
    <3> QED BY SMTT(60), <3>5, <3>6, <3>7, <3>8
  <2> QED BY SMTT(60), <2>1, <2>2 DEF TypeOK
<1>2. CASE CreatePool
  BY <1>2 DEF CreatePool
<1>3. CASE UpdateStrategy
  BY <1>3 DEF UpdateStrategy
<1> QED BY <1>1, <1>2, <1>3 DEF Next

----------------------------------------------------------------------------
\* The theorems

\* The pool starts in order.
LEMMA IInvInit ==
  ASSUME Init
  PROVE  IInv
<1>1. TypeOK
  BY SizeAssumption DEF Init, TypeOK
<1>2. LockInv
  BY ConstantsAssumption DEF Init, LockInv, HoldsPool
<1>3. RowsApart /\ DroppedInv
  BY DEF Init, RowsApart, DroppedInv, NoOrphanRows
<1>4. TotalInv
  BY DEF Init, TotalInv, ConsumptionExact, Live, HoldsPool
<1> QED BY SMTT(60), <1>1, <1>2, <1>3, <1>4 DEF IInv

\* Every step keeps IInv.
LEMMA IInvStep ==
  ASSUME IInv, [Next]_vars
  PROVE  IInv'
<1>1. CASE Next
  BY SMTT(60), <1>1, TypeStep, LockStep, ApartStep, TotalStep, DroppedStep DEF IInv
<1>2. CASE UNCHANGED vars
  BY <1>2, ZenonT(60)
  DEF IInv, vars, TypeOK, LockInv, RowsApart, TotalInv, DroppedInv, NoOrphanRows, ConsumptionExact,
      Compatible, Overlap, Live, Visible, Deleting
<1> QED BY <1>1, <1>2

\* Every step of AllocatePrefix, carveFromPool, the release paths and pool
\* deletion, and every rollback, keeps the inductive invariant.
THEOREM IInvAlways == Spec => []IInv
<1>1. Init => IInv
  BY IInvInit
<1>2. IInv /\ [Next]_vars => IInv'
  BY SMTT(60), IInvStep
<1> QED BY <1>1, <1>2, PTL DEF Spec

\* The rows, the floors, the totals and the locks keep their types, for every
\* value of the constants.
THEOREM TypeCorrect == Spec => []TypeOK
<1>1. IInv => TypeOK
  BY DEF IInv
<1> QED BY <1>1, IInvAlways, PTL

\* However sessions interleave, abort or retry, no address is held twice in an
\* address space and no reservation or carve shares an address with any row.
THEOREM NeverDoubleAllocated == Spec => []NoDoubleAllocation
<1>1. IInv => NoDoubleAllocation
  BY DEF IInv, RowsApart, NoDoubleAllocation, Live
<1> QED BY <1>1, IInvAlways, PTL

\* The published total is the number of distinct addresses the committed rows
\* hold, at every moment.
THEOREM TotalNeverDrifts == Spec => []ConsumptionExact
<1>1. IInv => ConsumptionExact
  BY DEF IInv, TotalInv
<1> QED BY <1>1, IInvAlways, PTL

\* A pool whose row is gone has no allocation, no total and no floor.
THEOREM DroppedPoolIsEmpty == Spec => []NoOrphanRows
<1>1. IInv => NoOrphanRows
  BY DEF IInv, DroppedInv
<1> QED BY <1>1, IInvAlways, PTL

----------------------------------------------------------------------------
\* The search floors

\* FloorInv holds in every reachable state of a FirstFit pool without carves.
THEOREM FloorInvAlways ==
  ASSUME FloorsAlwaysUsed
  PROVE  Spec => []FloorInv
<1>1. Spec => [](TypeOK /\ LockInv)
  <2>1. IInv => TypeOK /\ LockInv
    BY DEF IInv
  <2> QED BY <2>1, IInvAlways, PTL
<1>2. Init => FloorInv
  BY FloorInit
<1>3. TypeOK /\ LockInv /\ FloorInv /\ [Next]_vars => FloorInv'
  BY FloorStep
<1> QED BY <1>1, <1>2, <1>3, PTL DEF Spec

\* In a pool that stays FirstFit and is not carved, for every pool size, every set
\* of reserved positions and every number of sessions, spaces and keys, no address
\* that could be handed out lies under a space's committed floor: the delete trigger
\* lowers every floor a release could have left too high, whoever raised it meanwhile
\* (lockSearchFloor, raiseSearchFloor, ipam_lower_search_floor).
THEOREM FloorsLoseNothing ==
  ASSUME FloorsAlwaysUsed
  PROVE  Spec => []FloorSound
<1>1. IInv /\ FloorInv => FloorSound
  <2> SUFFICES ASSUME IInv, FloorInv, NEW s \in Space, floor[s] # NoFloor, NEW a \in 0 .. floor[s] - 1
               PROVE  a \in Covered({ r \in Live : Blocks(r, s) } \cup Reserved)
    BY DEF FloorSound
  <2>1. floor[s] \in Addr
    BY DEF IInv, TypeOK
  <2>2. a \in Addr /\ a < floor[s]
    BY <2>1, SizeAssumption DEF Addr
  <2>3. \/ \E r \in Live : Blocks(r, s) /\ Within(a, r)
        \/ \E b \in Reserved : Within(a, b)
    BY <2>2 DEF FloorInv, FloorsGuard, Guarded
  <2>4. PICK c \in { r \in Live : Blocks(r, s) } \cup Reserved : Within(a, c)
    BY <2>3
  <2>5. c.lo \in Int /\ c.hi \in Int
    <3>1. c \in Row \/ c \in Reserved
      BY Zenon DEF IInv, TypeOK, Live
    <3>2. c \in Row => c.lo \in Addr /\ c.hi \in Addr
      BY DEF Row
    <3>3. c \in Reserved => c.lo \in Addr /\ c.hi \in Addr
      BY ReservedAssumption DEF Block
    <3> QED BY <3>1, <3>2, <3>3, SizeAssumption DEF Addr
  <2> QED BY <2>2, <2>4, <2>5, SizeAssumption DEF Within, Covered, Addrs, Addr
<1> QED BY <1>1, IInvAlways, FloorInvAlways, PTL

\* In such a pool AllocatePrefix answers ErrPoolExhausted only when no aligned block
\* of the size asked for is free in the requester's space: what starting the search
\* at the floor skips was never free.
THEOREM ExhaustedMeansFull ==
  ASSUME FloorsAlwaysUsed
  PROVE  Spec => []ExhaustedOnlyWhenFull
<1>1. FloorInv => ExhaustedOnlyWhenFull
  BY DEF FloorInv
<1> QED BY <1>1, FloorInvAlways, PTL

----------------------------------------------------------------------------
\* The ledger the pool implements

\* What the committed rows say to somebody who sees no transactions.
holdings == { Held(r) : r \in Live }

\* What a row says of its holding.
LEMMA HeldFields ==
  ASSUME NEW r \in Row
  PROVE  /\ Held(r) \in Holding
         /\ Held(r).lo = r.lo /\ Held(r).hi = r.hi
         /\ Held(r).space = r.space /\ Held(r).purpose = r.purpose
         /\ Held(r).policy = r.policy /\ Held(r).bound = r.bound
BY DEF Held, Holding, Row

\* The total counts addresses, which a holding keeps.
LEMMA HeldMeasure ==
  ASSUME NEW R \in SUBSET Row
  PROVE  Ledger!Measure({ Held(r) : r \in R }) = Measure(R)
<1> DEFINE H == { Held(r) : r \in R }
<1>1. Measure(H) = Measure(R)
  <2>1. \A h \in H : \E r \in R : h.lo = r.lo /\ h.hi = r.hi
    BY HeldFields
  <2>2. \A r \in R : \E h \in H : h.lo = r.lo /\ h.hi = r.hi
    BY HeldFields
  <2> HIDE DEF H
  <2> QED BY <2>1, <2>2, CoveredByBounds
<1>2. Ledger!Measure(H) = Measure(H)
  <2>1. Ledger!Covered(H) = Covered(H)
    BY DEF Ledger!Covered, Ledger!Addrs, Ledger!Addr, Covered, Addrs, Addr
  <2>2. ASSUME NEW S PROVE Ledger!Cardinality(S) = Cardinality(S)
    BY DEF Ledger!Cardinality, Cardinality
  <2> HIDE DEF H
  <2> QED BY <2>1, <2>2 DEF Ledger!Measure, Measure
<1> QED BY <1>1, <1>2

\* Rows that are compatible make a consistent ledger.
LEMMA HeldApart ==
  ASSUME NEW R \in SUBSET Row, \A r, q \in R : r # q => Compatible(r, q)
  PROVE  Ledger!Consistent({ Held(r) : r \in R })
<1>1. ASSUME NEW r \in R, NEW q \in R, Held(r) # Held(q) PROVE Ledger!Apart(Held(r), Held(q))
  <2>1. r # q
    BY <1>1
  <2>2. Compatible(r, q)
    BY <2>1
  <2> QED BY <2>2, HeldFields DEF Compatible, Overlap, Ledger!Apart, Ledger!Overlap
<1> QED BY <1>1 DEF Ledger!Consistent

\* A holding names one committed row.
LEMMA HeldOnce ==
  ASSUME TypeOK, RowsApart, NEW r \in Live, NEW q \in Live, Held(r) = Held(q)
  PROVE  r = q
<1>1. r \in Row /\ q \in Row /\ r.lo <= r.hi /\ r \in rows /\ q \in rows
  BY DEF Live, TypeOK, RowsApart
<1>2. r.lo = q.lo /\ r.hi = q.hi /\ r.space = q.space
  BY <1>1, HeldFields
<1>3. Overlap(r, q)
  BY <1>1, <1>2 DEF Overlap, Row, Addr
<1> QED BY <1>1, <1>2, <1>3 DEF RowsApart, Compatible

----------------------------------------------------------------------------
\* Only a commit and an unbinding change what is held

\* A delete that has not committed leaves the holdings as they were.
LEMMA DeleteHoldings ==
  ASSUME TypeOK, NEW t \in Txn, NEW D, StartDelete(t, D)
  PROVE  holdings' = holdings
<1>1. ASSUME NEW q \in Live' PROVE \E r \in Live : Held(q) = Held(r)
  <2>1. PICK r \in rows : q = IF r \in D THEN [r EXCEPT !.xmax = t] ELSE r
    BY DEF StartDelete, Live
  <2>2. r \in Row /\ q.xmin = NoTxn
    BY DEF TypeOK, Live
  <2> QED BY <2>1, <2>2 DEF Live, Row, Held
<1>2. ASSUME NEW r \in Live PROVE \E q \in Live' : Held(q) = Held(r)
  <2> DEFINE q == IF r \in D THEN [r EXCEPT !.xmax = t] ELSE r
  <2>1. r \in rows /\ r \in Row /\ r.xmin = NoTxn
    BY DEF TypeOK, Live
  <2>2. q \in rows'
    BY ZenonT(60), <2>1 DEF StartDelete
  <2>3. q.xmin = NoTxn /\ Held(q) = Held(r)
    BY <2>1 DEF Row, Held
  <2> HIDE DEF q
  <2> QED BY <2>2, <2>3 DEF Live
<1> QED BY <1>1, <1>2 DEF holdings

\* A rollback leaves the holdings as they were.
LEMMA AbortHoldings ==
  ASSUME TypeOK, NEW t \in Txn, Abort(t)
  PROVE  holdings' = holdings
<1>1. ASSUME NEW q \in Live' PROVE \E r \in Live : Held(q) = Held(r)
  <2>1. PICK r \in rows : q = IF r.xmax = t THEN [r EXCEPT !.xmax = NoTxn] ELSE r
    BY DEF Abort, Live
  <2>2. r \in Row /\ q.xmin = NoTxn
    BY DEF TypeOK, Live
  <2> QED BY <2>1, <2>2 DEF Live, Row, Held
<1>2. ASSUME NEW r \in Live PROVE \E q \in Live' : Held(q) = Held(r)
  <2> DEFINE q == IF r.xmax = t THEN [r EXCEPT !.xmax = NoTxn] ELSE r
  <2>1. r \in rows /\ r \in Row /\ r.xmin = NoTxn /\ r.xmin # t
    BY ConstantsAssumption DEF TypeOK, Live
  <2>2. q \in rows'
    BY ZenonT(60), <2>1 DEF Abort
  <2>3. q.xmin = NoTxn /\ Held(q) = Held(r)
    BY <2>1 DEF Row, Held
  <2> HIDE DEF q
  <2> QED BY <2>2, <2>3 DEF Live
<1> QED BY <1>1, <1>2 DEF holdings

\* Every step is a step of the ledger's holdings or leaves them as they were.
LEMMA StepHoldings ==
  ASSUME TypeOK, NEW t \in Txn, TxnStep(t)
  PROVE  holdings' = holdings \/ Commit(t) \/ Retain(t)
<1>1. CASE rows' = rows
  BY <1>1 DEF holdings, Live
<1>2. CASE LockPool(t)
  <2>1. \A b : ReservationRow(b, t).xmin # NoTxn
    BY ConstantsAssumption DEF ReservationRow
  <2>2. Live' = Live
    BY Zenon, <1>2, <2>1 DEF LockPool, Live
  <2> QED BY <2>2 DEF holdings
<1>3. CASE Allocate(t)
  <2>1. NewRow(t).xmin # NoTxn
    BY Zenon, ConstantsAssumption DEF NewRow
  <2>2. Live' = Live
    BY <1>3, <2>1 DEF Allocate, Live
  <2> QED BY <2>2 DEF holdings
<1>4. CASE Release(t) \/ ReleaseReservations(t)
  <2>1. rows' = rows \/ \E D : StartDelete(t, D)
    BY ZenonT(60), <1>4 DEF Release, ReleaseReservations
  <2> QED BY <1>1, <2>1, DeleteHoldings
<1>5. CASE Abort(t)
  BY <1>5, AbortHoldings
<1>6. \/ rows' = rows \/ LockPool(t) \/ Allocate(t) \/ Release(t) \/ ReleaseReservations(t)
      \/ Abort(t) \/ Commit(t) \/ Retain(t)
  <2>1. Refuse(t) \/ LowerFloor(t) => rows' = rows
    BY DEF Refuse, LowerFloor
  <2>2. Recount(t) \/ CheckEmpty(t) => rows' = rows
    BY DEF Recount, CheckEmpty
  <2>3. LockForDrop(t) \/ DropPool(t) => rows' = rows
    BY DEF LockForDrop, DropPool
  <2> QED BY Zenon, <2>1, <2>2, <2>3 DEF TxnStep
<1> QED BY <1>1, <1>2, <1>3, <1>4, <1>5, <1>6

\* A transaction commits the rows it inserted: they are granted together.
LEMMA CommitGrants ==
  ASSUME IInv, IInv', NEW t \in Txn, Commit(t), Deleting(t) = {}
  PROVE  /\ holdings' \in SUBSET Holding
         /\ holdings \subseteq holdings'
         /\ Ledger!Consistent(holdings')
<1>1. Live' \in SUBSET Row /\ \A r, q \in Live' : r # q => Compatible(r, q)
  BY DEF IInv, TypeOK, RowsApart, Live, Compatible
<1>2. holdings' \in SUBSET Holding /\ Ledger!Consistent(holdings')
  BY Zenon, <1>1, HeldFields, HeldApart DEF holdings
<1>3. ASSUME NEW r \in Live PROVE r \in Live'
  <2>1. r \in rows /\ r.xmin = NoTxn /\ r.xmin # t /\ r.xmax # t
    BY ConstantsAssumption DEF Live, Deleting
  <2>2. r \in rows'
    BY ZenonT(60), <2>1 DEF Commit
  <2> QED BY <2>1, <2>2 DEF Live
<1> QED BY <1>2, <1>3 DEF holdings

\* A transaction commits the rows it deleted: none was bound under Retain.
LEMMA CommitFrees ==
  ASSUME IInv, NEW t \in Txn, Commit(t), Deleting(t) # {}
  PROVE  /\ holdings' \subseteq holdings
         /\ \A h \in holdings \ holdings' : h.bound => h.policy = "Delete"
<1>1. \A r \in rows : r.xmin # t
  BY ConstantsAssumption DEF IInv, LockInv
<1>2. rows' = { r \in rows : r.xmax # t }
  BY <1>1 DEF Commit
<1>3. ASSUME NEW r \in Live, Held(r) \notin holdings', Held(r).bound
      PROVE  Held(r).policy = "Delete"
  <2>1. r \in rows /\ r \in Row /\ r.xmin = NoTxn
    BY DEF Live, IInv, TypeOK
  <2>2. r \notin Live'
    BY <1>3 DEF holdings
  <2>3. r.xmax = t
    BY <1>2, <2>1, <2>2 DEF Live
  <2>4. r.bound
    BY <1>3, <2>1, HeldFields
  <2>5. r.policy = "Delete"
    BY <2>1, <2>3, <2>4, ConstantsAssumption DEF IInv, LockInv
  <2> QED BY <2>1, <2>5, HeldFields
<1> QED BY <1>2, <1>3 DEF holdings, Live

\* retainAllocations changes one holding, and only its binding.
LEMMA RetainUnbinds ==
  ASSUME IInv, NEW t \in Txn, Retain(t)
  PROVE  \E h \in holdings :
           /\ h.bound /\ h.policy = "Retain"
           /\ holdings' = (holdings \ {h}) \cup {[h EXCEPT !.bound = FALSE]}
<1>1. PICK r \in rows : /\ r.xmin = NoTxn /\ r.bound /\ r.policy = "Retain"
                        /\ rows' = (rows \ {r}) \cup {[r EXCEPT !.bound = FALSE]}
  BY DEF Retain
<1> DEFINE q == [r EXCEPT !.bound = FALSE]
<1>2. r \in Row /\ r \in Live
  BY <1>1 DEF IInv, TypeOK, Live
<1>3. q.xmin = NoTxn /\ Held(q) = [Held(r) EXCEPT !.bound = FALSE]
  <2> DEFINE h == [key |-> r.key, lo |-> r.lo, hi |-> r.hi, space |-> r.space,
                   purpose |-> r.purpose, policy |-> r.policy, bound |-> FALSE]
  <2>1. q.xmin = NoTxn
    BY <1>1, <1>2 DEF Row
  <2>2. Held(q) = h
    BY <1>2 DEF Row, Held
  <2>3. [Held(r) EXCEPT !.bound = FALSE] = h
    <3> DEFINE g == [Held(r) EXCEPT !.bound = FALSE]
    <3>1. Held(r) \in Holding /\ Held(r).key = r.key
      BY <1>2, HeldFields DEF Held
    <3>2. /\ g \in Holding /\ g.key = r.key /\ g.lo = r.lo /\ g.hi = r.hi /\ g.space = r.space
          /\ g.purpose = r.purpose /\ g.policy = r.policy /\ g.bound = FALSE
      BY Zenon, <1>2, <3>1, HeldFields DEF Holding
    <3>3. h \in Holding
      BY <1>2 DEF Row, Holding
    <3>4. \A a, b \in Holding :
            /\ a.key = b.key /\ a.lo = b.lo /\ a.hi = b.hi /\ a.space = b.space
            /\ a.purpose = b.purpose /\ a.policy = b.policy /\ a.bound = b.bound
            => a = b
      BY DEF Holding
    <3> QED BY Zenon, <3>2, <3>3, <3>4
  <2> HIDE DEF h
  <2> QED BY Zenon, <2>1, <2>2, <2>3
<1>4. Live' = (Live \ {r}) \cup {q}
  <2> HIDE DEF q
  <2>1. rows' = (rows \ {r}) \cup {q}
    BY <1>1 DEF q
  <2> QED BY <1>3, <2>1 DEF Live
<1>5. \A p \in Live : p # r => Held(p) # Held(r)
  BY <1>2, HeldOnce DEF IInv
<1>6. holdings' = (holdings \ {Held(r)}) \cup {Held(q)}
  <2> HIDE DEF q
  <2> QED BY <1>2, <1>4, <1>5 DEF holdings
<1>7. Held(r) \in holdings /\ Held(r).bound /\ Held(r).policy = "Retain"
  BY <1>1, <1>2, HeldFields DEF holdings
<1> QED BY Zenon, <1>3, <1>6, <1>7

\* Every step is a step of the ledger.
LEMMA LedgerStep ==
  ASSUME IInv, IInv', [Next]_vars
  PROVE  [Ledger!Next]_(Ledger!vars)
<1> DEFINE total == IF consumed = NoTotal THEN 0 ELSE consumed
<1>1. total = Ledger!Measure(holdings)
  <2>1. Live \in SUBSET Row
    BY DEF IInv, TypeOK, Live
  <2>2. Ledger!Measure(holdings) = Measure(Live)
    BY <2>1, HeldMeasure DEF holdings
  <2>3. Measure({}) = 0
    BY FS_EmptySet DEF Measure, Covered
  <2> QED BY Zenon, <2>2, <2>3 DEF IInv, TotalInv, ConsumptionExact
<1>2. total' = Ledger!Measure(holdings')
  <2>1. Live' \in SUBSET Row
    BY DEF IInv, TypeOK, Live
  <2>2. Ledger!Measure(holdings') = Measure(Live')
    BY <2>1, HeldMeasure DEF holdings
  <2>3. Measure({}) = 0
    BY FS_EmptySet DEF Measure, Covered
  <2>4. ConsumptionExact'
    BY Zenon DEF IInv, TotalInv
  <2> QED BY <2>2, <2>3, <2>4 DEF ConsumptionExact
<1>3. CASE holdings' = holdings
  <2>1. total' = total
    BY <1>1, <1>2, <1>3
  <2> QED BY <1>3, <2>1 DEF Ledger!vars, holdings
<1>4. ASSUME NEW t \in Txn, Commit(t) PROVE Ledger!Grant \/ Ledger!Free
  BY <1>4, CommitGrants, CommitFrees DEF Ledger!Grant, Ledger!Free, holdings
<1>5. ASSUME NEW t \in Txn, Retain(t) PROVE Ledger!Unbind
  BY <1>5, RetainUnbinds DEF Ledger!Unbind, holdings
<1>6. holdings' = holdings \/ \E t \in Txn : Commit(t) \/ Retain(t)
  <2>1. CASE \E t \in Txn : TxnStep(t)
    BY <2>1, StepHoldings DEF IInv
  <2>2. CASE rows' = rows
    BY <2>2 DEF holdings, Live
  <2>3. (\E t \in Txn : TxnStep(t)) \/ rows' = rows
    BY DEF Next, CreatePool, UpdateStrategy, vars
  <2> QED BY <2>1, <2>2, <2>3
<1>7. CASE Ledger!Grant \/ Ledger!Free \/ Ledger!Unbind
  BY <1>2, <1>7 DEF Ledger!Next, holdings
<1> QED BY <1>3, <1>4, <1>5, <1>6, <1>7

\* To a reader of committed rows the transactions of the allocator, the release
\* paths and pool deletion are whole grants, frees and unbindings of one ledger.
THEOREM ImplementsLedger == Spec => LedgerSpec
<1>1. Init => Ledger!Init
  BY DEF Init, Ledger!Init, Live
<1>2. IInv /\ IInv' /\ [Next]_vars => [Ledger!Next]_(Ledger!vars)
  BY LedgerStep
<1> QED BY <1>1, <1>2, IInvAlways, PTL DEF Spec, LedgerSpec, Ledger!Spec

=============================================================================
