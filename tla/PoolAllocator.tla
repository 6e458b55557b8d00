--------------------------- MODULE PoolAllocator ---------------------------
(***************************************************************************)
(* Concurrent transactions against the rows of ONE pool: AllocatePrefix,   *)
(* carveFromPool, the release paths, root-pool deletion and strategy       *)
(* updates (internal/allocator, internal/registry/ipam/ippool), with the   *)
(* constraints and triggers of migrations/001 and 002.                     *)
(*                                                                         *)
(* The database is PostgreSQL at READ COMMITTED.  A step is what a         *)
(* transaction does between two points where it can wait for a lock.  A    *)
(* row carries the transaction that inserted it (xmin) and the one that    *)
(* deleted it (xmax) while these are uncommitted; other transactions see   *)
(* the row as it was before.  Row locks are the variables poolLock and     *)
(* floorLock; values written under one stay in pendFloor / pendConsumed    *)
(* until the holder commits.                                               *)
(***************************************************************************)
EXTENDS Cidr

CONSTANTS
  Txn,          \* sessions, each running one transaction at a time
  Key,          \* allocation keys
  Space,        \* address-space digests
  EmptySpace,   \* scope.EmptyAddressSpaceDigest()
  PoolDigest,   \* the digest a carve is recorded under; no address space
  Sizes,        \* block sizes a request may ask for
  Reserved,     \* Reservation.BlocksIn(parents)
  Strategies,   \* values IPPool.spec.allocation.strategy takes
  Policies,     \* reclaim policies a claim may carry
  Ops,          \* the operations of this workload
  NoTxn, NoKey

NoFloor == -1   \* no row in ipam_pool_search_floor
NoTotal == -1   \* no row in ipam_pool_consumption

ASSUME ConstantsAssumption ==
  /\ NoTxn \notin Txn
  /\ NoKey \notin Key
  /\ EmptySpace \in Space
  /\ PoolDigest \notin Space
  /\ Sizes \subseteq Nat \ {0}

ASSUME ReservedAssumption ==
  /\ Reserved \subseteq Block
  /\ \A b \in Reserved : b.lo <= b.hi
  /\ \A b, c \in Reserved : b # c => ~Overlap(b, c)

VARIABLES
  rows,          \* ipam_cidr_allocations of the pool
  floor,         \* ipam_pool_search_floor, committed
  pendFloor,     \* its values as the lock holders have written them
  floorLock,     \* who holds each floor row
  consumed,      \* ipam_pool_consumption, committed
  pendConsumed,  \* its value as the pool-lock holder has written it
  poolLock,      \* who holds the pool's row in ipam_objects FOR UPDATE
  pool,          \* whether that row exists
  strategy,      \* IPPool.spec.allocation.strategy
  pc,            \* where each session is
  req,           \* what it was asked
  todo           \* floors its delete trigger has yet to lower

vars == <<rows, floor, pendFloor, floorLock, consumed, pendConsumed, poolLock,
          pool, strategy, pc, req, todo>>

floorVars == <<floor, pendFloor, floorLock>>
totalVars == <<consumed, pendConsumed>>

Purpose == {"Claim", "Reservation", "PoolCarve"}

Row == [key : Key \cup {NoKey}, lo : Addr, hi : Addr,
        space : Space \cup {PoolDigest}, purpose : Purpose,
        holder : {"claim", "pool", "none"}, policy : {"Delete", "Retain"},
        bound : BOOLEAN, xmin : Txn \cup {NoTxn}, xmax : Txn \cup {NoTxn}]

\* A request: AllocatePrefix for a claim or for an operator's child pool, or
\* carveFromPool.  The last two carry no digest and no reclaim policy.
Request ==
  { r \in [op : {"Claim", "Child", "Carve"}, key : Key, space : Space, n : Sizes,
           policy : {"Delete", "Retain"}] :
      /\ r.op \in Ops
      /\ IF r.op = "Claim" THEN r.policy \in Policies
         ELSE r.space = EmptySpace /\ r.policy = "Delete" }

Idle == [op |-> "None"]
Dropping == [op |-> "DeletePool"]

TypeOK ==
  /\ rows \in SUBSET Row
  /\ floor \in [Space -> Addr \cup {NoFloor}]
  /\ pendFloor \in [Space -> Addr \cup {NoFloor}]
  /\ floorLock \in [Space -> Txn \cup {NoTxn}]
  /\ consumed \in Nat \cup {NoTotal}
  /\ pendConsumed \in Nat \cup {NoTotal}
  /\ poolLock \in Txn \cup {NoTxn}
  /\ pool \in BOOLEAN
  /\ strategy \in Strategies
  /\ pc \in [Txn -> {"idle", "search", "exhausted", "conflict", "lower", "done",
                     "checked", "drop", "fk"}]
  /\ req \in [Txn -> Request \cup {Idle, Dropping}]
  /\ todo \in [Txn -> SUBSET Space]

Init ==
  /\ rows = {}
  /\ floor = [s \in Space |-> NoFloor]
  /\ pendFloor = floor
  /\ floorLock = [s \in Space |-> NoTxn]
  /\ consumed = NoTotal
  /\ pendConsumed = NoTotal
  /\ poolLock = NoTxn
  /\ pool = TRUE
  /\ strategy \in Strategies
  /\ pc = [t \in Txn |-> "idle"]
  /\ req = [t \in Txn |-> Idle]
  /\ todo = [t \in Txn |-> {}]

----------------------------------------------------------------------------
\* What transactions see

Visible(t) == { r \in rows : r.xmin \in {NoTxn, t} /\ r.xmax # t }

Live == { r \in rows : r.xmin = NoTxn }

Deleting(t) == { r \in rows : r.xmax = t }

\* Faulty variant: the search forgets rows that are withheld from every space.
Blocks_OwnSpaceOnly(r, s) == r.space = s

\* searchFilter: a claim blocks its own space, any other row blocks all of
\* them; a carve searches under spaceAll, which every row blocks.
Blocks(r, s) == r.purpose # "Claim" \/ r.space = s

Taken(t) == { r \in Visible(t) : req[t].op = "Carve" \/ Blocks(r, req[t].space) }

Total(t) == IF pendConsumed = NoTotal THEN Measure(Visible(t)) ELSE pendConsumed

Overlapping(t, b) == { r \in Visible(t) : Overlap(r, b) }

----------------------------------------------------------------------------
\* AllocatePrefix and carveFromPool

ReservationRow(b, t) ==
  [key |-> NoKey, lo |-> b.lo, hi |-> b.hi, space |-> EmptySpace,
   purpose |-> "Reservation", holder |-> "none", policy |-> "Delete",
   bound |-> FALSE, xmin |-> t, xmax |-> NoTxn]

\* materialiseReservations: nothing if the pool holds any reservation row,
\* else every position that no row overlaps.
NewReservations(t) ==
  IF \E r \in Visible(t) : r.purpose = "Reservation" THEN {}
  ELSE { b \in Reserved : \A r \in Visible(t) : ~Overlap(b, r) }

LockPool(t) ==
  /\ pc[t] = "idle"
  /\ pool
  /\ poolLock = NoTxn
  /\ \E r \in Request : req' = [req EXCEPT ![t] = r]
  /\ poolLock' = t
  /\ LET new == NewReservations(t)
     IN  /\ rows' = rows \cup { ReservationRow(b, t) : b \in new }
         /\ pendConsumed' = IF new = {} THEN pendConsumed
                            ELSE Total(t) + Measure(new)
  /\ pc' = [pc EXCEPT ![t] = "search"]
  /\ UNCHANGED <<floorVars, consumed, pool, strategy, todo>>

\* Only a FirstFit search within one space stands on a floor.
UsesFloor(t) == strategy = "FirstFit" /\ req[t].op # "Carve"

Observed(t) ==
  IF UsesFloor(t) /\ pendFloor[req[t].space] # NoFloor
  THEN pendFloor[req[t].space] ELSE 0

Fits(t) ==
  IF strategy = "BestFit" THEN { c[2] : c \in Candidates(Taken(t), req[t].n) }
  ELSE FreeBlocksFrom(Taken(t), req[t].n, Observed(t))

\* LeastUtilized compares parents and a pool has one: its first candidate.
Chosen(t) ==
  IF strategy = "BestFit" THEN BestFit(Taken(t), req[t].n)
  ELSE FirstFit(Taken(t), req[t].n, Observed(t))

NewRow(t) ==
  [key |-> req[t].key, lo |-> Chosen(t).lo, hi |-> Chosen(t).hi,
   space |-> IF req[t].op = "Carve" THEN PoolDigest ELSE req[t].space,
   purpose |-> IF req[t].op = "Carve" THEN "PoolCarve" ELSE "Claim",
   holder |-> IF req[t].op = "Claim" THEN "claim" ELSE "pool",
   policy |-> req[t].policy, bound |-> TRUE, xmin |-> t, xmax |-> NoTxn]

\* lockSearchFloor, then raiseSearchFloor to what the search walked over.
LockFloor(t, value) ==
  IF UsesFloor(t)
  THEN /\ floorLock[req[t].space] = NoTxn
       /\ floorLock' = [floorLock EXCEPT ![req[t].space] = t]
       /\ pendFloor' = [pendFloor EXCEPT ![req[t].space] = value]
  ELSE UNCHANGED <<floorLock, pendFloor>>

\* Unique allocation_key / claim_key, and EXCLUDE on (pool, space, range).
Violates(t) ==
  \E r \in rows : \/ r.key = req[t].key
                  \/ r.space = NewRow(t).space /\ Overlap(r, NewRow(t))

\* A unique check waits for a transaction that is deleting the same key.
KeyDeleters(t) == { u \in Txn \ {t} : \E r \in Deleting(u) : r.key = req[t].key }

Allocate(t) ==
  /\ pc[t] = "search"
  /\ Fits(t) # {}
  /\ KeyDeleters(t) = {}
  /\ ~Violates(t)
  /\ LockFloor(t, FirstFree(Taken(t), Observed(t)))
  /\ rows' = rows \cup {NewRow(t)}
  /\ pendConsumed' = Total(t) + ConsumptionDelta(Overlapping(t, Chosen(t)), Chosen(t))
  /\ pc' = [pc EXCEPT ![t] = "done"]
  /\ UNCHANGED <<floor, consumed, poolLock, pool, strategy, req, todo>>

\* ErrPoolExhausted, or a constraint refused the row.  Neither raises the
\* floor; the caller rolls back.
Refuse(t) ==
  /\ pc[t] = "search"
  /\ LockFloor(t, Observed(t))
  /\ \/ Fits(t) = {} /\ pc' = [pc EXCEPT ![t] = "exhausted"]
     \/ /\ Fits(t) # {}
        /\ KeyDeleters(t) = {}
        /\ Violates(t)
        /\ pc' = [pc EXCEPT ![t] = "conflict"]
  /\ UNCHANGED <<rows, floor, totalVars, poolLock, pool, strategy, req, todo>>

----------------------------------------------------------------------------
\* deleteAllocations

\* Faulty variant: the delete trigger is not installed.
StartDelete_NoTrigger(t, D) ==
  /\ rows' = { IF r \in D THEN [r EXCEPT !.xmax = t] ELSE r : r \in rows }
  /\ pc' = [pc EXCEPT ![t] = "lower"]
  /\ UNCHANGED <<floorVars, totalVars, poolLock, pool, strategy, todo>>

\* DELETE ... RETURNING.  The trigger's UPDATE sees the floors committed now.
StartDelete(t, D) ==
  /\ rows' = { IF r \in D THEN [r EXCEPT !.xmax = t] ELSE r : r \in rows }
  /\ todo' = [todo EXCEPT ![t] =
                { s \in Space : floor[s] # NoFloor /\ \E r \in D : Blocks(r, s) }]
  /\ pc' = [pc EXCEPT ![t] = "lower"]
  /\ UNCHANGED <<floorVars, totalVars, poolLock, pool, strategy>>

\* Release of a claim, a child pool or a carve, and ReleaseAllocation of a
\* retained row.
Release(t) ==
  /\ pc[t] = "idle"
  /\ "Release" \in Ops
  /\ \E r \in rows : /\ r.xmin = NoTxn /\ r.xmax = NoTxn
                     /\ r.purpose # "Reservation"
                     /\ r.bound => r.policy = "Delete"
                     /\ StartDelete(t, {r})
  /\ UNCHANGED req

\* Faulty variant: a release deletes the row whatever its reclaim policy.
Retain_Deletes(t) ==
  /\ pc[t] = "idle"
  /\ "Release" \in Ops
  /\ \E r \in rows : /\ r.xmin = NoTxn /\ r.xmax = NoTxn
                     /\ r.bound /\ r.policy = "Retain"
                     /\ StartDelete(t, {r})
  /\ UNCHANGED req

\* retainAllocations: the claim lets go of the row, which stays.
Retain(t) ==
  /\ pc[t] = "idle"
  /\ "Release" \in Ops
  /\ \E r \in rows : /\ r.xmin = NoTxn /\ r.xmax = NoTxn
                     /\ r.bound /\ r.policy = "Retain"
                     /\ rows' = (rows \ {r}) \cup {[r EXCEPT !.bound = FALSE]}
  /\ UNCHANGED <<floorVars, totalVars, poolLock, pool, strategy, pc, req, todo>>

Lowest(D) == CHOOSE a \in { r.lo : r \in D } : \A r \in D : a <= r.lo

\* Faulty variant: the trigger sets the floor without LEAST.
LowerFloor_NoLeast(t) ==
  /\ pc[t] = "lower"
  /\ \E s \in todo[t] :
       /\ floorLock[s] = NoTxn
       /\ floorLock' = [floorLock EXCEPT ![s] = t]
       /\ pendFloor' = [pendFloor EXCEPT ![s] = Lowest(Deleting(t))]
       /\ todo' = [todo EXCEPT ![t] = @ \ {s}]
  /\ UNCHANGED <<rows, floor, totalVars, poolLock, pool, strategy, pc, req>>

\* ipam_lower_search_floor: LEAST of the freed address and the floor as its
\* last holder left it.
LowerFloor(t) ==
  /\ pc[t] = "lower"
  /\ \E s \in todo[t] :
       /\ floorLock[s] = NoTxn
       /\ floorLock' = [floorLock EXCEPT ![s] = t]
       /\ pendFloor' = [pendFloor EXCEPT
                          ![s] = IF Lowest(Deleting(t)) < @ THEN Lowest(Deleting(t)) ELSE @]
       /\ todo' = [todo EXCEPT ![t] = @ \ {s}]
  /\ UNCHANGED <<rows, floor, totalVars, poolLock, pool, strategy, pc, req>>

\* Faulty variant: an address another space still holds is counted as freed.
AfterRelease_Shared(t) ==
  IF pendConsumed = NoTotal THEN Measure(Visible(t))
  ELSE IF pendConsumed < Measure(Deleting(t)) THEN 0
  ELSE pendConsumed - Measure(Deleting(t))

\* consumptionAfterRelease, clamped at zero.  Blocks deleted together are one
\* pool's reservations, which do not overlap: the loop frees their union.
AfterRelease(t) ==
  LET freed == Measure(Visible(t) \cup Deleting(t)) - Measure(Visible(t))
  IN  IF pendConsumed = NoTotal THEN Measure(Visible(t))
      ELSE IF pendConsumed < freed THEN 0 ELSE pendConsumed - freed

Recount(t) ==
  /\ pc[t] = "lower"
  /\ todo[t] = {}
  /\ poolLock = NoTxn
  /\ poolLock' = t
  /\ pendConsumed' = AfterRelease(t)
  /\ pc' = [pc EXCEPT ![t] = "done"]
  /\ UNCHANGED <<rows, floorVars, consumed, pool, strategy, req, todo>>

----------------------------------------------------------------------------
\* Root-pool Delete: count, release the reservations, drop the object

CheckEmpty(t) ==
  /\ pc[t] = "idle"
  /\ "DeletePool" \in Ops
  /\ pool
  /\ \A r \in Live : r.purpose = "Reservation"
  /\ pc' = [pc EXCEPT ![t] = "checked"]
  /\ req' = [req EXCEPT ![t] = Dropping]
  /\ UNCHANGED <<rows, floorVars, totalVars, poolLock, pool, strategy, todo>>

ReleaseReservations(t) ==
  LET D == { r \in Live : r.purpose = "Reservation" }
  IN  /\ pc[t] = "checked"
      /\ \A r \in D : r.xmax = NoTxn
      /\ IF D = {}
         THEN /\ pc' = [pc EXCEPT ![t] = "drop"]
              /\ UNCHANGED <<rows, floorVars, totalVars, poolLock, pool, strategy, todo>>
         ELSE StartDelete(t, D)
      /\ UNCHANGED req

LockForDrop(t) ==
  /\ pc[t] = "drop"
  /\ poolLock = NoTxn
  /\ IF pool THEN poolLock' = t /\ pc' = [pc EXCEPT ![t] = "fk"] /\ UNCHANGED req
             ELSE /\ UNCHANGED poolLock
                  /\ pc' = [pc EXCEPT ![t] = "idle"]
                  /\ req' = [req EXCEPT ![t] = Idle]
  /\ UNCHANGED <<rows, floorVars, totalVars, pool, strategy, todo>>

\* Faulty variant: the allocation rows do not hold the pool back.
DropPool_NoRestrict(t) ==
  /\ pc[t] = "fk"
  /\ pool' = FALSE
  /\ floor' = [s \in Space |-> NoFloor]
  /\ pendFloor' = floor'
  /\ consumed' = NoTotal
  /\ pendConsumed' = NoTotal
  /\ poolLock' = NoTxn
  /\ pc' = [pc EXCEPT ![t] = "idle"]
  /\ req' = [req EXCEPT ![t] = Idle]
  /\ UNCHANGED <<rows, floorLock, strategy, todo>>

\* ON DELETE RESTRICT of the allocation rows, which waits for whoever is
\* deleting one; ON DELETE CASCADE of the floors and the total.
DropPool(t) ==
  /\ pc[t] = "fk"
  /\ \A r \in rows : r.xmax = NoTxn
  /\ IF rows = {}
     THEN /\ pool' = FALSE
          /\ floor' = [s \in Space |-> NoFloor]
          /\ pendFloor' = floor'
          /\ consumed' = NoTotal
          /\ pendConsumed' = NoTotal
     ELSE UNCHANGED <<pool, floor, pendFloor, totalVars>>
  /\ poolLock' = NoTxn
  /\ pc' = [pc EXCEPT ![t] = "idle"]
  /\ req' = [req EXCEPT ![t] = Idle]
  /\ UNCHANGED <<rows, floorLock, strategy, todo>>

CreatePool ==
  /\ ~pool
  /\ pool' = TRUE
  /\ UNCHANGED <<rows, floorVars, totalVars, poolLock, strategy, pc, req, todo>>

UpdateStrategy ==
  /\ pool
  /\ poolLock = NoTxn
  /\ strategy' \in Strategies \ {strategy}
  /\ UNCHANGED <<rows, floorVars, totalVars, poolLock, pool, pc, req, todo>>

----------------------------------------------------------------------------
\* End of a transaction

Unlock(t) ==
  /\ floorLock' = [s \in Space |-> IF floorLock[s] = t THEN NoTxn ELSE floorLock[s]]
  /\ poolLock' = IF poolLock = t THEN NoTxn ELSE poolLock
  /\ todo' = [todo EXCEPT ![t] = {}]

Commit(t) ==
  /\ pc[t] = "done"
  /\ rows' = { IF r.xmin = t THEN [r EXCEPT !.xmin = NoTxn] ELSE r :
                 r \in { q \in rows : q.xmax # t } }
  /\ floor' = [s \in Space |-> IF floorLock[s] = t THEN pendFloor[s] ELSE floor[s]]
  /\ consumed' = pendConsumed
  /\ IF req[t] = Dropping
     THEN pc' = [pc EXCEPT ![t] = "drop"] /\ UNCHANGED req
     ELSE /\ pc' = [pc EXCEPT ![t] = "idle"]
          /\ req' = [req EXCEPT ![t] = Idle]
  /\ Unlock(t)
  /\ UNCHANGED <<pendFloor, pendConsumed, pool, strategy>>

\* Faulty variant: an error undoes the writes but leaves the transaction open on
\* the floor rows it locked.
Abort_KeepsFloor(t) ==
  /\ pc[t] # "idle"
  /\ rows' = { IF r.xmax = t THEN [r EXCEPT !.xmax = NoTxn] ELSE r :
                 r \in { q \in rows : q.xmin # t } }
  /\ pendConsumed' = IF poolLock = t THEN consumed ELSE pendConsumed
  /\ poolLock' = IF poolLock = t THEN NoTxn ELSE poolLock
  /\ pc' = [pc EXCEPT ![t] = "idle"]
  /\ req' = [req EXCEPT ![t] = Idle]
  /\ todo' = [todo EXCEPT ![t] = {}]
  /\ UNCHANGED <<floorVars, consumed, pool, strategy>>

\* Rollback after an error, a dry run, a deadlock or a lost connection.
Abort(t) ==
  /\ pc[t] # "idle"
  /\ rows' = { IF r.xmax = t THEN [r EXCEPT !.xmax = NoTxn] ELSE r :
                 r \in { q \in rows : q.xmin # t } }
  /\ pendFloor' = [s \in Space |-> IF floorLock[s] = t THEN floor[s] ELSE pendFloor[s]]
  /\ pendConsumed' = IF poolLock = t THEN consumed ELSE pendConsumed
  /\ pc' = [pc EXCEPT ![t] = "idle"]
  /\ req' = [req EXCEPT ![t] = Idle]
  /\ Unlock(t)
  /\ UNCHANGED <<floor, consumed, pool, strategy>>

TxnStep(t) ==
  \/ LockPool(t) \/ Allocate(t) \/ Refuse(t)
  \/ Release(t) \/ Retain(t) \/ LowerFloor(t) \/ Recount(t)
  \/ CheckEmpty(t) \/ ReleaseReservations(t) \/ LockForDrop(t) \/ DropPool(t)
  \/ Commit(t) \/ Abort(t)

Next == (\E t \in Txn : TxnStep(t)) \/ CreatePool \/ UpdateStrategy

Spec == Init /\ [][Next]_vars

----------------------------------------------------------------------------
\* Waiting.  WaitsFor(t) are the transactions whose locks t needs to go on.

WaitsFor(t) ==
  { u \in Txn \ {t} :
      \/ pc[t] = "search" /\ UsesFloor(t) /\ floorLock[req[t].space] = u
      \/ pc[t] = "search" /\ u \in KeyDeleters(t)
      \/ pc[t] = "lower" /\ \E s \in todo[t] : floorLock[s] = u
      \/ pc[t] = "lower" /\ todo[t] = {} /\ poolLock = u
      \/ pc[t] = "checked" /\ \E r \in Deleting(u) : r.purpose = "Reservation"
      \/ pc[t] = "drop" /\ poolLock = u
      \/ pc[t] = "fk" /\ Deleting(u) # {} }

\* t is on a cycle of waiting transactions.
Deadlocked(t) ==
  \E C \in SUBSET Txn :
    /\ t \in C
    /\ \A u \in C : WaitsFor(u) \cap C # {}
    /\ \A u \in C : \E v \in C : u \in WaitsFor(v)

\* What a session does next once it has begun.
GoOn(t) ==
  \/ Allocate(t) \/ Refuse(t) \/ LowerFloor(t) \/ Recount(t) \/ Commit(t)
  \/ ReleaseReservations(t) \/ LockForDrop(t) \/ DropPool(t)

\* PostgreSQL queues the waiters of a row lock, so a session that keeps finding
\* the lock free gets it; its detector aborts a deadlocked transaction; an error
\* is followed by the rollback.
Fairness ==
  \A t \in Txn :
    /\ SF_vars(GoOn(t))
    /\ WF_vars((Deadlocked(t) \/ pc[t] \in {"exhausted", "conflict"}) /\ Abort(t))

FairSpec == Spec /\ Fairness

----------------------------------------------------------------------------
\* Properties

Compatible(r, q) ==
  Overlap(r, q) => r.purpose = "Claim" /\ q.purpose = "Claim" /\ r.space # q.space

\* No address is held twice in one address space, and a reservation or a carve
\* shares no address with any row of any space: what the pool lock, the search
\* filter and the EXCLUDE constraint are for.
NoDoubleAllocation == \A r, q \in Live : r # q => Compatible(r, q)

\* The running total readConsumed returns is the number of distinct addresses
\* the committed rows hold: deltas taken against uncommitted neighbours, rolled
\* back transactions and shared addresses never make it drift.
ConsumptionExact ==
  IF consumed = NoTotal THEN Live = {} ELSE consumed = Measure(Live)

\* Nothing an address space could be handed lies below its floor: every address
\* under it is held by a committed row that blocks the space or is a position the
\* next allocation reserves again.
FloorSound ==
  \A s \in Space : floor[s] # NoFloor =>
    0 .. floor[s] - 1 \subseteq Covered({ r \in Live : Blocks(r, s) } \cup Reserved)

\* ErrPoolExhausted is returned only when no aligned block of that size is free
\* in the requester's space: starting at the floor loses no answer.
ExhaustedOnlyWhenFull ==
  \A t \in Txn : pc[t] = "exhausted" => FreeBlocks(Taken(t), req[t].n) = {}

\* A pool's row outlives every allocation made from it: the count taken before
\* the transaction, the reservations' own transaction and the foreign key
\* together never strand a row, its total or its floors.
NoOrphanRows == ~pool => rows = {} /\ consumed = NoTotal /\ \A s \in Space : floor[s] = NoFloor

\* Every request against the pool ends, whatever locks it meets on its way.
EveryRequestEnds == \A t \in Txn : pc[t] # "idle" ~> pc[t] = "idle"

----------------------------------------------------------------------------
\* The inductive invariant

HoldsPool == {"search", "exhausted", "conflict", "done", "fk"}

\* Who holds the pool lock, and whose uncommitted work a row can carry.
LockInv ==
  /\ \A t \in Txn : poolLock = t <=> pc[t] \in HoldsPool
  /\ \A t \in Txn : pc[t] = "search" => req[t] \in Request
  /\ \A t \in Txn : pc[t] = "lower" => Deleting(t) # {}
  /\ \A t \in Txn : todo[t] # {} => pc[t] = "lower"
  /\ \A r \in rows : r.purpose = "Reservation" => ~r.bound
  /\ \A r \in rows : r.xmin # NoTxn =>
       r.xmin = poolLock /\ pc[r.xmin] # "fk" /\ Deleting(r.xmin) = {}
  /\ \A r \in rows : r.xmax # NoTxn =>
       /\ r.xmin = NoTxn
       /\ pc[r.xmax] \in {"lower", "done"}
       /\ r.bound => r.policy = "Delete"

\* Rows are apart whether or not they are committed.
RowsApart ==
  /\ \A r \in rows : r.lo <= r.hi
  /\ \A r, q \in rows : r # q => Compatible(r, q)

\* The uncommitted total counts what its writer sees.
TotalInv ==
  /\ ConsumptionExact
  /\ (poolLock = NoTxn \/ \E t \in Txn : pc[t] = "fk") => pendConsumed = consumed
  /\ \A t \in Txn : pc[t] \in HoldsPool \ {"fk"} =>
       IF pendConsumed = NoTotal THEN Visible(t) = {}
       ELSE pendConsumed = Measure(Visible(t))

DroppedInv == NoOrphanRows /\ (~pool => poolLock = NoTxn)

\* Everything the transactions keep true at every step, committed or not: what
\* makes the pool lock, the row versions and the pending total agree.
IInv == TypeOK /\ LockInv /\ RowsApart /\ TotalInv /\ DroppedInv

----------------------------------------------------------------------------
\* The ledger this implements: the committed rows, without who wrote them.

Holding == [key : Key \cup {NoKey}, lo : Addr, hi : Addr,
            space : Space \cup {PoolDigest}, purpose : Purpose,
            policy : {"Delete", "Retain"}, bound : BOOLEAN]

Held(r) == [key |-> r.key, lo |-> r.lo, hi |-> r.hi, space |-> r.space,
            purpose |-> r.purpose, policy |-> r.policy, bound |-> r.bound]

Ledger == INSTANCE AddressLedger WITH
            held <- { Held(r) : r \in Live },
            total <- IF consumed = NoTotal THEN 0 ELSE consumed

\* To every observer of committed state, concurrent transactions, aborts and
\* releases look like whole grants, unbindings and frees of a ledger that is
\* always consistent and whose published total is always exact.
LedgerSpec == Ledger!Spec
=============================================================================
