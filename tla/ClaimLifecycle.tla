--------------------------- MODULE ClaimLifecycle ---------------------------
(***************************************************************************)
(* The life of a claim across transactions (internal/registry/ipam/ipclaim,*)
(* ipallocation and ippool, over internal/allocator/cascade.go and         *)
(* scoperange.go): resolving and provisioning a class's chain of pools,    *)
(* binding a block or a range, the two-transaction delete, retention, the  *)
(* release of a range with the pools under it, and deletes of IPAllocation *)
(* and IPPool objects.                                                     *)
(*                                                                         *)
(* One scope: level l of the chain is one pool, named l, carved from level *)
(* l - 1; level 0 is the operator's pool and is always there.  Requests    *)
(* interleave between transactions, and inside one wherever a statement    *)
(* reads without holding a lock on what it read.  Statements from the      *)
(* first lock a transaction depends on to its commit are one step: what    *)
(* they wrote is seen by nobody else before.                               *)
(***************************************************************************)
EXTENDS Integers, FiniteSets

CONSTANTS
  Req,          \* requests being served at one time
  Block, Range, \* names of Block claims and of ScopeRange claims
  Depth,        \* pools in the chain; blocks come from the last
  RangeLevels,  \* levels a ScopeRange claim may ask for
  Slots,        \* blocks the last pool holds
  Policies,     \* reclaim policies
  MaxAttempts,  \* deleteMaxAttempts
  Ops,          \* "Create", "Delete", "DeleteAllocation", "DeletePool"
  Repeated,     \* Block names whose deletes may overlap and be repeated
  None

VARIABLES
  pools,     \* levels whose IPPool object exists
  identity,  \* levels with a row in ipam_pool_identity
  idLock,    \* the open transaction that inserted the identity row of a level
  rows,      \* ipam_cidr_allocations: blocks and carves
  claims,    \* phase of each IPClaim object
  allocs,    \* each IPAllocation object: absent, bound or unbound
  pc, req

vars == <<pools, identity, idLock, rows, claims, allocs, pc, req>>
tables == <<pools, identity, rows, claims, allocs>>

Level == 1 .. Depth
Name == Block \cup Range

\* A chain has at least one pool, and objects of different kinds have different keys.
ASSUME ClaimAssumption ==
  /\ Depth \in Nat \ {0} /\ MaxAttempts \in Nat \ {0}
  /\ RangeLevels \subseteq Level
  /\ Policies \subseteq {"Delete", "Retain"}
  /\ Repeated \subseteq Block
  /\ None \notin Req \cup Name \cup Level
  /\ Block \cap Range = {} /\ Name \cap Level = {}

Row == [pool : 0 .. Depth, key : Block \cup Level, claim : Name \cup Level \cup {None},
        policy : {"Delete", "Retain"}]

Request == [name : Name \cup {None}, at : Level, to : Level, policy : Policies \cup {"Delete"},
            dry : BOOLEAN, tries : 1 .. MaxAttempts]

Idle == [name |-> None, at |-> 1, to |-> 1, policy |-> "Delete", dry |-> FALSE, tries |-> 1]

Deleting == {"tx1", "release", "delAlloc", "delClaim", "find", "read", "free",
             "freeAlloc", "dropAlloc"}
Creating == {"lookup", "claimId", "lost", "carve", "bind"}

\* Every variable keeps its type, and an uncommitted identity row belongs to the
\* request that is carving that level's pool.
TypeOK ==
  /\ pools \subseteq Level /\ identity \subseteq Level
  /\ idLock \in [Level -> Req \cup {None}]
  /\ rows \subseteq Row
  /\ claims \in [Name -> {"none", "Bound", "Releasing"}]
  /\ allocs \in [Block -> {"none", "bound", "unbound"}]
  /\ pc \in [Req -> Deleting \cup Creating \cup {"idle", "dropPool", "dropObject"}]
  /\ req \in [Req -> Request]
  /\ \A l \in Level, r \in Req : idLock[l] = r <=> pc[r] = "carve" /\ req[r].at = l

Init ==
  /\ pools = {} /\ identity = {} /\ rows = {}
  /\ idLock = [l \in Level |-> None]
  /\ claims = [n \in Name |-> "none"]
  /\ allocs = [n \in Block |-> "none"]
  /\ pc = [r \in Req |-> "idle"]
  /\ req = [r \in Req |-> Idle]

InPool(l) == { w \in rows : w.pool = l }
HeldBy(c) == { w \in rows : w.claim = c }
OfKey(k) == { w \in rows : w.key = k }

GoTo(r, where) == pc' = [pc EXCEPT ![r] = where] /\ UNCHANGED req

End(r) == pc' = [pc EXCEPT ![r] = "idle"] /\ req' = [req EXCEPT ![r] = Idle]

-----------------------------------------------------------------------------
(***************************************************************************)
(* A request arrives and reads what it acts on.                            *)
(***************************************************************************)
\* No request about name n is at one of these steps.
Free(n, steps) == \A q \in Req : pc[q] \in steps => req[q].name # n

BeginCreate(r) ==
  /\ pc[r] = "idle" /\ "Create" \in Ops
  /\ \E n \in Name, to \in Level, policy \in Policies, dry \in BOOLEAN :
       /\ IF n \in Block THEN to = Depth ELSE to \in RangeLevels
       /\ n \in Repeated => Free(n, Deleting)
       /\ req' = [req EXCEPT ![r] = [Idle EXCEPT !.name = n, !.to = to, !.dry = dry,
                                       !.policy = IF n \in Block THEN policy ELSE "Delete"]]
  /\ pc' = [pc EXCEPT ![r] = "lookup"]
  /\ UNCHANGED <<tables, idLock>>

\* Either several requests at a time delete what a name stands for and none is
\* creating it, or one is deleting it and others may be creating it.
MayDelete(n) == Free(n, IF n \in Repeated THEN Creating ELSE Deleting)

BeginDelete(r) ==
  /\ pc[r] = "idle" /\ "Delete" \in Ops
  /\ \E n \in Name : /\ claims[n] # "none" /\ MayDelete(n)
                     /\ req' = [req EXCEPT ![r] = [Idle EXCEPT !.name = n]]
                     /\ pc' = [pc EXCEPT ![r] = IF n \in Block THEN "tx1" ELSE "find"]
  /\ UNCHANGED <<tables, idLock>>

\* ValidateDelete refuses an IPAllocation that names a claim.
BeginDeleteAllocation(r) ==
  /\ pc[r] = "idle" /\ "DeleteAllocation" \in Ops
  /\ \E n \in Block : /\ allocs[n] = "unbound" /\ MayDelete(n)
                      /\ req' = [req EXCEPT ![r] = [Idle EXCEPT !.name = n]]
  /\ pc' = [pc EXCEPT ![r] = "freeAlloc"]
  /\ UNCHANGED <<tables, idLock>>

\* A pool with anything allocated from it is refused.
BeginDeletePool(r) ==
  /\ pc[r] = "idle" /\ "DeletePool" \in Ops
  /\ \E l \in pools : /\ InPool(l) = {}
                      /\ req' = [req EXCEPT ![r] = [Idle EXCEPT !.at = l]]
  /\ pc' = [pc EXCEPT ![r] = "dropPool"]
  /\ UNCHANGED <<tables, idLock>>

-----------------------------------------------------------------------------
(***************************************************************************)
(* ensureLevel, from the root of the chain down.                           *)
(***************************************************************************)
NextLevel(r) ==
  IF req[r].at = req[r].to THEN GoTo(r, "bind")
  ELSE /\ pc' = [pc EXCEPT ![r] = "lookup"]
       /\ req' = [req EXCEPT ![r].at = @ + 1]

LookupPoolIdentity(r) ==
  /\ pc[r] = "lookup"
  /\ IF req[r].at \in identity THEN NextLevel(r) ELSE GoTo(r, "claimId")
  /\ UNCHANGED <<tables, idLock>>

\* INSERT ... ON CONFLICT DO NOTHING waits for an open inserter.
ClaimPoolIdentity(r) ==
  /\ pc[r] = "claimId" /\ idLock[req[r].at] = None
  /\ IF req[r].at \in identity THEN GoTo(r, "lost") /\ UNCHANGED idLock
     ELSE GoTo(r, "carve") /\ idLock' = [idLock EXCEPT ![req[r].at] = r]
  /\ UNCHANGED tables

\* Faulty variant: a loser that finds no winner waits for one.
ReadWinner_Waits(r) ==
  /\ pc[r] = "lost" /\ req[r].at \in identity
  /\ NextLevel(r)
  /\ UNCHANGED <<tables, idLock>>

\* The loser reads the winner's row in a statement of its own.
ReadWinner(r) ==
  /\ pc[r] = "lost"
  /\ IF req[r].at \in identity THEN NextLevel(r) ELSE End(r)
  /\ UNCHANGED <<tables, idLock>>

Carve(l) == [pool |-> l - 1, key |-> l, claim |-> l, policy |-> "Delete"]

\* The source must still exist, and the carve's keys and the object's be free.
CanProvision(l) ==
  /\ l = 1 \/ l - 1 \in pools
  /\ l \notin pools /\ OfKey(l) = {} /\ HeldBy(l) = {}

Unlock(r) == idLock' = [l \in Level |-> IF idLock[l] = r THEN None ELSE idLock[l]]

\* Faulty variant: a pool that could not be carved leaves its identity row open.
ProvisionPool_NoRollback(r) ==
  LET l == req[r].at
  IN  /\ pc[r] = "carve"
      /\ IF CanProvision(l)
         THEN /\ rows' = rows \cup {Carve(l)}
              /\ pools' = pools \cup {l}
              /\ identity' = identity \cup {l}
              /\ NextLevel(r) /\ Unlock(r)
         ELSE End(r) /\ UNCHANGED <<pools, identity, rows, idLock>>
      /\ UNCHANGED <<claims, allocs>>

\* The carve, the pool object and the identity row commit together.
ProvisionPool(r) ==
  LET l == req[r].at
  IN  /\ pc[r] = "carve"
      /\ IF CanProvision(l)
         THEN /\ rows' = rows \cup {Carve(l)}
              /\ pools' = pools \cup {l}
              /\ identity' = identity \cup {l}
              /\ NextLevel(r)
         ELSE End(r) /\ UNCHANGED <<pools, identity, rows>>
      /\ Unlock(r)
      /\ UNCHANGED <<claims, allocs>>

-----------------------------------------------------------------------------
(***************************************************************************)
(* The last transaction of Create.                                         *)
(***************************************************************************)
\* The pool exists and has room, and no unique key is taken.
CanAllocate(n) ==
  /\ Depth \in pools /\ Cardinality(InPool(Depth)) < Slots
  /\ OfKey(n) = {} /\ HeldBy(n) = {}
  /\ allocs[n] = "none" /\ claims[n] = "none"

AllocateBlock(r) ==
  LET n == req[r].name
  IN  /\ pc[r] = "bind" /\ n \in Block
      /\ IF CanAllocate(n) /\ ~req[r].dry
         THEN /\ rows' = rows \cup {[pool |-> Depth, key |-> n, claim |-> n,
                                     policy |-> req[r].policy]}
              /\ allocs' = [allocs EXCEPT ![n] = "bound"]
              /\ claims' = [claims EXCEPT ![n] = "Bound"]
         ELSE UNCHANGED <<rows, allocs, claims>>
      /\ End(r)
      /\ UNCHANGED <<pools, identity, idLock>>

Rebind(w, c) == (rows \ {w}) \cup {[w EXCEPT !.claim = c]}

\* Faulty variant: the UPDATE takes the carve whoever holds it.
BindScopeRange_AnyHolder(r) ==
  LET free == OfKey(req[r].to)
      ok == free # {} /\ claims[req[r].name] = "none" /\ ~req[r].dry
  IN  /\ pc[r] = "bind" /\ req[r].name \in Range
      /\ IF ok THEN /\ \E w \in free : rows' = Rebind(w, req[r].name)
                    /\ claims' = [claims EXCEPT ![req[r].name] = "Bound"]
         ELSE UNCHANGED <<rows, claims>>
      /\ End(r)
      /\ UNCHANGED <<pools, identity, idLock, allocs>>

\* Only a carve its own pool holds can be taken.
BindScopeRange(r) ==
  LET free == OfKey(req[r].to) \cap HeldBy(req[r].to)
      ok == free # {} /\ claims[req[r].name] = "none" /\ ~req[r].dry
  IN  /\ pc[r] = "bind" /\ req[r].name \in Range
      /\ IF ok THEN /\ \E w \in free : rows' = Rebind(w, req[r].name)
                    /\ claims' = [claims EXCEPT ![req[r].name] = "Bound"]
         ELSE UNCHANGED <<rows, claims>>
      /\ End(r)
      /\ UNCHANGED <<pools, identity, idLock, allocs>>

-----------------------------------------------------------------------------
(***************************************************************************)
(* Delete of a Block claim.                                                *)
(***************************************************************************)
PublishReleasing(r) ==
  /\ pc[r] = "tx1"
  /\ IF claims[req[r].name] = "none" THEN End(r) /\ UNCHANGED claims
     ELSE /\ claims' = [claims EXCEPT ![req[r].name] = "Releasing"]
          /\ GoTo(r, "release")
  /\ UNCHANGED <<pools, identity, idLock, rows, allocs>>

Unbound(held) == { [w EXCEPT !.claim = None] : w \in { v \in held : v.policy = "Retain" } }

TryAgain(r) ==
  IF req[r].tries < MaxAttempts
  THEN /\ pc' = [pc EXCEPT ![r] = "release"]
       /\ req' = [req EXCEPT ![r].tries = @ + 1]
  ELSE End(r)

\* Faulty variant: the IPAllocation goes although its row was retained.
ReleaseAndDelete_DropsObject(r) ==
  LET n == req[r].name
  IN  /\ pc[r] = "release"
      /\ IF HeldBy(n) = {} THEN GoTo(r, "delAlloc") /\ UNCHANGED <<rows, allocs, claims>>
         ELSE /\ rows' = (rows \ HeldBy(n)) \cup Unbound(HeldBy(n))
              /\ allocs' = [allocs EXCEPT ![n] = "none"]
              /\ claims' = [claims EXCEPT ![n] = "none"]
              /\ End(r)
      /\ UNCHANGED <<pools, identity, idLock>>

\* Release the rows the claim holds, then the IPAllocation, then the claim.  The
\* released row locks the name; if there is none, nothing is locked yet.  The
\* answer to the COMMIT may be lost, and the loop goes round again.
ReleaseAndDelete(r) ==
  LET n == req[r].name
  IN  /\ pc[r] = "release"
      /\ IF HeldBy(n) = {} THEN GoTo(r, "delAlloc") /\ UNCHANGED <<rows, allocs, claims>>
         ELSE /\ rows' = (rows \ HeldBy(n)) \cup Unbound(HeldBy(n))
              /\ allocs' = [allocs EXCEPT ![n] =
                   IF Unbound(HeldBy(n)) = {} \/ @ = "none" THEN "none" ELSE "unbound"]
              /\ claims' = [claims EXCEPT ![n] = "none"]
              /\ End(r) \/ (n \in Repeated /\ TryAgain(r))
      /\ UNCHANGED <<pools, identity, idLock>>

\* No row was released: the IPAllocation is not among the retained keys, so it is
\* deleted.  Its row locks the name as well.
DeleteAllocationObject(r) ==
  LET n == req[r].name
  IN  /\ pc[r] = "delAlloc"
      /\ IF allocs[n] = "none" THEN GoTo(r, "delClaim") /\ UNCHANGED <<allocs, claims>>
         ELSE /\ allocs' = [allocs EXCEPT ![n] = "none"]
              /\ claims' = [claims EXCEPT ![n] = "none"]
              /\ End(r)
      /\ UNCHANGED <<pools, identity, idLock, rows>>

DeleteClaimObject(r) ==
  /\ pc[r] = "delClaim"
  /\ claims' = [claims EXCEPT ![req[r].name] = "none"]
  /\ End(r)
  /\ UNCHANGED <<pools, identity, idLock, rows, allocs>>

\* An attempt fails and is rolled back; the last failure leaves the claim Releasing.
FailAttempt(r) ==
  /\ pc[r] \in {"release", "delAlloc"} \/ (pc[r] = "delClaim" /\ req[r].name \in Block)
  /\ TryAgain(r)
  /\ UNCHANGED <<tables, idLock>>

-----------------------------------------------------------------------------
(***************************************************************************)
(* Delete of a ScopeRange claim: one transaction that may be refused.      *)
(***************************************************************************)
FindScopeRange(r) ==
  LET held == HeldBy(req[r].name)
  IN  /\ pc[r] = "find"
      /\ IF held = {} THEN GoTo(r, "delClaim")
         ELSE \E w \in held : /\ req' = [req EXCEPT ![r].at = w.key, ![r].to = w.key]
                              /\ pc' = [pc EXCEPT ![r] = "read"]
      /\ UNCHANGED <<tables, idLock>>

\* releaseRangeTree reads one pool after another, without locks: a carve its own
\* pool holds is a child to release, anything else an occupant.
ReadOccupants(r) ==
  LET l == req[r].at
      children == { w \in InPool(l) : w.key \in Level /\ w.claim = w.key }
  IN  /\ pc[r] = "read"
      /\ IF InPool(l) # children THEN End(r)
         ELSE IF children = {} THEN GoTo(r, "free")
         ELSE req' = [req EXCEPT ![r].at = @ + 1] /\ UNCHANGED pc
      /\ UNCHANGED <<tables, idLock>>

Freed(r) == req[r].to .. req[r].at

\* Faulty variant: the allocation rows do not hold their pools back.
ReleaseRangeTree_NoRestrict(r) ==
  LET F == Freed(r)
  IN  /\ pc[r] = "free"
      /\ rows' = { w \in rows : w.key \notin F }
      /\ pools' = pools \ F /\ identity' = identity \ F
      /\ claims' = [claims EXCEPT ![req[r].name] = "none"]
      /\ End(r)
      /\ UNCHANGED <<idLock, allocs>>

\* Carves and pools go, children first; a pool with a row left in it is refused by
\* the foreign key, and the whole transaction with it.  If another request freed
\* the range meanwhile, nothing is locked yet.
ReleaseRangeTree(r) ==
  LET F == Freed(r)
      left == { w \in rows : w.key \notin F }
  IN  /\ pc[r] = "free"
      /\ IF F \cap pools = {} /\ left = rows
         THEN GoTo(r, "delClaim") /\ UNCHANGED tables
         ELSE /\ IF \E w \in left : w.pool \in F THEN UNCHANGED <<pools, identity, rows, claims>>
                 ELSE /\ rows' = left
                      /\ pools' = pools \ F /\ identity' = identity \ F
                      /\ claims' = [claims EXCEPT ![req[r].name] = "none"]
              /\ End(r)
              /\ UNCHANGED allocs
      /\ UNCHANGED idLock

-----------------------------------------------------------------------------
(***************************************************************************)
(* Delete of an IPAllocation and of a child IPPool.                        *)
(***************************************************************************)
\* ReleaseAllocation by key, then the object.
FreeAllocation(r) ==
  LET n == req[r].name
  IN  /\ pc[r] = "freeAlloc"
      /\ IF OfKey(n) = {} THEN GoTo(r, "dropAlloc") /\ UNCHANGED <<rows, allocs>>
         ELSE /\ rows' = rows \ OfKey(n)
              /\ allocs' = [allocs EXCEPT ![n] = "none"]
              /\ End(r)
      /\ UNCHANGED <<pools, identity, idLock, claims>>

DropAllocation(r) ==
  /\ pc[r] = "dropAlloc"
  /\ allocs' = [allocs EXCEPT ![req[r].name] = "none"]
  /\ End(r)
  /\ UNCHANGED <<pools, identity, idLock, rows, claims>>

\* Faulty variant: the identity row does not go with its pool.
DropObject_KeepsIdentity(r, left) ==
  IF \E w \in left : w.pool = req[r].at THEN UNCHANGED <<pools, identity, rows>>
  ELSE pools' = pools \ {req[r].at} /\ rows' = left /\ UNCHANGED identity

\* ON DELETE RESTRICT from the allocation rows, ON DELETE CASCADE to the identity.
DropObject(r, left) ==
  IF \E w \in left : w.pool = req[r].at THEN UNCHANGED <<pools, identity, rows>>
  ELSE /\ pools' = pools \ {req[r].at} /\ identity' = identity \ {req[r].at}
       /\ rows' = left

\* Release of the rows the pool itself holds, then the object.
DeletePool(r) ==
  LET self == HeldBy(req[r].at)
  IN  /\ pc[r] = "dropPool"
      /\ IF self = {} THEN GoTo(r, "dropObject") /\ UNCHANGED <<pools, identity, rows>>
         ELSE DropObject(r, rows \ self) /\ End(r)
      /\ UNCHANGED <<idLock, claims, allocs>>

DeletePoolObject(r) ==
  /\ pc[r] = "dropObject"
  /\ DropObject(r, rows)
  /\ End(r)
  /\ UNCHANGED <<idLock, claims, allocs>>

-----------------------------------------------------------------------------
\* The request is cancelled, its connection lost or the server stopped: the open
\* transaction is rolled back, the committed ones stay.
Abort(r) ==
  /\ pc[r] # "idle"
  /\ End(r)
  /\ Unlock(r)
  /\ UNCHANGED tables

Step(r) ==
  \/ LookupPoolIdentity(r) \/ ClaimPoolIdentity(r) \/ ReadWinner(r) \/ ProvisionPool(r)
  \/ AllocateBlock(r) \/ BindScopeRange(r)
  \/ PublishReleasing(r) \/ ReleaseAndDelete(r) \/ DeleteAllocationObject(r)
  \/ DeleteClaimObject(r)
  \/ FindScopeRange(r) \/ ReadOccupants(r) \/ ReleaseRangeTree(r)
  \/ FreeAllocation(r) \/ DropAllocation(r) \/ DeletePool(r) \/ DeletePoolObject(r)

Next ==
  \E r \in Req : \/ BeginCreate(r) \/ BeginDelete(r) \/ BeginDeleteAllocation(r)
                 \/ BeginDeletePool(r) \/ Step(r) \/ FailAttempt(r) \/ Abort(r)

Spec == Init /\ [][Next]_vars

\* A request goes on until it ends.  PostgreSQL queues those who wait for an
\* identity row, so one that keeps finding it free gets it.
Fairness == \A r \in Req : SF_vars(Step(r))

FairSpec == Spec /\ Fairness

-----------------------------------------------------------------------------
(***************************************************************************)
(* Properties.                                                             *)
(***************************************************************************)
\* The range of every provisioned pool stays withheld from the pool it was carved
\* from, and whatever is allocated lies in a pool that exists: no release,
\* refused or raced, hands back addresses something still stands on.
ChainWithheld ==
  /\ \A l \in pools : \E w \in rows : w.pool = l - 1 /\ w.key = l
  /\ \A w \in rows : w.pool = 0 \/ w.pool \in pools

\* A committed identity row names a pool that exists and every provisioned pool
\* has one: the loser of a provisioning race can use the winner's pool, and the
\* scope of a deleted pool can be provisioned again.
IdentityNamesPool == identity = pools

\* No block leaks: a claim exists exactly while it holds a row, its IPAllocation
\* says so, and one that names no claim still stands for a row.  Where deletes
\* are not repeated, a retained row keeps the IPAllocation it is released by.
BlocksAccounted ==
  \A n \in Block :
    /\ claims[n] # "none" <=> HeldBy(n) # {}
    /\ allocs[n] = "bound" <=> HeldBy(n) # {}
    /\ allocs[n] = "unbound" => OfKey(n) # {}
    /\ n \notin Repeated /\ OfKey(n) # {} => allocs[n] # "none"

\* A ScopeRange claim exists exactly while it holds one range.
RangesAccounted ==
  \A g \in Range : IF claims[g] = "none" THEN HeldBy(g) = {} ELSE \E w \in rows : HeldBy(g) = {w}

\* Every create and delete ends, even when requests race for one identity row.
EveryRequestEnds == \A r \in Req : pc[r] # "idle" ~> pc[r] = "idle"

\* A retained row keeps the IPAllocation whose deletion hands its address back.
RetainedIsReleasable == \A n \in Block : \A w \in OfKey(n) : w.claim = None => allocs[n] # "none"

\* A carve is gone once the pool it was made for is.
CarveHasPool == \A w \in rows : w.key \in Level => w.key \in pools
=============================================================================
