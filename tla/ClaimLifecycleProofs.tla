------------------------ MODULE ClaimLifecycleProofs ------------------------
(***************************************************************************)
(* ClaimLifecycle keeps its invariants for any requests, names, depth of   *)
(* the chain and bound on attempts.                                        *)
(*                                                                         *)
(* First what every step preserves of the tables of pools and rows and of  *)
(* the requests' own state: types, the shape of rows and requests, the     *)
(* chain of pools, and the turns that requests for one name take.  With    *)
(* what a delete between its transactions may rely on, they make ClaimInv, *)
(* which is inductive.  RangeInv is inductive beside it where ScopeRange   *)
(* claims are all made at one level.                                       *)
(***************************************************************************)
EXTENDS ClaimLifecycle, TLAPS

-----------------------------------------------------------------------------
(***************************************************************************)
(* The inductive invariant.                                                *)
(***************************************************************************)
Releases == {"tx1", "release", "delAlloc", "freeAlloc", "dropAlloc"}
Ranging == {"find", "read", "free"}

\* What a request acts on fits the step it is at, and a create never stands
\* below the level it asked for.
ReqShape ==
  \A r \in Req :
    /\ pc[r] \in Releases => req[r].name \in Block
    /\ pc[r] \in Ranging => req[r].name \in Range
    /\ pc[r] = "delClaim" => req[r].name \in Name
    /\ pc[r] \in Creating => req[r].name \in Name /\ req[r].at <= req[r].to

\* A block lies in the last pool and is held by its claim or by nobody; a carve
\* lies in the pool above and is held by its pool or by a ScopeRange claim.
RowShape ==
  \A w \in rows :
    /\ w.key \in Block => w.pool = Depth /\ w.claim \in {w.key, None}
    /\ w.key \in Level => w.pool = w.key - 1 /\ w.claim \in {w.key} \cup Range

\* The actions of request r: those that read the tables or end, and those that
\* write them.
Looks(r) ==
  \/ BeginCreate(r) \/ BeginDelete(r) \/ BeginDeleteAllocation(r) \/ BeginDeletePool(r)
  \/ LookupPoolIdentity(r) \/ ClaimPoolIdentity(r) \/ ReadWinner(r)
  \/ FindScopeRange(r) \/ ReadOccupants(r) \/ FailAttempt(r) \/ Abort(r)

Writes(r) ==
  \/ ProvisionPool(r) \/ AllocateBlock(r) \/ BindScopeRange(r)
  \/ PublishReleasing(r) \/ ReleaseAndDelete(r) \/ DeleteAllocationObject(r) \/ DeleteClaimObject(r)
  \/ ReleaseRangeTree(r) \/ FreeAllocation(r) \/ DropAllocation(r)
  \/ DeletePool(r) \/ DeletePoolObject(r)

Acts(r) == Looks(r) \/ Writes(r)

\* Every step is an action of one request.
LEMMA NextActs == Next => \E r \in Req : Acts(r)
  BY DEF Next, Step, Acts, Looks, Writes

\* An action that only reads leaves the tables alone.
LEMMA LooksOnly ==
  ASSUME NEW r, Looks(r)
  PROVE  pools' = pools /\ identity' = identity /\ rows' = rows /\ claims' = claims /\ allocs' = allocs
  <1>1. CASE BeginCreate(r) \/ BeginDelete(r)
    BY Zenon, <1>1 DEF BeginCreate, BeginDelete, tables
  <1>2. CASE BeginDeleteAllocation(r) \/ BeginDeletePool(r)
    BY <1>2 DEF BeginDeleteAllocation, BeginDeletePool, tables
  <1>3. CASE LookupPoolIdentity(r) \/ ClaimPoolIdentity(r) \/ ReadWinner(r)
    BY <1>3 DEF LookupPoolIdentity, ClaimPoolIdentity, ReadWinner, tables
  <1>4. CASE FindScopeRange(r) \/ ReadOccupants(r)
    BY <1>4 DEF FindScopeRange, ReadOccupants, tables
  <1>5. CASE FailAttempt(r) \/ Abort(r)
    BY <1>5 DEF FailAttempt, Abort, tables
  <1> QED BY <1>1, <1>2, <1>3, <1>4, <1>5 DEF Looks

Steps == Deleting \cup Creating \cup {"idle", "dropPool", "dropObject"}

\* The part of TypeOK about the requests.
Control ==
  /\ pc \in [Req -> Steps]
  /\ req \in [Req -> Request]
  /\ idLock \in [Level -> Req \cup {None}]
  /\ \A l \in Level, r \in Req : idLock[l] = r <=> pc[r] = "carve" /\ req[r].at = l

\* A request with nothing to do is a request.
LEMMA IdleTyped == Idle \in Request
  BY ClaimAssumption DEF Idle, Request, Level

\* A request may be pointed at a level of the chain.
LEMMA RequestAt ==
  ASSUME NEW q \in Request, NEW l \in Level
  PROVE  [q EXCEPT !.at = l, !.to = l] \in Request
  BY Zenon DEF Request

\* A request may go to another level of its chain.
LEMMA RequestGoes ==
  ASSUME NEW q \in Request, NEW l \in Level
  PROVE  [q EXCEPT !.at = l] \in Request
  BY Zenon DEF Request

\* A request may count its attempts.
LEMMA RequestTries ==
  ASSUME NEW q \in Request, NEW k \in 1 .. MaxAttempts
  PROVE  [q EXCEPT !.tries = k] \in Request
  BY Zenon DEF Request

\* A create asks for a name, down to a level.
LEMMA RequestNew ==
  ASSUME NEW n \in Name, NEW to \in Level, NEW policy \in Policies \cup {"Delete"}, NEW dry \in BOOLEAN
  PROVE  [Idle EXCEPT !.name = n, !.to = to, !.dry = dry, !.policy = policy] \in Request
  <1>1. PICK q \in Request : q = Idle
    BY Zenon, IdleTyped
  <1>2. [q EXCEPT !.name = n, !.to = to, !.dry = dry, !.policy = policy] \in Request
    BY Zenon DEF Request
  <1> QED BY Zenon, <1>1, <1>2

\* A request moves, and neither holds an identity row before nor after.
LEMMA MoveControl ==
  ASSUME NEW r \in Req, NEW p \in Steps, NEW q \in Request, Control,
         pc' = [pc EXCEPT ![r] = p], req' = [req EXCEPT ![r] = q],
         pc[r] # "carve", p # "carve", UNCHANGED idLock
  PROVE  Control'
  BY ClaimAssumption DEF Control

\* A request that goes to a step other than the carve, whatever it then asks.
LEMMA SetControl ==
  ASSUME NEW r \in Req, Control, NEW p \in Steps, p # "carve", NEW q \in Request,
         pc' = [pc EXCEPT ![r] = p], req' = [req EXCEPT ![r] = q],
         (pc[r] # "carve" /\ UNCHANGED idLock) \/ Unlock(r)
  PROVE  Control'
  <1>1. pc' \in [Req -> Steps] /\ req' \in [Req -> Request] /\ idLock' \in [Level -> Req \cup {None}]
    BY DEF Control, Unlock
  <1>2. ASSUME NEW l \in Level, NEW u \in Req
        PROVE  idLock'[l] = u <=> pc'[u] = "carve" /\ req'[u].at = l
    <2>1. CASE u = r
      BY <2>1, ClaimAssumption DEF Control, Unlock
    <2>2. CASE u # r
      BY <2>2, ClaimAssumption DEF Control, Unlock
    <2> QED BY <2>1, <2>2
  <1> QED BY <1>1, <1>2 DEF Control

\* A request that ends gives up the identity row it may have open.
LEMMA EndControl ==
  ASSUME NEW r \in Req, Control, End(r), (pc[r] # "carve" /\ UNCHANGED idLock) \/ Unlock(r)
  PROVE  Control'
  BY Zenon, IdleTyped, SetControl DEF End, Steps

\* A request that goes on to a step other than the carve.
LEMMA GoToControl ==
  ASSUME NEW r \in Req, NEW p \in Steps, Control, GoTo(r, p), p # "carve", pc[r] # "carve", UNCHANGED idLock
  PROVE  Control'
  BY ClaimAssumption DEF Control, GoTo

\* A create that goes one level down stays within the chain.
LEMMA NextLevelControl ==
  ASSUME NEW r \in Req, Control, ReqShape, NextLevel(r), pc[r] \in Creating,
         (pc[r] # "carve" /\ UNCHANGED idLock) \/ Unlock(r)
  PROVE  Control'
  <1>1. CASE req[r].at = req[r].to
    <2>1. pc' = [pc EXCEPT ![r] = "bind"] /\ req' = req
      BY <1>1 DEF NextLevel, GoTo
    <2>2. req' = [req EXCEPT ![r] = req[r]] /\ req[r] \in Request /\ "bind" \in Steps
      BY <2>1 DEF Control, Steps, Creating
    <2> QED BY Zenon, <2>1, <2>2, SetControl
  <1>2. CASE req[r].at # req[r].to
    <2>1. req[r].at + 1 \in Level
      <3>1. req[r].at \in Level /\ req[r].to \in Level /\ req[r].at <= req[r].to
        BY DEF Control, ReqShape, Request
      <3> QED BY <1>2, <3>1, ClaimAssumption DEF Level
    <2>2. [req[r] EXCEPT !.at = @ + 1] \in Request
      <3>1. req[r] \in Request
        BY DEF Control
      <3> QED BY Zenon, <2>1, <3>1, RequestGoes
    <2>3. /\ req' = [req EXCEPT ![r] = [req[r] EXCEPT !.at = @ + 1]]
          /\ pc' = [pc EXCEPT ![r] = "lookup"]
      BY <1>2 DEF NextLevel
    <2>4. "lookup" \in Steps
      BY DEF Steps, Creating
    <2> QED BY Zenon, <2>2, <2>3, <2>4, SetControl
  <1> QED BY <1>1, <1>2

\* deleteMaxAttempts bounds the attempts of a delete.
LEMMA TryAgainControl ==
  ASSUME NEW r \in Req, Control, TryAgain(r), pc[r] # "carve", UNCHANGED idLock
  PROVE  Control'
  <1>1. CASE req[r].tries < MaxAttempts
    <2>1. [req[r] EXCEPT !.tries = @ + 1] \in Request
      <3>1. req[r] \in Request
        BY DEF Control
      <3>2. req[r].tries + 1 \in 1 .. MaxAttempts
        BY <1>1, <3>1, ClaimAssumption DEF Request
      <3> QED BY Zenon, <3>1, <3>2, RequestTries
    <2>2. /\ req' = [req EXCEPT ![r] = [req[r] EXCEPT !.tries = @ + 1]]
          /\ pc' = [pc EXCEPT ![r] = "release"]
      BY <1>1 DEF TryAgain
    <2>3. "release" \in Steps
      BY DEF Steps, Deleting
    <2> QED BY Zenon, <2>1, <2>2, <2>3, SetControl
  <1>2. CASE ~ (req[r].tries < MaxAttempts)
    BY <1>2, EndControl DEF TryAgain
  <1> QED BY <1>1, <1>2


\* The part of TypeOK about the tables.
Tables ==
  /\ pools \subseteq Level /\ identity \subseteq Level
  /\ rows \subseteq Row
  /\ claims \in [Name -> {"none", "Bound", "Releasing"}]
  /\ allocs \in [Block -> {"none", "bound", "unbound"}]

\* The type invariant is the two parts above.
LEMMA TypeSplit == TypeOK <=> Control /\ Tables
  BY DEF TypeOK, Control, Tables, Steps

\* Every action keeps the requests typed, and an open identity row with the
\* request that is carving the pool.
LEMMA ControlStep ==
  ASSUME NEW r \in Req, Control, Tables, ReqShape, RowShape, Acts(r)
  PROVE  Control'
  <1> USE DEF Steps, Deleting, Creating
  <1>1. CASE BeginCreate(r)
    <2>1. PICK n \in Name, to \in Level, policy \in Policies, dry \in BOOLEAN :
            req' = [req EXCEPT ![r] = [Idle EXCEPT !.name = n, !.to = to, !.dry = dry,
                                         !.policy = IF n \in Block THEN policy ELSE "Delete"]]
      BY ZenonT(30), <1>1 DEF BeginCreate
    <2>2. [Idle EXCEPT !.name = n, !.to = to, !.dry = dry,
                       !.policy = IF n \in Block THEN policy ELSE "Delete"] \in Request
      BY Zenon, RequestNew
    <2> QED BY <1>1, <2>1, <2>2, ClaimAssumption DEF BeginCreate, Control
  <1>2. CASE BeginDelete(r)
    <2>1. PICK n \in Name : /\ req' = [req EXCEPT ![r] = [Idle EXCEPT !.name = n]]
                            /\ pc' = [pc EXCEPT ![r] = IF n \in Block THEN "tx1" ELSE "find"]
      BY Zenon, <1>2 DEF BeginDelete
    <2>2. [Idle EXCEPT !.name = n] \in Request
      BY IdleTyped DEF Request
    <2> QED BY <1>2, <2>1, <2>2, ClaimAssumption DEF BeginDelete, Control
  <1>3. CASE BeginDeleteAllocation(r)
    <2>1. PICK n \in Block : req' = [req EXCEPT ![r] = [Idle EXCEPT !.name = n]]
      BY Zenon, <1>3 DEF BeginDeleteAllocation
    <2>2. [Idle EXCEPT !.name = n] \in Request
      BY IdleTyped DEF Request, Name
    <2> QED BY <1>3, <2>1, <2>2, ClaimAssumption DEF BeginDeleteAllocation, Control
  <1>4. CASE BeginDeletePool(r)
    <2>1. PICK l \in pools : req' = [req EXCEPT ![r] = [Idle EXCEPT !.at = l]]
      BY Zenon, <1>4 DEF BeginDeletePool
    <2>2. [Idle EXCEPT !.at = l] \in Request
      BY IdleTyped DEF Request, Tables
    <2> QED BY <1>4, <2>1, <2>2, ClaimAssumption DEF BeginDeletePool, Control
  <1>5. CASE LookupPoolIdentity(r)
    BY <1>5, NextLevelControl, GoToControl DEF LookupPoolIdentity
  <1>6. CASE ClaimPoolIdentity(r)
    <2>1. CASE req[r].at \in identity
      BY <1>6, <2>1, GoToControl DEF ClaimPoolIdentity
    <2>2. CASE req[r].at \notin identity
      <3>1. /\ idLock[req[r].at] = None /\ pc[r] = "claimId" /\ req' = req
            /\ pc' = [pc EXCEPT ![r] = "carve"] /\ idLock' = [idLock EXCEPT ![req[r].at] = r]
        BY <1>6, <2>2 DEF ClaimPoolIdentity, GoTo
      <3>2. req[r].at \in Level /\ "carve" \in Steps
        BY DEF Control, Request, Steps, Creating
      <3> QED BY <3>1, <3>2, ClaimAssumption DEF Control
    <2> QED BY <2>1, <2>2
  <1>7. CASE ReadWinner(r)
    BY <1>7, NextLevelControl, EndControl DEF ReadWinner
  <1>8. CASE ProvisionPool(r)
    BY <1>8, NextLevelControl, EndControl DEF ProvisionPool
  <1>9. CASE AllocateBlock(r)
    BY <1>9, EndControl DEF AllocateBlock
  <1>10. CASE BindScopeRange(r)
    BY <1>10, EndControl DEF BindScopeRange
  <1>11. CASE PublishReleasing(r)
    BY <1>11, EndControl, GoToControl DEF PublishReleasing
  <1>12. CASE ReleaseAndDelete(r)
    BY <1>12, EndControl, GoToControl, TryAgainControl DEF ReleaseAndDelete
  <1>13. CASE DeleteAllocationObject(r)
    BY <1>13, EndControl, GoToControl DEF DeleteAllocationObject
  <1>14. CASE DeleteClaimObject(r)
    BY <1>14, EndControl DEF DeleteClaimObject
  <1>15. CASE FindScopeRange(r)
    <2>1. CASE HeldBy(req[r].name) = {}
      BY <1>15, <2>1, GoToControl DEF FindScopeRange
    <2>2. CASE HeldBy(req[r].name) # {}
      <3>1. PICK w \in HeldBy(req[r].name) :
              /\ req' = [req EXCEPT ![r].at = w.key, ![r].to = w.key]
              /\ pc' = [pc EXCEPT ![r] = "read"]
        BY Zenon, <1>15, <2>2 DEF FindScopeRange
      <3>2. req[r].name \in Range
        BY <1>15 DEF FindScopeRange, ReqShape, Ranging
      <3>3. w.key \in Level
        BY <3>2, ClaimAssumption DEF HeldBy, RowShape, Tables, Row, Name
      <3>4. [req[r] EXCEPT !.at = w.key, !.to = w.key] \in Request
        BY Zenon, <3>3, RequestAt DEF Control
      <3>5. req' = [req EXCEPT ![r] = [req[r] EXCEPT !.at = w.key, !.to = w.key]]
        BY Zenon, <3>1 DEF Control
      <3> QED BY Zenon, <1>15, <3>1, <3>4, <3>5, MoveControl DEF FindScopeRange
    <2> QED BY <2>1, <2>2
  <1>16. CASE ReadOccupants(r)
    <2> DEFINE children == { w \in InPool(req[r].at) : w.key \in Level /\ w.claim = w.key }
    <2>1. CASE InPool(req[r].at) # children
      BY <1>16, <2>1, EndControl DEF ReadOccupants
    <2>2. CASE InPool(req[r].at) = children /\ children = {}
      BY <1>16, <2>2, GoToControl DEF ReadOccupants
    <2>3. CASE InPool(req[r].at) = children /\ children # {}
      <3>1. PICK w \in rows : w.pool = req[r].at /\ w.key \in Level
        BY <2>3 DEF InPool
      <3>2. req[r].at = w.key - 1
        BY <3>1 DEF RowShape
      <3>3. req[r].at + 1 \in Level
        BY <3>1, <3>2, ClaimAssumption DEF Level
      <3>4. [req[r] EXCEPT !.at = @ + 1] \in Request
        <4>1. req[r] \in Request
          BY DEF Control
        <4> QED BY Zenon, <3>3, <4>1, RequestGoes
      <3>5. req' = [req EXCEPT ![r] = [req[r] EXCEPT !.at = @ + 1]] /\ pc' = pc
        BY <1>16, <2>3 DEF ReadOccupants
      <3> QED BY <1>16, <3>4, <3>5, ClaimAssumption DEF ReadOccupants, Control
    <2> QED BY <2>1, <2>2, <2>3
  <1>17. CASE ReleaseRangeTree(r)
    BY <1>17, EndControl, GoToControl DEF ReleaseRangeTree
  <1>18. CASE FreeAllocation(r)
    BY <1>18, EndControl, GoToControl DEF FreeAllocation
  <1>19. CASE DropAllocation(r)
    BY <1>19, EndControl DEF DropAllocation
  <1>20. CASE DeletePool(r)
    BY <1>20, EndControl, GoToControl DEF DeletePool
  <1>21. CASE DeletePoolObject(r)
    BY <1>21, EndControl DEF DeletePoolObject
  <1>22. CASE FailAttempt(r)
    BY <1>22, TryAgainControl DEF FailAttempt
  <1>23. CASE Abort(r)
    BY <1>23, EndControl DEF Abort
  <1> QED BY <1>1, <1>2, <1>3, <1>4, <1>5, <1>6, <1>7, <1>8, <1>9, <1>10, <1>11, <1>12,
             <1>13, <1>14, <1>15, <1>16, <1>17, <1>18, <1>19, <1>20, <1>21, <1>22, <1>23
          DEF Acts, Looks, Writes

-----------------------------------------------------------------------------
(***************************************************************************)
(* The tables.                                                             *)
(***************************************************************************)
\* allocation_key is a primary key.
OneRowPerKey == \A w, v \in rows : w.key = v.key => w = v

TablesInv == Tables /\ RowShape /\ OneRowPerKey /\ ChainWithheld /\ IdentityNamesPool

Standing == <<pools, identity, rows>>

\* The fields of a row.
LEMMA RowFields ==
  ASSUME Tables, NEW w \in rows
  PROVE  /\ w.pool \in 0 .. Depth /\ w.key \in Block \cup Level
         /\ w.claim \in Name \cup Level \cup {None} /\ w.policy \in {"Delete", "Retain"}
         /\ w \in Row
  BY DEF Tables, Row

\* What holds a row tells its key.
LEMMA Holder ==
  ASSUME Tables, RowShape, NEW w \in rows
  PROVE  /\ w.claim \in Block => w.key = w.claim
         /\ w.claim \in Level => w.key = w.claim
         /\ w.claim \in Range => w.key \in Level
  BY RowFields, ClaimAssumption DEF RowShape, Name

\* Rows may go, and then objects of pools with no row left, as long as no carve
\* goes without its pool.
LEMMA TablesShrink ==
  ASSUME TablesInv, NEW F, NEW left, left \subseteq rows,
         \A w \in rows \ left : w.key \in Block \/ w.key \in F,
         \A w \in left : w.pool \notin F,
         rows' = left, pools' = pools \ F, identity' = identity \ F
  PROVE  /\ pools' \subseteq Level /\ identity' \subseteq Level /\ rows' \subseteq Row
         /\ RowShape' /\ OneRowPerKey' /\ ChainWithheld' /\ IdentityNamesPool'
  <1>1. ChainWithheld'
    <2>1. ASSUME NEW l \in pools \ F
          PROVE  \E w \in left : w.pool = l - 1 /\ w.key = l
      <3>1. PICK w \in rows : w.pool = l - 1 /\ w.key = l
        BY <2>1 DEF TablesInv, ChainWithheld
      <3>2. l \notin Block
        BY ClaimAssumption DEF TablesInv, Tables, Name
      <3> QED BY <3>1, <3>2
    <2>2. ASSUME NEW w \in left
          PROVE  w.pool = 0 \/ w.pool \in pools \ F
      BY DEF TablesInv, ChainWithheld
    <2> QED BY <2>1, <2>2 DEF ChainWithheld
  <1> QED BY <1>1 DEF TablesInv, Tables, RowShape, OneRowPerKey, IdentityNamesPool

\* UPDATE of claim_key leaves the rest of a row alone.
LEMMA Relabelled ==
  ASSUME NEW w \in Row, NEW c \in Name \cup Level \cup {None}
  PROVE  /\ [w EXCEPT !.claim = c] \in Row
         /\ [w EXCEPT !.claim = c].claim = c
         /\ [w EXCEPT !.claim = c].key = w.key
         /\ [w EXCEPT !.claim = c].pool = w.pool
  BY DEF Row

\* A row may be handed to another claim.
LEMMA TablesRebind ==
  ASSUME TablesInv, NEW w \in rows, NEW c \in Name \cup Level \cup {None},
         w.key \in Block => c = None, w.key \in Level => c \in Range,
         rows' = Rebind(w, c), UNCHANGED <<pools, identity>>
  PROVE  /\ rows' \subseteq Row /\ RowShape' /\ OneRowPerKey'
         /\ ChainWithheld' /\ IdentityNamesPool'
  <1> DEFINE x == [w EXCEPT !.claim = c]
  <1>1. w \in Row
    BY DEF TablesInv, Tables
  <1>2. x \in Row /\ x.claim = c /\ x.key = w.key /\ x.pool = w.pool
    BY <1>1, Relabelled
  <1>3. rows' = (rows \ {w}) \cup {x}
    BY DEF Rebind
  <1> HIDE DEF x
  <1>4. rows' \subseteq Row
    BY <1>2, <1>3 DEF TablesInv, Tables
  <1>5. RowShape'
    BY <1>2, <1>3 DEF RowShape, TablesInv
  <1>6. OneRowPerKey'
    BY <1>2, <1>3 DEF OneRowPerKey, TablesInv
  <1>7. ChainWithheld'
    BY <1>2, <1>3 DEF ChainWithheld, TablesInv
  <1> QED BY <1>4, <1>5, <1>6, <1>7 DEF TablesInv, IdentityNamesPool

\* A new row with a new key, in a pool that exists.
LEMMA TablesAdd ==
  ASSUME TablesInv, NEW x \in Row, OfKey(x.key) = {}, NEW N, N \subseteq {x.key}, N \subseteq Level,
         x.key \in Block => x.pool = Depth /\ x.claim \in {x.key, None},
         x.key \in Level => x.pool = x.key - 1 /\ x.claim \in {x.key} \cup Range,
         x.pool = 0 \/ x.pool \in pools,
         rows' = rows \cup {x}, pools' = pools \cup N, identity' = identity \cup N
  PROVE  /\ pools' \subseteq Level /\ identity' \subseteq Level /\ rows' \subseteq Row
         /\ RowShape' /\ OneRowPerKey' /\ ChainWithheld' /\ IdentityNamesPool'
  <1>1. pools' \subseteq Level /\ identity' \subseteq Level /\ rows' \subseteq Row
    BY DEF TablesInv, Tables
  <1>2. RowShape'
    BY DEF RowShape, TablesInv
  <1>3. OneRowPerKey'
    BY DEF OneRowPerKey, TablesInv, OfKey
  <1>4. ChainWithheld'
    BY DEF ChainWithheld, TablesInv
  <1> QED BY <1>1, <1>2, <1>3, <1>4 DEF TablesInv, IdentityNamesPool

\* What a Block claim holds is one row, of its own key.
LEMMA HeldOnce ==
  ASSUME TablesInv, NEW n \in Block, HeldBy(n) # {}
  PROVE  \E w \in rows : HeldBy(n) = {w} /\ w.key = n /\ w.claim = n
  <1>1. PICK w \in rows : w.claim = n
    BY DEF HeldBy
  <1>2. \A v \in HeldBy(n) : v \in rows /\ v.key = n
    BY Holder DEF HeldBy, TablesInv
  <1>3. w \in HeldBy(n)
    BY <1>1 DEF HeldBy
  <1>4. HeldBy(n) = {w}
    BY <1>2, <1>3 DEF OneRowPerKey, TablesInv
  <1> QED BY <1>1, <1>2, <1>3, <1>4

\* Retention of one row clears its claim.
LEMMA UnboundOne ==
  ASSUME NEW w
  PROVE  Unbound({w}) = IF w.policy = "Retain" THEN {[w EXCEPT !.claim = None]} ELSE {}
  BY ZenonT(30) DEF Unbound

\* What a release makes of the one row the claim holds.
LEMMA Released ==
  ASSUME TablesInv, NEW n \in Block, HeldBy(n) # {}
  PROVE  \E w \in rows :
           /\ HeldBy(n) = {w} /\ w.key = n
           /\ IF w.policy = "Retain"
              THEN Unbound(HeldBy(n)) # {} /\ (rows \ HeldBy(n)) \cup Unbound(HeldBy(n)) = Rebind(w, None)
              ELSE Unbound(HeldBy(n)) = {} /\ (rows \ HeldBy(n)) \cup Unbound(HeldBy(n)) = rows \ {w}
  <1>1. PICK w \in rows : HeldBy(n) = {w} /\ w.key = n
    BY HeldOnce
  <1>2. Unbound(HeldBy(n)) = IF w.policy = "Retain" THEN {[w EXCEPT !.claim = None]} ELSE {}
    BY Zenon, <1>1, UnboundOne
  <1> QED BY Zenon, <1>1, <1>2 DEF Rebind

\* Every action keeps the rows in shape, the chain withheld and the identity rows
\* with their pools.
LEMMA TablesStep ==
  ASSUME NEW r \in Req, Control, ReqShape, TablesInv, Acts(r)
  PROVE  /\ pools' \subseteq Level /\ identity' \subseteq Level /\ rows' \subseteq Row
         /\ RowShape' /\ OneRowPerKey' /\ ChainWithheld' /\ IdentityNamesPool'
  <1> DEFINE Goal == /\ pools' \subseteq Level /\ identity' \subseteq Level /\ rows' \subseteq Row
                     /\ RowShape' /\ OneRowPerKey' /\ ChainWithheld' /\ IdentityNamesPool'
  <1>1. CASE UNCHANGED Standing
    <2>1. pools' = pools /\ identity' = identity /\ rows' = rows
      BY <1>1 DEF Standing
    <2> QED BY <2>1 DEF TablesInv, Tables, RowShape, OneRowPerKey, ChainWithheld, IdentityNamesPool
  <1>2. CASE ProvisionPool(r)
    <2> DEFINE l == req[r].at
    <2>1. l \in Level
      BY DEF Control, Request
    <2>2. CASE CanProvision(l)
      <3>1. Carve(l) \in Row
        BY <2>1, ClaimAssumption DEF Carve, Row, Level
      <3>2. Carve(l).key = l /\ Carve(l).pool = l - 1 /\ Carve(l).claim = l
        BY DEF Carve
      <3>3. l \notin Block
        BY <2>1, ClaimAssumption DEF Name
      <3>4. l - 1 = 0 \/ l - 1 \in pools
        BY <2>2, <2>1 DEF CanProvision
      <3>5. rows' = rows \cup {Carve(l)} /\ pools' = pools \cup {l} /\ identity' = identity \cup {l}
        BY <1>2, <2>2 DEF ProvisionPool
      <3>6. OfKey(l) = {}
        BY <2>2 DEF CanProvision
      <3> DEFINE x == Carve(l)
                 N == {l}
      <3>7. /\ x \in Row /\ OfKey(x.key) = {} /\ N \subseteq {x.key} /\ N \subseteq Level
            /\ x.key \notin Block /\ x.pool = x.key - 1 /\ x.claim \in {x.key} \cup Range
            /\ x.pool = 0 \/ x.pool \in pools
            /\ rows' = rows \cup {x} /\ pools' = pools \cup N /\ identity' = identity \cup N
        BY <2>1, <3>1, <3>2, <3>3, <3>4, <3>5, <3>6
      <3> HIDE DEF x, N
      <3> QED BY <3>7, TablesAdd
    <2>3. CASE ~ CanProvision(l)
      BY <1>1, <1>2, <2>3 DEF ProvisionPool, Standing
    <2> QED BY <2>2, <2>3
  <1>3. CASE AllocateBlock(r)
    <2> DEFINE n == req[r].name
               x == [pool |-> Depth, key |-> n, claim |-> n, policy |-> req[r].policy]
    <2>1. CASE CanAllocate(n) /\ ~ req[r].dry
      <3>1. n \in Block /\ req[r].policy \in {"Delete", "Retain"}
        <4>1. req[r].policy \in Policies \cup {"Delete"}
          BY DEF Control, Request
        <4> QED BY Zenon, <1>3, <4>1, ClaimAssumption DEF AllocateBlock
      <3>2. x \in Row
        BY <3>1, ClaimAssumption DEF Row, Name
      <3>3. n \notin Level
        BY <3>1, ClaimAssumption DEF Name
      <3>4. rows' = rows \cup {x} /\ pools' = pools \cup {} /\ identity' = identity \cup {}
        BY <1>3, <2>1 DEF AllocateBlock
      <3>5. Depth \in pools /\ OfKey(n) = {}
        BY <2>1 DEF CanAllocate
      <3>6. x.pool = Depth /\ x.key = n /\ x.claim = n
        OBVIOUS
      <3> HIDE DEF x
      <3> QED BY <3>1, <3>2, <3>3, <3>4, <3>5, <3>6, TablesAdd
    <2>2. CASE ~ (CanAllocate(n) /\ ~ req[r].dry)
      BY <1>1, <1>3, <2>2 DEF AllocateBlock, Standing
    <2> QED BY <2>1, <2>2
  <1>4. CASE BindScopeRange(r)
    <2> DEFINE free == OfKey(req[r].to) \cap HeldBy(req[r].to)
               ok == free # {} /\ claims[req[r].name] = "none" /\ ~req[r].dry
    <2>1. CASE ok
      <3>1. PICK w \in free : rows' = Rebind(w, req[r].name)
        BY <1>4, <2>1 DEF BindScopeRange
      <3>2. w \in rows /\ w.key \in Level /\ w.key \notin Block
        BY ClaimAssumption DEF OfKey, Control, Request, Name
      <3>3. req[r].name \in Range /\ req[r].name \in Name /\ pools' = pools /\ identity' = identity
        BY <1>4 DEF BindScopeRange, Name
      <3> QED BY <3>1, <3>2, <3>3, TablesRebind DEF TablesInv, Tables
    <2>2. CASE ~ ok
      BY <1>1, <1>4, <2>2 DEF BindScopeRange, Standing
    <2> QED BY <2>1, <2>2
  <1>5. CASE ReleaseAndDelete(r)
    <2> DEFINE n == req[r].name
    <2>1. n \in Block
      BY <1>5 DEF ReleaseAndDelete, ReqShape, Releases
    <2>2. CASE HeldBy(n) = {}
      BY <1>1, <1>5, <2>2 DEF ReleaseAndDelete, Standing
    <2>3. CASE HeldBy(n) # {}
      <3>1. PICK w \in rows :
              /\ HeldBy(n) = {w} /\ w.key = n
              /\ IF w.policy = "Retain"
                 THEN Unbound(HeldBy(n)) # {} /\ (rows \ HeldBy(n)) \cup Unbound(HeldBy(n)) = Rebind(w, None)
                 ELSE Unbound(HeldBy(n)) = {} /\ (rows \ HeldBy(n)) \cup Unbound(HeldBy(n)) = rows \ {w}
        BY <2>1, <2>3, Released
      <3>2. /\ rows' = (rows \ HeldBy(n)) \cup Unbound(HeldBy(n))
            /\ pools' = pools /\ identity' = identity
        BY <1>5, <2>3 DEF ReleaseAndDelete
      <3>3. n \notin Level
        BY <2>1, ClaimAssumption DEF Name
      <3>4. CASE w.policy = "Retain"
        BY Zenon, <2>1, <3>1, <3>2, <3>3, <3>4, TablesRebind DEF TablesInv, Tables
      <3>5. CASE w.policy # "Retain"
        <4>1. rows' = rows \ {w} /\ pools' = pools \ {} /\ identity' = identity \ {}
          BY <3>1, <3>2, <3>5
        <4> DEFINE F == {}
                   left == rows \ {w}
        <4>2. /\ left \subseteq rows /\ \A v \in rows \ left : v.key \in Block \/ v.key \in F
              /\ \A v \in left : v.pool \notin F
              /\ rows' = left /\ pools' = pools \ F /\ identity' = identity \ F
          BY <2>1, <3>1, <4>1
        <4> HIDE DEF F, left
        <4> QED BY <4>2, TablesShrink
      <3> QED BY <3>4, <3>5
    <2> QED BY <2>2, <2>3
  <1>6. CASE ReleaseRangeTree(r)
    <2> DEFINE F == Freed(r)
               left == { w \in rows : w.key \notin F }
    <2>1. CASE UNCHANGED Standing
      BY <1>1, <2>1
    <2>2. CASE ~ UNCHANGED Standing
      <3>1. /\ rows' = left /\ pools' = pools \ F /\ identity' = identity \ F
            /\ \A w \in left : w.pool \notin F
        BY <1>6, <2>2 DEF ReleaseRangeTree, Standing, tables
      <3>2. left \subseteq rows /\ \A w \in rows \ left : w.key \in F
        OBVIOUS
      <3> HIDE DEF F, left
      <3> QED BY <3>1, <3>2, TablesShrink
    <2> QED BY <2>1, <2>2
  <1>7. CASE FreeAllocation(r)
    <2> DEFINE n == req[r].name
    <2>1. CASE OfKey(n) = {}
      BY <1>1, <1>7, <2>1 DEF FreeAllocation, Standing
    <2>2. CASE OfKey(n) # {}
      <3>1. rows' = rows \ OfKey(n) /\ pools' = pools \ {} /\ identity' = identity \ {}
        BY <1>7, <2>2 DEF FreeAllocation
      <3>2. \A w \in OfKey(n) : w.key \in Block
        BY <1>7 DEF FreeAllocation, ReqShape, Releases, OfKey
      <3> DEFINE F == {}
                 left == rows \ OfKey(n)
      <3>3. /\ left \subseteq rows /\ \A w \in rows \ left : w.key \in Block \/ w.key \in F
            /\ \A w \in left : w.pool \notin F
            /\ rows' = left /\ pools' = pools \ F /\ identity' = identity \ F
        BY <3>1, <3>2
      <3> HIDE DEF F, left
      <3> QED BY <3>3, TablesShrink
    <2> QED BY <2>1, <2>2
  <1>8. ASSUME NEW left, left \subseteq rows, \A w \in rows \ left : w.key = req[r].at, DropObject(r, left)
        PROVE  Goal
    <2>1. CASE \E w \in left : w.pool = req[r].at
      BY <1>1, <1>8, <2>1 DEF DropObject, Standing
    <2>2. CASE ~ \E w \in left : w.pool = req[r].at
      <3> DEFINE F == {req[r].at}
      <3>1. /\ rows' = left /\ pools' = pools \ F /\ identity' = identity \ F
            /\ \A w \in left : w.pool \notin F
            /\ \A w \in rows \ left : w.key \in F
        BY <1>8, <2>2 DEF DropObject
      <3> HIDE DEF F
      <3> QED BY <1>8, <3>1, TablesShrink
    <2> QED BY <2>1, <2>2
  <1>9. CASE DeletePool(r)
    <2> DEFINE self == HeldBy(req[r].at)
    <2>1. CASE self = {}
      BY <1>1, <1>9, <2>1 DEF DeletePool, Standing
    <2>2. CASE self # {}
      <3>1. req[r].at \in Level
        BY DEF Control, Request
      <3>2. \A w \in rows \ (rows \ self) : w.key = req[r].at
        BY <3>1, Holder DEF HeldBy, TablesInv
      <3> QED BY <1>8, <1>9, <2>2, <3>2 DEF DeletePool
    <2> QED BY <2>1, <2>2
  <1>10. CASE DeletePoolObject(r)
    BY <1>8, <1>10 DEF DeletePoolObject
  <1>11. CASE PublishReleasing(r) \/ DeleteAllocationObject(r) \/ DeleteClaimObject(r) \/ DropAllocation(r)
    BY <1>1, <1>11
    DEF Standing, PublishReleasing, DeleteAllocationObject, DeleteClaimObject, DropAllocation
  <1>12. CASE Looks(r)
    BY <1>1, <1>12, LooksOnly DEF Standing
  <1> QED BY <1>2, <1>3, <1>4, <1>5, <1>6, <1>7, <1>9, <1>10, <1>11, <1>12 DEF Acts, Writes

-----------------------------------------------------------------------------
(***************************************************************************)
(* Who acts on which name.                                                 *)
(***************************************************************************)
\* While one request deletes what a name stands for, the others neither create
\* it, if its deletes may overlap, nor delete it, if they may not.
Turns ==
  \A q, r \in Req :
    q # r /\ pc[r] \in Deleting /\ req[q].name = req[r].name =>
      pc[q] \notin (IF req[r].name \in Repeated THEN Creating ELSE Deleting)

\* What a step of request r does to its own place and arguments.
Arrives(r) ==
  /\ pc[r] = "idle"
  /\ \/ /\ pc'[r] = "lookup" /\ req'[r].name \in Name /\ req'[r].at <= req'[r].to
        /\ req'[r].name \in Repeated => Free(req'[r].name, Deleting)
        /\ req'[r].name \in Range => req'[r].to \in RangeLevels
     \/ /\ \/ pc'[r] \in {"tx1", "freeAlloc"} /\ req'[r].name \in Block
           \/ pc'[r] = "find" /\ req'[r].name \in Range
        /\ MayDelete(req'[r].name)
     \/ pc'[r] = "dropPool"

GoesOn(r) ==
  \/ /\ pc[r] \in Creating /\ pc'[r] \in Creating
     /\ req'[r].name = req[r].name /\ req'[r].to = req[r].to /\ req'[r].at <= req'[r].to
  \/ /\ pc[r] \in Releases \cup {"delClaim"} /\ pc'[r] \in Releases \cup {"delClaim"}
     /\ req[r].name \in Block /\ req'[r].name = req[r].name
  \/ /\ pc[r] \in Ranging /\ pc'[r] \in {"read", "free", "delClaim"}
     /\ req'[r].name = req[r].name
  \/ pc'[r] = "dropObject"

Ends(r) == pc'[r] = "idle" /\ req'[r] = Idle

Others(r) == \A q \in Req \ {r} : pc'[q] = pc[q] /\ req'[q] = req[q]

\* A request that ends is idle.
LEMMA EndEnds ==
  ASSUME NEW r \in Req, Control, End(r)
  PROVE  Ends(r) /\ Others(r)
  BY DEF Control, End, Ends, Others

\* A request that goes on keeps its arguments.
LEMMA GoToGoes ==
  ASSUME NEW r \in Req, NEW p, Control, GoTo(r, p)
  PROVE  pc'[r] = p /\ req'[r] = req[r] /\ Others(r)
  BY DEF Control, GoTo, Others

\* A create that goes one level down is still above what it asked for.
LEMMA NextLevelGoes ==
  ASSUME NEW r \in Req, Control, ReqShape, NextLevel(r), pc[r] \in Creating
  PROVE  GoesOn(r) /\ Others(r)
  <1>1. req[r].at \in Int /\ req[r].to \in Int /\ req[r].at <= req[r].to
    BY ClaimAssumption DEF Control, Request, Level, ReqShape
  <1>2. CASE req[r].at = req[r].to
    BY <1>1, <1>2, GoToGoes DEF NextLevel, GoesOn, Creating
  <1>3. CASE req[r].at # req[r].to
    <2>1. req' = [req EXCEPT ![r].at = req[r].at + 1] /\ pc' = [pc EXCEPT ![r] = "lookup"]
      BY <1>3 DEF NextLevel
    <2>2. /\ pc'[r] = "lookup" /\ req'[r].name = req[r].name /\ req'[r].to = req[r].to
          /\ req'[r].at = req[r].at + 1
      BY <2>1 DEF Control, Request
    <2>3. Others(r)
      BY <2>1 DEF Control, Others
    <2> QED BY <1>1, <1>3, <2>2, <2>3 DEF GoesOn, Creating
  <1> QED BY <1>2, <1>3

\* A failed attempt is followed by another one or by nothing.
LEMMA TryAgainGoes ==
  ASSUME NEW r \in Req, Control, TryAgain(r)
  PROVE  Others(r) /\ (Ends(r) \/ (pc'[r] = "release" /\ req'[r].name = req[r].name))
  <1>1. CASE req[r].tries < MaxAttempts
    <2>1. req' = [req EXCEPT ![r].tries = req[r].tries + 1] /\ pc' = [pc EXCEPT ![r] = "release"]
      BY <1>1 DEF TryAgain
    <2>2. pc'[r] = "release" /\ req'[r].name = req[r].name
      BY <2>1 DEF Control, Request
    <2>3. Others(r)
      BY <2>1 DEF Control, Others
    <2> QED BY <2>2, <2>3
  <1>2. CASE ~ (req[r].tries < MaxAttempts)
    BY <1>2, EndEnds DEF TryAgain
  <1> QED BY <1>1, <1>2

\* Every action moves one request, in one of the three ways.
LEMMA Moves ==
  ASSUME NEW r \in Req, Control, Tables, ReqShape, Acts(r)
  PROVE  Others(r) /\ (Arrives(r) \/ GoesOn(r) \/ Ends(r))
  <1> USE DEF Releases, Ranging, Creating
  <1>a. \A n \in Name, to \in Level, policy \in Policies, dry \in BOOLEAN :
          LET q == [Idle EXCEPT !.name = n, !.to = to, !.dry = dry,
                                !.policy = IF n \in Block THEN policy ELSE "Delete"]
          IN  q.name = n /\ q.to = to /\ q.at = 1
    BY DEF Idle
  <1>b. \A n : [Idle EXCEPT !.name = n].name = n
    BY DEF Idle
  <1>1. CASE BeginCreate(r)
    <2>1. PICK n \in Name, to \in Level, policy \in Policies, dry \in BOOLEAN :
            /\ IF n \in Block THEN to = Depth ELSE to \in RangeLevels
            /\ n \in Repeated => Free(n, Deleting)
            /\ req' = [req EXCEPT ![r] = [Idle EXCEPT !.name = n, !.to = to, !.dry = dry,
                                            !.policy = IF n \in Block THEN policy ELSE "Delete"]]
      BY ZenonT(30), <1>1 DEF BeginCreate
    <2>2. req'[r].name = n /\ req'[r].to = to /\ req'[r].at = 1
      BY <1>a, <2>1 DEF Control
    <2>3. pc'[r] = "lookup" /\ pc[r] = "idle" /\ Others(r)
      BY <1>1, <2>1 DEF BeginCreate, Control, Others
    <2>4. 1 <= to
      BY ClaimAssumption DEF Level
    <2>5. n \in Range => to \in RangeLevels
      BY <2>1, ClaimAssumption
    <2> QED BY <2>1, <2>2, <2>3, <2>4, <2>5 DEF Arrives
  <1>2. CASE BeginDelete(r)
    <2>1. PICK n \in Name : /\ MayDelete(n)
                            /\ req' = [req EXCEPT ![r] = [Idle EXCEPT !.name = n]]
                            /\ pc' = [pc EXCEPT ![r] = IF n \in Block THEN "tx1" ELSE "find"]
      BY Zenon, <1>2 DEF BeginDelete
    <2>2. req'[r].name = n /\ pc'[r] = (IF n \in Block THEN "tx1" ELSE "find") /\ Others(r)
      BY <1>b, <2>1 DEF Control, Others
    <2> QED BY <1>2, <2>1, <2>2 DEF BeginDelete, Arrives, Name
  <1>3. CASE BeginDeleteAllocation(r)
    <2>1. PICK n \in Block : /\ MayDelete(n)
                             /\ req' = [req EXCEPT ![r] = [Idle EXCEPT !.name = n]]
      BY Zenon, <1>3 DEF BeginDeleteAllocation
    <2>2. req'[r].name = n /\ pc'[r] = "freeAlloc" /\ pc[r] = "idle" /\ Others(r)
      <3>1. pc' = [pc EXCEPT ![r] = "freeAlloc"] /\ pc[r] = "idle"
        BY <1>3 DEF BeginDeleteAllocation
      <3> QED BY <1>b, <2>1, <3>1 DEF Control, Others
    <2> QED BY <2>1, <2>2 DEF Arrives
  <1>4. CASE BeginDeletePool(r)
    <2>1. PICK l \in pools : req' = [req EXCEPT ![r] = [Idle EXCEPT !.at = l]]
      BY Zenon, <1>4 DEF BeginDeletePool
    <2>2. pc'[r] = "dropPool" /\ pc[r] = "idle" /\ Others(r)
      BY <1>4, <2>1 DEF BeginDeletePool, Control, Others
    <2> QED BY <2>2 DEF Arrives
  <1>c. ASSUME NEW p, p \in Creating, GoTo(r, p), pc[r] \in Creating
        PROVE  GoesOn(r) /\ Others(r)
    <2>1. req[r].at <= req[r].to
      BY <1>c DEF ReqShape
    <2> QED BY <1>c, <2>1, GoToGoes DEF GoesOn
  <1>5. CASE LookupPoolIdentity(r)
    BY Zenon, <1>5, <1>c, NextLevelGoes DEF LookupPoolIdentity
  <1>6. CASE ClaimPoolIdentity(r)
    BY <1>6, <1>c DEF ClaimPoolIdentity
  <1>7. CASE ReadWinner(r)
    BY <1>7, NextLevelGoes, EndEnds DEF ReadWinner
  <1>8. CASE ProvisionPool(r)
    BY <1>8, NextLevelGoes, EndEnds DEF ProvisionPool
  <1>9. CASE AllocateBlock(r)
    BY <1>9, EndEnds DEF AllocateBlock
  <1>10. CASE BindScopeRange(r)
    BY Zenon, <1>10, EndEnds DEF BindScopeRange
  <1>d. ASSUME NEW p, p \in Releases \cup {"delClaim"}, GoTo(r, p), pc[r] \in Releases
        PROVE  GoesOn(r) /\ Others(r)
    BY <1>d, GoToGoes DEF GoesOn, ReqShape
  <1>11. CASE PublishReleasing(r)
    BY Zenon, <1>11, <1>d, EndEnds DEF PublishReleasing
  <1>12. CASE ReleaseAndDelete(r)
    BY Zenon, <1>12, <1>d, EndEnds, TryAgainGoes DEF ReleaseAndDelete, GoesOn, ReqShape
  <1>13. CASE DeleteAllocationObject(r)
    BY Zenon, <1>13, <1>d, EndEnds DEF DeleteAllocationObject
  <1>14. CASE DeleteClaimObject(r)
    BY Zenon, <1>14, EndEnds DEF DeleteClaimObject
  <1>e. ASSUME NEW p, p \in {"read", "free", "delClaim"}, GoTo(r, p), pc[r] \in Ranging
        PROVE  GoesOn(r) /\ Others(r)
    BY <1>e, GoToGoes DEF GoesOn
  <1>15. CASE FindScopeRange(r)
    <2>1. CASE HeldBy(req[r].name) = {}
      BY <1>15, <2>1, <1>e DEF FindScopeRange
    <2>2. CASE HeldBy(req[r].name) # {}
      <3>1. PICK w \in HeldBy(req[r].name) :
              /\ req' = [req EXCEPT ![r].at = w.key, ![r].to = w.key]
              /\ pc' = [pc EXCEPT ![r] = "read"]
        BY <1>15, <2>2 DEF FindScopeRange
      <3>2. req'[r].name = req[r].name /\ pc'[r] = "read"
        BY <3>1 DEF Control, Request
      <3>3. Others(r)
        BY <3>1 DEF Control, Others
      <3> QED BY <1>15, <3>2, <3>3 DEF FindScopeRange, GoesOn
    <2> QED BY <2>1, <2>2
  <1>16. CASE ReadOccupants(r)
    <2>1. End(r) \/ GoTo(r, "free") \/ (req' = [req EXCEPT ![r].at = @ + 1] /\ pc' = pc)
      BY <1>16 DEF ReadOccupants
    <2>2. CASE req' = [req EXCEPT ![r].at = @ + 1] /\ pc' = pc
      <3>1. req'[r].name = req[r].name /\ pc'[r] = "read"
        BY <1>16, <2>2 DEF ReadOccupants, Control, Request
      <3>2. Others(r)
        BY <2>2 DEF Control, Others
      <3> QED BY <1>16, <3>1, <3>2 DEF ReadOccupants, GoesOn
    <2> QED BY <1>16, <2>1, <2>2, <1>e, EndEnds DEF ReadOccupants
  <1>17. CASE ReleaseRangeTree(r)
    BY <1>17, <1>e, EndEnds DEF ReleaseRangeTree
  <1>18. CASE FreeAllocation(r)
    BY Zenon, <1>18, <1>d, EndEnds DEF FreeAllocation
  <1>19. CASE DropAllocation(r)
    BY <1>19, EndEnds DEF DropAllocation
  <1>20. CASE DeletePool(r)
    BY <1>20, EndEnds, GoToGoes DEF DeletePool, GoesOn
  <1>21. CASE DeletePoolObject(r)
    BY <1>21, EndEnds DEF DeletePoolObject
  <1>22. CASE FailAttempt(r)
    BY Zenon, <1>22, TryAgainGoes DEF FailAttempt, GoesOn, ReqShape
  <1>23. CASE Abort(r)
    BY <1>23, EndEnds DEF Abort
  <1> QED BY <1>1, <1>2, <1>3, <1>4, <1>5, <1>6, <1>7, <1>8, <1>9, <1>10, <1>11, <1>12,
             <1>13, <1>14, <1>15, <1>16, <1>17, <1>18, <1>19, <1>20, <1>21, <1>22, <1>23
          DEF Acts, Looks, Writes

\* Requests keep to what fits their step.
LEMMA ReqShapeStep ==
  ASSUME NEW r \in Req, Control, ReqShape, Others(r), Arrives(r) \/ GoesOn(r) \/ Ends(r)
  PROVE  ReqShape'
  BY DEF ReqShape, Others, Arrives, GoesOn, Ends, Releases, Ranging, Creating, Name

\* Requests keep to their turns.
LEMMA TurnsStep ==
  ASSUME NEW r \in Req, Control, ReqShape, Turns, Others(r), Arrives(r) \/ GoesOn(r) \/ Ends(r)
  PROVE  Turns'
  <1> USE DEF Releases, Ranging, Creating, Deleting
  <1> SUFFICES ASSUME NEW p \in Req, NEW q \in Req, q # p, pc'[p] \in Deleting,
                      req'[q].name = req'[p].name
               PROVE  pc'[q] \notin (IF req'[p].name \in Repeated THEN Creating ELSE Deleting)
    BY DEF Turns
  <1>1. CASE q # r /\ p # r
    BY <1>1 DEF Turns, Others
  <1>2. CASE p = r
    <2>1. pc'[q] = pc[q] /\ req'[q] = req[q]
      BY <1>2 DEF Others
    <2>2. CASE Arrives(r)
      BY <1>2, <2>1, <2>2 DEF Arrives, MayDelete, Free
    <2>3. CASE GoesOn(r)
      BY Zenon, <1>2, <2>1, <2>3 DEF GoesOn, Turns
    <2> QED BY <1>2, <2>2, <2>3 DEF Ends
  <1>3. CASE q = r
    <2>1. pc'[p] = pc[p] /\ req'[p] = req[p]
      BY <1>3 DEF Others
    <2>2. CASE Arrives(r)
      BY Zenon, <1>3, <2>1, <2>2 DEF Arrives, MayDelete, Free
    <2>3. CASE GoesOn(r)
      BY <1>3, <2>1, <2>3 DEF GoesOn, Turns
    <2> QED BY Zenon, <1>3, <2>2, <2>3 DEF Ends
  <1> QED BY <1>1, <1>2, <1>3

\* The actions that leave a request in the middle of a delete.
Deletes(r) ==
  \/ BeginDelete(r) \/ BeginDeleteAllocation(r)
  \/ PublishReleasing(r) \/ ReleaseAndDelete(r) \/ DeleteAllocationObject(r) \/ FreeAllocation(r)
  \/ FailAttempt(r) \/ FindScopeRange(r) \/ ReadOccupants(r) \/ ReleaseRangeTree(r)

\* No other action does.
LEMMA OnlyDeletes ==
  ASSUME NEW r \in Req, Control, ReqShape, Acts(r), pc'[r] \in Deleting
  PROVE  Deletes(r)
  <1> USE DEF Deleting, Creating
  <1>e. ~ End(r)
    BY EndEnds DEF Ends
  <1>n. ~ (pc[r] \in Creating /\ NextLevel(r))
    <2> SUFFICES ASSUME pc[r] \in Creating, NextLevel(r) PROVE FALSE
      OBVIOUS
    <2>1. GoesOn(r)
      BY NextLevelGoes
    <2> QED BY <2>1 DEF GoesOn, Releases, Ranging
  <1>g. \A p : GoTo(r, p) => p \in Deleting
    BY GoToGoes
  <1>1. CASE BeginCreate(r) \/ BeginDeletePool(r)
    <2>1. pc' = [pc EXCEPT ![r] = "lookup"] \/ pc' = [pc EXCEPT ![r] = "dropPool"]
      BY Zenon, <1>1 DEF BeginCreate, BeginDeletePool
    <2> QED BY <2>1 DEF Control
  <1>2. CASE LookupPoolIdentity(r)
    BY <1>2, <1>g, <1>n DEF LookupPoolIdentity
  <1>3. CASE ReadWinner(r)
    BY <1>3, <1>e, <1>n DEF ReadWinner
  <1>4. CASE ProvisionPool(r)
    BY <1>4, <1>e, <1>n DEF ProvisionPool
  <1>5. CASE ClaimPoolIdentity(r)
    BY <1>5, <1>g DEF ClaimPoolIdentity
  <1>6. CASE DeletePool(r)
    BY <1>6, <1>e, <1>g DEF DeletePool
  <1>7. CASE AllocateBlock(r) \/ BindScopeRange(r)
    BY <1>7, <1>e DEF AllocateBlock, BindScopeRange
  <1>8. CASE DeleteClaimObject(r) \/ DropAllocation(r) \/ DeletePoolObject(r) \/ Abort(r)
    BY Zenon, <1>8, <1>e DEF DeleteClaimObject, DropAllocation, DeletePoolObject, Abort
  <1> QED BY <1>1, <1>2, <1>3, <1>4, <1>5, <1>6, <1>7, <1>8 DEF Acts, Looks, Writes, Deletes

-----------------------------------------------------------------------------
(***************************************************************************)
(* Block claims, their rows and their IPAllocations.                       *)
(***************************************************************************)
\* A delete past its first statements finds its name as it left it: nothing is
\* bound to it again, and where deletes do not overlap nothing was taken from it.
Settled(p, n) ==
  /\ p \in {"delAlloc", "freeAlloc", "dropAlloc"} => HeldBy(n) = {}
  /\ p = "delClaim" /\ n \in Block => HeldBy(n) = {}
  /\ n \notin Repeated =>
       /\ p \in {"tx1", "release"} => claims[n] # "none"
       /\ p = "freeAlloc" => allocs[n] = "unbound"
       /\ p \notin {"delAlloc", "dropAlloc"}
       /\ ~ (p = "delClaim" /\ n \in Block)

Underway == \A r \in Req : Settled(pc[r], req[r].name)

\* Block n stands as it did.
Kept(n) ==
  /\ HeldBy(n)' = {} <=> HeldBy(n) = {}
  /\ OfKey(n)' = {} <=> OfKey(n) = {}
  /\ claims'[n] = "none" <=> claims[n] = "none"
  /\ allocs'[n] = allocs[n]

SameRows(n) == HeldBy(n)' = HeldBy(n) /\ OfKey(n)' = OfKey(n)

\* Rows of other keys and claims come and go.
LEMMA KeepsRows ==
  ASSUME NEW n, \A w \in rows' \ rows : w.key # n /\ w.claim # n,
         \A w \in rows \ rows' : w.key # n /\ w.claim # n
  PROVE  SameRows(n)
  BY DEF SameRows, HeldBy, OfKey

\* Changes to other names leave block n alone.
LEMMA KeepsRest ==
  ASSUME Tables, NEW n \in Block, rows' = rows \/ SameRows(n),
         allocs' = allocs \/ \E m, a : m # n /\ allocs' = [allocs EXCEPT ![m] = a],
         claims' = claims \/ \E m, c : m # n /\ claims' = [claims EXCEPT ![m] = c]
  PROVE  Kept(n)
  <1>1. HeldBy(n)' = HeldBy(n) /\ OfKey(n)' = OfKey(n)
    BY DEF SameRows, HeldBy, OfKey
  <1>2. claims'[n] = claims[n] /\ allocs'[n] = allocs[n]
    BY DEF Tables, Name
  <1> QED BY <1>1, <1>2 DEF Kept

Touches(r) ==
  \/ AllocateBlock(r) \/ ReleaseAndDelete(r) \/ DeleteAllocationObject(r)
  \/ DeleteClaimObject(r) \/ FreeAllocation(r) \/ DropAllocation(r)

\* What a block request does under one name leaves the others alone.
LEMMA TouchesOwnName ==
  ASSUME NEW r \in Req, Control, ReqShape, TablesInv, NEW n \in Block, n # req[r].name, Touches(r)
  PROVE  Kept(n)
  <1>t. Tables /\ n \in Name /\ n \notin Level /\ n \notin Range /\ n # None
    BY ClaimAssumption DEF TablesInv, Name
  <1>0. CASE rows' = rows /\ claims' = claims /\ allocs' = allocs
    BY <1>0, <1>t, KeepsRest
  <1> DEFINE m == req[r].name
  <1>1. CASE AllocateBlock(r)
    <2> DEFINE x == [pool |-> Depth, key |-> m, claim |-> m, policy |-> req[r].policy]
    <2>1. rows' = rows \/ rows' = rows \cup {x}
      BY Zenon, <1>1 DEF AllocateBlock
    <2>2. x.key = m /\ x.claim = m
      OBVIOUS
    <2> HIDE DEF x
    <2>3. SameRows(n)
      BY <2>1, <2>2, KeepsRows
    <2>4. /\ allocs' = allocs \/ allocs' = [allocs EXCEPT ![m] = "bound"]
          /\ claims' = claims \/ claims' = [claims EXCEPT ![m] = "Bound"]
      BY Zenon, <1>1 DEF AllocateBlock
    <2> QED BY <1>t, <2>3, <2>4, KeepsRest
  <1>2. CASE ReleaseAndDelete(r)
    <2>1. m \in Block
      BY Zenon, <1>2 DEF ReleaseAndDelete, ReqShape, Releases
    <2>2. CASE HeldBy(m) = {}
      BY Zenon, <1>0, <1>2, <2>2 DEF ReleaseAndDelete
    <2>3. CASE HeldBy(m) # {}
      <3>1. PICK w \in rows :
            /\ HeldBy(m) = {w} /\ w.key = m
            /\ IF w.policy = "Retain"
               THEN Unbound(HeldBy(m)) # {} /\ (rows \ HeldBy(m)) \cup Unbound(HeldBy(m)) = Rebind(w, None)
               ELSE Unbound(HeldBy(m)) = {} /\ (rows \ HeldBy(m)) \cup Unbound(HeldBy(m)) = rows \ {w}
        BY <2>1, <2>3, Released
      <3> DEFINE x == [w EXCEPT !.claim = None]
      <3>2. rows' = rows \ {w} \/ rows' = (rows \ {w}) \cup {x}
        BY Zenon, <1>2, <2>3, <3>1 DEF ReleaseAndDelete, Rebind
      <3>3. x.key = m /\ x.claim = None
        BY <1>t, <3>1, Relabelled DEF Tables
      <3>4. w.claim = m
        BY <3>1 DEF HeldBy
      <3> HIDE DEF x
      <3>5. SameRows(n)
        BY <1>t, <3>1, <3>2, <3>3, <3>4, KeepsRows
      <3>6. /\ \E a : allocs' = [allocs EXCEPT ![m] = a]
            /\ claims' = [claims EXCEPT ![m] = "none"]
        BY Zenon, <1>2, <2>3 DEF ReleaseAndDelete
      <3> QED BY Zenon, <1>t, <3>5, <3>6, KeepsRest
    <2> QED BY <2>2, <2>3
  <1>3. CASE DeleteAllocationObject(r)
    BY <1>t, <1>3, KeepsRest DEF DeleteAllocationObject
  <1>4. CASE DeleteClaimObject(r)
    BY Zenon, <1>t, <1>4, KeepsRest DEF DeleteClaimObject
  <1>5. CASE FreeAllocation(r)
    <2>1. m \in Block
      BY <1>5 DEF FreeAllocation, ReqShape, Releases
    <2>2. rows' = rows \/ rows' = rows \ OfKey(m)
      BY <1>5 DEF FreeAllocation
    <2>3. \A w \in rows : w.claim = n => w.key = n
      BY Holder, <1>t DEF TablesInv
    <2>4. SameRows(n)
      BY <2>2, <2>3, KeepsRows DEF OfKey
    <2> QED BY <1>t, <1>5, <2>4, KeepsRest DEF FreeAllocation
  <1>6. CASE DropAllocation(r)
    BY Zenon, <1>t, <1>6, KeepsRest DEF DropAllocation
  <1> QED BY <1>1, <1>2, <1>3, <1>4, <1>5, <1>6 DEF Touches

\* A block is touched by requests for its own name only.
LEMMA BlockFrame ==
  ASSUME NEW r \in Req, Control, ReqShape, TablesInv, Acts(r), NEW n \in Block
  PROVE  Kept(n) \/ (n = req[r].name /\ Touches(r))
  <1>t. Tables /\ n \in Name /\ n \notin Level /\ n \notin Range /\ n # None
    BY ClaimAssumption DEF TablesInv, Name
  <1>0. CASE rows' = rows /\ claims' = claims /\ allocs' = allocs
    BY <1>0, <1>t, KeepsRest
  <1>1. CASE ProvisionPool(r)
    <2>1. rows' = rows \/ rows' = rows \cup {Carve(req[r].at)}
      BY <1>1 DEF ProvisionPool
    <2>2. Carve(req[r].at).key # n /\ Carve(req[r].at).claim # n
      BY <1>t DEF Carve, Control, Request
    <2>3. SameRows(n)
      BY <2>1, <2>2, KeepsRows
    <2> QED BY Zenon, <1>1, <1>t, <2>3, KeepsRest DEF ProvisionPool
  <1>2. CASE BindScopeRange(r)
    <2>1. claims' = claims \/ claims' = [claims EXCEPT ![req[r].name] = "Bound"]
      BY <1>2 DEF BindScopeRange
    <2>2. req[r].name \in Range /\ req[r].name \in Name /\ req[r].name # n /\ allocs' = allocs
      BY <1>2, <1>t DEF BindScopeRange, Name
    <2>3. rows' = rows \/ \E w \in OfKey(req[r].to) \cap HeldBy(req[r].to) : rows' = Rebind(w, req[r].name)
      BY <1>2 DEF BindScopeRange
    <2>4. SameRows(n)
      <3>1. CASE rows' = rows
        BY <3>1, KeepsRows
      <3>2. ASSUME NEW w \in OfKey(req[r].to) \cap HeldBy(req[r].to), rows' = Rebind(w, req[r].name)
            PROVE  SameRows(n)
        <4>1. w \in rows /\ w.key \in Level /\ w.claim \in Level /\ w \in Row
          BY <1>t DEF OfKey, HeldBy, Control, Request, Tables
        <4> DEFINE x == [w EXCEPT !.claim = req[r].name]
        <4>2. x.key = w.key /\ x.claim = req[r].name
          BY <2>2, <4>1, Relabelled
        <4>3. rows' = (rows \ {w}) \cup {x}
          BY <3>2 DEF Rebind
        <4> HIDE DEF x
        <4> QED BY <1>t, <2>2, <4>1, <4>2, <4>3, KeepsRows
      <3> QED BY <2>3, <3>1, <3>2
    <2> QED BY <1>t, <2>1, <2>2, <2>4, KeepsRest
  <1>3. CASE PublishReleasing(r)
    <2>1. rows' = rows /\ allocs' = allocs /\ req[r].name \in Name
      BY <1>3 DEF PublishReleasing, ReqShape, Releases, Name
    <2>2. HeldBy(n)' = HeldBy(n) /\ OfKey(n)' = OfKey(n)
      BY <2>1 DEF HeldBy, OfKey
    <2>3. claims'[n] = "none" <=> claims[n] = "none"
      BY <1>3, <1>t, <2>1 DEF PublishReleasing, Tables
    <2> QED BY Zenon, <2>1, <2>2, <2>3 DEF Kept
  <1>4. CASE ReleaseRangeTree(r)
    <2>1. req[r].name \in Range /\ req[r].name \in Name /\ req[r].name # n /\ allocs' = allocs
      BY Zenon, <1>4, <1>t DEF ReleaseRangeTree, ReqShape, Ranging, Name, tables
    <2>2. rows' = rows \/ rows' = { w \in rows : w.key \notin Freed(r) }
      BY Zenon, <1>4 DEF ReleaseRangeTree, tables
    <2>3. n \notin Freed(r)
      <3>1. req[r].to \in Level /\ req[r].at \in Level
        BY DEF Control, Request
      <3>2. Freed(r) \subseteq Level
        BY <3>1, ClaimAssumption DEF Freed, Level
      <3> QED BY <1>t, <3>2
    <2>4. SameRows(n)
      <3>1. \A w \in rows \ rows' : w.key # n /\ w.claim # n
        BY <2>2, <2>3, Holder DEF TablesInv
      <3> QED BY <2>2, <3>1, KeepsRows
    <2>5. claims' = claims \/ claims' = [claims EXCEPT ![req[r].name] = "none"]
      BY <1>4 DEF ReleaseRangeTree, tables
    <2> QED BY <1>t, <2>1, <2>4, <2>5, KeepsRest
  <1>5. ASSUME NEW left, left = rows \/ left = rows \ HeldBy(req[r].at), DropObject(r, left)
        PROVE  SameRows(n)
    <2>1. req[r].at \in Level
      BY DEF Control, Request
    <2>2. rows' = rows \/ rows' = rows \ HeldBy(req[r].at)
      BY <1>5 DEF DropObject
    <2>3. \A w \in HeldBy(req[r].at) : w \in rows => w.key # n /\ w.claim # n
      BY <1>t, <2>1, Holder DEF HeldBy, TablesInv
    <2> QED BY <2>2, <2>3, KeepsRows
  <1>6. CASE DeletePool(r)
    BY <1>6, <1>5, <1>t, KeepsRest DEF DeletePool
  <1>7. CASE DeletePoolObject(r)
    BY <1>7, <1>5, <1>t, KeepsRest DEF DeletePoolObject
  <1>8. CASE n # req[r].name /\ Touches(r)
    BY <1>8, TouchesOwnName
  <1>9. CASE Looks(r)
    BY <1>0, <1>9, LooksOnly
  <1> QED BY <1>1, <1>2, <1>3, <1>4, <1>6, <1>7, <1>8, <1>9 DEF Acts, Writes, Touches

\* AllocateBlock takes a name nothing stands under, and all three records appear.
LEMMA AllocateEffect ==
  ASSUME NEW r \in Req, NEW n, n = req[r].name, Control, Tables, AllocateBlock(r), ~ Kept(n)
  PROVE  /\ allocs[n] = "none" /\ claims[n] = "none"
         /\ HeldBy(n)' # {} /\ OfKey(n)' # {} /\ claims'[n] = "Bound" /\ allocs'[n] = "bound"
  <1> DEFINE x == [pool |-> Depth, key |-> n, claim |-> n, policy |-> req[r].policy]
  <1>0. n \in Block /\ n \in Name
    BY Zenon DEF AllocateBlock, Name
  <1>1. CanAllocate(n) /\ ~ req[r].dry
    BY Zenon, <1>0, KeepsRest DEF AllocateBlock, SameRows, HeldBy, OfKey, Kept
  <1>2. /\ rows' = rows \cup {x} /\ allocs' = [allocs EXCEPT ![n] = "bound"]
        /\ claims' = [claims EXCEPT ![n] = "Bound"]
    BY Zenon, <1>1 DEF AllocateBlock
  <1>3. x.key = n /\ x.claim = n
    OBVIOUS
  <1> HIDE DEF x
  <1>4. x \in HeldBy(n)' /\ x \in OfKey(n)'
    BY <1>2, <1>3 DEF HeldBy, OfKey
  <1> QED BY <1>0, <1>1, <1>2, <1>4 DEF CanAllocate, Tables

\* releaseAndDelete leaves the row and the IPAllocation, or neither.
LEMMA ReleaseEffect ==
  ASSUME NEW r \in Req, NEW n, n = req[r].name, Control, ReqShape, TablesInv, ReleaseAndDelete(r),
         HeldBy(n) # {}, allocs[n] = "bound"
  PROVE  /\ HeldBy(n)' = {} /\ claims'[n] = "none"
         /\ \/ OfKey(n)' # {} /\ allocs'[n] = "unbound"
            \/ OfKey(n)' = {} /\ allocs'[n] = "none"
  <1>0. n \in Block /\ n \in Name /\ n # None
    BY Zenon, ClaimAssumption DEF ReleaseAndDelete, ReqShape, Releases, Name
  <1>1. PICK w \in rows :
          /\ HeldBy(n) = {w} /\ w.key = n
          /\ IF w.policy = "Retain"
             THEN Unbound(HeldBy(n)) # {} /\ (rows \ HeldBy(n)) \cup Unbound(HeldBy(n)) = Rebind(w, None)
             ELSE Unbound(HeldBy(n)) = {} /\ (rows \ HeldBy(n)) \cup Unbound(HeldBy(n)) = rows \ {w}
    BY Zenon, <1>0, Released
  <1>2. /\ rows' = (rows \ HeldBy(n)) \cup Unbound(HeldBy(n))
        /\ allocs' = [allocs EXCEPT ![n] =
             IF Unbound(HeldBy(n)) = {} \/ allocs[n] = "none" THEN "none" ELSE "unbound"]
        /\ claims' = [claims EXCEPT ![n] = "none"]
    BY Zenon DEF ReleaseAndDelete
  <1>3. claims'[n] = "none" /\ allocs'[n] = IF Unbound(HeldBy(n)) = {} THEN "none" ELSE "unbound"
    BY <1>0, <1>2 DEF TablesInv, Tables
  <1>4. \A v \in rows : v.key = n \/ v.claim = n => v = w
    BY <1>1 DEF HeldBy, TablesInv, OneRowPerKey
  <1>5. CASE w.policy = "Retain"
    <2> DEFINE x == [w EXCEPT !.claim = None]
    <2>1. x.key = n /\ x.claim = None
      BY <1>1, Relabelled DEF TablesInv, Tables
    <2>2. rows' = (rows \ {w}) \cup {x}
      BY Zenon, <1>1, <1>2, <1>5 DEF Rebind
    <2> HIDE DEF x
    <2>3. HeldBy(n)' = {} /\ OfKey(n)' # {}
      BY <1>0, <1>4, <2>1, <2>2 DEF HeldBy, OfKey
    <2> QED BY <1>1, <1>3, <1>5, <2>3
  <1>6. CASE w.policy # "Retain"
    <2>1. rows' = rows \ {w}
      BY Zenon, <1>1, <1>2, <1>6
    <2>2. HeldBy(n)' = {} /\ OfKey(n)' = {}
      BY <1>4, <2>1 DEF HeldBy, OfKey
    <2> QED BY Zenon, <1>1, <1>3, <1>6, <2>2
  <1> QED BY Zenon, <1>5, <1>6

\* Deleting an unbound IPAllocation frees its row with it.
LEMMA FreeEffect ==
  ASSUME NEW r \in Req, NEW n, n = req[r].name, Control, ReqShape, TablesInv, FreeAllocation(r),
         OfKey(n) # {}, HeldBy(n) = {}
  PROVE  HeldBy(n)' = {} /\ OfKey(n)' = {} /\ allocs'[n] = "none" /\ claims' = claims
  <1>0. n \in Block
    BY DEF FreeAllocation, ReqShape, Releases
  <1>1. rows' = rows \ OfKey(n) /\ allocs' = [allocs EXCEPT ![n] = "none"] /\ claims' = claims
    BY DEF FreeAllocation
  <1> QED BY <1>0, <1>1 DEF HeldBy, OfKey, TablesInv, Tables

\* A delete that found no row takes the objects that are left.
LEMMA DropEffect ==
  ASSUME NEW r \in Req, NEW n \in Block, n = req[r].name, Control, ReqShape, Tables, HeldBy(n) = {},
         DeleteAllocationObject(r) \/ DropAllocation(r) \/ DeleteClaimObject(r)
  PROVE  /\ HeldBy(n)' = {} /\ OfKey(n)' = OfKey(n)
         /\ claims'[n] \in {claims[n], "none"} /\ allocs'[n] \in {allocs[n], "none"}
  BY DEF DeleteAllocationObject, DropAllocation, DeleteClaimObject, HeldBy, OfKey, Tables, Name

\* Every action keeps blocks, claims and IPAllocations in step.
LEMMA BlocksStep ==
  ASSUME NEW r \in Req, Control, ReqShape, TablesInv, Underway, BlocksAccounted, Acts(r)
  PROVE  BlocksAccounted'
  <1> SUFFICES ASSUME NEW n \in Block
               PROVE  /\ claims'[n] # "none" <=> HeldBy(n)' # {}
                      /\ allocs'[n] = "bound" <=> HeldBy(n)' # {}
                      /\ allocs'[n] = "unbound" => OfKey(n)' # {}
                      /\ n \notin Repeated /\ OfKey(n)' # {} => allocs'[n] # "none"
    BY DEF BlocksAccounted, HeldBy, OfKey
  <1>0. /\ claims[n] # "none" <=> HeldBy(n) # {}
        /\ allocs[n] = "bound" <=> HeldBy(n) # {}
        /\ allocs[n] = "unbound" => OfKey(n) # {}
        /\ n \notin Repeated /\ OfKey(n) # {} => allocs[n] # "none"
    BY DEF BlocksAccounted
  <1>1. CASE Kept(n)
    BY <1>0, <1>1 DEF Kept
  <1>2. CASE ~ Kept(n)
    <2>0. n = req[r].name /\ Touches(r) /\ Tables
      BY <1>2, BlockFrame DEF TablesInv
    <2>1. CASE AllocateBlock(r)
      BY <1>2, <2>0, <2>1, AllocateEffect
    <2>2. CASE ReleaseAndDelete(r)
      <3>1. CASE HeldBy(n) = {}
        BY <1>2, <2>0, <2>2, <3>1 DEF ReleaseAndDelete, Kept, HeldBy, OfKey
      <3>2. CASE HeldBy(n) # {}
        BY Zenon, <1>0, <2>0, <2>2, <3>2, ReleaseEffect
      <3> QED BY <3>1, <3>2
    <2>3. CASE FreeAllocation(r)
      <3>1. HeldBy(n) = {}
        BY <2>0, <2>3 DEF FreeAllocation, Underway, Settled
      <3>2. CASE OfKey(n) = {}
        BY Zenon, <1>2, <2>0, <2>3, <3>2 DEF FreeAllocation, Kept, HeldBy, OfKey
      <3>3. CASE OfKey(n) # {}
        BY Zenon, <1>0, <2>0, <2>3, <3>1, <3>3, FreeEffect
      <3> QED BY <3>2, <3>3
    <2>4. CASE DeleteAllocationObject(r) \/ DropAllocation(r) \/ DeleteClaimObject(r)
      <3>1. HeldBy(n) = {} /\ n \in Repeated
        BY Zenon, <2>0, <2>4 DEF DeleteAllocationObject, DropAllocation, DeleteClaimObject, Underway, Settled
      <3> QED BY Zenon, <1>0, <2>0, <2>4, <3>1, DropEffect
    <2> QED BY Zenon, <2>0, <2>1, <2>2, <2>3, <2>4 DEF Touches
  <1> QED BY <1>1, <1>2

\* A step of request r leaves the deletes of the others settled.
LEMMA OthersSettled ==
  ASSUME NEW r \in Req, NEW q \in Req \ {r}, NEW p, NEW n, p = pc[q], n = req[q].name,
         Control, ReqShape, TablesInv, Turns, Underway, BlocksAccounted, Acts(r)
  PROVE  Settled(p, n)'
  <1> USE DEF Creating, Deleting
  <1>0. Settled(p, n)
    BY DEF Underway
  <1>1. CASE n \in Block /\ Kept(n)
    BY Zenon, <1>0, <1>1 DEF Settled, Kept
  <1>2. CASE n \in Block /\ ~ Kept(n)
    <2>0. n = req[r].name /\ Touches(r) /\ Tables
      BY <1>2, BlockFrame DEF TablesInv
    <2>1. CASE p \notin Deleting
      BY <2>1, <1>2 DEF Settled
    <2>2. CASE p \in Deleting
      <3>1. IF n \in Repeated THEN pc[r] \notin Creating ELSE pc[r] \notin Deleting
        BY Zenon, <2>0, <2>2 DEF Turns
      <3>2. CASE AllocateBlock(r)
        <4>1. n \notin Repeated
          BY <3>1, <3>2 DEF AllocateBlock
        <4>2. allocs[n] = "none" /\ claims'[n] = "Bound"
          BY Zenon, <1>2, <2>0, <3>2, AllocateEffect
        <4> QED BY <1>0, <1>2, <4>1, <4>2 DEF Settled
      <3>3. CASE ~ AllocateBlock(r)
        <4>1. n \in Repeated
          BY Zenon, <2>0, <3>1, <3>3 DEF Touches, ReleaseAndDelete, DeleteAllocationObject,
             DeleteClaimObject, FreeAllocation, DropAllocation
        <4>2. HeldBy(n) = {} => HeldBy(n)' = {}
          <5>1. CASE ReleaseAndDelete(r)
            BY Zenon, <2>0, <5>1 DEF ReleaseAndDelete, HeldBy
          <5>2. CASE FreeAllocation(r)
            BY <2>0, <5>2 DEF FreeAllocation, HeldBy
          <5>3. CASE DeleteAllocationObject(r) \/ DropAllocation(r) \/ DeleteClaimObject(r)
            BY Zenon, <5>3 DEF DeleteAllocationObject, DropAllocation, DeleteClaimObject, HeldBy
          <5> QED BY Zenon, <2>0, <3>3, <5>1, <5>2, <5>3 DEF Touches
        <4>3. p \in {"tx1", "release", "find", "read", "free"} \/ HeldBy(n) = {}
          BY <1>0, <1>2, <2>2 DEF Settled
        <4> QED BY <4>1, <4>2, <4>3 DEF Settled
      <3> QED BY <3>2, <3>3
    <2> QED BY <2>1, <2>2
  <1>3. CASE n \notin Block
    <2>1. p \notin {"tx1", "release", "delAlloc", "freeAlloc", "dropAlloc"}
      BY <1>3 DEF ReqShape, Releases
    <2> QED BY <1>3, <2>1 DEF Settled
  <1> QED BY <1>1, <1>2, <1>3

\* A step of request r leaves its own delete settled.
LEMMA OwnSettled ==
  ASSUME NEW r \in Req, NEW p, NEW n, p = pc'[r], n = req'[r].name,
         Control, ReqShape, TablesInv, Turns, Underway, BlocksAccounted, Acts(r),
         p \in Releases \/ (p = "delClaim" /\ n \in Block)
  PROVE  Settled(p, n)'
  <1> USE DEF Releases
  <1>t. Tables
    BY DEF TablesInv
  <1>e. ~ End(r)
    BY EndEnds DEF Ends
  <1>g. \A to : GoTo(r, to) => p = to /\ n = req[r].name
    BY GoToGoes
  <1>y. TryAgain(r) => p = "release" /\ n = req[r].name
    BY TryAgainGoes DEF Ends
  <1>1. CASE BeginDelete(r)
    <2>1. PICK m \in Name : /\ claims[m] # "none"
                            /\ req' = [req EXCEPT ![r] = [Idle EXCEPT !.name = m]]
                            /\ pc' = [pc EXCEPT ![r] = IF m \in Block THEN "tx1" ELSE "find"]
      BY Zenon, <1>1 DEF BeginDelete
    <2>2. [Idle EXCEPT !.name = m].name = m
      BY DEF Idle
    <2>3. n = m /\ p = "tx1"
      BY <2>1, <2>2 DEF Control
    <2>4. claims' = claims
      BY <1>1 DEF BeginDelete, tables
    <2> QED BY <2>1, <2>3, <2>4 DEF Settled
  <1>2. CASE BeginDeleteAllocation(r)
    <2>1. PICK m \in Block : /\ allocs[m] = "unbound"
                             /\ req' = [req EXCEPT ![r] = [Idle EXCEPT !.name = m]]
      BY Zenon, <1>2 DEF BeginDeleteAllocation
    <2>2. [Idle EXCEPT !.name = m].name = m
      BY DEF Idle
    <2>3. pc' = [pc EXCEPT ![r] = "freeAlloc"] /\ allocs' = allocs /\ rows' = rows
      BY <1>2 DEF BeginDeleteAllocation, tables
    <2>4. n = m /\ p = "freeAlloc"
      BY <2>1, <2>2, <2>3 DEF Control
    <2>5. HeldBy(n)' = {}
      BY <2>1, <2>3, <2>4 DEF BlocksAccounted, HeldBy
    <2> QED BY <2>1, <2>3, <2>4, <2>5 DEF Settled
  <1>3. CASE PublishReleasing(r)
    <2>1. p = "release" /\ n = req[r].name /\ claims' = [claims EXCEPT ![n] = "Releasing"]
      BY <1>3, <1>e, <1>g DEF PublishReleasing
    <2>2. n \in Name
      BY Zenon, <1>3, <2>1 DEF PublishReleasing, ReqShape, Name
    <2>3. claims'[n] = "Releasing"
      BY <1>t, <2>1, <2>2 DEF Tables
    <2> QED BY <2>1, <2>3 DEF Settled
  <1>4. CASE ReleaseAndDelete(r)
    <2>0. Settled("release", req[r].name) /\ req[r].name \in Block
      BY Zenon, <1>4 DEF ReleaseAndDelete, Underway, ReqShape
    <2>1. CASE HeldBy(req[r].name) = {}
      <3>1. p = "delAlloc" /\ n = req[r].name /\ rows' = rows
        BY <1>4, <2>1, <1>g DEF ReleaseAndDelete
      <3>2. HeldBy(n) = {} /\ HeldBy(n)' = {}
        BY <2>1, <3>1 DEF HeldBy
      <3>3. n \in Repeated
        BY <2>0, <3>1, <3>2 DEF Settled, BlocksAccounted
      <3> QED BY Zenon, <3>1, <3>2, <3>3 DEF Settled
    <2>2. CASE HeldBy(req[r].name) # {}
      <3>1. p = "release" /\ n = req[r].name /\ n \in Repeated
        BY <1>4, <2>2, <1>e, <1>y DEF ReleaseAndDelete
      <3> QED BY <3>1 DEF Settled
    <2> QED BY <2>1, <2>2
  <1>5. CASE DeleteAllocationObject(r)
    <2>1. p = "delClaim" /\ n = req[r].name /\ rows' = rows
      BY <1>5, <1>e, <1>g DEF DeleteAllocationObject
    <2>2. HeldBy(n) = {} /\ n \in Repeated
      BY <1>5, <2>1 DEF DeleteAllocationObject, Underway, Settled
    <2>3. HeldBy(n)' = {}
      BY <2>1, <2>2 DEF HeldBy
    <2> QED BY <2>1, <2>2, <2>3 DEF Settled
  <1>6. CASE FreeAllocation(r)
    <2>1. p = "dropAlloc" /\ n = req[r].name /\ rows' = rows /\ OfKey(n) = {}
      BY <1>6, <1>e, <1>g DEF FreeAllocation
    <2>2. Settled("freeAlloc", n) /\ n \in Block
      BY Zenon, <1>6, <2>1 DEF FreeAllocation, Underway, ReqShape
    <2>3. n \in Repeated
      BY Zenon, <2>1, <2>2 DEF Settled, BlocksAccounted
    <2>4. HeldBy(n)' = {}
      BY <2>1, <2>2 DEF Settled, HeldBy
    <2> QED BY <2>1, <2>3, <2>4 DEF Settled
  <1>7. CASE FailAttempt(r)
    <2>1. p = "release" /\ n = req[r].name /\ claims' = claims
      BY <1>7, <1>y DEF FailAttempt, tables
    <2>2. Settled(pc[r], n)
      BY <2>1 DEF Underway
    <2>3. n \notin Repeated => claims[n] # "none"
      BY <1>7, <2>1, <2>2 DEF FailAttempt, Settled
    <2> QED BY <2>1, <2>3 DEF Settled
  <1>8. CASE FindScopeRange(r) \/ ReleaseRangeTree(r)
    <2>1. pc[r] \in Ranging
      BY <1>8 DEF FindScopeRange, ReleaseRangeTree, Ranging
    <2>2. GoesOn(r) /\ n = req[r].name
      BY Zenon, <1>8, <1>t, <2>1, Moves DEF Arrives, GoesOn, Ends, Ranging, Creating
    <2>3. n \in Range /\ n \notin Block
      BY Zenon, <2>1, <2>2, ClaimAssumption DEF ReqShape
    <2> QED BY <2>1, <2>2, <2>3, ClaimAssumption DEF GoesOn, Ranging, Creating
  <1>9. Deletes(r) /\ ~ ReadOccupants(r)
    <2>1. ReadOccupants(r) => pc'[r] \in {"idle", "free", "read"}
      BY GoToGoes, EndEnds DEF ReadOccupants, Ends
    <2>2. pc'[r] \in Deleting
      BY DEF Deleting
    <2> QED BY Zenon, <2>1, <2>2, OnlyDeletes
  <1> QED BY Zenon, <1>1, <1>2, <1>3, <1>4, <1>5, <1>6, <1>7, <1>8, <1>9 DEF Deletes

\* Every action leaves every delete settled.
LEMMA UnderwayStep ==
  ASSUME NEW r \in Req, Control, ReqShape, TablesInv, Turns, Underway, BlocksAccounted, Acts(r)
  PROVE  Underway'
  <1> SUFFICES ASSUME NEW q \in Req PROVE Settled(pc[q], req[q].name)'
    BY DEF Underway
  <1> SUFFICES ASSUME NEW p, NEW n, p = pc'[q], n = req'[q].name PROVE Settled(p, n)'
    BY Zenon DEF Settled, HeldBy
  <1>1. CASE q # r
    <2>1. p = pc[q] /\ n = req[q].name
      BY <1>1, Moves DEF Others, TablesInv
    <2> QED BY <1>1, <2>1, OthersSettled
  <1>2. CASE q = r
    <2>1. CASE p \in Releases \/ (p = "delClaim" /\ n \in Block)
      BY <1>2, <2>1, OwnSettled
    <2>2. CASE ~ (p \in Releases \/ (p = "delClaim" /\ n \in Block))
      BY <2>2 DEF Settled, Releases
    <2> QED BY <2>1, <2>2
  <1> QED BY <1>1, <1>2

\* Claims and IPAllocations keep their phases.
LEMMA StatusTyped ==
  ASSUME NEW r \in Req, Control, ReqShape, Tables, Acts(r)
  PROVE  /\ claims' \in [Name -> {"none", "Bound", "Releasing"}]
         /\ allocs' \in [Block -> {"none", "bound", "unbound"}]
  <1> DEFINE n == req[r].name
  <1>1. \/ claims' = claims
        \/ \E c \in {"none", "Bound", "Releasing"} : claims' = [claims EXCEPT ![n] = c]
    <2>1. CASE AllocateBlock(r)
      BY Zenon, <2>1 DEF AllocateBlock
    <2>2. CASE BindScopeRange(r)
      BY Zenon, <2>2 DEF BindScopeRange
    <2>3. CASE PublishReleasing(r)
      BY <2>3 DEF PublishReleasing
    <2>4. CASE ReleaseAndDelete(r)
      BY <2>4 DEF ReleaseAndDelete
    <2>5. CASE DeleteAllocationObject(r) \/ DeleteClaimObject(r)
      BY Zenon, <2>5 DEF DeleteAllocationObject, DeleteClaimObject
    <2>6. CASE ReleaseRangeTree(r)
      BY Zenon, <2>6 DEF ReleaseRangeTree, tables
    <2>7. CASE ProvisionPool(r) \/ FreeAllocation(r) \/ DropAllocation(r) \/ DeletePool(r) \/ DeletePoolObject(r)
      BY Zenon, <2>7 DEF ProvisionPool, FreeAllocation, DropAllocation, DeletePool, DeletePoolObject
    <2> QED BY <2>1, <2>2, <2>3, <2>4, <2>5, <2>6, <2>7, LooksOnly DEF Acts, Writes
  <1>2. allocs' = allocs \/ \E a \in {"none", "bound", "unbound"} : allocs' = [allocs EXCEPT ![n] = a]
    <2>1. CASE AllocateBlock(r)
      BY Zenon, <2>1 DEF AllocateBlock
    <2>2. CASE ReleaseAndDelete(r)
      BY Zenon, <2>2 DEF ReleaseAndDelete
    <2>3. CASE DeleteAllocationObject(r) \/ FreeAllocation(r) \/ DropAllocation(r)
      BY Zenon, <2>3 DEF DeleteAllocationObject, FreeAllocation, DropAllocation
    <2>4. CASE ReleaseRangeTree(r)
      BY Zenon, <2>4 DEF ReleaseRangeTree, tables
    <2>5. CASE ProvisionPool(r) \/ BindScopeRange(r) \/ PublishReleasing(r) \/ DeleteClaimObject(r)
               \/ DeletePool(r) \/ DeletePoolObject(r)
      BY Zenon, <2>5 DEF ProvisionPool, BindScopeRange, PublishReleasing, DeleteClaimObject, DeletePool,
                  DeletePoolObject
    <2> QED BY Zenon, <2>1, <2>2, <2>3, <2>4, <2>5, LooksOnly DEF Acts, Writes
  <1> QED BY <1>1, <1>2 DEF Tables

-----------------------------------------------------------------------------
(***************************************************************************)
(* The theorems.                                                           *)
(***************************************************************************)
ClaimInv == Control /\ TablesInv /\ ReqShape /\ Turns /\ Underway /\ BlocksAccounted

\* The invariant holds of the empty tables.
LEMMA ClaimInit == Init => ClaimInv
  <1> SUFFICES ASSUME Init PROVE ClaimInv
    OBVIOUS
  <1>1. Control
    BY Zenon, IdleTyped, ClaimAssumption DEF Init, Control, Steps
  <1>2. Tables
    BY DEF Init, Tables
  <1>3. RowShape /\ OneRowPerKey /\ ChainWithheld /\ IdentityNamesPool
    BY DEF Init, RowShape, OneRowPerKey, ChainWithheld, IdentityNamesPool
  <1>4. \A r \in Req : pc[r] = "idle"
    BY DEF Init
  <1>5. ReqShape /\ Turns /\ Underway
    BY <1>4 DEF ReqShape, Turns, Underway, Settled, Releases, Ranging, Creating, Deleting
  <1>6. BlocksAccounted
    BY DEF Init, BlocksAccounted, HeldBy, OfKey, Name
  <1> QED BY <1>1, <1>2, <1>3, <1>5, <1>6 DEF ClaimInv, TablesInv

\* Every step preserves the invariant.
LEMMA ClaimStep ==
  ASSUME ClaimInv, [Next]_vars
  PROVE  ClaimInv'
  <1>1. CASE Next
    <2>1. PICK r \in Req : Acts(r)
      BY <1>1, NextActs
    <2>2. Tables /\ RowShape
      BY DEF ClaimInv, TablesInv
    <2>3. Control'
      BY <2>1, <2>2, ControlStep DEF ClaimInv
    <2>4. TablesInv'
      BY <2>1, <2>2, TablesStep, StatusTyped DEF ClaimInv, TablesInv, Tables
    <2>5. Others(r) /\ (Arrives(r) \/ GoesOn(r) \/ Ends(r))
      BY <2>1, <2>2, Moves DEF ClaimInv
    <2>6. ReqShape' /\ Turns'
      BY <2>5, ReqShapeStep, TurnsStep DEF ClaimInv
    <2>7. Underway' /\ BlocksAccounted'
      BY <2>1, UnderwayStep, BlocksStep DEF ClaimInv
    <2> QED BY <2>3, <2>4, <2>6, <2>7 DEF ClaimInv
  <1>2. CASE UNCHANGED vars
    <2>1. /\ pools' = pools /\ identity' = identity /\ idLock' = idLock /\ rows' = rows
          /\ claims' = claims /\ allocs' = allocs /\ pc' = pc /\ req' = req
      BY <1>2 DEF vars
    <2>2. Control' /\ ReqShape' /\ Turns'
      BY <2>1 DEF ClaimInv, Control, ReqShape, Turns
    <2>3. TablesInv'
      BY <2>1 DEF ClaimInv, TablesInv, Tables, RowShape, OneRowPerKey, ChainWithheld, IdentityNamesPool
    <2>4. Underway' /\ BlocksAccounted'
      BY Zenon, <2>1 DEF ClaimInv, Underway, Settled, BlocksAccounted, HeldBy, OfKey
    <2> QED BY <2>2, <2>3, <2>4 DEF ClaimInv
  <1> QED BY <1>1, <1>2

\* What the tables, the requests under way and the objects have to do with each
\* other, in every reachable state.
THEOREM ClaimInvAlways == Spec => []ClaimInv
  BY ClaimInit, ClaimStep, PTL DEF Spec

\* Every variable keeps its type, and an identity row nobody has committed belongs
\* to the request that is carving that pool (claimPoolIdentity).
THEOREM ClaimsTyped == Spec => []TypeOK
  <1>1. ClaimInv => TypeOK
    BY TypeSplit DEF ClaimInv, TablesInv
  <1> QED BY <1>1, ClaimInvAlways, PTL

\* A provisioned pool's range is never handed back while the pool exists, and no
\* row outlives the pool it lies in: releases of a range and deletes of a pool that
\* race creates are refused or take everything (releaseRangeTree, ippool Delete).
THEOREM ChainStaysWithheld == Spec => []ChainWithheld
  <1>1. ClaimInv => ChainWithheld
    BY DEF ClaimInv, TablesInv
  <1> QED BY <1>1, ClaimInvAlways, PTL

\* The rows of ipam_pool_identity are those of the pools that exist, so the loser
\* of a provisioning race finds the winner's pool (ensureLevel).
THEOREM IdentitiesNamePools == Spec => []IdentityNamesPool
  <1>1. ClaimInv => IdentityNamesPool
    BY DEF ClaimInv, TablesInv
  <1> QED BY <1>1, ClaimInvAlways, PTL

\* However creates, deletes, retries and cancellations interleave, a Block claim
\* exists exactly while it holds a row and its IPAllocation says so, and a retained
\* row whose deletes were not repeated keeps the IPAllocation that releases it
\* (ipclaim Create and Delete, ipallocation Delete).
THEOREM BlocksAreAccounted == Spec => []BlocksAccounted
  <1>1. ClaimInv => BlocksAccounted
    BY DEF ClaimInv
  <1> QED BY <1>1, ClaimInvAlways, PTL

-----------------------------------------------------------------------------
(***************************************************************************)
(* ScopeRange claims, where they are all made at one level.                *)
(***************************************************************************)
OneRangeLevel == \A a, b \in RangeLevels : a = b

\* A create asks for a range level; a delete still has its claim, and once it has
\* found the range it frees the levels from that range down.
Ranged(p, q) ==
  /\ p \in Creating /\ q.name \in Range => q.to \in RangeLevels
  /\ p \in Ranging => claims[q.name] # "none"
  /\ p \in {"read", "free"} =>
       q.to \in RangeLevels /\ q.to <= q.at /\ \A w \in HeldBy(q.name) : w.key = q.to
  /\ p = "delClaim" => q.name \notin Range

RangeInv ==
  /\ RangesAccounted
  /\ \A w \in rows : w.claim \in Range => w.key \in RangeLevels
  /\ \A r \in Req : Ranged(pc[r], req[r])

\* Range g stands as it did.
RangeKept(g) == HeldBy(g)' = HeldBy(g) /\ (claims'[g] = "none" <=> claims[g] = "none")

\* Changes to other claims leave range g alone.
LEMMA RangeKeeps ==
  ASSUME Tables, NEW g \in Range,
         \A w \in rows' \ rows : w.claim # g, \A w \in rows \ rows' : w.claim # g,
         claims' = claims \/ \E m, c : m # g /\ claims' = [claims EXCEPT ![m] = c]
  PROVE  RangeKept(g)
  <1>1. HeldBy(g)' = HeldBy(g)
    BY DEF HeldBy
  <1>2. claims'[g] = claims[g]
    BY DEF Tables, Name
  <1> QED BY <1>1, <1>2 DEF RangeKept

\* Binding one range leaves the others alone.
LEMMA BindKeepsOthers ==
  ASSUME NEW r \in Req, ClaimInv, NEW g \in Range, g # req[r].name, BindScopeRange(r)
  PROVE  RangeKept(g)
  <1>t. Tables /\ Control /\ ReqShape /\ TablesInv /\ g \in Name /\ g \notin Level /\ g \notin Block /\ g # None
    BY ClaimAssumption DEF ClaimInv, TablesInv, Name
  <1> DEFINE m == req[r].name
  <1>1. claims' = claims \/ claims' = [claims EXCEPT ![m] = "Bound"]
    BY Zenon DEF BindScopeRange
  <1>2. rows' = rows \/ \E w \in OfKey(req[r].to) \cap HeldBy(req[r].to) : rows' = Rebind(w, m)
    BY DEF BindScopeRange
  <1>3. CASE rows' = rows
    BY <1>t, <1>1, <1>3, RangeKeeps
  <1>4. ASSUME NEW w \in OfKey(req[r].to) \cap HeldBy(req[r].to), rows' = Rebind(w, m)
        PROVE  RangeKept(g)
    <2>1. w \in rows /\ w.claim \in Level /\ w \in Row
      BY <1>t DEF OfKey, HeldBy, Control, Request, Tables
    <2>2. m \in Name
      BY DEF BindScopeRange, Name
    <2> DEFINE x == [w EXCEPT !.claim = m]
    <2>3. x.claim = m
      BY <2>1, <2>2, Relabelled
    <2>4. rows' = (rows \ {w}) \cup {x}
      BY <1>4 DEF Rebind
    <2> HIDE DEF x
    <2> QED BY Zenon, <1>t, <1>1, <2>1, <2>3, <2>4, RangeKeeps
  <1> QED BY <1>2, <1>3, <1>4

\* Releasing a block leaves the ranges alone.
LEMMA ReleaseKeepsRanges ==
  ASSUME NEW r \in Req, ClaimInv, NEW g \in Range, ReleaseAndDelete(r)
  PROVE  RangeKept(g)
  <1>t. Tables /\ Control /\ ReqShape /\ TablesInv /\ g \in Name /\ g \notin Level /\ g \notin Block /\ g # None
    BY ClaimAssumption DEF ClaimInv, TablesInv, Name
  <1>0. CASE rows' = rows /\ claims' = claims
    BY <1>0, <1>t, RangeKeeps
  <1> DEFINE m == req[r].name
  <1>1. m \in Block /\ m # g
    BY Zenon, <1>t DEF ReleaseAndDelete, ReqShape, Releases
  <1>2. CASE HeldBy(m) = {}
    BY Zenon, <1>0, <1>2 DEF ReleaseAndDelete
  <1>3. CASE HeldBy(m) # {}
    <2>1. PICK w \in rows :
            /\ HeldBy(m) = {w} /\ w.key = m
            /\ IF w.policy = "Retain"
               THEN Unbound(HeldBy(m)) # {} /\ (rows \ HeldBy(m)) \cup Unbound(HeldBy(m)) = Rebind(w, None)
               ELSE Unbound(HeldBy(m)) = {} /\ (rows \ HeldBy(m)) \cup Unbound(HeldBy(m)) = rows \ {w}
      BY Zenon, <1>t, <1>1, <1>3, Released
    <2> DEFINE x == [w EXCEPT !.claim = None]
    <2>2. rows' = rows \ {w} \/ rows' = (rows \ {w}) \cup {x}
      BY Zenon, <1>3, <2>1 DEF ReleaseAndDelete, Rebind
    <2>3. x.claim = None /\ w.claim = m
      BY <1>t, <2>1, Relabelled DEF Tables, HeldBy
    <2>4. claims' = [claims EXCEPT ![m] = "none"]
      BY Zenon, <1>3 DEF ReleaseAndDelete
    <2> HIDE DEF x
    <2> QED BY Zenon, <1>t, <1>1, <2>2, <2>3, <2>4, RangeKeeps
  <1> QED BY <1>2, <1>3

\* Releasing one range leaves the others alone: they hold carves of another key.
LEMMA TreeKeepsOthers ==
  ASSUME OneRangeLevel, NEW r \in Req, ClaimInv, RangeInv, NEW g \in Range, g # req[r].name,
         ReleaseRangeTree(r)
  PROVE  RangeKept(g)
  <1>t. Tables /\ Control /\ ReqShape /\ TablesInv /\ g \in Name /\ g \notin Level /\ g \notin Block /\ g # None
    BY ClaimAssumption DEF ClaimInv, TablesInv, Name
  <1>1. claims' = claims \/ claims' = [claims EXCEPT ![req[r].name] = "none"]
    BY DEF ReleaseRangeTree, tables
  <1>2. rows' = rows \/ rows' = { w \in rows : w.key \notin Freed(r) }
    BY DEF ReleaseRangeTree, tables
  <1>3. /\ req[r].to \in RangeLevels /\ claims[req[r].name] # "none" /\ req[r].name \in Range
        /\ \A w \in HeldBy(req[r].name) : w.key = req[r].to
    BY Zenon, <1>t DEF ReleaseRangeTree, RangeInv, Ranged, Ranging, ReqShape
  <1>4. PICK v \in rows : HeldBy(req[r].name) = {v}
    BY Zenon, <1>3 DEF RangeInv, RangesAccounted
  <1>5. v.claim = req[r].name /\ v.key = req[r].to
    BY <1>3, <1>4 DEF HeldBy
  <1>6. \A w \in rows : w.claim = g => w.key \notin Freed(r)
    <2> SUFFICES ASSUME NEW w \in rows, w.claim = g, w.key \in Freed(r) PROVE FALSE
      OBVIOUS
    <2>1. w.key \in RangeLevels
      BY DEF RangeInv
    <2>2. w.key = req[r].to
      BY <1>3, <2>1 DEF OneRangeLevel
    <2>3. w = v
      BY <1>t, <1>5, <2>2 DEF TablesInv, OneRowPerKey
    <2> QED BY <1>5, <2>3
  <1> QED BY <1>t, <1>1, <1>2, <1>6, RangeKeeps

\* Only the claim's own requests touch what it holds.
LEMMA RangeFrame ==
  ASSUME OneRangeLevel, NEW r \in Req, ClaimInv, RangeInv, Acts(r), NEW g \in Range
  PROVE  RangeKept(g) \/ (g = req[r].name /\ (BindScopeRange(r) \/ ReleaseRangeTree(r)))
  <1>t. Tables /\ Control /\ ReqShape /\ TablesInv /\ g \in Name /\ g \notin Level /\ g \notin Block /\ g # None
    BY ClaimAssumption DEF ClaimInv, TablesInv, Name
  <1>0. CASE rows' = rows /\ claims' = claims
    BY <1>0, <1>t, RangeKeeps
  <1>1. CASE ProvisionPool(r)
    <2>1. rows' = rows \/ rows' = rows \cup {Carve(req[r].at)}
      BY Zenon, <1>1 DEF ProvisionPool
    <2>2. Carve(req[r].at).claim # g
      BY <1>t DEF Carve, Control, Request
    <2> QED BY Zenon, <1>1, <1>t, <2>1, <2>2, RangeKeeps DEF ProvisionPool
  <1>2. CASE AllocateBlock(r)
    <2> DEFINE m == req[r].name
               x == [pool |-> Depth, key |-> m, claim |-> m, policy |-> req[r].policy]
    <2>1. rows' = rows \/ rows' = rows \cup {x}
      BY Zenon, <1>2 DEF AllocateBlock
    <2>2. m # g /\ x.claim = m
      BY Zenon, <1>2, <1>t DEF AllocateBlock
    <2>3. claims' = claims \/ claims' = [claims EXCEPT ![m] = "Bound"]
      BY Zenon, <1>2 DEF AllocateBlock
    <2> HIDE DEF x
    <2> QED BY <1>t, <2>1, <2>2, <2>3, RangeKeeps
  <1>3. CASE g # req[r].name /\ BindScopeRange(r)
    BY <1>3, BindKeepsOthers
  <1>4. CASE PublishReleasing(r) \/ DeleteAllocationObject(r)
    <2>1. req[r].name # g
      BY <1>4, <1>t DEF PublishReleasing, DeleteAllocationObject, ReqShape, Releases
    <2> QED BY <1>4, <1>t, <2>1, RangeKeeps DEF PublishReleasing, DeleteAllocationObject
  <1>5. CASE DeleteClaimObject(r)
    <2>1. req[r].name # g
      BY <1>5, <1>t DEF DeleteClaimObject, RangeInv, Ranged
    <2> QED BY Zenon, <1>5, <1>t, <2>1, RangeKeeps DEF DeleteClaimObject
  <1>6. CASE ReleaseAndDelete(r)
    BY <1>6, ReleaseKeepsRanges
  <1>7. CASE FreeAllocation(r)
    <2>1. rows' = rows \/ rows' = rows \ OfKey(req[r].name)
      BY Zenon, <1>7 DEF FreeAllocation
    <2>2. req[r].name \in Block /\ req[r].name \notin Level
      BY Zenon, <1>7, ClaimAssumption DEF FreeAllocation, ReqShape, Releases, ClaimInv, Name
    <2>3. \A w \in rows : w.claim = g => w.key # req[r].name
      BY <1>t, <2>2, Holder DEF TablesInv
    <2> QED BY Zenon, <1>7, <1>t, <2>1, <2>3, RangeKeeps DEF FreeAllocation, OfKey
  <1>8. CASE g # req[r].name /\ ReleaseRangeTree(r)
    BY <1>8, TreeKeepsOthers
  <1>9. CASE DeletePool(r) \/ DeletePoolObject(r)
    <2>1. rows' = rows \/ rows' = rows \ HeldBy(req[r].at)
      BY Zenon, <1>9 DEF DeletePool, DeletePoolObject, DropObject
    <2>2. req[r].at # g
      BY <1>t DEF Control, Request
    <2> QED BY Zenon, <1>9, <1>t, <2>1, <2>2, RangeKeeps DEF DeletePool, DeletePoolObject, HeldBy
  <1>10. CASE Looks(r) \/ DropAllocation(r)
    BY <1>0, <1>10, LooksOnly DEF DropAllocation
  <1> QED BY <1>1, <1>2, <1>3, <1>4, <1>5, <1>6, <1>7, <1>8, <1>9, <1>10 DEF Acts, Writes

\* A range claim is bound to one carve, and freed with the carve it held.
LEMMA BindEffect ==
  ASSUME NEW r \in Req, NEW g, g = req[r].name, ClaimInv, RangeInv, BindScopeRange(r), ~ RangeKept(g)
  PROVE  /\ claims[g] = "none" /\ claims'[g] = "Bound"
         /\ \E x \in rows' : HeldBy(g)' = {x} /\ x.key = req[r].to
  <1>t. Tables /\ Control /\ g \in Range /\ g \in Name /\ g \notin Level
    BY Zenon, ClaimAssumption DEF ClaimInv, TablesInv, BindScopeRange, Name
  <1> DEFINE free == OfKey(req[r].to) \cap HeldBy(req[r].to)
             ok == free # {} /\ claims[g] = "none" /\ ~req[r].dry
  <1>1. CASE ~ ok
    <2>1. rows' = rows /\ claims' = claims
      BY Zenon, <1>1 DEF BindScopeRange
    <2> QED BY Zenon, <1>t, <2>1, RangeKeeps
  <1>2. CASE ok
    <2>1. PICK w \in free : rows' = Rebind(w, g)
      BY Zenon, <1>2 DEF BindScopeRange
    <2>2. claims' = [claims EXCEPT ![g] = "Bound"] /\ claims[g] = "none"
      BY Zenon, <1>2 DEF BindScopeRange
    <2>3. w \in rows /\ w \in Row /\ w.key = req[r].to
      BY <1>t DEF OfKey, Tables
    <2> DEFINE x == [w EXCEPT !.claim = g]
    <2>4. x.claim = g /\ x.key = req[r].to
      BY <1>t, <2>3, Relabelled
    <2>5. rows' = (rows \ {w}) \cup {x}
      BY <2>1 DEF Rebind
    <2> HIDE DEF x
    <2>6. HeldBy(g) = {}
      BY Zenon, <1>t, <2>2 DEF RangeInv, RangesAccounted
    <2>7. HeldBy(g)' = {x} /\ x \in rows'
      BY Zenon, <2>4, <2>5, <2>6 DEF HeldBy
    <2>8. claims'[g] = "Bound"
      BY <1>t, <2>2 DEF Tables
    <2> QED BY Zenon, <2>2, <2>4, <2>7, <2>8
  <1> QED BY Zenon, <1>1, <1>2

\* releaseRangeTree frees the carve its claim holds, or is refused as a whole.
LEMMA RangeReleaseEffect ==
  ASSUME NEW r \in Req, NEW g, g = req[r].name, ClaimInv, RangeInv, ReleaseRangeTree(r)
  PROVE  /\ End(r)
         /\ RangeKept(g) \/ (HeldBy(g)' = {} /\ claims'[g] = "none")
  <1>t. Tables /\ Control /\ g \in Range /\ g \in Name
    BY Zenon DEF ClaimInv, TablesInv, ReleaseRangeTree, ReqShape, Ranging, Name
  <1>1. /\ req[r].to <= req[r].at /\ claims[g] # "none"
        /\ \A w \in HeldBy(g) : w.key = req[r].to
    BY Zenon DEF ReleaseRangeTree, RangeInv, Ranged, Ranging
  <1>2. req[r].to \in Int /\ req[r].at \in Int
    BY <1>t DEF Control, Request, Level
  <1>3. req[r].to \in Freed(r)
    BY <1>1, <1>2 DEF Freed
  <1>4. PICK v \in rows : HeldBy(g) = {v}
    BY <1>t, <1>1 DEF RangeInv, RangesAccounted
  <1>5. v.key \in Freed(r)
    BY <1>1, <1>3, <1>4
  <1> DEFINE left == { w \in rows : w.key \notin Freed(r) }
  <1>6. left # rows
    BY <1>5
  <1>7. End(r)
    BY <1>6 DEF ReleaseRangeTree
  <1>8. CASE rows' = rows /\ claims' = claims
    BY <1>t, <1>7, <1>8, RangeKeeps
  <1>9. CASE ~ (rows' = rows /\ claims' = claims)
    <2>1. rows' = left /\ claims' = [claims EXCEPT ![g] = "none"]
      BY <1>6, <1>9 DEF ReleaseRangeTree
    <2>2. \A w \in rows : w.claim = g => w \notin left
      BY <1>4, <1>5 DEF HeldBy
    <2>3. HeldBy(g)' = {}
      BY <2>1, <2>2 DEF HeldBy
    <2>4. claims'[g] = "none"
      BY <1>t, <2>1 DEF Tables
    <2> QED BY <1>7, <2>3, <2>4
  <1> QED BY <1>8, <1>9

\* A step of request r leaves the other requests' ranges as they need them.
LEMMA OthersRanged ==
  ASSUME OneRangeLevel, NEW r \in Req, NEW t \in Req \ {r}, NEW p, NEW q, p = pc[t], q = req[t],
         ClaimInv, RangeInv, Acts(r)
  PROVE  Ranged(p, q)'
  <1>0. Ranged(p, q)
    BY DEF RangeInv
  <1>1. CASE p \in Ranging
    <2> DEFINE g == q.name
    <2>1. g \in Range /\ g \notin Repeated
      BY Zenon, <1>1, ClaimAssumption DEF ClaimInv, ReqShape
    <2>2. RangeKept(g)
      <3> SUFFICES ASSUME ~ RangeKept(g) PROVE FALSE
        BY Zenon
      <3>1. g = req[r].name /\ (BindScopeRange(r) \/ ReleaseRangeTree(r))
        BY <2>1, RangeFrame
      <3>2. claims[g] # "none"
        BY <1>0, <1>1 DEF Ranged
      <3>3. CASE BindScopeRange(r)
        BY <3>1, <3>2, <3>3, BindEffect
      <3>4. CASE ReleaseRangeTree(r)
        BY Zenon, <1>1, <2>1, <3>1, <3>4 DEF ReleaseRangeTree, ClaimInv, Turns, Deleting, Ranging
      <3> QED BY Zenon, <3>1, <3>3, <3>4
    <2> QED BY Zenon, <1>0, <1>1, <2>2 DEF Ranged, RangeKept, Ranging, Creating
  <1>2. CASE p \notin Ranging
    BY Zenon, <1>0, <1>2 DEF Ranged, Ranging
  <1> QED BY <1>1, <1>2

\* FindScopeRange learns the level its claim's carve stands at.
LEMMA FindRanges ==
  ASSUME NEW r \in Req, NEW p, NEW q, p = pc'[r], q = req'[r], ClaimInv, RangeInv, FindScopeRange(r)
  PROVE  Ranged(p, q)'
  <1> USE DEF Creating, Ranging
  <1>t. Tables /\ Control /\ ReqShape
    BY DEF ClaimInv, TablesInv
  <1>0. Ranged(pc[r], req[r])
    BY DEF RangeInv
  <1> DEFINE g == req[r].name
  <1>1. claims[g] # "none" /\ g \in Range
    BY <1>0, <1>t DEF FindScopeRange, Ranged, ReqShape
  <1>2. PICK v \in rows : HeldBy(g) = {v}
    BY <1>1 DEF RangeInv, RangesAccounted
  <1>3. /\ req' = [req EXCEPT ![r].at = v.key, ![r].to = v.key]
        /\ pc' = [pc EXCEPT ![r] = "read"] /\ rows' = rows /\ claims' = claims
    BY <1>2 DEF FindScopeRange, tables
  <1>4. p = "read" /\ q.name = g /\ q.to = v.key /\ q.at = v.key
    <2>1. req' = [req EXCEPT ![r] = [req[r] EXCEPT !.at = v.key, !.to = v.key]]
      BY Zenon, <1>t, <1>3 DEF Control
    <2>2. \A x \in Request : \A k : LET y == [x EXCEPT !.at = k, !.to = k]
                                    IN  y.name = x.name /\ y.to = k /\ y.at = k
      BY DEF Request
    <2> QED BY <1>t, <1>3, <2>1, <2>2 DEF Control
  <1>5. v.key \in RangeLevels /\ v.key \in Int
    <2>1. v.claim = g
      BY <1>2 DEF HeldBy
    <2>2. v.key \in RangeLevels
      BY <1>1, <2>1 DEF RangeInv
    <2>3. v.key \in Level
      BY <2>2, ClaimAssumption
    <2> HIDE DEF g
    <2> QED BY <2>2, <2>3 DEF Level
  <1>6. \A w : w \in rows' /\ w.claim = g => w.key = v.key
    BY <1>2, <1>3 DEF HeldBy
  <1>7. q.to \in RangeLevels /\ q.to <= q.at
    BY <1>4, <1>5
  <1>8. claims'[q.name] # "none" /\ \A w \in rows' : w.claim = q.name => w.key = q.to
    BY Zenon, <1>1, <1>3, <1>4, <1>6
  <1>9. p = "read"
    BY <1>4
  <1> QED BY Zenon, <1>7, <1>8, <1>9 DEF Ranged, HeldBy

\* ReadOccupants goes down from the claim's own level.
LEMMA ReadsOn ==
  ASSUME NEW r \in Req, NEW p, NEW q, p = pc'[r], q = req'[r], ClaimInv, RangeInv, ReadOccupants(r),
         ~ End(r)
  PROVE  Ranged(p, q)'
  <1> USE DEF Creating, Ranging
  <1>t. Tables /\ Control /\ ReqShape
    BY DEF ClaimInv, TablesInv
  <1>0. Ranged(pc[r], req[r])
    BY DEF RangeInv
  <1>g. \A to : GoTo(r, to) => p = to /\ q = req[r]
    BY <1>t, GoToGoes
  <1>1. rows' = rows /\ claims' = claims /\ pc[r] = "read"
    BY DEF ReadOccupants, tables
  <1>2. GoTo(r, "free") \/ (req' = [req EXCEPT ![r].at = req[r].at + 1] /\ pc' = pc)
    BY DEF ReadOccupants
  <1>3. /\ p \in {"read", "free"} /\ q.name = req[r].name /\ q.to = req[r].to
        /\ q.at = req[r].at \/ q.at = req[r].at + 1
    BY <1>t, <1>g, <1>1, <1>2 DEF Control, Request
  <1>4. req[r].at \in Int /\ req[r].to \in Int
    BY <1>t DEF Control, Request, Level
  <1>5. /\ claims[req[r].name] # "none" /\ req[r].to \in RangeLevels /\ req[r].to <= req[r].at
        /\ \A w \in HeldBy(req[r].name) : w.key = req[r].to
    BY Zenon, <1>0, <1>1 DEF Ranged
  <1>6. \A w : w \in rows' /\ w.claim = q.name => w.key = q.to
    BY Zenon, <1>1, <1>3, <1>5 DEF HeldBy
  <1>7. q.to <= q.at
    <2>0. req[r].to <= req[r].at
      BY Zenon, <1>5
    <2>1. req[r].to <= req[r].at /\ req[r].to <= req[r].at + 1
      BY <1>4, <2>0
    <2>2. q.at = req[r].at \/ q.at = req[r].at + 1
      BY Zenon, <1>3
    <2>3. q.to = req[r].to
      BY Zenon, <1>3
    <2> QED BY Zenon, <2>1, <2>2, <2>3
  <1> QED BY Zenon, <1>1, <1>3, <1>5, <1>6, <1>7 DEF Ranged, HeldBy

\* A step of request r leaves its own range as it needs it.
LEMMA OwnRanged ==
  ASSUME OneRangeLevel, NEW r \in Req, NEW p, NEW q, p = pc'[r], q = req'[r],
         ClaimInv, RangeInv, Acts(r)
  PROVE  Ranged(p, q)'
  <1> USE DEF Creating, Ranging
  <1>t. Tables /\ Control /\ ReqShape
    BY DEF ClaimInv, TablesInv
  <1>0. Ranged(pc[r], req[r])
    BY DEF RangeInv
  <1>m. Arrives(r) \/ GoesOn(r) \/ Ends(r)
    BY <1>t, Moves
  <1>1. CASE p \in Creating
    <2>1. q.name \in Range => q.to \in RangeLevels
      BY Zenon, <1>0, <1>1, <1>m DEF Arrives, GoesOn, Ends, Ranged, Releases
    <2> QED BY <1>1, <2>1 DEF Ranged
  <1>2. CASE p \notin Creating \cup Ranging \cup {"delClaim"}
    BY <1>2 DEF Ranged
  <1>3. CASE p \in Ranging \cup {"delClaim"}
    <2>e. ~ End(r)
      BY Zenon, <1>3, <1>t, EndEnds DEF Ends
    <2>g. \A to : GoTo(r, to) => p = to /\ q = req[r]
      BY Zenon, <1>t, GoToGoes
    <2>y. ~ TryAgain(r)
      BY <1>3, <1>t, TryAgainGoes DEF Ends
    <2>1. CASE BeginDelete(r)
      <3>1. PICK m \in Name : /\ claims[m] # "none"
                              /\ req' = [req EXCEPT ![r] = [Idle EXCEPT !.name = m]]
                              /\ pc' = [pc EXCEPT ![r] = IF m \in Block THEN "tx1" ELSE "find"]
        BY Zenon, <2>1 DEF BeginDelete
      <3>2. [Idle EXCEPT !.name = m].name = m
        BY DEF Idle
      <3>3. q.name = m /\ p = "find"
        BY <1>t, <1>3, <3>1, <3>2 DEF Control
      <3>4. claims' = claims
        BY <2>1 DEF BeginDelete, tables
      <3> QED BY <3>1, <3>3, <3>4 DEF Ranged
    <2>2. CASE DeleteAllocationObject(r)
      <3>1. p = "delClaim" /\ q.name = req[r].name
        BY <2>2, <2>e, <2>g DEF DeleteAllocationObject
      <3>2. req[r].name \notin Range
        BY Zenon, <1>t, <2>2, ClaimAssumption DEF DeleteAllocationObject, ReqShape, Releases
      <3> QED BY <3>1, <3>2 DEF Ranged
    <2>3. CASE FindScopeRange(r)
      BY <2>3, FindRanges
    <2>4. CASE ReadOccupants(r)
      BY Zenon, <2>4, <2>e, ReadsOn
    <2>5. CASE ReleaseRangeTree(r)
      BY Zenon, <2>5, <2>e, RangeReleaseEffect
    <2>6. CASE BeginDeleteAllocation(r)
      <3>1. pc' = [pc EXCEPT ![r] = "freeAlloc"]
        BY <2>6 DEF BeginDeleteAllocation
      <3> QED BY <1>t, <1>3, <3>1 DEF Control
    <2>7. CASE PublishReleasing(r)
      <3>1. GoTo(r, "release")
        BY <2>7, <2>e DEF PublishReleasing
      <3> QED BY <1>3, <2>g, <3>1
    <2>8. CASE ReleaseAndDelete(r)
      <3>1. GoTo(r, "delAlloc")
        BY Zenon, <2>8, <2>e, <2>y DEF ReleaseAndDelete
      <3> QED BY <1>3, <2>g, <3>1
    <2>9. CASE FreeAllocation(r) \/ FailAttempt(r)
      <3>1. GoTo(r, "dropAlloc")
        BY Zenon, <2>9, <2>e, <2>y DEF FreeAllocation, FailAttempt
      <3> QED BY <1>3, <2>g, <3>1
    <2>10. Deletes(r)
      BY <1>3, <1>t, OnlyDeletes DEF Deleting
    <2> QED BY Zenon, <2>1, <2>2, <2>3, <2>4, <2>5, <2>6, <2>7, <2>8, <2>9, <2>10 DEF Deletes
  <1> QED BY <1>1, <1>2, <1>3

\* Every step preserves the range invariant.
LEMMA RangeStep ==
  ASSUME OneRangeLevel, ClaimInv, ClaimInv', RangeInv, [Next]_vars
  PROVE  RangeInv'
  <1>1. CASE Next
    <2>1. PICK r \in Req : Acts(r)
      BY <1>1, NextActs
    <2>t. Tables /\ Control /\ ReqShape
      BY DEF ClaimInv, TablesInv
    <2>2. ASSUME NEW g \in Range
          PROVE  /\ IF claims'[g] = "none" THEN HeldBy(g)' = {} ELSE \E w \in rows' : HeldBy(g)' = {w}
                 /\ \A w \in HeldBy(g)' : w.key \in RangeLevels
      <3>0. /\ IF claims[g] = "none" THEN HeldBy(g) = {} ELSE \E w \in rows : HeldBy(g) = {w}
            /\ \A w \in HeldBy(g) : w.key \in RangeLevels
        BY DEF RangeInv, RangesAccounted, HeldBy
      <3>1. CASE RangeKept(g)
        <4>1. HeldBy(g)' = HeldBy(g) /\ (claims'[g] = "none" <=> claims[g] = "none")
          BY <3>1 DEF RangeKept
        <4>2. \A w \in HeldBy(g)' : w \in rows'
          BY DEF HeldBy
        <4> QED BY <3>0, <4>1, <4>2
      <3>2. CASE ~ RangeKept(g)
        <4>1. g = req[r].name /\ (BindScopeRange(r) \/ ReleaseRangeTree(r))
          BY <2>1, <3>2, RangeFrame
        <4>2. CASE BindScopeRange(r)
          <5>1. PICK x \in rows' : HeldBy(g)' = {x} /\ x.key = req[r].to
            BY Zenon, <3>2, <4>1, <4>2, BindEffect
          <5>2. claims'[g] = "Bound"
            BY <3>2, <4>1, <4>2, BindEffect
          <5>3. req[r].to \in RangeLevels
            BY Zenon, <4>1, <4>2 DEF BindScopeRange, RangeInv, Ranged, Creating
          <5> QED BY <5>1, <5>2, <5>3
        <4>3. CASE ReleaseRangeTree(r)
          BY Zenon, <3>2, <4>1, <4>3, RangeReleaseEffect
        <4> QED BY Zenon, <4>1, <4>2, <4>3
      <3> QED BY <3>1, <3>2
    <2>3. RangesAccounted'
      BY <2>2 DEF RangesAccounted, HeldBy
    <2>4. \A w \in rows' : w.claim \in Range => w.key \in RangeLevels
      BY <2>2 DEF HeldBy
    <2>5. ASSUME NEW t \in Req, NEW p, NEW q, p = pc'[t], q = req'[t]
          PROVE  Ranged(p, q)'
      <3>1. CASE t = r
        BY Zenon, <2>1, <2>5, <3>1, OwnRanged
      <3>2. CASE t # r
        <4>1. p = pc[t] /\ q = req[t]
          BY <2>1, <2>t, <2>5, <3>2, Moves DEF Others
        <4> QED BY <2>1, <3>2, <4>1, OthersRanged
      <3> QED BY <3>1, <3>2
    <2>6. (\A t \in Req : Ranged(pc[t], req[t]))'
      BY Zenon, <2>5 DEF Ranged, HeldBy
    <2> QED BY Zenon, <2>3, <2>4, <2>6 DEF RangeInv
  <1>2. CASE UNCHANGED vars
    BY Zenon, <1>2 DEF vars, RangeInv, RangesAccounted, Ranged, HeldBy
  <1> QED BY <1>1, <1>2

\* Where ScopeRange claims are all made at one level of the chain, such a claim
\* exists exactly while it holds one carve: two claims never share a range, and no
\* release takes another claim's (BindScopeRange, releaseRangeTree).  With ranges
\* inside ranges it does not hold: releaseRangeTree reads a child's holder without
\* a lock and deletes the child by its key.
THEOREM RangesAreAccounted ==
  ASSUME OneRangeLevel
  PROVE  Spec => []RangesAccounted
  <1>1. Init => RangeInv
    <2> SUFFICES ASSUME Init PROVE RangeInv
      OBVIOUS
    <2>1. rows = {} /\ \A g \in Range : claims[g] = "none"
      BY DEF Init, Name
    <2>2. \A r \in Req : pc[r] = "idle"
      BY DEF Init
    <2> QED BY Zenon, <2>1, <2>2 DEF RangeInv, RangesAccounted, Ranged, HeldBy, Creating, Ranging
  <1>2. ClaimInv /\ ClaimInv' /\ RangeInv /\ [Next]_vars => RangeInv'
    BY RangeStep
  <1>3. RangeInv => RangesAccounted
    BY DEF RangeInv
  <1> QED BY <1>1, <1>2, <1>3, ClaimInvAlways, PTL DEF Spec
=============================================================================
