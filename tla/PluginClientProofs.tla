------------------------- MODULE PluginClientProofs -------------------------
(***************************************************************************)
(* The plugin against the server, for every world, number of users and     *)
(* lifetime of the caches: what an exit code of 0 says, what previews,     *)
(* refusals and releases that stop half way leave behind, and that the     *)
(* composition does nothing to the namespace check but what the check by   *)
(* itself could do.  The releases, reads and pools, and what moves around  *)
(* the invocations, come first; the invariant is PluginStepProofs'.        *)
(***************************************************************************)
EXTENDS PluginStepProofs, NamespaceGateProofs

-----------------------------------------------------------------------------
(***************************************************************************)
(* The releases, the reads and the pools.                                  *)
(***************************************************************************)
\* A plan is what is shown before the confirmation, or all there is of a preview.
LEMMA PlanGoes ==
  ASSUME InvTyped, NEW u \in Requests, NEW q, Plan(u, q)
  PROVE  /\ InvTyped' /\ Only(u) /\ inv'[u].cmd = inv[u].cmd
         /\ IF inv[u].cmd.dry THEN inv'[u].at = "done" /\ inv'[u].exit = "OK"
                              ELSE inv'[u].at = "confirm" /\ Blank(inv'[u].exit)
         /\ inv'[u].queue = q /\ inv'[u].planned = Range(q)
         /\ inv'[u].changed = inv[u].changed /\ inv'[u].entitled = inv[u].entitled
<1>1. PICK at, exit : /\ at = IF inv[u].cmd.dry THEN "done" ELSE "confirm"
                      /\ exit = IF inv[u].cmd.dry THEN "OK" ELSE Unset
  OBVIOUS
<1>2. PICK planned : planned = Range(q) /\ Planned(u, q, planned, at, exit)
  BY Zenon, <1>1 DEF Plan, Planned
<1>3. /\ InvTyped' /\ Only(u) /\ inv'[u].at = at /\ inv'[u].cmd = inv[u].cmd /\ inv'[u].exit = exit
      /\ inv'[u].queue = q /\ inv'[u].planned = planned
      /\ inv'[u].changed = inv[u].changed /\ inv'[u].entitled = inv[u].entitled
  <2>1. Planned(u, q, planned, at, exit)
    BY Zenon, <1>2
  <2> QED BY <2>1, PlannedGoes
<1> QED BY <1>1, <1>2, <1>3 DEF Blank

\* A release whose prompt can be shown.
LEMMA PlanKeeps ==
  ASSUME ClientInv, NEW u \in Requests, inv[u].at \in {"run", "fate", "listClaims"},
         inv[u].cmd.op \in Releases, NEW q, PlanFor(inv[u].cmd, q), Plan(u, q), UNCHANGED <<world, serverVars, gateVars>>
  PROVE  ClientInv'
<1>1. InvTyped /\ RunOK(Gated(world), inv[u])
  BY DEF ClientInv, RunsOK
<1>2. /\ InvTyped' /\ Only(u) /\ inv'[u].cmd = inv[u].cmd
      /\ IF inv[u].cmd.dry THEN inv'[u].at = "done" /\ inv'[u].exit = "OK"
                           ELSE inv'[u].at = "confirm" /\ Blank(inv'[u].exit)
      /\ inv'[u].queue = q /\ inv'[u].planned = Range(q)
      /\ inv'[u].changed = inv[u].changed /\ inv'[u].entitled = inv[u].entitled
  BY Zenon, <1>1, PlanGoes
<1>3. RunOK(Gated(world), inv'[u])
  BY Zenon, <1>1, <1>2, PlannedOK
<1> QED BY Zenon, <1>2, <1>3, QuietStep

\* A plan of one delete.
LEMMA OneDelete ==
  ASSUME NEW c, NEW kind \in Kinds, NEW k
  PROVE  PlanFor(c, <<<<kind, k>>>>)
<1> DEFINE q == <<<<kind, k>>>>
<1>1. q \in Seq(Kinds \X {k}) /\ q # <<>> /\ Len(q) = 1
  OBVIOUS
<1> HIDE DEF q
<1>2. \A n \in 1 .. Len(q) : n = Len(q)
  BY <1>1
<1>3. PlanFor(c, q)
  BY Zenon, <1>1, <1>2 DEF PlanFor
<1> QED BY <1>3 DEF q

\* A release reads what it is to delete.
LEMMA GetToReleaseKeeps ==
  ASSUME ClientInv, NEW u \in Requests, GetToRelease(u)
  PROVE  ClientInv'
<1>1. inv[u].at = "run" /\ inv[u].cmd.op = "claimRelease" /\ UNCHANGED world
  BY DEF GetToRelease
<1>2. CASE Lost(u)
  BY <1>1, <1>2, LostKeeps
<1>3. CASE ~Lost(u)
  <2>1. /\ UNCHANGED <<world, serverVars, gateVars>>
        /\ Exit(u, "NotFound") \/ Move(u, "fate")
    BY <1>3 DEF GetToRelease
  <2>2. "NotFound" \in Exits /\ <<"run", "fate">> \in OnTheWay(inv[u].cmd.op)
    BY <1>1 DEF Exits, OnTheWay
  <2> QED BY <1>1, <2>1, <2>2, ExitKeeps, MoveKeeps
<1> QED BY <1>2, <1>3

\* claim release: the fate of the allocation is shown, and the delete planned.
LEMMA ShowFateKeeps ==
  ASSUME ClientInv, NEW u \in Requests, ShowFate(u)
  PROVE  ClientInv'
<1>1. /\ inv[u].at = "fate" /\ Plan(u, <<<<"claim", Key(inv[u].cmd)>>>>)
      /\ UNCHANGED <<world, serverVars, gateVars>>
  BY DEF ShowFate
<1>2. inv[u].cmd.op \in Releases
  BY Zenon, <1>1 DEF ClientInv, RunsOK, RunOK, CommandOK, Releases
<1>3. PICK k, q : k = Key(inv[u].cmd) /\ q = <<<<"claim", k>>>>
  BY Zenon
<1>4. PlanFor(inv[u].cmd, q) /\ Plan(u, q)
  BY <1>1, <1>3, OneDelete DEF Kinds
<1> QED BY <1>1, <1>2, <1>4, PlanKeeps

\* allocation release: the allocation is read, and a bound one refused.
LEMMA GetAllocationKeeps ==
  ASSUME ClientInv, NEW u \in Requests, GetAllocation(u)
  PROVE  ClientInv'
<1>1. inv[u].at = "run" /\ inv[u].cmd.op = "allocationRelease" /\ UNCHANGED world
  BY DEF GetAllocation
<1>2. CASE Lost(u)
  BY <1>1, <1>2, LostKeeps
<1>3. CASE ~Lost(u)
  <2>1. /\ UNCHANGED <<world, serverVars, gateVars>>
        /\ Exit(u, "NotFound") \/ Exit(u, "Conflict") \/ Plan(u, <<<<"alloc", Key(inv[u].cmd)>>>>)
    BY <1>3 DEF GetAllocation
  <2>2. "NotFound" \in Exits /\ "Conflict" \in Exits /\ inv[u].cmd.op \in Releases
    BY <1>1 DEF Exits, Releases
  <2>3. PICK k, q : k = Key(inv[u].cmd) /\ q = <<<<"alloc", k>>>>
    BY Zenon
  <2>4. PlanFor(inv[u].cmd, q)
    BY <2>3, OneDelete DEF Kinds
  <2>5. CASE Plan(u, q)
    BY <1>1, <2>1, <2>2, <2>4, <2>5, PlanKeeps
  <2> QED BY <1>1, <2>1, <2>2, <2>3, <2>5, ExitKeeps
<1> QED BY <1>2, <1>3

\* pool release: the pool is read.
LEMMA GetPoolKeeps ==
  ASSUME ClientInv, NEW u \in Requests, GetPool(u)
  PROVE  ClientInv'
<1>1. inv[u].at = "run" /\ inv[u].cmd.op = "poolRelease" /\ UNCHANGED world
  BY DEF GetPool
<1>2. CASE Lost(u)
  BY <1>1, <1>2, LostKeeps
<1>3. CASE ~Lost(u)
  <2>1. /\ UNCHANGED <<world, serverVars, gateVars>>
        /\ Exit(u, "NotFound") \/ Move(u, "listPools")
    BY <1>3 DEF GetPool
  <2>2. "NotFound" \in Exits /\ <<"run", "listPools">> \in OnTheWay(inv[u].cmd.op)
    BY <1>1 DEF Exits, OnTheWay
  <2> QED BY <1>1, <2>1, <2>2, ExitKeeps, MoveKeeps
<1> QED BY <1>2, <1>3

\* No pool is its own child, so the pool to release is not in the list.
LEMMA ListChildPoolsKeeps ==
  ASSUME ClientInv, NEW u \in Requests, ListChildPools(u)
  PROVE  ClientInv'
<1>1. inv[u].at = "listPools" /\ UNCHANGED <<world, serverVars, gateVars>>
  BY DEF ListChildPools
<1>2. InvTyped /\ RunOK(Gated(world), inv[u]) /\ PoolsOK
  BY DEF ClientInv, RunsOK, ServerInv
<1>3. PICK seen \in {Children(inv[u].cmd.name), {}} :
        inv' = [inv EXCEPT ![u].at = "listClaims", ![u].children = seen]
  BY Zenon DEF ListChildPools
<1>4. seen \subseteq DOMAIN pools /\ inv[u].cmd.name \notin seen
  BY <1>2, <1>3 DEF Children, PoolsOK
<1>5. IsFiniteSet(seen)
  BY <1>2, <1>4, FS_Subset DEF PoolsOK
<1>6. /\ InvTyped' /\ Only(u) /\ inv'[u].at = "listClaims" /\ inv'[u].cmd = inv[u].cmd
      /\ inv'[u].exit = inv[u].exit /\ inv'[u].children = seen
      /\ inv'[u].changed = inv[u].changed /\ inv'[u].entitled = inv[u].entitled
  BY Zenon, <1>2, <1>3, ListedGoes
<1>7. RunOK(Gated(world), inv'[u])
  BY Zenon, <1>1, <1>2, <1>4, <1>5, <1>6, ListedOK
<1> QED BY <1>1, <1>6, <1>7, QuietStep

\* The claims and the child pools first, then the pool.
LEMMA CascadeIsPlan ==
  ASSUME NEW c, NEW K, NEW C, IsFiniteSet(K), IsFiniteSet(C), c.name \notin C, c.cascade \/ c.dry
  PROVE  PlanFor(c, (Listing({ <<"claim", k>> : k \in K }) \o Listing({ <<"pool", p>> : p \in C }))
                      \o <<<<"pool", c.name>>>>)
<1> DEFINE S == Kinds \X (K \cup C \cup {c.name})
           A == { <<"claim", k>> : k \in K }
           B == { <<"pool", p>> : p \in C }
           a == Listing(A)
           b == Listing(B)
           pool == <<"pool", c.name>>
<1>1. IsFiniteSet(A) /\ IsFiniteSet(B)
  BY Zenon, TagsAreFinite
<1>2. A \subseteq S /\ B \subseteq S /\ pool \in S /\ pool \notin A /\ pool \notin B
  BY DEF Kinds
<1> HIDE DEF A, B, pool
<1>3. a \in Seq(A) /\ b \in Seq(B)
  BY <1>1, SetIsListed
<1> HIDE DEF a, b, S
<1>4. /\ a \in Seq(S) /\ b \in Seq(S)
      /\ \A n \in 1 .. Len(a) : a[n] # pool
      /\ \A n \in 1 .. Len(b) : b[n] # pool
  BY <1>2, <1>3
<1>0. PICK q : q = (a \o b) \o <<pool>>
  BY Zenon
<1>5. /\ q \in Seq(S) /\ q # <<>>
      /\ \A n \in 1 .. Len(q) : q[n] = pool => n = Len(q)
  BY <1>0, <1>2, <1>4, PlanEnds
<1>6. PlanFor(c, q)
  BY Zenon, <1>5 DEF PlanFor, pool, S
<1> QED BY <1>0, <1>6 DEF a, b, A, B, pool

\* pool release: the claims in it are listed, and the deletes planned.
LEMMA ListHeldPrefixesKeeps ==
  ASSUME ClientInv, NEW u \in Requests, ListHeldPrefixes(u)
  PROVE  ClientInv'
<1> DEFINE c == inv[u].cmd
           C == inv[u].children
           list(K) == (IF c.cascade \/ c.dry
                       THEN Listing({ <<"claim", k>> : k \in K }) \o Listing({ <<"pool", p>> : p \in C })
                       ELSE <<>>) \o <<<<"pool", c.name>>>>
<1>1. inv[u].at = "listClaims" /\ UNCHANGED <<world, serverVars, gateVars>>
  BY DEF ListHeldPrefixes
<1>2. /\ c.op \in Releases /\ c.name \notin C /\ IsFiniteSet(C)
  BY Zenon, <1>1 DEF ClientInv, RunsOK, RunOK, CommandOK, PlanOK, Releases
<1>3. PICK K \in SUBSET DOMAIN claims : Exit(u, "Conflict") \/ Plan(u, list(K))
  BY Zenon DEF ListHeldPrefixes
<1>4. IsFiniteSet(K)
  BY <1>3, FS_Subset DEF ClientInv, ServerInv, ClaimsOK
<1>5. PlanFor(c, list(K))
  <2>1. CASE c.cascade \/ c.dry
    <3>1. list(K) = (Listing({ <<"claim", k>> : k \in K }) \o Listing({ <<"pool", p>> : p \in C }))
                      \o <<<<"pool", c.name>>>>
      BY Zenon, <2>1
    <3>2. PlanFor(c, (Listing({ <<"claim", k>> : k \in K }) \o Listing({ <<"pool", p>> : p \in C }))
                      \o <<<<"pool", c.name>>>>)
      BY Zenon, <1>2, <1>4, <2>1, CascadeIsPlan
    <3> QED BY Zenon, <3>1, <3>2
  <2>2. CASE ~(c.cascade \/ c.dry)
    <3>1. list(K) = <<>> \o <<<<"pool", c.name>>>>
      BY Zenon, <2>2
    <3>2. \A x : <<>> \o <<x>> = <<x>>
      OBVIOUS
    <3>3. PlanFor(c, <<<<"pool", c.name>>>>)
      BY OneDelete DEF Kinds
    <3>4. <<>> \o <<<<"pool", c.name>>>> = <<<<"pool", c.name>>>>
      BY Zenon, <3>2
    <3> HIDE DEF list
    <3> QED BY Zenon, <3>1, <3>3, <3>4
  <2> QED BY <2>1, <2>2
<1>6. PICK q : q = list(K)
  BY Zenon
<1>7. PlanFor(inv[u].cmd, q) /\ (Exit(u, "Conflict") \/ Plan(u, q))
  BY Zenon, <1>3, <1>5, <1>6
<1>8. "Conflict" \in Exits
  BY DEF Exits
<1> HIDE DEF list, c
<1>9. CASE Plan(u, q)
  BY <1>1, <1>2, <1>7, <1>9, PlanKeeps DEF c
<1> QED BY <1>1, <1>7, <1>8, <1>9, ExitKeeps

\* A release is confirmed, or aborted.
LEMMA ConfirmKeeps ==
  ASSUME ClientInv, NEW u \in Requests, Confirm(u)
  PROVE  ClientInv'
<1>1. /\ inv[u].at = "confirm" /\ UNCHANGED <<world, serverVars, gateVars>>
      /\ Move(u, "delete") \/ Exit(u, "Aborted")
  BY Zenon DEF Confirm
<1>2. "Aborted" \in Exits /\ <<"confirm", "delete">> \in OnTheWay(inv[u].cmd.op)
  BY DEF Exits, OnTheWay
<1> QED BY <1>1, <1>2, ExitKeeps, MoveKeeps

\* A read answers from what is stored.
LEMMA ReadKeeps ==
  ASSUME ClientInv, NEW u \in Requests, Show(u) \/ List(u)
  PROVE  ClientInv'
<1>1. inv[u].at = "run" /\ inv[u].cmd.op \in Shows \cup Lists /\ UNCHANGED world
  BY DEF Show, List
<1>2. InvTyped /\ RunOK(Gated(world), inv[u])
  BY DEF ClientInv, RunsOK
<1>3. CASE Lost(u)
  BY <1>1, <1>3, LostKeeps
<1>4. CASE ~Lost(u)
  <2>1. UNCHANGED <<world, serverVars, gateVars>>
    BY <1>4 DEF Show, List
  <2>2. \E e \in {"NotFound", "OK"} : \E answer : Reply(u, e, answer)
    BY Zenon, <1>4 DEF Show, List
  <2>3. PICK e \in {"NotFound", "OK"} : \E answer : Reply(u, e, answer)
    BY <2>2
  <2>4. PICK answer : Reply(u, e, answer)
    BY <2>3
  <2>5. /\ InvTyped' /\ Only(u) /\ inv'[u].at = "done" /\ inv'[u].cmd = inv[u].cmd /\ inv'[u].exit = e
        /\ inv'[u].changed = inv[u].changed /\ inv'[u].entitled = inv[u].entitled
    BY Zenon, <1>2, <2>4, ReplyGoes
  <2>6. inv[u].changed = {} /\ e \in Exits /\ inv[u].cmd.op \notin Releases \cup {"claimCreate"}
    BY <1>1, <1>2, <2>3 DEF RunOK, ChangesOK, Exits, Shows, Lists, Releases
  <2>7. inv'[u].changed \subseteq ParentPools(inv'[u])
    BY Zenon, <2>5, <2>6
  <2>8. RunOK(Gated(world), inv'[u])
    BY Zenon, <1>1, <1>2, <2>5, <2>6, <2>7, ReplyOK DEF Working
  <2> QED BY <1>1, <2>1, <2>5, <2>8, QuietStep
<1> QED BY <1>3, <1>4

\* What a delete that is not refused does to the server.
LEMMA DeleteKeeps ==
  ASSUME ServerInv, NEW kind \in Kinds, NEW k, deleteStatus(kind, k) = 200, applyDelete(kind, k),
         UNCHANGED classes
  PROVE  ServerInv'
<1>1. CASE kind = "claim"
  <2>1. releaseAndDelete(k) /\ UNCHANGED pools
    BY <1>1 DEF applyDelete
  <2> QED BY <2>1, ReleaseKeeps
<1>2. CASE kind = "alloc"
  <2>1. allocs' = Without(allocs, k) /\ UNCHANGED <<claims, pools>>
    BY <1>2 DEF applyDelete
  <2>2. k \in DOMAIN allocs /\ ~allocs[k].bound
    BY <1>2 DEF deleteStatus
  <2> QED BY <2>1, <2>2, AllocationGoes
<1>3. CASE kind = "pool"
  <2>1. pools' = Without(pools, k) /\ UNCHANGED <<claims, allocs>>
    BY <1>3 DEF applyDelete
  <2>2. k \in DOMAIN pools /\ Children(k) = {} /\ \A a \in DOMAIN allocs : allocs[a].pool # k
    BY <1>3 DEF deleteStatus
  <2> QED BY <2>1, <2>2, PoolGoes
<1> QED BY <1>1, <1>2, <1>3 DEF Kinds

\* The next delete of a plan is made, and the plan stops at one that fails.
LEMMA DeleteNextKeeps ==
  ASSUME ClientInv, NEW u \in Requests, DeleteNext(u)
  PROVE  ClientInv'
<1> DEFINE kind == Head(inv[u].queue)[1]
           k == Head(inv[u].queue)[2]
           rest == Tail(inv[u].queue)
           done(at, exit) == Deleted(u, at, exit, rest, <<kind, k>>)
<1>1. inv[u].at = "delete" /\ UNCHANGED world
  BY Zenon DEF DeleteNext
<1>2. InvTyped /\ RunOK(Gated(world), inv[u]) /\ ServerInv
  BY DEF ClientInv, RunsOK
<1>3. kind \in Kinds /\ <<kind, k>> = Head(inv[u].queue)
  <2>1. PICK S : inv[u].queue \in Seq(Kinds \X S) /\ inv[u].queue # <<>>
    BY Zenon, <1>1, <1>2 DEF RunOK, PlanOK
  <2>2. Head(inv[u].queue) \in Kinds \X S
    BY <2>1
  <2> QED BY <2>2
<1>4. \/ Lost(u)
      \/ /\ deleteStatus(kind, k) # 200
         /\ Refused(u, deleteStatus(kind, k))
         /\ UNCHANGED <<serverVars, gateVars>>
      \/ /\ deleteStatus(kind, k) = 200 /\ applyDelete(kind, k)
         /\ \/ rest = <<>> /\ done("done", "OK")
            \/ rest # <<>> /\ done("delete", Unset)
            \/ done("done", "Unavailable")
         /\ UNCHANGED <<classes, gateVars>>
      \/ /\ deleteStatus(kind, k) = 200 /\ kind = "claim"
         /\ claims' = [claims EXCEPT ![k].phase = "Releasing"]
         /\ done("done", "Error")
         /\ UNCHANGED <<classes, allocs, pools, gateVars>>
  BY Zenon DEF DeleteNext, Deleted
<1> HIDE DEF kind, k, rest
<1>5. CASE Lost(u)
  BY <1>1, <1>5, LostKeeps
<1>6. CASE /\ deleteStatus(kind, k) # 200
           /\ Refused(u, deleteStatus(kind, k))
           /\ UNCHANGED <<serverVars, gateVars>>
  <2>1. PICK code : code = classifyError(deleteStatus(kind, k))
    OBVIOUS
  <2>2. code \in Exits /\ code # "OK" /\ Exit(u, code)
    BY <1>6, <2>1, ErrorsExit DEF Refused
  <2> QED BY <1>1, <1>6, <2>2, ExitKeeps
<1>7. ASSUME NEW at, NEW exit, done(at, exit), ServerInv', UNCHANGED gateVars,
             \/ at = "delete" /\ Blank(exit) /\ rest # <<>>
             \/ at = "done" /\ exit = "OK" /\ rest = <<>>
             \/ at = "done" /\ exit \in {"Unavailable", "Error"}
      PROVE  ClientInv'
  <2>1. Deleted(u, at, exit, Tail(inv[u].queue), Head(inv[u].queue))
    BY Zenon, <1>3, <1>7 DEF rest
  <2>2. /\ InvTyped' /\ Only(u) /\ inv'[u].at = at /\ inv'[u].cmd = inv[u].cmd /\ inv'[u].exit = exit
        /\ inv'[u].queue = Tail(inv[u].queue) /\ inv'[u].planned = inv[u].planned
        /\ inv'[u].changed = inv[u].changed \cup {Head(inv[u].queue)}
        /\ inv'[u].entitled = inv[u].entitled
    BY <1>2, <2>1, DeletedGoes
  <2>3. RunOK(Gated(world), inv'[u])
    BY Zenon, <1>1, <1>2, <1>7, <2>2, DeletedOK DEF rest
  <2>4. ChecksOK'
    BY <1>1, <1>7, <2>2, SameChecks DEF gateVars
  <2> QED BY <1>1, <1>7, <2>2, <2>3, <2>4, OwnStep
<1>8. CASE /\ deleteStatus(kind, k) = 200 /\ applyDelete(kind, k)
           /\ \/ rest = <<>> /\ done("done", "OK")
              \/ rest # <<>> /\ done("delete", Unset)
              \/ done("done", "Unavailable")
           /\ UNCHANGED <<classes, gateVars>>
  <2>1. ServerInv'
    BY <1>2, <1>3, <1>8, DeleteKeeps
  <2>2. Blank(Unset)
    BY DEF Blank
  <2> HIDE DEF done
  <2> QED BY Zenon, <1>7, <1>8, <2>1, <2>2
<1>9. CASE /\ deleteStatus(kind, k) = 200 /\ kind = "claim"
           /\ claims' = [claims EXCEPT ![k].phase = "Releasing"]
           /\ done("done", "Error")
           /\ UNCHANGED <<classes, allocs, pools, gateVars>>
  <2>1. k \in DOMAIN claims
    BY <1>9 DEF deleteStatus
  <2>2. ServerInv'
    BY Zenon, <1>2, <1>9, <2>1, ReleasingKeeps
  <2> HIDE DEF done
  <2> QED BY Zenon, <1>7, <1>9, <2>2
<1> QED BY Zenon, <1>4, <1>5, <1>6, <1>8, <1>9

\* pool create.
LEMMA CreatePoolKeeps ==
  ASSUME ClientInv, NEW u \in Requests, CreatePool(u)
  PROVE  ClientInv'
<1> DEFINE c == inv[u].cmd
<1>1. /\ inv[u].at = "run" /\ c.op = "poolCreate"
      /\ UNCHANGED <<world, classes, claims, allocs, ent, gateVars>>
  BY Zenon DEF CreatePool
<1>2. InvTyped /\ RunOK(Gated(world), inv[u]) /\ ServerInv
  BY DEF ClientInv, RunsOK
<1>3. \/ \E code \in Exits : Exit(u, code) /\ UNCHANGED pools
      \/ /\ ~c.dry /\ poolStatus(c) = 200 /\ pools' = With(pools, c.name, newPool(c))
         /\ \E exit \in {"OK", "Unavailable"} :
              inv' = [inv EXCEPT ![u].at = "done", ![u].exit = exit, ![u].changed = {<<"pool", c.name>>}]
  <2>1. classifyError(poolStatus(c)) \in Exits
    BY ErrorsExit
  <2>2. "Usage" \in Exits /\ "OK" \in Exits /\ "Unavailable" \in Exits
    BY DEF Exits
  <2> QED BY Zenon, <2>1, <2>2 DEF CreatePool
<1>4. CASE \E code \in Exits : Exit(u, code) /\ UNCHANGED pools
  <2>1. PICK code \in Exits : Exit(u, code) /\ UNCHANGED pools
    BY <1>4
  <2>2. UNCHANGED <<world, serverVars, gateVars>> /\ c.op \notin Releases \cup {"claimCreate"}
    BY <1>1, <2>1 DEF serverVars, Releases
  <2> QED BY <1>1, <2>1, <2>2, ExitKeeps
<1>5. CASE /\ ~c.dry /\ poolStatus(c) = 200 /\ pools' = With(pools, c.name, newPool(c))
           /\ \E exit \in {"OK", "Unavailable"} :
                inv' = [inv EXCEPT ![u].at = "done", ![u].exit = exit, ![u].changed = {<<"pool", c.name>>}]
  <2>1. PICK exit \in {"OK", "Unavailable"} :
           inv' = [inv EXCEPT ![u].at = "done", ![u].exit = exit, ![u].changed = {<<"pool", c.name>>}]
    BY Zenon, <1>5
  <2>2. PICK changed : changed = {<<"pool", c.name>>}
    BY Zenon
  <2>3. Created(u, exit, changed)
    BY Zenon, <2>1, <2>2 DEF Created
  <2>4. /\ InvTyped' /\ Only(u) /\ inv'[u].at = "done" /\ inv'[u].cmd = c /\ inv'[u].exit = exit
        /\ inv'[u].changed = changed /\ inv'[u].entitled = inv[u].entitled
    BY <1>2, <2>3, CreatedGoes
  <2>5. exit \in Exits /\ ~c.dry /\ c.op \notin Releases \cup {"claimCreate"}
    BY <1>1, <1>5, <2>1 DEF Exits, Releases
  <2>6. RunOK(Gated(world), inv'[u])
    BY Zenon, <1>1, <1>2, <2>1, <2>4, <2>5, ReplyOK DEF Working
  <2>7. ~Blank(c.name)
    BY <1>1, <1>2 DEF RunOK, CommandOK
  <2>8. c.name \notin DOMAIN pools /\ (Blank(c.parent) \/ c.parent \in DOMAIN pools)
    BY <1>5 DEF poolStatus, Blank
  <2>9. newPool(c).parent = c.parent
    BY DEF newPool
  <2>10. PICK name, pool : name = c.name /\ pool = newPool(c)
    OBVIOUS
  <2>11. ServerInv'
    BY <1>1, <1>2, <1>5, <2>7, <2>8, <2>9, <2>10, PoolStored
  <2>12. ChecksOK'
    BY Zenon, <1>1, <2>4, SameChecks DEF gateVars
  <2> QED BY <1>1, <2>4, <2>6, <2>11, <2>12, OwnStep
<1> QED BY <1>3, <1>4, <1>5

-----------------------------------------------------------------------------
(***************************************************************************)
(* What moves besides the invocations.                                     *)
(***************************************************************************)
\* A step that changes nothing keeps the invariant.
LEMMA StillKeeps ==
  ASSUME ClientInv, UNCHANGED <<world, inv>>, ServerInv', ChecksOK'
  PROVE  ClientInv'
BY DEF ClientInv, InvTyped, RunsOK

\* A lookup in flight sees what changes; a request without one is left alone.
LEMMA WitnessLeaves ==
  ASSUME ClientInv, UNCHANGED inv, NEW ns, NEW fact, check' = Witness(ns, fact)
  PROVE  ChecksOK'
<1>1. DOMAIN check' = Requests
  BY Zenon DEF Witness
<1>2. ASSUME NEW r \in Requests, check[r].at = "idle"
      PROVE  check'[r] = check[r]
  <2>1. ~InFlight(r)
    BY <1>2 DEF InFlight
  <2> QED BY Zenon, <2>1 DEF Witness
<1> QED BY <1>1, <1>2 DEF ClientInv, ChecksOK

\* A namespace that goes takes its claims and allocations along.
LEMMA NamespaceMovesKeeps ==
  ASSUME ClientInv, NEW ns \in Namespaces, NamespaceMoves(ns)
  PROVE  ClientInv'
<1> DEFINE kept(k) == k[1] # ns \/ nsState'[ns] # "Absent"
           K == { k \in DOMAIN claims : kept(k) }
           L == { k \in DOMAIN allocs : kept(k) }
<1>1. UNCHANGED <<world, inv, classes, pools>> /\ NamespaceStep(ns)
  BY DEF NamespaceMoves
<1>2. claims' = Restrict(claims, K) /\ allocs' = Restrict(allocs, L)
  BY Zenon DEF NamespaceMoves
<1>3. ServerInv
  BY DEF ClientInv
<1>4. K \subseteq DOMAIN claims /\ L \subseteq DOMAIN allocs /\ K \subseteq L
  <2>1. DOMAIN claims \subseteq DOMAIN allocs
    BY <1>3 DEF ServerInv, HoldersOK
  <2> QED BY Zenon, <2>1
<1> HIDE DEF K, L
<1>5. PICK M, N : M = K /\ N = L
  OBVIOUS
<1>6. ServerInv'
  BY <1>1, <1>2, <1>3, <1>4, <1>5, NamespaceCleared
<1>7. PICK fact : check' = Witness(ns, fact)
  BY Zenon, <1>1 DEF NamespaceStep
<1>8. ChecksOK'
  BY <1>1, <1>7, WitnessLeaves
<1> QED BY <1>1, <1>6, <1>8, StillKeeps

\* Nothing an administrator or another controller does breaks the invariant.
LEMMA SurroundingsKeep ==
  ASSUME ClientInv, EntitlementStep \/ RetireClass \/ PlaneMoves \/ TimePasses
  PROVE  ClientInv'
<1>1. UNCHANGED <<world, inv>> /\ ServerInv /\ ChecksOK
  BY Zenon DEF EntitlementStep, RetireClass, PlaneMoves, TimePasses, ClientInv
<1>2. CASE EntitlementStep
  <2>1. UNCHANGED <<classes, pools, claims, allocs, check>>
    BY Zenon, <1>2 DEF EntitlementStep, gateVars
  <2>2. ServerInv'
    BY <1>1, <2>1 DEF ServerInv, ClassesOK, ClaimsOK, AllocsOK, PoolsOK, HoldersOK
  <2>3. ChecksOK'
    BY <1>1, <2>1 DEF ChecksOK
  <2> QED BY <1>1, <2>2, <2>3, StillKeeps
<1>3. CASE RetireClass
  <2>1. UNCHANGED <<pools, claims, allocs, check>>
    BY Zenon, <1>3 DEF RetireClass, gateVars
  <2>2. PICK n : classes' = Without(classes, n)
    BY Zenon, <1>3 DEF RetireClass
  <2>3. ServerInv'
    BY <1>1, <2>1, <2>2, ClassGone
  <2>4. ChecksOK'
    BY <1>1, <2>1 DEF ChecksOK
  <2> QED BY <1>1, <2>3, <2>4, StillKeeps
<1>4. CASE PlaneMoves
  <2>1. UNCHANGED serverVars /\ \E fact : check' = Witness("", fact)
    BY Zenon, <1>4 DEF PlaneMoves, PlaneStep
  <2>2. PICK ns, fact : check' = Witness(ns, fact)
    BY Zenon, <2>1
  <2>3. ServerInv'
    BY Zenon, <1>1, <2>1, SameServer
  <2>4. ChecksOK'
    BY Zenon, <1>1, <2>2, WitnessLeaves
  <2> QED BY Zenon, <1>1, <2>3, <2>4, StillKeeps
<1>5. CASE TimePasses
  <2>1. UNCHANGED <<serverVars, check>>
    BY Zenon, <1>5 DEF TimePasses, Tick
  <2>2. ServerInv'
    BY <1>1, <2>1, SameServer
  <2>3. ChecksOK'
    BY <1>1, <2>1 DEF ChecksOK
  <2> QED BY <1>1, <2>2, <2>3, StillKeeps
<1> QED BY <1>2, <1>3, <1>4, <1>5

\* The objects a world begins with.
LEMMA ObjectsShaped ==
  /\ \A c \in Claim : \E V : c \in ClaimOf(V)
  /\ \A a \in Allocation : \E V : a \in AllocationOf(V)
<1>1. ASSUME NEW c \in Claim PROVE \E V : c \in ClaimOf(V)
  <2>1. PICK A, B : A = Addr \cup {-1} /\ B = Block
    BY Zenon
  <2>2. c \in [class : STRING, family : STRING, scope : STRING, address : A, policy : STRING,
               size : Nat, pool : STRING, block : B, phase : {"Bound", "Releasing"}]
    BY Zenon, <2>1 DEF Claim
  <2>3. c \in ClaimOf(STRING \cup A \cup B \cup Nat \cup {"Bound", "Releasing"})
    BY <2>2 DEF ClaimOf
  <2> QED BY <2>3
<1>2. ASSUME NEW a \in Allocation PROVE \E V : a \in AllocationOf(V)
  <2>1. PICK B : B = Block
    BY Zenon
  <2>2. a \in [bound : BOOLEAN, class : STRING, pool : STRING, block : B, scope : STRING, policy : STRING]
    BY Zenon, <2>1 DEF Allocation
  <2>3. a \in AllocationOf(STRING \cup B \cup BOOLEAN)
    BY <2>2 DEF AllocationOf
  <2> QED BY <2>3
<1> QED BY <1>1, <1>2

\* Every world starts in order.
LEMMA InitKeeps == Init => ClientInv
<1> SUFFICES ASSUME Init PROVE ClientInv
  OBVIOUS
<1>1. world \in Worlds
  BY DEF Init
<1>2. /\ classes = world.classes /\ pools = world.pools /\ claims = world.claims
      /\ allocs = world.allocs /\ inv = [u \in Requests |-> NoInvocation]
      /\ check = [r \in Requests |-> NoCheck("")]
  BY Zenon DEF Init, GateInit
<1>3. /\ \A n \in DOMAIN classes : classes[n].name = n /\ n # Unset /\ classes[n].family # Unset
      /\ \A k \in DOMAIN claims : claims[k] \in Claim /\ claims[k].class # Unset /\ claims[k].family # Unset
      /\ \A k \in DOMAIN allocs : allocs[k] \in Allocation
      /\ \A p \in DOMAIN pools : p # Unset /\ pools[p].parent # p
      /\ Stored(pools, claims, allocs)
      /\ IsFiniteSet(DOMAIN pools) /\ IsFiniteSet(DOMAIN claims)
  BY Zenon, <1>1, <1>2, WorldsAssumption
<1>4. ClassesOK
  BY Zenon, <1>3 DEF ClassesOK, Blank
<1>5. ClaimsOK
  BY Zenon, <1>3, ObjectsShaped DEF ClaimsOK, ClaimOK, Blank
<1>6. AllocsOK
  BY Zenon, <1>3, ObjectsShaped DEF AllocsOK
<1>7. PoolsOK
  BY Zenon, <1>3 DEF PoolsOK, Blank, Stored
<1>8. HoldersOK
  BY Zenon, <1>3 DEF HoldersOK, Stored
<1>9. \A u \in Requests : inv[u].at = "idle" /\ inv[u] = NoInvocation
  BY Zenon, <1>2 DEF NoInvocation
<1>10. ChecksOK
  <2>1. NoCheck("").at = "idle"
    BY Zenon DEF NoCheck
  <2> QED BY Zenon, <1>2, <2>1 DEF ChecksOK
<1>11. NoInvocation.cmd = NoCommand /\ NoCommand.op = Unset
  BY Zenon DEF NoInvocation, NoCommand
<1>12. \E V : NoCommand \in CommandOf(V)
  <2>1. PICK minus : minus = -1
    BY Zenon
  <2>2. NoCommand \in CommandOf({Unset, minus, {}, 0, FALSE})
    BY Zenon, <2>1 DEF NoCommand, CommandOf
  <2> QED BY Zenon, <2>2
<1>13. InvTyped
  BY Zenon, <1>2, <1>9, <1>11, <1>12, NothingYet DEF InvTyped, Shaped
<1>14. Unset \notin {"claimCreate", "poolCreate"}
  BY Zenon DEF Unset
<1>15. ASSUME NEW gated, NEW i, i.at = "idle", Blank(i.exit), i.changed = {}, i.cmd.op = Unset
       PROVE  RunOK(gated, i)
  <2>1. CommandOK(i)
    BY <1>14, <1>15 DEF CommandOK, Before, Creates
  <2>2. ChangesOK(gated, i)
    BY <1>15 DEF ChangesOK, Working, Creates
  <2>3. PlanOK(i) /\ AnswerOK(i)
    BY <1>15 DEF PlanOK, AnswerOK
  <2> QED BY <2>1, <2>2, <2>3 DEF RunOK
<1>16. RunsOK
  BY Zenon, <1>9, <1>11, <1>15, NothingYet DEF RunsOK
<1> QED BY Zenon, <1>1, <1>4, <1>5, <1>6, <1>7, <1>8, <1>10, <1>13, <1>16 DEF ClientInv, ServerInv

-----------------------------------------------------------------------------
(***************************************************************************)
(* The theorems.                                                           *)
(***************************************************************************)
\* Every step keeps the invariant.
LEMMA StepKeeps ==
  ASSUME ClientInv, [Next]_vars
  PROVE  ClientInv'
<1>1. ASSUME NEW u \in Requests, Invoke(u) \/ Step(u)
      PROVE  ClientInv'
  <2> USE <1>1
  <2>1. CASE Preflight(u) \/ Enable(u) \/ Await(u) \/ GiveUp(u) \/ Invoke(u)
    BY Zenon, <2>1, InvokeKeeps, PreflightKeeps, EnableKeeps, AwaitKeeps
  <2>2. CASE BuildClaim(u) \/ GetClaim(u) \/ SendCreate(u) \/ Admission(u) \/ ServeCreate(u)
    BY Zenon, <2>2, BuildClaimKeeps, GetClaimKeeps, SendCreateKeeps, AdmissionKeeps, ServeCreateKeeps
  <2>3. CASE GetToRelease(u) \/ ShowFate(u) \/ GetAllocation(u)
    BY Zenon, <2>3, GetToReleaseKeeps, ShowFateKeeps, GetAllocationKeeps
  <2>4. CASE GetPool(u) \/ ListChildPools(u) \/ ListHeldPrefixes(u) \/ Confirm(u) \/ DeleteNext(u)
    BY Zenon, <2>4, GetPoolKeeps, ListChildPoolsKeeps, ListHeldPrefixesKeeps, ConfirmKeeps, DeleteNextKeeps
  <2>5. CASE CreatePool(u) \/ Show(u) \/ List(u)
    BY Zenon, <2>5, CreatePoolKeeps, ReadKeeps
  <2> QED BY Zenon, <2>1, <2>2, <2>3, <2>4, <2>5 DEF Step
<1>2. CASE UNCHANGED vars
  <2>1. UNCHANGED <<world, inv, serverVars, check>>
    BY Zenon, <1>2 DEF vars, gateVars
  <2>2. ServerInv'
    BY Zenon, <2>1, SameServer DEF ClientInv
  <2>3. ChecksOK'
    BY <2>1 DEF ClientInv, ChecksOK
  <2> QED BY Zenon, <2>1, <2>2, <2>3, StillKeeps
<1> QED BY Zenon, <1>1, <1>2, SurroundingsKeep, NamespaceMovesKeeps DEF Next, AllEnded

\* The facts about invocations, objects and checks above hold in every state,
\* whatever else the users, the server, the network and the operators do.
THEOREM ClientInvAlways == Spec => []ClientInv
<1>1. ClientInv /\ [Next]_vars => ClientInv'
  BY StepKeeps
<1> QED BY <1>1, InitKeeps, PTL DEF Spec

\* The commands and the server do nothing to the namespace check but what the
\* check by itself could do: a create asks about its own namespace, one lookup at
\* a time, and ends the lookup it began.
LEMMA StepOfGate ==
  ASSUME ClientInv, [Next]_vars
  PROVE  [GateNext]_gateVars
<1>1. ASSUME NEW u \in Requests, Invoke(u) \/ Step(u)
      PROVE  [GateNext]_gateVars
  <2>1. CASE Preflight(u) \/ Enable(u) \/ Await(u) \/ GiveUp(u) \/ Invoke(u) \/ BuildClaim(u) \/ GetClaim(u)
    BY Zenon, <2>1 DEF Preflight, Enable, Await, GiveUp, Invoke, BuildClaim, GetClaim, Lost
  <2>2. CASE GetToRelease(u) \/ ShowFate(u) \/ GetAllocation(u) \/ GetPool(u) \/ ListChildPools(u)
    BY Zenon, <2>2 DEF GetToRelease, ShowFate, GetAllocation, GetPool, ListChildPools, Lost
  <2>3. CASE ListHeldPrefixes(u) \/ Confirm(u) \/ CreatePool(u) \/ Show(u) \/ List(u)
    BY Zenon, <2>3 DEF ListHeldPrefixes, Confirm, CreatePool, Show, List, Lost
  <2>4. CASE DeleteNext(u)
    BY Zenon, <2>4 DEF DeleteNext, Lost
  <2>5. CASE SendCreate(u)
    <3> DEFINE c == inv[u].cmd
    <3>1. inv[u].at = "create"
      BY Zenon, <2>5 DEF SendCreate
    <3>2. check[u].at = "idle" /\ c.ns \in Namespaces
      BY Zenon, <3>1 DEF ClientInv, ChecksOK, RunsOK, RunOK, CommandOK, Creates
    <3>3. CASE UNCHANGED gateVars
      BY Zenon, <3>3
    <3>4. CASE /\ State(u, world.project, c.ns)
               /\ UNCHANGED <<now, nsState, plane, serving, lastLive, lastServed>>
      <4>1. \E project \in {"", "project"} : State(u, project, c.ns)
        <5>1. CASE world.project = ""
          BY Zenon, <3>4, <5>1
        <5>2. CASE world.project # ""
          <6>1. State(u, "project", c.ns)
            BY Zenon, <3>4, <5>2 DEF State
          <6> QED BY Zenon, <6>1
        <5> QED BY Zenon, <5>1, <5>2
      <4>2. Ask(u)
        BY Zenon, <3>2, <3>4, <4>1 DEF Ask
      <4> QED BY Zenon, <4>2 DEF GateNext
    <3> QED BY Zenon, <2>5, <3>3, <3>4 DEF SendCreate, Lost
  <2>6. CASE Admission(u)
    BY Zenon, <2>6 DEF Admission, GateNext
  <2>7. CASE ServeCreate(u)
    BY Zenon, <2>7 DEF ServeCreate, Answered, GateNext
  <2> QED BY Zenon, <1>1, <2>1, <2>2, <2>3, <2>4, <2>5, <2>6, <2>7 DEF Step
<1>2. CASE EntitlementStep \/ RetireClass
  BY Zenon, <1>2 DEF EntitlementStep, RetireClass
<1>3. CASE PlaneMoves \/ TimePasses
  BY Zenon, <1>3 DEF PlaneMoves, TimePasses, GateNext
<1>4. ASSUME NEW ns \in Namespaces, NamespaceMoves(ns)
      PROVE  [GateNext]_gateVars
  BY Zenon, <1>4 DEF NamespaceMoves, GateNext
<1>5. CASE UNCHANGED vars
  BY Zenon, <1>5 DEF vars
<1> QED BY Zenon, <1>1, <1>2, <1>3, <1>4, <1>5 DEF Next, AllEnded

\* The composition implements the namespace check: whatever the commands and the
\* rest of the server do, the lookups and the two caches go through behaviours
\* of the check by itself (checkNamespaceLiveness, State).
THEOREM ImplementsGate == Spec => GateSpec
<1>1. Init => GateStart
  <2> SUFFICES ASSUME Init PROVE GateStart
    OBVIOUS
  <2>1. plane \in {"Serving", "Gone"}
    BY Zenon, WorldsAssumption DEF Init
  <2> QED BY Zenon, <2>1 DEF Init, GateStart
<1>2. ClientInv /\ [Next]_vars => [GateNext]_gateVars
  BY StepOfGate
<1> QED BY <1>1, <1>2, ClientInvAlways, PTL DEF Spec, GateSpec

\* A claim create of the plugin that is let through as Live is for a namespace
\* that was active less than LiveTTL plus one lookup ago (State, cacheLive).
THEOREM CreatesMeetLiveNamespaces == Spec => []AdmittedWasLive
BY ImplementsGate, LiveIsRecent, PTL

\* One that is refused is refused for a state its namespace was in while it ran,
\* or for a control plane that served a moment ago (controlPlaneServes).
THEOREM CreatesRefusedForCause == Spec => []RefusalIsFresh
BY ImplementsGate, RefusedForCause, PTL

\* Every object is where its key says, the allocation of a live claim is the
\* claim's, the caches keep their bounds and only an invocation that ended has an
\* exit code.
THEOREM ClientTyped == Spec => []TypeOK
<1>1. ClientInv /\ GateTypeOK => TypeOK
  <2> SUFFICES ASSUME ClientInv, GateTypeOK PROVE TypeOK
    OBVIOUS
  <2>1. Unset \notin Exits
    BY Zenon DEF Unset, Exits
  <2>2. \A u \in Requests : inv[u].exit \in Exits \cup {Unset} /\ (Ended(u) <=> inv[u].exit # Unset)
    BY <2>1 DEF ClientInv, RunsOK, RunOK, CommandOK, Ended, Blank
  <2>3. Stored(pools, claims, allocs)
    BY StoredIs DEF ClientInv
  <2> QED BY <2>2, <2>3 DEF TypeOK
<1> QED BY <1>1, ClientInvAlways, ImplementsGate, GateTypeCorrect, PTL

\* A claim create that exits 0 answers a claim of the class, family and scope it
\* asked for, whether it found it or made it, and whatever the other users made
\* or released between its calls (runClaimCreate, claimRequestDiff, Create).
THEOREM AnswersMatch == Spec => []AnswerMatchesRequest
<1>1. ClientInv => AnswerMatchesRequest
  BY Zenon DEF ClientInv, RunsOK, RunOK, AnswerOK, Fits, Agrees, AnswerMatchesRequest, Ended
<1> QED BY <1>1, ClientInvAlways, PTL

\* A preview, a refusal and an unanswered prompt make nothing but, for a create,
\* the pool of its class's parent, and delete nothing short of a cascade; and
\* under datumctl a project's state does not change before its entitlement was
\* seen Active (the dry runs, ResolvePool, confirm.go, EnsureIPAMEntitlement).
THEOREM RefusalsChangeNothing == Spec => []RefusalChangesNothing
<1>1. ClientInv => RefusalChangesNothing
  BY DEF ClientInv, RunsOK, RunOK, ChangesOK, RefusalChangesNothing, Ended
<1> QED BY <1>1, ClientInvAlways, PTL

\* A release that exits 0 removed all its prompt announced, and one that stopped
\* on the way kept the pool, however long the plan and wherever a call was lost
\* or refused (newPoolReleaseCommand).
THEOREM PartialNeverExitsZero == Spec => []PartialNeverZero
<1>1. ClientInv => PartialNeverZero
  BY Zenon DEF ClientInv, RunsOK, RunOK, PlanOK, Releases, PartialNeverZero, Ended
<1> QED BY <1>1, ClientInvAlways, PTL
=============================================================================
