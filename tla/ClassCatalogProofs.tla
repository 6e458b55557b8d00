-------------------------- MODULE ClassCatalogProofs --------------------------
(***************************************************************************)
(* Proofs about ClassCatalog: what a request carries from a step to the    *)
(* next and who may use a class, which UseInv says; then OffersInv, what   *)
(* the writers' checks keep true of the catalog while the writers          *)
(* interleave between a check and the write it admits; and the theorems.   *)
(***************************************************************************)
EXTENDS ClassCatalog, FiniteSetTheorems, TLAPS


-----------------------------------------------------------------------------
(***************************************************************************)
(* Requests                                                                *)
(***************************************************************************)
RequestOf(V) ==
  [doc : V, ask : V, class : V, digest : V, levels : V, source : V, nearest : V, root : V]

\* A request that holds the document of a class or of a pool, and one that
\* serves a claim.
PoolStates == {"overlap", "insertPool", "parent", "carvePool", "casPool"}
DocStates == {"insertClass"} \cup PoolStates
ClaimStates == {"plan", "discover", "ensure", "bind"}
States == {"idle"} \cup DocStates \cup ClaimStates

RequestsTyped ==
  /\ pc \in [Req -> States]
  /\ \E V : req \in [Req -> RequestOf(V)]

\* The project may use the class, or was once allowed to.
Authorised(project, k) == k[1] = project \/ <<project, k>> \in granted

\* What each step relies on of the request it continues.
RequestOK(r) ==
  /\ pc[r] = "insertClass" => /\ req[r].doc \in world.classWrites
                              /\ req[r].doc.spec.source # None =>
                                   Authorised(req[r].doc.key[1], req[r].doc.spec.source)
  /\ pc[r] \in PoolStates => req[r].doc \in world.poolWrites
  /\ pc[r] \in {"parent", "carvePool"} => req[r].doc.spec.parent # None
  /\ pc[r] \in ClaimStates => Authorised(req[r].ask.project, req[r].class.key)

ClassesOK ==
  /\ DOMAIN classes \subseteq ClassKey
  /\ \A k \in DOMAIN classes : /\ classes[k] \in IPClassSpec
                               /\ classes[k].source # None => Authorised(k[1], classes[k].source)

UseInv ==
  /\ world \in Worlds
  /\ grants \subseteq granted
  /\ ClassesOK
  /\ RequestsTyped
  /\ \A r \in Req : RequestOK(r)
  /\ ClassUseAuthorised

\* r is the only request a step continues.
Only(r) == \A q \in Req \ {r} : pc'[q] = pc[q] /\ req'[q] = req[q]

\* A request that takes new values is a request still.
LEMMA RequestGrows ==
  ASSUME NEW V, NEW W, V \subseteq W, NEW r \in Req, NEW p \in RequestOf(W),
         req \in [Req -> RequestOf(V)], req' = [req EXCEPT ![r] = p]
  PROVE  req' \in [Req -> RequestOf(W)] /\ req'[r] = p /\ \A q \in Req \ {r} : req'[q] = req[q]
<1>1. RequestOf(V) \subseteq RequestOf(W)
  BY DEF RequestOf
<1> QED BY <1>1

\* A request that takes a document and goes on changes nothing else.
LEMMA GotoDoc ==
  ASSUME RequestsTyped, NEW r \in Req, NEW s \in States, NEW d,
         Goto(r, s), req' = [req EXCEPT ![r].doc = d]
  PROVE  RequestsTyped' /\ Only(r) /\ pc'[r] = s /\ req'[r].doc = d
<1>1. PICK V : req \in [Req -> RequestOf(V)]
  BY DEF RequestsTyped
<1>2. /\ req' \in [Req -> RequestOf(V \cup {d})] /\ req'[r].doc = d
      /\ \A q \in Req \ {r} : req'[q] = req[q]
  BY <1>1 DEF RequestOf
<1> QED BY <1>2 DEF RequestsTyped, Goto, Only

\* A request that takes a claim and goes on changes nothing else.
LEMMA GotoClaim ==
  ASSUME RequestsTyped, NEW r \in Req, NEW s \in States, NEW a, NEW c, NEW d,
         Goto(r, s), req' = [req EXCEPT ![r].ask = a, ![r].class = c, ![r].digest = d]
  PROVE  RequestsTyped' /\ Only(r) /\ pc'[r] = s /\ req'[r].ask = a /\ req'[r].class = c
<1>1. PICK V : req \in [Req -> RequestOf(V)]
  BY DEF RequestsTyped
<1> DEFINE p == [req[r] EXCEPT !.ask = a, !.class = c, !.digest = d]
           W == V \cup {a, c, d}
<1>2. V \subseteq W /\ p \in RequestOf(W) /\ p.ask = a /\ p.class = c
  BY Zenon, <1>1 DEF RequestOf
<1>3. req' = [req EXCEPT ![r] = p]
  BY Zenon, <1>1
<1> HIDE DEF p, W
<1>4. req' \in [Req -> RequestOf(W)] /\ req'[r] = p /\ \A q \in Req \ {r} : req'[q] = req[q]
  BY Zenon, <1>1, <1>2, <1>3, RequestGrows
<1> QED BY <1>2, <1>4 DEF RequestsTyped, Goto, Only

\* A request that has planned its levels and goes on changes nothing else.
LEMMA GotoPlan ==
  ASSUME RequestsTyped, NEW r \in Req, NEW s \in States, NEW l, NEW n, NEW k,
         Goto(r, s), req' = [req EXCEPT ![r].levels = l, ![r].nearest = n, ![r].root = k]
  PROVE  RequestsTyped' /\ Only(r) /\ pc'[r] = s /\ req'[r].ask = req[r].ask /\ req'[r].class = req[r].class
<1>1. PICK V : req \in [Req -> RequestOf(V)]
  BY DEF RequestsTyped
<1> DEFINE p == [req[r] EXCEPT !.levels = l, !.nearest = n, !.root = k]
           W == V \cup {l, n, k}
<1>2. V \subseteq W /\ p \in RequestOf(W) /\ p.ask = req[r].ask /\ p.class = req[r].class
  BY Zenon, <1>1 DEF RequestOf
<1>3. req' = [req EXCEPT ![r] = p]
  BY Zenon, <1>1
<1> HIDE DEF p, W
<1>4. req' \in [Req -> RequestOf(W)] /\ req'[r] = p /\ \A q \in Req \ {r} : req'[q] = req[q]
  BY Zenon, <1>1, <1>2, <1>3, RequestGrows
<1> QED BY <1>2, <1>4 DEF RequestsTyped, Goto, Only

\* A request that has found its pool and goes on changes nothing else.
LEMMA GotoSource ==
  ASSUME RequestsTyped, NEW r \in Req, NEW s \in States, NEW k, NEW l,
         Goto(r, s),
         \/ req' = [req EXCEPT ![r].source = k]
         \/ req' = [req EXCEPT ![r].levels = l, ![r].source = k]
  PROVE  RequestsTyped' /\ Only(r) /\ pc'[r] = s /\ req'[r].ask = req[r].ask /\ req'[r].class = req[r].class
<1>1. PICK V : req \in [Req -> RequestOf(V)]
  BY DEF RequestsTyped
<1>2. /\ req' \in [Req -> RequestOf(V \cup {k, l})]
      /\ req'[r].ask = req[r].ask /\ req'[r].class = req[r].class
      /\ \A q \in Req \ {r} : req'[q] = req[q]
  BY <1>1 DEF RequestOf
<1> QED BY <1>2 DEF RequestsTyped, Goto, Only

\* A request that only goes on changes nothing else.
LEMMA GotoOnly ==
  ASSUME RequestsTyped, NEW r \in Req, NEW s \in States, Goto(r, s), UNCHANGED req
  PROVE  RequestsTyped' /\ Only(r) /\ pc'[r] = s /\ req'[r] = req[r]
BY DEF RequestsTyped, Goto, Only

\* A request that finishes is idle and changes nothing else.
LEMMA FinishTyped ==
  ASSUME RequestsTyped, NEW r \in Req, Finish(r)
  PROVE  RequestsTyped' /\ Only(r) /\ pc'[r] = "idle"
<1>1. PICK V : req \in [Req -> RequestOf(V)]
  BY DEF RequestsTyped
<1>2. NoRequest \in RequestOf(V \cup {None, <<>>})
  BY DEF RequestOf, NoRequest
<1>3. /\ req' \in [Req -> RequestOf(V \cup {None, <<>>})]
      /\ \A q \in Req \ {r} : req'[q] = req[q]
  <2> HIDE DEF NoRequest
  <2> QED BY <1>1, <1>2 DEF RequestOf, Finish
<1> QED BY Zenon, <1>3 DEF RequestsTyped, Finish, Goto, Only, States


-----------------------------------------------------------------------------
(***************************************************************************)
(* Who may use a class                                                     *)
(***************************************************************************)
\* A resolved class is one of the project's own, or one that a reference of the
\* project points at.
LEMMA ResolvedIsAuthorised ==
  ASSUME ClassesOK, NEW p, NEW n, resolveClassIn(p, n).err = ""
  PROVE  Authorised(p, resolveClassIn(p, n).key)
<1> DEFINE k == <<p, n>>
<1>1. k \in DOMAIN classes
  BY Zenon DEF resolveClassIn, Failed
<1>2. CASE classes[k].source = None
  BY <1>1, <1>2 DEF resolveClassIn, Resolved, Authorised
<1>3. CASE classes[k].source # None
  <2>1. resolveClassIn(p, n).key = classes[k].source
    BY <1>1, <1>3 DEF resolveClassIn, Resolved, Failed
  <2>2. Authorised(k[1], classes[k].source)
    BY Zenon, <1>1, <1>3 DEF ClassesOK
  <2> QED BY Zenon, <2>1, <2>2
<1> QED BY Zenon, <1>2, <1>3

\* The class ResolveClass answers with, named or default, is one the project
\* may use.
LEMMA ClaimsClassIsAuthorised ==
  ASSUME ClassesOK, NEW p, NEW n, NEW f, ResolveClass(p, n, f).err = ""
  PROVE  Authorised(p, ResolveClass(p, n, f).key)
<1>1. \E m : ResolveClass(p, n, f) = resolveClassIn(p, m)
  BY Zenon DEF ResolveClass, LoadDefaultClass, Failed
<1> QED BY Zenon, <1>1, ResolvedIsAuthorised

\* Permissions once given stay recorded, so a step that leaves the others alone
\* and is right about its own request keeps every request right.
LEMMA RequestsKept ==
  ASSUME UseInv, NEW r \in Req, UNCHANGED world, granted \subseteq granted', Only(r), RequestOK(r)'
  PROVE  \A q \in Req : RequestOK(q)'
<1> SUFFICES ASSUME NEW q \in Req \ {r} PROVE RequestOK(q)'
  OBVIOUS
<1>1. RequestOK(q) /\ pc'[q] = pc[q] /\ req'[q] = req[q]
  BY DEF UseInv, Only
<1> QED BY <1>1 DEF RequestOK, Authorised

\* The steps that leave classes and claims alone.
LEMMA UseKept ==
  ASSUME UseInv, NEW r \in Req, UNCHANGED <<world, classes, claims, grants, granted>>,
         RequestsTyped', Only(r), RequestOK(r)'
  PROVE  UseInv'
<1>1. \A q \in Req : RequestOK(q)'
  BY RequestsKept
<1> QED BY <1>1 DEF UseInv, ClassesOK, Authorised, ClassUseAuthorised

\* An idle request relies on nothing.
LEMMA IdleOK == ASSUME NEW r \in Req, pc'[r] = "idle" PROVE RequestOK(r)'
BY DEF RequestOK, PoolStates, ClaimStates

\* A request that ends.
LEMMA FinishUse ==
  ASSUME UseInv, NEW r \in Req, Finish(r), UNCHANGED <<world, classes, claims, grants, granted>>
  PROVE  UseInv'
<1>1. RequestsTyped' /\ Only(r) /\ pc'[r] = "idle"
  BY FinishTyped DEF UseInv
<1> QED BY <1>1, IdleOK, UseKept

\* A refused request keeps UseInv.
LEMMA RefuseUse ==
  ASSUME UseInv, NEW r \in Req, Refuse(r)
  PROVE  UseInv'
BY FinishUse DEF Refuse, Fresh, catalog

\* A class create is checked.
LEMMA CreateClassUse ==
  ASSUME UseInv, NEW r \in Req, CreateClass(r)
  PROVE  UseInv'
<1>1. PICK d \in world.classWrites : authorizeSource(d.key[1], d.spec) /\ req' = [req EXCEPT ![r].doc = d]
  BY Zenon DEF CreateClass
<1>2. Goto(r, "insertClass") /\ UNCHANGED <<world, classes, claims, grants, granted>>
  BY DEF CreateClass, Fresh, catalog
<1>3. RequestsTyped' /\ Only(r) /\ pc'[r] = "insertClass" /\ req'[r].doc = d
  BY Zenon, <1>1, <1>2, GotoDoc DEF UseInv, States, DocStates
<1>4. d.spec.source # None => Authorised(d.key[1], d.spec.source)
  BY <1>1 DEF authorizeSource, CanUseClass, Authorised, UseInv
<1>5. RequestOK(r)'
  BY <1>1, <1>2, <1>3, <1>4 DEF RequestOK, PoolStates, ClaimStates, Authorised
<1> QED BY <1>2, <1>3, <1>5, UseKept

\* Writing a class that is authorised.
LEMMA PutClassUse ==
  ASSUME UseInv, NEW k \in ClassKey, NEW c \in IPClassSpec,
         c.source # None => Authorised(k[1], c.source),
         classes' = Put(classes, k, c), UNCHANGED granted
  PROVE  ClassesOK'
BY DEF UseInv, ClassesOK, Put, Authorised

\* A class is stored: a reference names a class its project may use.
LEMMA InsertClassUse ==
  ASSUME UseInv, NEW r \in Req, InsertClass(r)
  PROVE  UseInv'
<1> DEFINE d == req[r].doc
<1>1. CASE Refuse(r)
  BY <1>1, RefuseUse
<1>2. CASE ~ Refuse(r)
  <2>1. classes' = Put(classes, d.key, d.spec) /\ Finish(r) /\ UNCHANGED <<world, claims, grants, granted>>
    BY <1>2 DEF InsertClass, Writes
  <2>2. d \in world.classWrites /\ (d.spec.source # None => Authorised(d.key[1], d.spec.source))
    BY DEF InsertClass, UseInv, RequestOK
  <2>3. d.key \in ClassKey /\ d.spec \in IPClassSpec
    BY <2>2, CatalogAssumption DEF UseInv, WorldTyped
  <2>4. ClassesOK'
    BY <2>1, <2>2, <2>3, PutClassUse
  <2>5. RequestsTyped' /\ Only(r) /\ pc'[r] = "idle"
    BY <2>1, FinishTyped DEF UseInv
  <2>6. \A q \in Req : RequestOK(q)'
    BY <2>1, <2>5, IdleOK, RequestsKept
  <2> QED BY <2>1, <2>4, <2>5, <2>6 DEF UseInv, ClassUseAuthorised
<1> QED BY <1>1, <1>2

\* A step of a request that stays idle and writes classes.
LEMMA IdleClassUse ==
  ASSUME UseInv, ClassesOK', UNCHANGED <<world, claims, grants, granted, pc, req>>
  PROVE  UseInv'
<1>1. \A q \in Req : RequestOK(q)'
  BY DEF UseInv, RequestOK, Authorised
<1> QED BY <1>1 DEF UseInv, RequestsTyped, ClassUseAuthorised

\* A class is edited, its source and parent as they were.
LEMMA UpdateClassUse ==
  ASSUME UseInv, NEW r \in Req, UpdateClass(r)
  PROVE  UseInv'
<1>1. PICK d \in world.classWrites :
        /\ d.key \in DOMAIN classes /\ ValidateClassUpdate(d.key[2], d.spec, classes[d.key])
        /\ classes' = [classes EXCEPT ![d.key] = d.spec]
        /\ UNCHANGED <<world, claims, grants, granted>>
  BY Zenon DEF UpdateClass, Writes
<1>2. UNCHANGED <<pc, req>>
  BY DEF UpdateClass
<1>3. d.key \in ClassKey /\ d.spec \in IPClassSpec /\ d.spec.source = classes[d.key].source
  BY <1>1, CatalogAssumption DEF UseInv, WorldTyped, ValidateClassUpdate
<1>4. ClassesOK'
  BY <1>1, <1>3 DEF UseInv, ClassesOK, Authorised
<1> QED BY <1>1, <1>2, <1>4, IdleClassUse

\* A class is deleted.
LEMMA DeleteClassUse ==
  ASSUME UseInv, NEW r \in Req, DeleteClass(r)
  PROVE  UseInv'
<1>1. PICK k \in DOMAIN classes : classes' = Drop(classes, k) /\ UNCHANGED <<world, claims, grants, granted>>
  BY DEF DeleteClass, Writes
<1>2. UNCHANGED <<pc, req>>
  BY DEF DeleteClass
<1>3. ClassesOK'
  BY <1>1 DEF UseInv, ClassesOK, Authorised, Drop, Restrict
<1> QED BY <1>1, <1>2, <1>3, IdleClassUse

\* A pool's document is taken up, and checked before it is written.
LEMMA TakePoolUse ==
  ASSUME UseInv, NEW r \in Req, NEW d \in world.poolWrites, NEW s \in PoolStates,
         Goto(r, s), req' = [req EXCEPT ![r].doc = d], s \in {"parent", "carvePool"} => d.spec.parent # None,
         UNCHANGED <<world, classes, claims, grants, granted>>
  PROVE  UseInv'
<1>1. RequestsTyped' /\ Only(r) /\ pc'[r] = s /\ req'[r].doc = d
  BY Zenon, GotoDoc DEF UseInv, States, DocStates
<1>2. RequestOK(r)'
  BY <1>1 DEF RequestOK, PoolStates, ClaimStates
<1> QED BY <1>1, <1>2, UseKept

\* A pool writer goes on to its next check.
LEMMA CheckPoolUse ==
  ASSUME UseInv, NEW r \in Req, NEW s \in PoolStates, pc[r] \in PoolStates, Goto(r, s), UNCHANGED req,
         s = "insertPool" \/ pc[r] = "parent",
         UNCHANGED <<world, classes, claims, grants, granted>>
  PROVE  UseInv'
<1>1. RequestsTyped' /\ Only(r) /\ pc'[r] = s /\ req'[r] = req[r]
  BY Zenon, GotoOnly DEF UseInv, States, DocStates
<1>2. RequestOK(r)'
  BY <1>1 DEF UseInv, RequestOK, PoolStates, ClaimStates
<1> QED BY <1>1, <1>2, UseKept

\* No step of a pool writer touches classes, claims or grants.
LEMMA PoolWriterUse ==
  ASSUME UseInv, NEW r \in Req,
         \/ CreatePool(r) \/ CheckOverlap(r) \/ InsertPool(r) \/ ReadParent(r) \/ CarvePool(r)
         \/ UpdatePool(r) \/ CasPool(r) \/ DeletePool(r)
  PROVE  UseInv'
<1>1. CASE CreatePool(r)
  <2>1. PICK d \in world.poolWrites : /\ req' = [req EXCEPT ![r].doc = d]
                                      /\ Goto(r, IF d.spec.parent = None THEN "overlap" ELSE "parent")
    BY Zenon, <1>1 DEF CreatePool
  <2>2. UNCHANGED <<world, classes, claims, grants, granted>>
    BY <1>1 DEF CreatePool, Fresh, catalog
  <2> QED BY Zenon, <2>1, <2>2, TakePoolUse DEF PoolStates
<1>2. CASE CheckOverlap(r)
  <2>1. CASE Refuse(r)
    BY <2>1, RefuseUse
  <2>2. CASE ~ Refuse(r)
    BY <1>2, <2>2, CheckPoolUse DEF CheckOverlap, OnlyRequests, catalog, PoolStates
  <2> QED BY <2>1, <2>2
<1>3. CASE InsertPool(r)
  <2>1. CASE Refuse(r)
    BY <2>1, RefuseUse
  <2>2. CASE ~ Refuse(r)
    BY <1>3, <2>2, FinishUse DEF InsertPool, Writes
  <2> QED BY <2>1, <2>2
<1>4. CASE ReadParent(r)
  <2>1. CASE Refuse(r)
    BY <2>1, RefuseUse
  <2>2. CASE ~ Refuse(r)
    BY <1>4, <2>2, CheckPoolUse DEF ReadParent, OnlyRequests, catalog, PoolStates
  <2> QED BY <2>1, <2>2
<1>5. CASE CarvePool(r)
  <2>1. CASE Refuse(r)
    BY <2>1, RefuseUse
  <2>2. CASE ~ Refuse(r)
    BY Zenon, <1>5, <2>2, FinishUse DEF CarvePool, Writes
  <2> QED BY <2>1, <2>2
<1>6. ASSUME NEW d \in world.poolWrites, ReadForUpdate(r, d) PROVE UseInv'
  <2>1. Goto(r, "casPool") /\ req' = [req EXCEPT ![r].doc = d] /\ UNCHANGED <<world, classes, claims, grants, granted>>
    BY <1>6 DEF ReadForUpdate, Fresh, catalog
  <2> QED BY Zenon, <2>1, TakePoolUse DEF PoolStates
<1>7. CASE UpdatePool(r)
  BY <1>6, <1>7 DEF UpdatePool
<1>8. CASE CasPool(r)
  <2>1. req[r].doc \in world.poolWrites
    BY <1>8 DEF CasPool, UseInv, RequestOK, PoolStates
  <2>2. CASE Refuse(r)
    BY <2>2, RefuseUse
  <2>3. CASE ReadForUpdate(r, req[r].doc)
    BY <1>6, <2>1, <2>3
  <2>4. CASE ~ Refuse(r) /\ ~ ReadForUpdate(r, req[r].doc)
    BY Zenon, <1>8, <2>4, FinishUse DEF CasPool, Writes
  <2> QED BY <2>2, <2>3, <2>4
<1>9. CASE DeletePool(r)
  <2>1. UNCHANGED <<world, classes, claims, grants, granted, pc, req>>
    BY <1>9 DEF DeletePool, Writes
  <2>2. ClassesOK'
    BY <2>1 DEF UseInv, ClassesOK, Authorised
  <2> QED BY <2>1, <2>2, IdleClassUse
<1> QED BY <1>1, <1>2, <1>3, <1>4, <1>5, <1>7, <1>8, <1>9

\* A project is granted the use of a class.
LEMMA GrantUse ==
  ASSUME UseInv, NEW p, NEW k, Grant(p, k)
  PROVE  UseInv'
<1>1. UNCHANGED <<world, classes, claims, pc, req>> /\ grants' \subseteq granted' /\ granted \subseteq granted'
  BY DEF Grant, UseInv, catalog
<1>2. \A q \in Req : RequestOK(q)'
  BY <1>1 DEF UseInv, RequestOK, Authorised
<1>3. ClassesOK' /\ ClassUseAuthorised'
  BY <1>1 DEF UseInv, ClassesOK, ClassUseAuthorised, Authorised
<1> QED BY <1>1, <1>2, <1>3 DEF UseInv, RequestsTyped

\* A grant is withdrawn; granted remembers it.
LEMMA RevokeUse ==
  ASSUME UseInv, NEW g, Revoke(g)
  PROVE  UseInv'
<1>1. UNCHANGED <<world, classes, claims, pc, req, granted>> /\ grants' \subseteq granted'
  BY DEF Revoke, UseInv, catalog
<1>2. \A q \in Req : RequestOK(q)'
  BY <1>1 DEF UseInv, RequestOK, Authorised
<1> QED BY <1>1, <1>2 DEF UseInv, RequestsTyped, ClassesOK, ClassUseAuthorised, Authorised

\* Where a claim's steps take its request.
LEMMA ResolveClaimStep ==
  ASSUME RequestsTyped, ClassesOK, NEW r \in Req, ResolveClaim(r)
  PROVE  /\ RequestsTyped' /\ Only(r) /\ pc'[r] = "plan"
         /\ Authorised(req'[r].ask.project, req'[r].class.key)
<1> DEFINE class(a) == ResolveClass(a.project, a.class, a.family)
           space(a) == ProjectFor(a.scope, WithoutReservedRoles(class(a).spec.uniqueWithin))
           digest(a) == AddressSpaceDigest(a.project, space(a))
<1>1. PICK a \in world.asks :
        /\ class(a).err = ""
        /\ req' = [req EXCEPT ![r].ask = a, ![r].class = class(a), ![r].digest = digest(a)]
  BY Zenon DEF ResolveClaim
<1>2. Goto(r, "plan") /\ "plan" \in States
  BY Zenon DEF ResolveClaim, States, ClaimStates
<1>3. Authorised(a.project, class(a).key)
  BY Zenon, <1>1, ClaimsClassIsAuthorised
<1> HIDE DEF class, digest
<1>4. RequestsTyped' /\ Only(r) /\ pc'[r] = "plan" /\ req'[r].ask = a /\ req'[r].class = class(a)
  BY Zenon, <1>1, <1>2, GotoClaim
<1> QED BY <1>3, <1>4

\* The request ends, or goes on with the claim and the class it has.
GoesOn(r) ==
  \/ pc'[r] = "idle"
  \/ pc'[r] \in ClaimStates /\ req'[r].ask = req[r].ask /\ req'[r].class = req[r].class

\* The levels of a claim are planned.
LEMMA PlanStep ==
  ASSUME RequestsTyped, NEW r \in Req, PlanCascade(r)
  PROVE  RequestsTyped' /\ Only(r) /\ GoesOn(r)
<1> DEFINE up == LoadAncestry(req[r].class)
           levels == planLevels(up.chain, req[r].ask.project, req[r].ask.scope)
           nearest == IF levels = <<>> THEN None ELSE Last(levels)
           root == Last(<<req[r].class>> \o up.chain).key
<1>1. \/ Finish(r)
      \/ /\ Goto(r, "discover")
         /\ req' = [req EXCEPT ![r].levels = levels, ![r].nearest = nearest, ![r].root = root]
  BY Zenon DEF PlanCascade
<1> HIDE DEF levels, nearest, root
<1>2. CASE Finish(r)
  BY <1>2, FinishTyped DEF GoesOn
<1>3. CASE ~ Finish(r)
  <2>1. /\ Goto(r, "discover")
        /\ req' = [req EXCEPT ![r].levels = levels, ![r].nearest = nearest, ![r].root = root]
    BY Zenon, <1>1, <1>3
  <2>2. "discover" \in States /\ "discover" \in ClaimStates
    BY DEF States, ClaimStates
  <2>3. /\ RequestsTyped' /\ Only(r) /\ pc'[r] = "discover"
        /\ req'[r].ask = req[r].ask /\ req'[r].class = req[r].class
    BY Zenon, <2>1, <2>2, GotoPlan
  <2> QED BY <2>2, <2>3 DEF GoesOn
<1> QED BY <1>2, <1>3

\* The pool of the root-most class is found.
LEMMA DiscoverStep ==
  ASSUME RequestsTyped, NEW r \in Req, DiscoverInTx(r)
  PROVE  RequestsTyped' /\ Only(r) /\ GoesOn(r)
<1>1. \/ Finish(r)
      \/ \E s \in {"bind", "ensure"} : \E k : Goto(r, s) /\ req' = [req EXCEPT ![r].source = k]
  BY Zenon DEF DiscoverInTx
<1>2. CASE Finish(r)
  BY <1>2, FinishTyped DEF GoesOn
<1>3. CASE ~ Finish(r)
  <2>1. PICK s \in {"bind", "ensure"} : \E k : Goto(r, s) /\ req' = [req EXCEPT ![r].source = k]
    BY <1>1, <1>3
  <2>2. /\ RequestsTyped' /\ Only(r) /\ pc'[r] = s
        /\ req'[r].ask = req[r].ask /\ req'[r].class = req[r].class
    BY Zenon, <2>1, GotoSource DEF States, ClaimStates
  <2> QED BY <2>2 DEF GoesOn, ClaimStates
<1> QED BY <1>2, <1>3

\* One level after the other is found or provisioned.
LEMMA EnsureStep ==
  ASSUME RequestsTyped, NEW r \in Req, EnsureLevel(r)
  PROVE  RequestsTyped' /\ Only(r) /\ GoesOn(r)
<1>1. Finish(r) \/ \E k : LevelDone(r, k)
  BY DEF EnsureLevel
<1>2. CASE Finish(r)
  BY <1>2, FinishTyped DEF GoesOn
<1>3. CASE ~ Finish(r)
  <2>1. PICK s \in {"bind", "ensure"} : \E k, l :
          Goto(r, s) /\ req' = [req EXCEPT ![r].levels = l, ![r].source = k]
    BY Zenon, <1>1, <1>3 DEF LevelDone
  <2>k. PICK k, l : Goto(r, s) /\ req' = [req EXCEPT ![r].levels = l, ![r].source = k]
    BY Zenon, <2>1
  <2>2. /\ RequestsTyped' /\ Only(r) /\ pc'[r] = s
        /\ req'[r].ask = req[r].ask /\ req'[r].class = req[r].class
    BY Zenon, <2>k, GotoSource DEF States, ClaimStates
  <2> QED BY <2>2 DEF GoesOn, ClaimStates
<1> QED BY <1>2, <1>3

\* A claim that goes on with the class it resolved.
LEMMA ClaimantUse ==
  ASSUME UseInv, NEW r \in Req, ResolveClaim(r) \/ PlanCascade(r) \/ DiscoverInTx(r) \/ EnsureLevel(r)
  PROVE  UseInv'
<1>1. UNCHANGED <<world, classes, claims, grants, granted>>
  BY Zenon DEF ResolveClaim, PlanCascade, DiscoverInTx, EnsureLevel, OnlyRequests, catalog
<1>2. RequestsTyped /\ ClassesOK
  BY DEF UseInv
<1>3. CASE ResolveClaim(r)
  <2>1. /\ RequestsTyped' /\ Only(r) /\ pc'[r] = "plan"
        /\ Authorised(req'[r].ask.project, req'[r].class.key)
    BY <1>2, <1>3, ResolveClaimStep
  <2>2. RequestOK(r)'
    BY <1>1, <2>1 DEF RequestOK, PoolStates, ClaimStates, Authorised
  <2> QED BY <1>1, <2>1, <2>2, UseKept
<1>4. CASE PlanCascade(r) \/ DiscoverInTx(r) \/ EnsureLevel(r)
  <2>1. RequestsTyped' /\ Only(r) /\ GoesOn(r)
    BY <1>2, <1>4, PlanStep, DiscoverStep, EnsureStep
  <2>2. pc[r] \in ClaimStates
    BY Zenon, <1>4 DEF PlanCascade, DiscoverInTx, EnsureLevel, ClaimStates
  <2>3. Authorised(req[r].ask.project, req[r].class.key)
    BY <2>2 DEF UseInv, RequestOK
  <2>4. RequestOK(r)'
    BY <1>1, <2>1, <2>3 DEF GoesOn, RequestOK, PoolStates, ClaimStates, Authorised
  <2> QED BY <1>1, <2>1, <2>4, UseKept
<1> QED BY <1>3, <1>4

\* A claim is bound to the class that was resolved for it.
LEMMA BindUse ==
  ASSUME UseInv, NEW r \in Req, Bind(r)
  PROVE  UseInv'
<1>1. Authorised(req[r].ask.project, req[r].class.key)
  BY DEF Bind, UseInv, RequestOK, ClaimStates
<1>2. Finish(r) /\ UNCHANGED <<world, classes, grants, granted>>
  BY DEF Bind, OnlyRequests, catalog
<1>3. RequestsTyped' /\ Only(r) /\ pc'[r] = "idle"
  BY <1>2, FinishTyped DEF UseInv
<1>4. \A q \in Req : RequestOK(q)'
  BY <1>2, <1>3, IdleOK, RequestsKept
<1>5. UNCHANGED claims \/ claims' = Put(claims, req[r].ask, Bound(req[r]))
  BY DEF Bind, OnlyRequests
<1>6. Bound(req[r]).class = req[r].class.key
  BY DEF Bound
<1>7. ClassUseAuthorised'
  <2> HIDE DEF Bound
  <2> QED BY <1>1, <1>2, <1>5, <1>6 DEF UseInv, ClassUseAuthorised, Authorised, Put
<1> QED BY <1>2, <1>3, <1>4, <1>7 DEF UseInv, ClassesOK, Authorised

\* A claim is released.
LEMMA ReleaseClaimUse ==
  ASSUME UseInv, NEW r \in Req, ReleaseClaim(r)
  PROVE  UseInv'
<1>1. UNCHANGED <<world, classes, grants, granted, pc, req>>
  BY DEF ReleaseClaim, catalog
<1>2. PICK a \in DOMAIN claims : claims' = Drop(claims, a)
  BY DEF ReleaseClaim
<1>3. \A q \in Req : RequestOK(q)'
  BY <1>1 DEF UseInv, RequestOK, Authorised
<1>4. ClassUseAuthorised'
  BY <1>1, <1>2 DEF UseInv, ClassUseAuthorised, Drop, Restrict
<1> QED BY <1>1, <1>3, <1>4 DEF UseInv, RequestsTyped, ClassesOK, Authorised

\* UseInv holds in every world at the start.
LEMMA UseInit == Init => UseInv
<1> SUFFICES ASSUME Init PROVE UseInv
  OBVIOUS
<1>1. world \in Worlds /\ WorldTyped(world) /\ WorldAdmitted(world)
  BY CatalogAssumption DEF Init
<1>2. NoRequest \in RequestOf({None, <<>>})
  BY DEF RequestOf, NoRequest
<1>3. RequestsTyped /\ \A r \in Req : RequestOK(r)
  <2> HIDE DEF NoRequest
  <2> QED BY <1>2 DEF Init, RequestsTyped, States, RequestOK, PoolStates, ClaimStates
<1>4. ClassesOK
  BY <1>1 DEF Init, ClassesOK, WorldTyped, WorldAdmitted, Authorised
<1> QED BY <1>1, <1>3, <1>4 DEF Init, UseInv, ClassUseAuthorised

\* Every step keeps UseInv.
LEMMA UseStep ==
  ASSUME UseInv, [Next]_vars
  PROVE  UseInv'
<1>1. ASSUME NEW r \in Req, Operator(r) PROVE UseInv'
  BY <1>1, CreateClassUse, InsertClassUse, UpdateClassUse, DeleteClassUse, PoolWriterUse DEF Operator
<1>2. ASSUME NEW r \in Req, Claimant(r) PROVE UseInv'
  BY <1>2, ClaimantUse, BindUse, ReleaseClaimUse DEF Claimant
<1>3. CASE UNCHANGED vars
  <2>1. UNCHANGED <<world, classes, claims, grants, granted, pc, req>>
    BY <1>3 DEF vars, catalog
  <2>2. ClassesOK'
    BY <2>1 DEF UseInv, ClassesOK, Authorised
  <2> QED BY <2>1, <2>2, IdleClassUse
<1> QED BY <1>1, <1>2, <1>3, GrantUse, RevokeUse DEF Next

-----------------------------------------------------------------------------
(***************************************************************************)
(* What the checks keep true of the catalog                                *)
(***************************************************************************)
PoolOf(V) == [spec : V, family : V, from : V]
PoolsTyped == \A k \in DOMAIN pools : \E V : pools[k] \in PoolOf(V)

PoolsAgree == \A k \in DOMAIN pools : NoDisagreement(k[1], pools[k].spec.classNames)
RootsApart ==
  \A p \in Project : \A k, q \in RootPools(p) :
    k = q \/ pools[k].spec.range \cap pools[q].spec.range = {}

\* What a writer has checked and, unless another write of the project has come
\* between, still holds when it writes.
Checked(r) ==
  LET d == req[r].doc IN
  /\ pc[r] = "insertClass" => validateOfferAgreement(d.key, d.spec)
  /\ pc[r] \in PoolStates => NoDisagreement(d.key[1], d.spec.classNames)
  /\ pc[r] = "insertPool" => validateNoRootOverlap(d.key, d.spec)

\* The pool to update has the range and the parent of the new document.
Unmoved(r) ==
  LET d == req[r].doc IN
  pc[r] = "casPool" => /\ d.key \in DOMAIN pools
                       /\ pools[d.key].spec.range = d.spec.range
                       /\ pools[d.key].spec.parent = d.spec.parent

OffersInv ==
  /\ PoolsTyped
  /\ \/ raced
     \/ /\ PoolsAgree /\ RootsApart
        /\ \A r \in Req \ stale : Checked(r)
        /\ \A r \in Req \ moved : Unmoved(r)

\* A step leaves the classes of project p alone; a step gives it no pool but those
\* that offer nothing and hold no range of their own.
SameClasses(p) ==
  \A n : /\ <<p, n>> \in DOMAIN classes' <=> <<p, n>> \in DOMAIN classes
         /\ <<p, n>> \in DOMAIN classes => classes'[<<p, n>>] = classes[<<p, n>>]

NoOffers(k) == pools[k].spec.classNames = {} /\ pools[k].spec.range = {}
OldPools(p) ==
  \A k \in DOMAIN pools' : k[1] = p =>
    (k \in DOMAIN pools /\ pools'[k].spec = pools[k].spec) \/ NoOffers(k)'

\* The names of a pool stay agreed while the classes stay.
LEMMA AgreementKept ==
  ASSUME NEW p, NEW names, SameClasses(p), NoDisagreement(p, names)
  PROVE  NoDisagreement(p, names)'
BY DEF NoDisagreement, OfferedSpaces, SpaceKey, SameClasses

\* A class still agrees with the pools that offer it.
LEMMA JoiningKept ==
  ASSUME NEW k, NEW c, SameClasses(k[1]), OldPools(k[1]), validateOfferAgreement(k, c)
  PROVE  validateOfferAgreement(k, c)'
<1> SUFFICES ASSUME ~ ClassJoinsDisagreement(k[1], k[2], c) PROVE ~ ClassJoinsDisagreement(k[1], k[2], c)'
  BY DEF validateOfferAgreement
<1> SUFFICES ASSUME NEW q \in DOMAIN pools', q[1] = k[1], k[2] \in pools'[q].spec.classNames,
                    NEW n \in OfferedSpaces(k[1], pools[q].spec.classNames)'
             PROVE  SpaceKey(k[1], n)' = RoleSetKey(c.uniqueWithin)
  BY DEF ClassJoinsDisagreement, PoolsOffering
<1>1. q \in DOMAIN pools /\ pools'[q].spec = pools[q].spec
  BY DEF OldPools, NoOffers
<1>2. n \in OfferedSpaces(k[1], pools[q].spec.classNames) /\ SpaceKey(k[1], n)' = SpaceKey(k[1], n)
  BY <1>1 DEF OfferedSpaces, SpaceKey, SameClasses
<1> QED BY <1>1, <1>2 DEF ClassJoinsDisagreement, PoolsOffering

\* The range of a root pool is still apart from the others.
LEMMA NoOverlapKept ==
  ASSUME NEW k, NEW d, OldPools(k[1]), validateNoRootOverlap(k, d)
  PROVE  validateNoRootOverlap(k, d)'
BY DEF validateNoRootOverlap, RootPools, OldPools, NoOffers

\* What a request was checked for stays true while what it read stays.
LEMMA CheckedKept ==
  ASSUME NEW r \in Req, Checked(r), pc'[r] = pc[r], req'[r] = req[r],
         SameClasses(req[r].doc.key[1]), OldPools(req[r].doc.key[1])
  PROVE  Checked(r)'
<1>1. PICK d : d = req[r].doc
  OBVIOUS
<1>2. SameClasses(d.key[1]) /\ OldPools(d.key[1]) /\ d = req'[r].doc
  BY <1>1
<1>3. validateOfferAgreement(d.key, d.spec) => validateOfferAgreement(d.key, d.spec)'
  BY <1>2, JoiningKept
<1>4. NoDisagreement(d.key[1], d.spec.classNames) => NoDisagreement(d.key[1], d.spec.classNames)'
  BY <1>2, AgreementKept
<1>5. validateNoRootOverlap(d.key, d.spec) => validateNoRootOverlap(d.key, d.spec)'
  BY <1>2, NoOverlapKept
<1> QED BY Zenon, <1>1, <1>2, <1>3, <1>4, <1>5 DEF Checked

\* The pool a request read is the stored one while no one writes it.
LEMMA UnmovedKept ==
  ASSUME NEW r \in Req, Unmoved(r), pc'[r] = pc[r], req'[r] = req[r],
         \A k \in DOMAIN pools : pc[r] = "casPool" /\ k = req[r].doc.key =>
           /\ k \in DOMAIN pools'
           /\ pools'[k].spec.range = pools[k].spec.range /\ pools'[k].spec.parent = pools[k].spec.parent
  PROVE  Unmoved(r)'
BY DEF Unmoved

\* The catalog is right about as many pools and classes as before.
LEMMA CatalogKept ==
  ASSUME UNCHANGED classes, \A p : OldPools(p), PoolsAgree, RootsApart
  PROVE  PoolsAgree' /\ RootsApart'
<1>1. ASSUME NEW k \in DOMAIN pools' PROVE NoDisagreement(k[1], pools[k].spec.classNames)'
  <2>1. CASE NoOffers(k)'
    BY <2>1 DEF NoOffers, NoDisagreement, OfferedSpaces
  <2>2. CASE k \in DOMAIN pools /\ pools'[k].spec = pools[k].spec
    BY <2>2 DEF PoolsAgree, NoDisagreement, OfferedSpaces, SpaceKey
  <2> QED BY <2>1, <2>2 DEF OldPools
<1>2. RootsApart'
  <2> SUFFICES ASSUME NEW p \in Project, NEW k \in RootPools(p)', NEW q \in RootPools(p)', k # q
               PROVE  pools'[k].spec.range \cap pools'[q].spec.range = {}
    BY DEF RootsApart
  <2>1. /\ k \in RootPools(p) /\ q \in RootPools(p)
        /\ pools'[k].spec = pools[k].spec /\ pools'[q].spec = pools[q].spec
    BY DEF RootPools, OldPools, NoOffers
  <2> QED BY <2>1 DEF RootsApart
<1> QED BY <1>1, <1>2 DEF PoolsAgree

\* A step that writes no class, no range and no offer.
LEMMA UnwrittenOffers ==
  ASSUME OffersInv, NEW r \in Req, Only(r), UNCHANGED <<classes, raced>>, PoolsTyped',
         \A p : OldPools(p), \A k \in DOMAIN pools : k \in DOMAIN pools' /\ pools'[k] = pools[k],
         stale \ {r} \subseteq stale', moved \ {r} \subseteq moved',
         ~ raced /\ r \notin stale' => Checked(r)',
         ~ raced /\ r \notin moved' => Unmoved(r)'
  PROVE  OffersInv'
<1> SUFFICES ASSUME ~ raced
             PROVE  /\ PoolsAgree' /\ RootsApart'
                    /\ \A q \in Req \ stale' : Checked(q)'
                    /\ \A q \in Req \ moved' : Unmoved(q)'
  BY DEF OffersInv
<1>1. PoolsAgree' /\ RootsApart'
  BY CatalogKept DEF OffersInv
<1>2. ASSUME NEW q \in Req \ {r} PROVE pc'[q] = pc[q] /\ req'[q] = req[q]
  BY DEF Only
<1>3. ASSUME NEW q \in Req \ stale' PROVE Checked(q)'
  <2>1. CASE q = r
    BY <2>1
  <2>2. CASE q # r
    <3>1. Checked(q) /\ pc'[q] = pc[q] /\ req'[q] = req[q]
      BY <1>2, <2>2 DEF OffersInv
    <3>2. \A p : SameClasses(p)
      BY DEF SameClasses
    <3> QED BY <3>1, <3>2, CheckedKept
  <2> QED BY <2>1, <2>2
<1>4. ASSUME NEW q \in Req \ moved' PROVE Unmoved(q)'
  <2>1. CASE q = r
    BY <2>1
  <2>2. CASE q # r
    BY <1>2, <2>2, UnmovedKept DEF OffersInv
  <2> QED BY <2>1, <2>2
<1> QED BY <1>1, <1>3, <1>4

\* A request that is about no document any more, or not yet.
LEMMA NothingChecked ==
  ASSUME NEW r \in Req, pc'[r] \notin DocStates
  PROVE  Checked(r)' /\ Unmoved(r)'
BY DEF Checked, Unmoved, DocStates, PoolStates

\* A step that writes neither classes nor pools keeps OffersInv.
LEMMA QuietOffers ==
  ASSUME OffersInv, NEW r \in Req, Only(r), UNCHANGED <<classes, pools, raced>>,
         stale \ {r} \subseteq stale', moved \ {r} \subseteq moved',
         ~ raced /\ r \notin stale' => Checked(r)',
         ~ raced /\ r \notin moved' => Unmoved(r)'
  PROVE  OffersInv'
<1>1. PoolsTyped' /\ \A p : OldPools(p)
  BY DEF OffersInv, PoolsTyped, OldPools
<1> QED BY <1>1, UnwrittenOffers

\* A refused request keeps OffersInv.
LEMMA RefuseOffers ==
  ASSUME UseInv, OffersInv, NEW r \in Req, Refuse(r)
  PROVE  OffersInv'
<1>1. Only(r) /\ pc'[r] = "idle"
  BY FinishTyped DEF Refuse, UseInv
<1>2. Checked(r)' /\ Unmoved(r)'
  BY <1>1, NothingChecked DEF DocStates, PoolStates
<1> QED BY <1>1, <1>2, QuietOffers DEF Refuse, Fresh, catalog

\* A write: what others have checked in the project is old, what they have checked
\* elsewhere still holds.
LEMMA WriteOffers ==
  ASSUME UseInv, OffersInv, NEW r \in Req, NEW p, Writes(r, p), Only(r), pc'[r] = "idle", PoolsTyped',
         \A x : x # p => SameClasses(x) /\ OldPools(x),
         ~ raced /\ r \notin stale => PoolsAgree' /\ RootsApart',
         \A q \in Req \ {r} : q \notin moved' =>
           /\ q \notin moved
           /\ \A k \in DOMAIN pools : pc[q] = "casPool" /\ k = req[q].doc.key =>
                /\ k \in DOMAIN pools'
                /\ pools'[k].spec.range = pools[k].spec.range /\ pools'[k].spec.parent = pools[k].spec.parent
  PROVE  OffersInv'
<1> SUFFICES ASSUME ~ raced, r \notin stale
             PROVE  /\ \A q \in Req \ stale' : Checked(q)'
                    /\ \A q \in Req \ moved' : Unmoved(q)'
  BY Zenon DEF OffersInv, Writes
<1>1. ASSUME NEW q \in Req \ {r} PROVE pc'[q] = pc[q] /\ req'[q] = req[q]
  BY DEF Only
<1>2. Checked(r)' /\ Unmoved(r)'
  BY NothingChecked DEF DocStates, PoolStates
<1>3. ASSUME NEW q \in Req \ stale', q # r PROVE Checked(q)'
  <2>1. q \notin stale /\ (req[q].doc = None \/ req[q].doc.key[1] # p)
    BY <1>3 DEF Writes
  <2>2. CASE pc[q] \notin DocStates
    BY <1>1, <1>3, <2>2, NothingChecked
  <2>3. CASE pc[q] \in DocStates
    <3>1. req[q].doc # None
      BY Zenon, <2>3, CatalogAssumption DEF UseInv, RequestOK, DocStates, WorldTyped
    <3>2. SameClasses(req[q].doc.key[1]) /\ OldPools(req[q].doc.key[1])
      BY <2>1, <3>1
    <3>3. Checked(q)
      BY <2>1 DEF OffersInv
    <3> QED BY Zenon, <1>1, <1>3, <3>2, <3>3, CheckedKept
  <2> QED BY <2>2, <2>3
<1>4. ASSUME NEW q \in Req \ moved', q # r PROVE Unmoved(q)'
  <2>1. Unmoved(q)
    BY Zenon, <1>4 DEF OffersInv
  <2> QED BY <1>1, <1>4, <2>1, UnmovedKept
<1> QED BY <1>2, <1>3, <1>4


-----------------------------------------------------------------------------
(***************************************************************************)
(* Writers of classes                                                      *)
(***************************************************************************)
\* A class create is checked against the pools that offer its name.
LEMMA CreateClassOffers ==
  ASSUME UseInv, OffersInv, NEW r \in Req, CreateClass(r)
  PROVE  OffersInv'
<1>1. PICK d \in world.classWrites :
        validateOfferAgreement(d.key, d.spec) /\ req' = [req EXCEPT ![r].doc = d]
  BY Zenon DEF CreateClass
<1>2. Goto(r, "insertClass") /\ Fresh(r)
  BY DEF CreateClass
<1>3. Only(r) /\ pc'[r] = "insertClass" /\ req'[r].doc = d
  BY Zenon, <1>1, <1>2, GotoDoc DEF UseInv, States, DocStates
<1>4. /\ UNCHANGED <<classes, pools, raced>>
      /\ stale \ {r} \subseteq stale' /\ moved \ {r} \subseteq moved'
  BY <1>2 DEF Fresh, catalog
<1>5. validateOfferAgreement(d.key, d.spec)'
  BY Zenon, <1>1, <1>4 DEF validateOfferAgreement, ClassJoinsDisagreement, PoolsOffering, OfferedSpaces, SpaceKey
<1>6. Checked(r)' /\ Unmoved(r)'
  BY <1>3, <1>5 DEF Checked, Unmoved, PoolStates
<1> QED BY <1>3, <1>4, <1>6, QuietOffers

\* A class that has been checked against the pools that offer it.
LEMMA JoinAgrees ==
  ASSUME PoolsAgree, NEW key \in ClassKey, NEW c, validateOfferAgreement(key, c),
         classes' = Put(classes, key, c), UNCHANGED pools
  PROVE  PoolsAgree'
<1> SUFFICES ASSUME NEW k \in DOMAIN pools, NEW a \in OfferedSpaces(k[1], pools[k].spec.classNames)',
                    NEW b \in OfferedSpaces(k[1], pools[k].spec.classNames)'
             PROVE  SpaceKey(k[1], a)' = SpaceKey(k[1], b)'
  BY DEF PoolsAgree, NoDisagreement
<1>1. ASSUME NEW n \in OfferedSpaces(k[1], pools[k].spec.classNames)'
      PROVE  \/ /\ <<k[1], n>> # key /\ n \in OfferedSpaces(k[1], pools[k].spec.classNames)
                /\ SpaceKey(k[1], n)' = SpaceKey(k[1], n)
             \/ /\ key[1] = k[1] /\ key[2] = n /\ n \in pools[k].spec.classNames
                /\ c.source = None /\ c.parent = None
                /\ SpaceKey(k[1], n)' = RoleSetKey(c.uniqueWithin)
  <2>1. CASE <<k[1], n>> = key
    <3>1. key \in DOMAIN classes' /\ classes'[key] = c
      BY DEF Put
    <3>2. key[1] = k[1] /\ key[2] = n
      BY <2>1
    <3> QED BY Zenon, <1>1, <2>1, <3>1, <3>2 DEF OfferedSpaces, SpaceKey
  <2>2. CASE <<k[1], n>> # key
    <3>1. /\ <<k[1], n>> \in DOMAIN classes' => <<k[1], n>> \in DOMAIN classes
          /\ <<k[1], n>> \in DOMAIN classes' => classes'[<<k[1], n>>] = classes[<<k[1], n>>]
      BY <2>2 DEF Put
    <3> QED BY Zenon, <1>1, <2>2, <3>1 DEF OfferedSpaces, SpaceKey
  <2> QED BY Zenon, <2>1, <2>2
<1>2. ASSUME NEW n \in OfferedSpaces(k[1], pools[k].spec.classNames),
             key[1] = k[1], key[2] \in pools[k].spec.classNames, c.source = None, c.parent = None
      PROVE  SpaceKey(k[1], n) = RoleSetKey(c.uniqueWithin)
  BY Zenon, <1>2 DEF validateOfferAgreement, ClassJoinsDisagreement, PoolsOffering
<1>3. ASSUME NEW m \in OfferedSpaces(k[1], pools[k].spec.classNames),
             NEW n \in OfferedSpaces(k[1], pools[k].spec.classNames)
      PROVE  SpaceKey(k[1], m) = SpaceKey(k[1], n)
  BY <1>3 DEF PoolsAgree, NoDisagreement
<1> QED BY <1>1, <1>2, <1>3

\* Writing one class leaves the other projects' classes alone.
LEMMA OtherClasses ==
  ASSUME NEW k \in ClassKey, NEW x, x # k[1],
         \A n \in DOMAIN classes' \cup DOMAIN classes : n # k =>
           n \in DOMAIN classes /\ n \in DOMAIN classes' /\ classes'[n] = classes[n]
  PROVE  SameClasses(x)
BY DEF SameClasses, ClassKey

\* A class is stored, after other writers have had their turns.
LEMMA InsertClassOffers ==
  ASSUME UseInv, OffersInv, NEW r \in Req, InsertClass(r)
  PROVE  OffersInv'
<1>1. CASE Refuse(r)
  BY <1>1, RefuseOffers
<1>2. CASE ~ Refuse(r)
  <2>1. PICK d : d = req[r].doc
    OBVIOUS
  <2>2. /\ classes' = Put(classes, d.key, d.spec) /\ Finish(r) /\ Writes(r, d.key[1])
        /\ UNCHANGED <<pools, moved>> /\ pc[r] = "insertClass"
    BY Zenon, <1>2, <2>1 DEF InsertClass
  <2>3. Only(r) /\ pc'[r] = "idle"
    BY Zenon, <2>2, FinishTyped DEF UseInv
  <2>4. d.key \in ClassKey
    BY Zenon, <2>1, <2>2, CatalogAssumption DEF UseInv, RequestOK, WorldTyped
  <2>5. \A x : x # d.key[1] => SameClasses(x) /\ OldPools(x)
    <3>1. \A n \in DOMAIN classes' \cup DOMAIN classes : n # d.key =>
            n \in DOMAIN classes /\ n \in DOMAIN classes' /\ classes'[n] = classes[n]
      BY <2>2 DEF Put
    <3>2. \A x : OldPools(x)
      BY <2>2 DEF OldPools
    <3> QED BY <2>4, <3>1, <3>2, OtherClasses
  <2>6. ~ raced /\ r \notin stale => PoolsAgree' /\ RootsApart'
    <3> SUFFICES ASSUME ~ raced, r \notin stale PROVE PoolsAgree' /\ RootsApart'
      OBVIOUS
    <3>1. PoolsAgree /\ RootsApart /\ Checked(r)
      BY DEF OffersInv
    <3>2. validateOfferAgreement(d.key, d.spec)
      BY Zenon, <2>1, <2>2, <3>1 DEF Checked
    <3>3. PoolsAgree'
      BY <2>2, <2>4, <3>1, <3>2, JoinAgrees
    <3> QED BY <2>2, <3>1, <3>3 DEF RootsApart, RootPools
  <2>7. PoolsTyped'
    BY <2>2 DEF OffersInv, PoolsTyped
  <2> QED BY Zenon, <2>2, <2>3, <2>5, <2>6, <2>7, WriteOffers
<1> QED BY <1>1, <1>2

\* Classes that are dropped, or keep what makes them offered and their space.
LEMMA FewerAgree ==
  ASSUME PoolsAgree, UNCHANGED pools,
         \A k \in DOMAIN classes' :
           /\ k \in DOMAIN classes /\ classes'[k].source = classes[k].source
           /\ classes'[k].parent = classes[k].parent /\ classes'[k].uniqueWithin = classes[k].uniqueWithin
  PROVE  PoolsAgree'
<1> SUFFICES ASSUME NEW k \in DOMAIN pools, NEW a \in OfferedSpaces(k[1], pools[k].spec.classNames)',
                    NEW b \in OfferedSpaces(k[1], pools[k].spec.classNames)'
             PROVE  SpaceKey(k[1], a)' = SpaceKey(k[1], b)'
  BY DEF PoolsAgree, NoDisagreement
<1>1. ASSUME NEW n \in OfferedSpaces(k[1], pools[k].spec.classNames)'
      PROVE  n \in OfferedSpaces(k[1], pools[k].spec.classNames) /\ SpaceKey(k[1], n)' = SpaceKey(k[1], n)
  BY <1>1 DEF OfferedSpaces, SpaceKey
<1> QED BY <1>1 DEF PoolsAgree, NoDisagreement

\* A request that edits or deletes a class in one step.
LEMMA EditClassOffers ==
  ASSUME UseInv, OffersInv, NEW r \in Req, NEW key \in ClassKey, pc[r] = "idle", Writes(r, key[1]),
         UNCHANGED <<pools, pc, req, moved>>,
         \A n \in DOMAIN classes : n # key => n \in DOMAIN classes' /\ classes'[n] = classes[n],
         \A k \in DOMAIN classes' :
           /\ k \in DOMAIN classes /\ classes'[k].source = classes[k].source
           /\ classes'[k].parent = classes[k].parent /\ classes'[k].uniqueWithin = classes[k].uniqueWithin
  PROVE  OffersInv'
<1>1. Only(r) /\ pc'[r] = "idle" /\ PoolsTyped' /\ \A x : OldPools(x)
  BY DEF Only, OffersInv, PoolsTyped, OldPools
<1>2. \A n \in DOMAIN classes' \cup DOMAIN classes : n # key =>
        n \in DOMAIN classes /\ n \in DOMAIN classes' /\ classes'[n] = classes[n]
  OBVIOUS
<1>3. \A x : x # key[1] => SameClasses(x)
  BY <1>2, OtherClasses
<1>4. ~ raced => PoolsAgree' /\ RootsApart'
  BY Zenon, FewerAgree DEF OffersInv, RootsApart, RootPools
<1> QED BY <1>1, <1>3, <1>4, WriteOffers

\* A class is edited: its uniqueWithin stays as it was.
LEMMA UpdateClassOffers ==
  ASSUME UseInv, OffersInv, NEW r \in Req, UpdateClass(r)
  PROVE  OffersInv'
<1>1. PICK d \in world.classWrites :
        /\ d.key \in DOMAIN classes /\ ValidateClassUpdate(d.key[2], d.spec, classes[d.key])
        /\ classes' = [classes EXCEPT ![d.key] = d.spec] /\ Writes(r, d.key[1])
  BY Zenon DEF UpdateClass
<1>2. pc[r] = "idle" /\ UNCHANGED <<pools, pc, req, moved>> /\ d.key \in ClassKey
  BY Zenon, <1>1 DEF UpdateClass, UseInv, ClassesOK
<1>3. /\ d.spec.source = classes[d.key].source /\ d.spec.parent = classes[d.key].parent
      /\ d.spec.uniqueWithin = classes[d.key].uniqueWithin
  BY <1>1 DEF ValidateClassUpdate
<1> QED BY Zenon, <1>1, <1>2, <1>3, EditClassOffers

\* A class is deleted: a pool offers fewer spaces.
LEMMA DeleteClassOffers ==
  ASSUME UseInv, OffersInv, NEW r \in Req, DeleteClass(r)
  PROVE  OffersInv'
<1>1. PICK k \in DOMAIN classes : classes' = Drop(classes, k) /\ Writes(r, k[1])
  BY Zenon DEF DeleteClass
<1>2. pc[r] = "idle" /\ UNCHANGED <<pools, pc, req, moved>> /\ k \in ClassKey
  BY <1>1 DEF DeleteClass, UseInv, ClassesOK
<1>3. DOMAIN classes' = DOMAIN classes \ {k} /\ \A n \in DOMAIN classes' : classes'[n] = classes[n]
  BY <1>1 DEF Drop, Restrict
<1> QED BY Zenon, <1>1, <1>2, <1>3, EditClassOffers

-----------------------------------------------------------------------------
(***************************************************************************)
(* Writers of pools                                                        *)
(***************************************************************************)
\* One name in the list agrees with itself.
LEMMA FewNamesAgree ==
  ASSUME NEW p, NEW names \in SUBSET ClassName, Cardinality(names) < 2
  PROVE  NoDisagreement(p, names)
<1>1. IsFiniteSet(names)
  BY CatalogAssumption, FS_Subset
<1>2. Cardinality(names) = 0 \/ Cardinality(names) = 1
  BY <1>1, FS_CardinalityType
<1>3. \A a, b \in names : a = b
  <2>1. names = {} \/ \E x : names = {x}
    BY <1>1, <1>2, FS_EmptySet, FS_Singleton
  <2> QED BY <2>1
<1> QED BY <1>3 DEF NoDisagreement, OfferedSpaces

\* A pool whose names pass validateClassOffers offers one space.
LEMMA OffersChecked ==
  ASSUME UseInv, NEW d \in world.poolWrites, validateClassOffers(d.key[1], d.spec)
  PROVE  NoDisagreement(d.key[1], d.spec.classNames)
<1>1. d.spec.classNames \in SUBSET ClassName
  BY CatalogAssumption DEF UseInv, WorldTyped, IPPoolSpec
<1> QED BY <1>1, FewNamesAgree DEF validateClassOffers

\* A pool create is checked against the classes it names.
LEMMA CreatePoolOffers ==
  ASSUME UseInv, OffersInv, NEW r \in Req, CreatePool(r)
  PROVE  OffersInv'
<1>1. PICK d \in world.poolWrites :
        /\ validateClassOffers(d.key[1], d.spec) /\ req' = [req EXCEPT ![r].doc = d]
        /\ Goto(r, IF d.spec.parent = None THEN "overlap" ELSE "parent")
  BY Zenon DEF CreatePool
<1>2. PICK s \in {"overlap", "parent"} : Goto(r, s)
  BY <1>1
<1>3. Only(r) /\ pc'[r] = s /\ req'[r].doc = d
  BY Zenon, <1>1, <1>2, GotoDoc DEF UseInv, States, DocStates, PoolStates
<1>4. /\ UNCHANGED <<classes, pools, raced>>
      /\ stale \ {r} \subseteq stale' /\ moved \ {r} \subseteq moved'
  BY DEF CreatePool, Fresh, catalog
<1>5. NoDisagreement(d.key[1], d.spec.classNames)'
  BY <1>1, <1>4, OffersChecked DEF NoDisagreement, OfferedSpaces, SpaceKey
<1>6. Checked(r)' /\ Unmoved(r)'
  BY <1>2, <1>3, <1>5 DEF Checked, Unmoved, PoolStates
<1> QED BY <1>3, <1>4, <1>6, QuietOffers

\* The next check of a pool's document.
LEMMA CheckPoolOffers ==
  ASSUME UseInv, OffersInv, NEW r \in Req, NEW s \in {"insertPool", "carvePool"}, pc[r] \in PoolStates,
         s = "insertPool" => validateNoRootOverlap(req[r].doc.key, req[r].doc.spec),
         Goto(r, s), UNCHANGED req, OnlyRequests
  PROVE  OffersInv'
<1>1. Only(r) /\ pc'[r] = s /\ req'[r] = req[r]
  BY GotoOnly DEF UseInv, States, DocStates, PoolStates
<1>2. UNCHANGED <<classes, pools, raced, stale, moved>>
  BY DEF OnlyRequests, catalog
<1>3. PICK d : d = req[r].doc
  OBVIOUS
<1>4. ~ raced /\ r \notin stale => NoDisagreement(d.key[1], d.spec.classNames)'
  <2>1. ~ raced /\ r \notin stale => NoDisagreement(d.key[1], d.spec.classNames)
    BY Zenon, <1>3 DEF OffersInv, Checked
  <2>2. SameClasses(d.key[1])
    BY Zenon, <1>2 DEF SameClasses
  <2> QED BY Zenon, <2>1, <2>2, AgreementKept
<1>5. s = "insertPool" => validateNoRootOverlap(d.key, d.spec)'
  BY Zenon, <1>2, <1>3 DEF validateNoRootOverlap, RootPools
<1>6. ~ raced /\ r \notin stale => Checked(r)'
  BY Zenon, <1>1, <1>3, <1>4, <1>5 DEF Checked, PoolStates
<1>7. Unmoved(r)'
  BY Zenon, <1>1 DEF Unmoved
<1> QED BY <1>1, <1>2, <1>6, <1>7, QuietOffers

\* A pool is added whose offers agree and whose range, if it is a root, is free.
LEMMA AddedPoolAgrees ==
  ASSUME PoolsAgree, RootsApart, UNCHANGED classes, NEW key, NEW p, pools' = Put(pools, key, p),
         NoDisagreement(key[1], p.spec.classNames),
         p.spec.parent = None => validateNoRootOverlap(key, p.spec)
  PROVE  PoolsAgree' /\ RootsApart'
<1>1. /\ DOMAIN pools' = DOMAIN pools \cup {key} /\ pools'[key] = p
      /\ \A k \in DOMAIN pools \ {key} : pools'[k] = pools[k]
  BY DEF Put
<1>2. PoolsAgree'
  <2>1. \A x, names : NoDisagreement(x, names) => NoDisagreement(x, names)'
    BY AgreementKept DEF SameClasses
  <2> SUFFICES ASSUME NEW k \in DOMAIN pools' PROVE NoDisagreement(k[1], pools[k].spec.classNames)'
    BY DEF PoolsAgree
  <2>2. NoDisagreement(k[1], pools'[k].spec.classNames)
    BY <1>1 DEF PoolsAgree
  <2>3. PICK names : names = pools'[k].spec.classNames
    OBVIOUS
  <2>4. NoDisagreement(k[1], names)'
    BY <2>1, <2>2, <2>3
  <2> QED BY <2>3, <2>4
<1>3. ASSUME NEW x \in Project, NEW k \in RootPools(x)', NEW q \in RootPools(x)', k # q
      PROVE  pools'[k].spec.range \cap pools'[q].spec.range = {}
  <2>1. \A m \in RootPools(x)' : m # key => m \in RootPools(x) /\ pools'[m] = pools[m]
    BY Zenon, <1>1 DEF RootPools
  <2>2. \A m \in RootPools(x) : m # key /\ key \in RootPools(x)' => pools[m].spec.range \cap p.spec.range = {}
    BY Zenon, <1>1 DEF RootPools, validateNoRootOverlap
  <2>3. CASE k = key
    BY Zenon, <1>1, <1>3, <2>1, <2>2, <2>3
  <2>4. CASE q = key
    BY <1>1, <1>3, <2>1, <2>2, <2>4
  <2>5. CASE k # key /\ q # key
    BY <1>3, <2>1, <2>5 DEF RootsApart
  <2> QED BY Zenon, <2>3, <2>4, <2>5
<1> QED BY Zenon, <1>2, <1>3 DEF RootsApart

\* A new pool is written, its key not in use.
LEMMA AddPoolOffers ==
  ASSUME UseInv, OffersInv, NEW r \in Req, NEW d, d = req[r].doc, NEW s, NEW f, NEW from, s = d.spec,
         pc[r] \in PoolStates, d.key \notin DOMAIN pools,
         pools' = Put(pools, d.key, [spec |-> s, family |-> f, from |-> from]),
         UNCHANGED classes, moved \subseteq moved', Finish(r), Writes(r, d.key[1]),
         s.parent = None => pc[r] = "insertPool"
  PROVE  OffersInv'
<1> DEFINE p == [spec |-> s, family |-> f, from |-> from]
<1>1. /\ DOMAIN pools' = DOMAIN pools \cup {d.key} /\ pools'[d.key] = p
      /\ \A k \in DOMAIN pools : pools'[k] = pools[k]
  BY DEF Put
<1>2. p.spec = d.spec /\ p \in PoolOf({s, f, from})
  BY DEF PoolOf
<1>3. pools' = Put(pools, d.key, p)
  BY Zenon
<1> HIDE DEF p
<1>4. Only(r) /\ pc'[r] = "idle"
  BY Zenon, FinishTyped DEF UseInv
<1>5. PoolsTyped'
  BY Zenon, <1>1, <1>2 DEF OffersInv, PoolsTyped
<1>6. \A x : x # d.key[1] => SameClasses(x) /\ OldPools(x)
  BY Zenon, <1>1 DEF SameClasses, OldPools
<1>7. ~ raced /\ r \notin stale => PoolsAgree' /\ RootsApart'
  <2> SUFFICES ASSUME ~ raced, r \notin stale PROVE PoolsAgree' /\ RootsApart'
    BY Zenon
  <2>1. PoolsAgree /\ RootsApart /\ Checked(r)
    BY Zenon DEF OffersInv
  <2>2. /\ NoDisagreement(d.key[1], p.spec.classNames)
        /\ p.spec.parent = None => validateNoRootOverlap(d.key, p.spec)
    BY Zenon, <1>2, <2>1 DEF Checked
  <2> QED BY Zenon, <1>3, <2>1, <2>2, AddedPoolAgrees
<1> QED BY Zenon, <1>1, <1>4, <1>5, <1>6, <1>7, WriteOffers

\* A pool is stored, after other writers have had their turns.
LEMMA InsertPoolOffers ==
  ASSUME UseInv, OffersInv, NEW r \in Req, InsertPool(r) \/ CarvePool(r)
  PROVE  OffersInv'
<1>1. CASE Refuse(r)
  BY <1>1, RefuseOffers
<1>2. CASE ~ Refuse(r)
  <2>1. PICK d, s : d = req[r].doc /\ s = d.spec
    OBVIOUS
  <2>2. CASE InsertPool(r)
    <3>1. /\ d.key \notin DOMAIN pools
          /\ pools' = Put(pools, d.key, [spec |-> s, family |-> s.family, from |-> None])
          /\ UNCHANGED <<classes, moved>> /\ Finish(r) /\ Writes(r, d.key[1]) /\ pc[r] = "insertPool"
      BY Zenon, <1>2, <2>1, <2>2 DEF InsertPool
    <3>2. pc[r] \in PoolStates
      BY Zenon, <3>1 DEF PoolStates
    <3> QED BY Zenon, <2>1, <3>1, <3>2, AddPoolOffers
  <2>3. CASE CarvePool(r)
    <3>1. PICK f, from :
             /\ d.key \notin DOMAIN pools
             /\ pools' = Put(pools, d.key, [spec |-> s, family |-> f, from |-> from])
             /\ Touch({from}) /\ UNCHANGED classes /\ Finish(r) /\ Writes(r, d.key[1]) /\ pc[r] = "carvePool"
      BY Zenon, <1>2, <2>1, <2>3 DEF CarvePool
    <3>2. pc[r] \in PoolStates /\ moved \subseteq moved'
      BY Zenon, <3>1 DEF PoolStates, Touch
    <3>3. s.parent # None
      BY Zenon, <2>1, <3>1 DEF UseInv, RequestOK
    <3> QED BY Zenon, <2>1, <3>1, <3>2, <3>3, AddPoolOffers
  <2> QED BY <2>2, <2>3
<1> QED BY <1>1, <1>2

\* A pool is read to be edited.
LEMMA ReadForUpdateOffers ==
  ASSUME UseInv, OffersInv, NEW r \in Req, NEW d \in world.poolWrites, ReadForUpdate(r, d)
  PROVE  OffersInv'
<1>1. /\ UpdateAdmitted(d) /\ Goto(r, "casPool") /\ req' = [req EXCEPT ![r].doc = d]
      /\ UNCHANGED <<classes, pools, raced>>
      /\ stale \ {r} \subseteq stale' /\ moved \ {r} \subseteq moved'
  BY DEF ReadForUpdate, Fresh, catalog
<1>2. Only(r) /\ pc'[r] = "casPool" /\ req'[r].doc = d
  BY Zenon, <1>1, GotoDoc DEF UseInv, States, DocStates, PoolStates
<1>3. NoDisagreement(d.key[1], d.spec.classNames)'
  <2>1. NoDisagreement(d.key[1], d.spec.classNames)
    BY <1>1, OffersChecked DEF UpdateAdmitted
  <2>2. SameClasses(d.key[1])
    BY <1>1 DEF SameClasses
  <2> QED BY <2>1, <2>2, AgreementKept
<1>4. Checked(r)' /\ Unmoved(r)'
  BY <1>1, <1>2, <1>3 DEF Checked, Unmoved, UpdateAdmitted, ValidatePoolUpdate
<1> QED BY <1>1, <1>2, <1>4, QuietOffers

\* A pool whose offers are edited, its range and its parent left as they are.
LEMMA EditedPoolAgrees ==
  ASSUME PoolsAgree, RootsApart, UNCHANGED classes, NEW key, NEW names, DOMAIN pools' = DOMAIN pools,
         \A k \in DOMAIN pools : k # key => pools'[k] = pools[k],
         key \in DOMAIN pools => /\ pools'[key].spec.classNames = names
                                 /\ pools'[key].spec.range = pools[key].spec.range
                                 /\ pools'[key].spec.parent = pools[key].spec.parent,
         NoDisagreement(key[1], names)
  PROVE  PoolsAgree' /\ RootsApart'
<1>1. PoolsAgree'
  <2>1. \A x, m : NoDisagreement(x, m) => NoDisagreement(x, m)'
    BY AgreementKept DEF SameClasses
  <2> SUFFICES ASSUME NEW k \in DOMAIN pools' PROVE NoDisagreement(k[1], pools[k].spec.classNames)'
    BY DEF PoolsAgree
  <2>2. NoDisagreement(k[1], pools'[k].spec.classNames)
    BY DEF PoolsAgree
  <2>3. PICK m : m = pools'[k].spec.classNames
    OBVIOUS
  <2>4. NoDisagreement(k[1], m)'
    BY <2>1, <2>2, <2>3
  <2> QED BY <2>3, <2>4
<1>2. \A k \in DOMAIN pools : /\ pools'[k].spec.range = pools[k].spec.range
                              /\ pools'[k].spec.parent = pools[k].spec.parent
  OBVIOUS
<1>3. RootsApart'
  <2>1. \A p : RootPools(p)' = RootPools(p)
    BY Zenon, <1>2 DEF RootPools
  <2>2. \A p : RootPools(p) \subseteq DOMAIN pools
    BY Zenon DEF RootPools
  <2> QED BY Zenon, <1>2, <2>1, <2>2 DEF RootsApart
<1> QED BY Zenon, <1>1, <1>3

\* An edit is stored only over the version it was made from.
LEMMA CasPoolOffers ==
  ASSUME UseInv, OffersInv, NEW r \in Req, CasPool(r)
  PROVE  OffersInv'
<1>1. PICK d : d = req[r].doc
  OBVIOUS
<1>2. pc[r] = "casPool" /\ d \in world.poolWrites
  BY <1>1 DEF CasPool, UseInv, RequestOK, PoolStates
<1>3. CASE Refuse(r)
  BY <1>3, RefuseOffers
<1>4. CASE ReadForUpdate(r, d)
  BY <1>2, <1>4, ReadForUpdateOffers
<1>5. CASE ~ Refuse(r) /\ ~ ReadForUpdate(r, d)
  <2>1. /\ d.key \in DOMAIN pools /\ r \notin moved
        /\ pools' = [pools EXCEPT ![d.key].spec = d.spec]
        /\ moved' = (moved \cup { q \in Req : pc[q] = "casPool" /\ req[q].doc.key = d.key }) \ {r}
        /\ Finish(r) /\ Writes(r, d.key[1]) /\ UNCHANGED classes
    BY <1>1, <1>5 DEF CasPool
  <2>2. PICK V : pools[d.key] \in PoolOf(V)
    BY <2>1 DEF OffersInv, PoolsTyped
  <2>3. pools'[d.key] \in PoolOf(V \cup {d.spec}) /\ pools'[d.key].spec = d.spec
    BY <2>1, <2>2 DEF PoolOf
  <2>4. DOMAIN pools' = DOMAIN pools /\ \A k \in DOMAIN pools : k # d.key => pools'[k] = pools[k]
    BY <2>1
  <2>5. PoolsTyped'
    BY <2>3, <2>4 DEF OffersInv, PoolsTyped
  <2>6. Only(r) /\ pc'[r] = "idle"
    BY <2>1, FinishTyped DEF UseInv
  <2>7. \A x : x # d.key[1] => SameClasses(x) /\ OldPools(x)
    BY <2>1, <2>4 DEF SameClasses, OldPools
  <2>8. ~ raced /\ r \notin stale => PoolsAgree' /\ RootsApart'
    <3> SUFFICES ASSUME ~ raced, r \notin stale PROVE PoolsAgree' /\ RootsApart'
      OBVIOUS
    <3>1. PoolsAgree /\ RootsApart /\ Checked(r) /\ Unmoved(r)
      BY <2>1 DEF OffersInv
    <3>2. /\ NoDisagreement(d.key[1], d.spec.classNames)
          /\ pools[d.key].spec.range = d.spec.range /\ pools[d.key].spec.parent = d.spec.parent
      BY Zenon, <1>1, <1>2, <3>1 DEF Checked, Unmoved, PoolStates
    <3> QED BY Zenon, <2>1, <2>3, <2>4, <3>1, <3>2, EditedPoolAgrees
  <2>9. ASSUME NEW q \in Req \ {r}, q \notin moved'
        PROVE  /\ q \notin moved
               /\ \A k \in DOMAIN pools : pc[q] = "casPool" /\ k = req[q].doc.key =>
                    /\ k \in DOMAIN pools'
                    /\ pools'[k].spec.range = pools[k].spec.range
                    /\ pools'[k].spec.parent = pools[k].spec.parent
    BY <2>1, <2>4, <2>9
  <2> QED BY <2>1, <2>5, <2>6, <2>7, <2>8, <2>9, WriteOffers
<1> QED BY <1>3, <1>4, <1>5

\* A pool is deleted.
LEMMA DeletePoolOffers ==
  ASSUME UseInv, OffersInv, NEW r \in Req, DeletePool(r)
  PROVE  OffersInv'
<1>0. PICK k \in DOMAIN pools :
        \E K : pools' = Drop(pools, k) /\ k \in K /\ Touch(K) /\ Writes(r, k[1])
  BY DEF DeletePool
<1>1. PICK K : pools' = Drop(pools, k) /\ k \in K /\ Touch(K) /\ Writes(r, k[1])
  BY Zenon, <1>0
<1>2. UNCHANGED <<classes, pc, req>> /\ pc[r] = "idle"
  BY DEF DeletePool
<1>3. DOMAIN pools' = DOMAIN pools \ {k} /\ \A q \in DOMAIN pools' : pools'[q] = pools[q]
  BY <1>1 DEF Drop, Restrict
<1>4. Only(r) /\ pc'[r] = "idle" /\ PoolsTyped'
  BY <1>2, <1>3 DEF Only, OffersInv, PoolsTyped
<1>5. \A x : SameClasses(x) /\ OldPools(x)
  BY <1>2, <1>3 DEF SameClasses, OldPools
<1>6. ~ raced => PoolsAgree' /\ RootsApart'
  BY <1>2, <1>5, CatalogKept DEF OffersInv
<1>7. ASSUME NEW q \in Req \ {r}, q \notin moved'
      PROVE  /\ q \notin moved
             /\ \A m \in DOMAIN pools : pc[q] = "casPool" /\ m = req[q].doc.key =>
                  /\ m \in DOMAIN pools'
                  /\ pools'[m].spec.range = pools[m].spec.range
                  /\ pools'[m].spec.parent = pools[m].spec.parent
  BY <1>1, <1>3, <1>7 DEF Touch
<1> QED BY Zenon, <1>1, <1>4, <1>5, <1>6, <1>7, WriteOffers

-----------------------------------------------------------------------------
(***************************************************************************)
(* Claims, and every step                                                  *)
(***************************************************************************)
\* A claim writes no class, and only pools that offer nothing.
LEMMA ClaimantOffers ==
  ASSUME UseInv, OffersInv, NEW r \in Req, ResolveClaim(r) \/ PlanCascade(r) \/ DiscoverInTx(r) \/ Bind(r)
  PROVE  OffersInv'
<1>1. RequestsTyped /\ ClassesOK
  BY DEF UseInv
<1>2. UNCHANGED <<classes, pools, raced, stale>> /\ moved \subseteq moved'
  BY Zenon DEF ResolveClaim, PlanCascade, DiscoverInTx, Bind, OnlyRequests, catalog, Touch
<1>3. Only(r) /\ pc'[r] \in {"idle"} \cup ClaimStates
  <2>1. CASE ResolveClaim(r)
    BY <1>1, <2>1, ResolveClaimStep DEF ClaimStates
  <2>2. CASE PlanCascade(r) \/ DiscoverInTx(r)
    BY <1>1, <2>2, PlanStep, DiscoverStep DEF GoesOn
  <2>3. CASE Bind(r)
    BY Zenon, <1>1, <2>3, FinishTyped DEF Bind
  <2> QED BY <2>1, <2>2, <2>3
<1>4. Checked(r)' /\ Unmoved(r)'
  BY <1>3, NothingChecked DEF ClaimStates, DocStates, PoolStates
<1> QED BY <1>2, <1>3, <1>4, QuietOffers

\* A provisioned pool offers no class and is no root.
LEMMA EnsureOffers ==
  ASSUME UseInv, OffersInv, NEW r \in Req, EnsureLevel(r)
  PROVE  OffersInv'
<1>1. UNCHANGED <<classes, raced, stale>> /\ moved \subseteq moved'
  BY Zenon DEF EnsureLevel, OnlyRequests, catalog, Touch
<1>2. Only(r) /\ pc'[r] \in {"idle"} \cup ClaimStates
  BY EnsureStep DEF GoesOn, UseInv
<1>3. Checked(r)' /\ Unmoved(r)'
  BY <1>2, NothingChecked DEF ClaimStates, DocStates, PoolStates
<1>4. CASE UNCHANGED pools
  BY <1>1, <1>2, <1>3, <1>4, QuietOffers
<1>5. CASE ~ UNCHANGED pools
  <2>1. PICK l, from : /\ l.key \notin DOMAIN pools
                       /\ pools' = Put(pools, l.key, newProvisionedPool(l, from))
    BY Zenon, <1>5 DEF EnsureLevel, OnlyRequests, catalog
  <2>2. PICK p : p = newProvisionedPool(l, from)
    OBVIOUS
  <2>3. /\ p \in PoolOf({p.spec, p.family, p.from})
        /\ p.spec.classNames = {} /\ p.spec.range = {}
    BY Zenon, <2>2 DEF newProvisionedPool, PoolOf
  <2>4. /\ DOMAIN pools' = DOMAIN pools \cup {l.key} /\ pools'[l.key] = p
        /\ \A k \in DOMAIN pools : pools'[k] = pools[k]
    BY <2>1, <2>2 DEF Put
  <2>5. PoolsTyped' /\ \A x : OldPools(x)
    BY <2>3, <2>4 DEF OffersInv, PoolsTyped, OldPools, NoOffers
  <2> QED BY <1>1, <1>2, <1>3, <2>4, <2>5, UnwrittenOffers
<1> QED BY <1>4, <1>5

\* A step outside the catalog and its writers.
LEMMA ElsewhereOffers ==
  ASSUME OffersInv, UNCHANGED <<classes, pools, raced, stale, pc, req>>, moved \subseteq moved'
  PROVE  OffersInv'
<1>1. PoolsTyped' /\ \A x : OldPools(x) /\ SameClasses(x)
  BY Zenon DEF OffersInv, PoolsTyped, OldPools, SameClasses
<1>2. ~ raced => PoolsAgree' /\ RootsApart'
  BY <1>1, CatalogKept DEF OffersInv
<1>3. ~ raced => \A q \in Req \ stale' : Checked(q)'
  BY <1>1, CheckedKept DEF OffersInv
<1>4. ~ raced => \A q \in Req \ moved' : Unmoved(q)'
  BY UnmovedKept DEF OffersInv
<1> QED BY <1>1, <1>2, <1>3, <1>4 DEF OffersInv

\* OffersInv holds in every world at the start.
LEMMA OffersInit == Init => OffersInv
<1> SUFFICES ASSUME Init PROVE OffersInv
  OBVIOUS
<1>1. WorldTyped(world) /\ WorldAdmitted(world) /\ classes = world.classes /\ pools = world.pools
  BY CatalogAssumption DEF Init
<1>2. PoolsTyped
  <2> SUFFICES ASSUME NEW k \in DOMAIN pools PROVE \E V : pools[k] \in PoolOf(V)
    BY DEF PoolsTyped
  <2>1. pools[k] \in [spec : IPPoolSpec, family : Family, from : {None} \cup (Project \X Seq(STRING))]
    BY <1>1 DEF WorldTyped
  <2> DEFINE V == IPPoolSpec \cup Family \cup {None} \cup (Project \X Seq(STRING))
  <2>2. pools[k] \in PoolOf(V)
    <3> HIDE DEF V
    <3>1. /\ IPPoolSpec \subseteq V /\ Family \subseteq V
          /\ {None} \cup (Project \X Seq(STRING)) \subseteq V
      BY DEF V
    <3> QED BY <2>1, <3>1 DEF PoolOf
  <2> QED BY <2>2
<1>3. PoolsAgree
  BY Zenon, <1>1 DEF WorldAdmitted, PoolsAgree, NoDisagreement, OfferedSpaces, SpaceKey
<1>4. RootsApart
  BY Zenon, <1>1 DEF WorldAdmitted, RootsApart, RootPools
<1>5. \A r \in Req : Checked(r) /\ Unmoved(r)
  BY Zenon DEF Init, Checked, Unmoved, PoolStates
<1> QED BY <1>2, <1>3, <1>4, <1>5 DEF OffersInv

\* Every step keeps OffersInv.
LEMMA OffersStep ==
  ASSUME UseInv, OffersInv, [Next]_vars
  PROVE  OffersInv'
<1>1. ASSUME NEW r \in Req, CheckOverlap(r) \/ ReadParent(r) PROVE OffersInv'
  <2>1. CASE Refuse(r)
    BY <2>1, RefuseOffers
  <2>2. CASE ~ Refuse(r) /\ CheckOverlap(r)
    BY Zenon, <2>2, CheckPoolOffers DEF CheckOverlap, PoolStates
  <2>3. CASE ~ Refuse(r) /\ ReadParent(r)
    BY <2>3, CheckPoolOffers DEF ReadParent, PoolStates
  <2> QED BY <1>1, <2>1, <2>2, <2>3
<1>2. ASSUME NEW r \in Req, UpdatePool(r) PROVE OffersInv'
  BY <1>2, ReadForUpdateOffers DEF UpdatePool
<1>3. ASSUME NEW r \in Req, Operator(r) PROVE OffersInv'
  BY Zenon, <1>1, <1>2, <1>3, CreateClassOffers, InsertClassOffers, UpdateClassOffers, DeleteClassOffers,
     CreatePoolOffers, InsertPoolOffers, CasPoolOffers, DeletePoolOffers DEF Operator
<1>4. ASSUME NEW r \in Req, ReleaseClaim(r) PROVE OffersInv'
  <2>1. UNCHANGED <<classes, pools, raced, stale, pc, req>> /\ moved \subseteq moved'
    BY <1>4 DEF ReleaseClaim, Touch, catalog
  <2> QED BY <2>1, ElsewhereOffers
<1>5. ASSUME NEW r \in Req, Claimant(r) PROVE OffersInv'
  BY Zenon, <1>4, <1>5, ClaimantOffers, EnsureOffers DEF Claimant
<1>6. ASSUME NEW p, NEW k, Grant(p, k) PROVE OffersInv'
  BY <1>6, ElsewhereOffers DEF Grant, catalog
<1>7. ASSUME NEW g, Revoke(g) PROVE OffersInv'
  BY <1>7, ElsewhereOffers DEF Revoke, catalog
<1>8. CASE UNCHANGED vars
  BY <1>8, ElsewhereOffers DEF vars, catalog
<1> QED BY <1>3, <1>5, <1>6, <1>7, <1>8 DEF Next

\* The two inductive invariants of the catalog.
THEOREM CatalogInvAlways == Spec => [](UseInv /\ OffersInv)
<1>1. UseInv /\ OffersInv /\ [Next]_vars => (UseInv /\ OffersInv)'
  BY UseStep, OffersStep
<1> QED BY <1>1, UseInit, OffersInit, PTL DEF Spec

\* Whatever was granted, revoked, written and deleted, and at whatever moment of a
\* claim's way through the catalog, a claim that allocates under another project's
\* class does so through a reference that the class's project once allowed
\* (authorizeSource, resolveClassIn).
THEOREM ClassUseIsAuthorised == Spec => []ClassUseAuthorised
<1>1. UseInv => ClassUseAuthorised
  BY DEF UseInv
<1> QED BY <1>1, CatalogInvAlways, PTL

\* For any number of writers, projects, classes and pools: the classes that draw
\* from one pool disagree on what one address space is only after a write was
\* admitted by a check that another write of its project had overtaken
\* (validateClassOffers, validateOfferAgreement and the update of a pool under its
\* version).
THEOREM OffersStayAgreed == Spec => []OffersAgree
<1>1. OffersInv => OffersAgree
  BY DEF OffersInv, PoolsAgree, OffersAgree
<1> QED BY <1>1, CatalogInvAlways, PTL

\* Root pools of one project cover different addresses unless such a write was
\* admitted; that an update writes only the version it read is what keeps a root
\* pool's range as it was checked (validateNoRootOverlap, ValidatePoolUpdate).
THEOREM RootRangesStayApart == Spec => []RootRangesApart
<1>1. OffersInv => RootRangesApart
  BY DEF OffersInv, RootsApart, RootRangesApart
<1> QED BY <1>1, CatalogInvAlways, PTL
=============================================================================
