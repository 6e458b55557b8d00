---------------------------- MODULE ClassCatalog ----------------------------
(***************************************************************************)
(* The catalog of classes and pools and the way a claim goes through it    *)
(* (internal/registry/ipam/ipclass and ippool, internal/allocator/class.go,*)
(* agreement.go, discover.go and the planning half of cascade.go).         *)
(*                                                                         *)
(* Operators write IPClass and IPPool objects.  The rules that relate two  *)
(* objects (a pool serves only classes that agree on what one address space*)
(* is, two root pools of a project do not overlap, a reference into another*)
(* project is authorised) are read in one transaction and the object is    *)
(* written in another, so writers interleave between the two.  A claim     *)
(* resolves its class, plans the pools of the class's parent chain, finds  *)
(* the operator's pool that backs the chain and ensures each level, every  *)
(* one in a transaction of its own.                                        *)
(*                                                                         *)
(* Addresses within a pool are PoolAllocator's subject and the steps inside*)
(* ensureLevel and the claim's own life ClaimLifecycle's: here a carve or  *)
(* an allocation succeeds or is refused.                                   *)
(***************************************************************************)
EXTENDS Integers, FiniteSets, Sequences, Functions, ScopeDigest

CONSTANTS
  Project,
  NameOrder,     \* class names in key order
  PoolOrder,     \* keys of operator-authored pools in key order
  Req,           \* requests being served at one time
  Worlds,        \* where a behaviour starts and what is asked in it
  MaxClassChainDepth,
  MaxLength,     \* longest prefix of a family
  None

\* A world has the classes, pools and grants there are to begin with, the
\* documents operators send (classWrites and poolWrites: [key, spec]), the
\* claims (asks), the operations in use and maxWrites, the bound on the
\* operators' writes.
VARIABLES
  world,
  classes,   \* IPClass objects by <<project, name>>
  pools,     \* IPPool objects by <<project, name>>: the spec, the family in
             \* effect and the pool the range was carved from
  identity,  \* ipam_pool_identity: <<class name, digest>> to pool key
  claims,    \* bound claims: the ask to what it was bound to
  grants,    \* <<project, class key>>: who may use which class now
  pc, req,
  moved,     \* requests whose pool has a newer version than the one they read
  stale,     \* requests that checked the catalog before its last write
  raced,     \* such a request has written since
  granted,   \* every grant there has been
  dropped,   \* a class has been deleted
  writes

catalog == <<classes, pools, identity>>
vars == <<world, catalog, claims, grants, pc, req, moved, stale, raced, granted, dropped, writes>>

ClassName == Range(NameOrder)
ClassKey == Project \X ClassName
Family == {"IPv4", "IPv6"}

Last(s) == s[Len(s)]

-----------------------------------------------------------------------------
(***************************************************************************)
(* The documents.  A class that has a source is a reference and states     *)
(* nothing else; the others are definitions.  lo, hi and size are the      *)
(* allowed prefix lengths and the default one, 0 when not set.             *)
(***************************************************************************)
IPClassSpec ==
  [source : ClassKey \cup {None}, family : Family \cup {None}, parent : ClassName \cup {None},
   uniqueWithin : Seq(Role \cup {"project"}), poolPer : Seq(Role \cup {"project"}),
   lo : Nat, hi : Nat, size : Nat, strategy : {"FirstFit", "LeastUtilized"}, default : BOOLEAN]

\* range is the set of addresses of spec.cidr, empty when it is not set.  The
\* name of a pool is the sequence of the fields it is put together from.
IPPoolSpec ==
  [range : SUBSET Nat, family : Family \cup {None}, parent : Seq(STRING) \cup {None},
   length : Nat, classNames : SUBSET ClassName, scope : Scope]

\* A reference says which class it points at and nothing else.
validateReference(c) ==
  /\ c.family = None /\ c.parent = None /\ c.poolPer = <<>> /\ c.uniqueWithin = <<>>
  /\ c.lo = 0 /\ c.hi = 0 /\ c.size = 0

validateDefinition(name, c) ==
  /\ c.family \in Family
  /\ c.parent # name
  /\ c.hi # 0 => c.lo <= c.hi /\ (c.size # 0 => c.size \in c.lo .. c.hi)
  /\ "project" \notin Range(c.uniqueWithin)

validateIPClass(name, c) ==
  IF c.source # None THEN validateReference(c) ELSE validateDefinition(name, c)

\* Faulty variant: uniqueWithin may be edited.
ValidateClassUpdate_Space(name, n, o) ==
  /\ validateIPClass(name, n)
  /\ n.source = o.source /\ n.family = o.family /\ n.parent = o.parent
  /\ n.poolPer = o.poolPer

\* What an existing allocation was derived from cannot be edited.
ValidateClassUpdate(name, n, o) ==
  /\ validateIPClass(name, n)
  /\ n.source = o.source /\ n.family = o.family /\ n.parent = o.parent
  /\ n.uniqueWithin = o.uniqueWithin /\ n.poolPer = o.poolPer

validateIPPool(p) ==
  IF p.parent # None
  THEN p.range = {} /\ p.family = None /\ p.length # 0
  ELSE p.range # {} /\ p.family \in Family /\ p.length = 0

ValidatePoolUpdate(n, o) ==
  /\ validateIPPool(n)
  /\ n.range = o.range /\ n.family = o.family /\ n.parent = o.parent /\ n.length = o.length

\* A claim names a class or a family, and for a role of its own an object.  The
\* claims here are for blocks and state no address scope, so they are never
\* held to their class's.
IPClaimSpec ==
  [project : Project, class : ClassName \cup {None}, family : Family \cup {None},
   scope : UNION { [rs -> Ref] : rs \in SUBSET (Role \cup {ReservedRoleProject}) },
   length : Nat, dry : BOOLEAN]

\* The consuming project is taken from the request, never from the claim.
validateIPClaim(a) ==
  /\ a.class # None \/ a.family # None
  /\ ReservedRoleProject \notin DOMAIN a.scope

-----------------------------------------------------------------------------
(***************************************************************************)
(* The worlds.  Documents have the type the API decodes them to, and the   *)
(* objects there are to begin with are such as the checks below admit.     *)
(***************************************************************************)
WorldTyped(w) ==
  /\ DOMAIN w.classes \subseteq ClassKey
  /\ \A k \in DOMAIN w.classes : w.classes[k] \in IPClassSpec
  /\ \A k \in DOMAIN w.pools :
       w.pools[k] \in [spec : IPPoolSpec, family : Family, from : {None} \cup (Project \X Seq(STRING))]
  /\ \A d \in w.classWrites : d # None /\ d.key \in ClassKey /\ d.spec \in IPClassSpec
  /\ \A d \in w.poolWrites : d # None /\ d.key \in Project \X Seq(STRING) /\ d.spec \in IPPoolSpec
  /\ w.asks \subseteq IPClaimSpec /\ w.grants \subseteq Project \X ClassKey

WorldAdmitted(w) ==
  LET root(p, n) == /\ <<p, n>> \in DOMAIN w.classes
                    /\ w.classes[<<p, n>>].source = None /\ w.classes[<<p, n>>].parent = None
      space(p, n) == RoleSetKey(w.classes[<<p, n>>].uniqueWithin)
  IN /\ \A k \in DOMAIN w.pools : \A a, b \in w.pools[k].spec.classNames :
          root(k[1], a) /\ root(k[1], b) => space(k[1], a) = space(k[1], b)
     /\ \A k, q \in { x \in DOMAIN w.pools : w.pools[x].spec.parent = None } :
          k # q /\ k[1] = q[1] => w.pools[k].spec.range \cap w.pools[q].spec.range = {}
     /\ \A k \in DOMAIN w.classes :
          LET source == w.classes[k].source IN
          source # None /\ source[1] # k[1] => <<k[1], source>> \in w.grants

\* Class names are finitely many, and every world is such a one.
ASSUME CatalogAssumption ==
  /\ IsFiniteSet(ClassName)
  /\ \A w \in Worlds : WorldTyped(w) /\ WorldAdmitted(w)

-----------------------------------------------------------------------------
(***************************************************************************)
(* Resolving a class.  A resolved class is the definition as it was read,  *)
(* the key it was read under and the name the caller looked up.            *)
(***************************************************************************)
Failed(why) == [err |-> why, key |-> None, local |-> None, spec |-> None]
Resolved(k, name) == [err |-> "", key |-> k, local |-> name, spec |-> classes[k]]

resolveClassIn(project, name) ==
  LET k == <<project, name>> IN
  IF k \notin DOMAIN classes THEN Failed("ClassNotFound")
  ELSE IF classes[k].source = None THEN Resolved(k, name)
  ELSE IF classes[k].source \notin DOMAIN classes THEN Failed("ClassNotFound")
  ELSE IF classes[classes[k].source].source # None THEN Failed("ChainedReference")
  ELSE Resolved(classes[k].source, name)

\* The default classes of the project in key order; the first that does not
\* resolve, or is of the family, decides.
LoadDefaultClass(project, family) ==
  LET marked(n) == <<project, n>> \in DOMAIN classes /\ classes[<<project, n>>].default
      decides(n) == LET c == resolveClassIn(project, n) IN c.err # "" \/ c.spec.family = family
      found == SelectSeq(NameOrder, LAMBDA n : marked(n) /\ decides(n))
  IN IF found = <<>> THEN Failed("NoDefaultClass") ELSE resolveClassIn(project, Head(found))

ResolveClass(project, name, family) ==
  IF name # None THEN resolveClassIn(project, name)
  ELSE IF family = None THEN Failed("NoDefaultClass")
  ELSE LoadDefaultClass(project, family)

\* Faulty variant: every parent is looked up in the leaf's project.
AncestryTurn_LeafProject(w) ==
  LET current == Last(w.chain)
      parent == resolveClassIn(Head(w.chain).key[1], current.spec.parent)
      stop(err) == [w EXCEPT !.done = TRUE, !.err = err]
  IN CASE w.done -> w
       [] ~w.done /\ current.spec.parent = None -> stop("")
       [] OTHER -> IF parent.err # "" THEN stop(parent.err)
                   ELSE IF \E c \in Range(w.chain) : c.key = parent.key THEN stop("ChainTooDeep")
                   ELSE IF parent.spec.family # Head(w.chain).spec.family THEN stop("FamilyMismatch")
                   ELSE [w EXCEPT !.chain = Append(@, parent)]

\* One turn of LoadAncestry's loop.  w.chain starts with the leaf; it grows by
\* the parent of its last class, which that class names relative to the project
\* that holds its definition.
AncestryTurn(w) ==
  LET current == Last(w.chain)
      parent == resolveClassIn(current.key[1], current.spec.parent)
      stop(err) == [w EXCEPT !.done = TRUE, !.err = err]
  IN CASE w.done -> w
       [] ~w.done /\ current.spec.parent = None -> stop("")
       [] OTHER -> IF parent.err # "" THEN stop(parent.err)
                   ELSE IF \E c \in Range(w.chain) : c.key = parent.key THEN stop("ChainTooDeep")
                   ELSE IF parent.spec.family # Head(w.chain).spec.family THEN stop("FamilyMismatch")
                   ELSE [w EXCEPT !.chain = Append(@, parent)]

\* The ancestors of a class, nearest first, without the class itself.
LoadAncestry(leaf) ==
  LET turn[i \in 0 .. MaxClassChainDepth + 1] ==
        IF i = 0 THEN [chain |-> <<leaf>>, done |-> FALSE, err |-> ""]
        ELSE AncestryTurn(turn[i - 1])
      last == turn[MaxClassChainDepth + 1]
  IN [err |-> IF last.done THEN last.err ELSE "ChainTooDeep", chain |-> Tail(last.chain)]

\* The size a block gets, 0 when it is refused.
EffectivePrefixLength(c, requested) ==
  LET length == IF requested # 0 THEN requested
                ELSE IF c.size # 0 THEN c.size
                ELSE IF c.lo = c.hi THEN c.lo ELSE 0
  IN IF (c.hi # 0 => length \in c.lo .. c.hi) /\ length <= MaxLength[c.family]
     THEN length ELSE 0

-----------------------------------------------------------------------------
(***************************************************************************)
(* Which classes a pool serves, and which pool serves a class.             *)
(***************************************************************************)
\* Only a definition of the pool's project that has no parent draws from the
\* pools that name it; every other name in the list is inert.
OfferedSpaces(project, names) ==
  { n \in names : /\ <<project, n>> \in DOMAIN classes
                  /\ classes[<<project, n>>].source = None
                  /\ classes[<<project, n>>].parent = None }

SpaceKey(project, n) == RoleSetKey(classes[<<project, n>>].uniqueWithin)

NoDisagreement(project, names) ==
  \A a, b \in OfferedSpaces(project, names) : SpaceKey(project, a) = SpaceKey(project, b)

PoolsOffering(project, name) ==
  { k \in DOMAIN pools : k[1] = project /\ name \in pools[k].spec.classNames }

ClassJoinsDisagreement(project, name, c) ==
  \E k \in PoolsOffering(project, name) :
    \E n \in OfferedSpaces(project, pools[k].spec.classNames) :
      SpaceKey(project, n) # RoleSetKey(c.uniqueWithin)


offeringPools(root) ==
  { k \in PoolsOffering(root.key[1], root.key[2]) : pools[k].family = root.spec.family }

poolServesScope(p, claimScope) ==
  \A role \in DOMAIN p.spec.scope :
    role \in DOMAIN claimScope /\ claimScope[role] = p.spec.scope[role]

\* The pools discovery may answer with.  The percentages LeastUtilized compares
\* follow from the addresses held, so there any candidate may be the one.
DiscoverPool(root, claimScope) ==
  LET candidates == { k \in offeringPools(root) : poolServesScope(pools[k], claimScope) }
      found == SelectSeq(PoolOrder, LAMBDA k : k \in candidates)
  IN IF root.spec.strategy = "LeastUtilized" THEN candidates
     ELSE IF found = <<>> THEN {} ELSE {Head(found)}

\* The pools a claim needs, root-most first.
CascadeLevel(class, consumer, claimScope) ==
  LET per == PoolPerRoles(class.spec.poolPer)
      tenancy == PoolTenancy(class.key[1], IF per.perConsumer THEN consumer ELSE NoConsumer)
      projected == ProjectFor(claimScope, per.roles)
      digest == PoolDigest(tenancy, projected)
  IN [class |-> class, tenancy |-> tenancy, scope |-> projected, digest |-> digest,
      key |-> <<class.key[1], <<class.key[2]>> \o digest>>]

planLevels(chain, consumer, claimScope) ==
  [i \in DOMAIN chain |-> CascadeLevel(chain[Len(chain) + 1 - i], consumer, claimScope)]

-----------------------------------------------------------------------------
(***************************************************************************)
(* Steps.                                                                  *)
(***************************************************************************)
NoRequest == [doc |-> None, ask |-> None, class |-> None, digest |-> None,
              levels |-> <<>>, source |-> None, nearest |-> None, root |-> None]

Init ==
  /\ world \in Worlds
  /\ classes = world.classes /\ pools = world.pools /\ grants = world.grants
  /\ granted = grants /\ identity = <<>> /\ claims = <<>>
  /\ pc = [r \in Req |-> "idle"] /\ req = [r \in Req |-> NoRequest]
  /\ moved = {} /\ stale = {} /\ raced = FALSE /\ dropped = FALSE /\ writes = 0

Goto(r, state) == pc' = [pc EXCEPT ![r] = state]
Finish(r) == Goto(r, "idle") /\ req' = [req EXCEPT ![r] = NoRequest]

Put(f, k, v) == [x \in DOMAIN f \cup {k} |-> IF x = k THEN v ELSE f[x]]
Drop(f, k) == Restrict(f, DOMAIN f \ {k})

\* The pools in K get a new version.
Touch(K) == moved' = moved \cup { q \in Req : pc[q] = "casPool" /\ req[q].doc.key \in K }

OnlyRequests ==
  UNCHANGED <<world, catalog, claims, grants, moved, stale, raced, granted, dropped, writes>>

\* r has checked the catalog as it is now, or ends.
Fresh(r) ==
  /\ moved' = moved \ {r} /\ stale' = stale \ {r}
  /\ UNCHANGED <<world, catalog, claims, grants, raced, granted, dropped, writes>>

Refuse(r) == Finish(r) /\ Fresh(r)

\* r writes an object of the project: the checks others made there are old.
Writes(r, project) ==
  /\ writes' = writes + 1
  /\ stale' = (stale \ {r}) \cup { q \in Req \ {r} : req[q].doc # None /\ req[q].doc.key[1] = project }
  /\ raced' = (raced \/ r \in stale)
  /\ UNCHANGED <<world, claims, grants, granted>>

\* Faulty variant: the permission is not asked for.
authorizeSource_Open(project, c) == TRUE

\* The project of class k is asked whether it lets the caller in.
CanUseClass(project, k) == <<project, k>> \in grants

\* A reference into another project needs the use permission on the class.
authorizeSource(project, c) ==
  \/ c.source \in {None} \cup ({project} \X ClassName)
  \/ CanUseClass(project, c.source)

validateOfferAgreement(key, c) ==
  \/ c.source # None \/ c.parent # None
  \/ ~ClassJoinsDisagreement(key[1], key[2], c)

\* IPClassStorage.Create up to the generic store.
CreateClass(r) ==
  /\ pc[r] = "idle" /\ "Class" \in world.ops /\ writes < world.maxWrites
  /\ \E d \in world.classWrites :
       /\ authorizeSource(d.key[1], d.spec)
       /\ validateOfferAgreement(d.key, d.spec)
       /\ req' = [req EXCEPT ![r].doc = d]
  /\ Goto(r, "insertClass")
  /\ Fresh(r)

InsertClass(r) ==
  LET d == req[r].doc IN
  /\ pc[r] = "insertClass"
  /\ IF validateIPClass(d.key[2], d.spec) /\ d.key \notin DOMAIN classes
     THEN /\ classes' = Put(classes, d.key, d.spec)
          /\ Finish(r) /\ Writes(r, d.key[1]) /\ UNCHANGED <<pools, identity, moved, dropped>>
     ELSE Refuse(r)

\* The generic store's update: validated and written against one version.
UpdateClass(r) ==
  /\ pc[r] = "idle" /\ "ClassUpdate" \in world.ops /\ writes < world.maxWrites
  /\ \E d \in world.classWrites :
       /\ d.key \in DOMAIN classes /\ d.spec # classes[d.key]
       /\ ValidateClassUpdate(d.key[2], d.spec, classes[d.key])
       /\ classes' = [classes EXCEPT ![d.key] = d.spec]
       /\ Writes(r, d.key[1])
  /\ UNCHANGED <<pools, identity, pc, req, moved, dropped>>

\* Nothing asks who still uses the class.
DeleteClass(r) ==
  /\ pc[r] = "idle" /\ "ClassDelete" \in world.ops /\ writes < world.maxWrites
  /\ \E k \in DOMAIN classes : classes' = Drop(classes, k) /\ Writes(r, k[1])
  /\ dropped' = TRUE
  /\ UNCHANGED <<pools, identity, pc, req, moved>>

validateClassOffers(project, p) ==
  Cardinality(p.classNames) < 2 \/ NoDisagreement(project, p.classNames)

\* AllocatingIPPoolREST.Create: the offers first, then for a root pool the
\* ranges of the project's other root pools, for a child its parent.
CreatePool(r) ==
  /\ pc[r] = "idle" /\ "Pool" \in world.ops /\ writes < world.maxWrites
  /\ \E d \in world.poolWrites :
       /\ validateClassOffers(d.key[1], d.spec)
       /\ req' = [req EXCEPT ![r].doc = d]
       /\ Goto(r, IF d.spec.parent = None THEN "overlap" ELSE "parent")
  /\ Fresh(r)

RootPools(project) ==
  { k \in DOMAIN pools : k[1] = project /\ pools[k].spec.parent = None /\ pools[k].spec.range # {} }

\* Faulty variant: only a pool with the very same range is an overlap.
validateNoRootOverlap_Same(k, p) ==
  \A q \in RootPools(k[1]) \ {k} : pools[q].spec.range # p.range

validateNoRootOverlap(k, p) ==
  \A q \in RootPools(k[1]) \ {k} : pools[q].spec.range \cap p.range = {}

CheckOverlap(r) ==
  LET d == req[r].doc IN
  /\ pc[r] = "overlap"
  /\ IF validateNoRootOverlap(d.key, d.spec)
     THEN Goto(r, "insertPool") /\ UNCHANGED req /\ OnlyRequests
     ELSE Refuse(r)

\* Store.Create runs the strategy's validation and inserts.
InsertPool(r) ==
  LET d == req[r].doc IN
  /\ pc[r] = "insertPool"
  /\ IF validateIPPool(d.spec) /\ d.key \notin DOMAIN pools
     THEN /\ pools' = Put(pools, d.key, [spec |-> d.spec, family |-> d.spec.family, from |-> None])
          /\ Finish(r) /\ Writes(r, d.key[1])
          /\ UNCHANGED <<classes, identity, moved, dropped>>
     ELSE Refuse(r)

ParentKey(d) == <<d.key[1], d.spec.parent>>

\* The parent is read for its family before the transaction.
ReadParent(r) ==
  LET d == req[r].doc IN
  /\ pc[r] = "parent"
  /\ IF validateIPPool(d.spec) /\ ParentKey(d) \in DOMAIN pools
     THEN Goto(r, "carvePool") /\ UNCHANGED req /\ OnlyRequests
     ELSE Refuse(r)

CarvePool(r) ==
  LET d == req[r].doc IN
  /\ pc[r] = "carvePool"
  /\ \/ /\ ParentKey(d) \in DOMAIN pools /\ d.key \notin DOMAIN pools
        /\ pools' = Put(pools, d.key, [spec |-> d.spec, family |-> pools[ParentKey(d)].family,
                                       from |-> ParentKey(d)])
        /\ Touch({ParentKey(d)}) /\ Finish(r) /\ Writes(r, d.key[1])
        /\ UNCHANGED <<classes, identity, dropped>>
     \/ Refuse(r)

\* AllocatingIPPoolREST.Update inside the generic store's loop: the pool is
\* read, the new document validated, the offers checked in a transaction of
\* their own, and the row written if it still has the version read.
UpdateAdmitted(d) ==
  /\ d.key \in DOMAIN pools
  /\ ValidatePoolUpdate(d.spec, pools[d.key].spec)
  /\ validateClassOffers(d.key[1], d.spec)

ReadForUpdate(r, d) ==
  /\ UpdateAdmitted(d)
  /\ req' = [req EXCEPT ![r].doc = d]
  /\ Goto(r, "casPool")
  /\ Fresh(r)

UpdatePool(r) ==
  /\ pc[r] = "idle" /\ "PoolUpdate" \in world.ops /\ writes < world.maxWrites
  /\ \E d \in world.poolWrites : ReadForUpdate(r, d) /\ d.spec # pools[d.key].spec

CasPool(r) ==
  LET d == req[r].doc
      current == d.key \in DOMAIN pools /\ r \notin moved
  IN
  /\ pc[r] = "casPool"
  /\ \/ /\ current
        /\ pools' = [pools EXCEPT ![d.key].spec = d.spec]
        /\ moved' = (moved \cup { q \in Req : pc[q] = "casPool" /\ req[q].doc.key = d.key }) \ {r}
        /\ Finish(r) /\ Writes(r, d.key[1]) /\ UNCHANGED <<classes, identity, dropped>>
     \/ ~current /\ ReadForUpdate(r, d)
     \/ ~current /\ ~UpdateAdmitted(d) /\ Refuse(r)

Held(k) ==
  \/ \E a \in DOMAIN claims : claims[a].pool = k
  \/ \E q \in DOMAIN pools : pools[q].from = k

\* Faulty variant: the identity row outlives its pool.
DeletePool_KeepIdentity(r) ==
  /\ pc[r] = "idle" /\ "PoolDelete" \in world.ops /\ writes < world.maxWrites
  /\ \E k \in DOMAIN pools :
       /\ ~Held(k)
       /\ pools' = Drop(pools, k)
       /\ Touch({k} \cup ({pools[k].from} \ {None}))
       /\ Writes(r, k[1])
  /\ UNCHANGED <<classes, identity, pc, req, dropped>>

\* Counting what is held and deleting are one step here: the foreign key of the
\* allocation table refuses a delete that a claim slipped in front of.  The
\* identity row goes with its pool.
DeletePool(r) ==
  /\ pc[r] = "idle" /\ "PoolDelete" \in world.ops /\ writes < world.maxWrites
  /\ \E k \in DOMAIN pools :
       /\ ~Held(k)
       /\ pools' = Drop(pools, k)
       /\ Touch({k} \cup ({pools[k].from} \ {None}))
       /\ identity' = Restrict(identity, { i \in DOMAIN identity : identity[i] # k })
       /\ Writes(r, k[1])
  /\ UNCHANGED <<classes, pc, req, dropped>>

\* Who may use which class is decided outside (IAM).
Grant(p, k) ==
  /\ "Grant" \in world.ops /\ writes < world.maxWrites /\ k[1] # p /\ <<p, k>> \notin grants
  /\ grants' = grants \cup {<<p, k>>} /\ granted' = granted \cup {<<p, k>>}
  /\ writes' = writes + 1
  /\ UNCHANGED <<world, catalog, claims, pc, req, moved, stale, raced, dropped>>

Revoke(g) ==
  /\ grants' = grants \ {g}
  /\ UNCHANGED <<world, catalog, claims, pc, req, moved, stale, raced, granted, dropped, writes>>

-----------------------------------------------------------------------------
(***************************************************************************)
(* A claim: AllocatingREST.Create for a Block target.                      *)
(***************************************************************************)
\* The class is resolved, the request held to it, and the digest of the address
\* space taken, before anything is provisioned.
ResolveClaim(r) ==
  /\ pc[r] = "idle" /\ "Claim" \in world.ops
  /\ \E a \in world.asks :
       /\ validateIPClaim(a)
       /\ LET c == ResolveClass(a.project, a.class, a.family)
              space == ProjectFor(a.scope, WithoutReservedRoles(c.spec.uniqueWithin))
          IN /\ c.err = ""
             /\ a.family \in {None, c.spec.family}
             /\ EffectivePrefixLength(c.spec, a.length) # 0
             /\ MissingRoles(a.scope, WithoutReservedRoles(c.spec.uniqueWithin)) = {}
             /\ req' = [req EXCEPT ![r].ask = a, ![r].class = c,
                                   ![r].digest = AddressSpaceDigest(a.project, space)]
  /\ Goto(r, "plan")
  /\ OnlyRequests

PlanCascade(r) ==
  LET q == req[r]
      up == LoadAncestry(q.class)
      short == \E c \in Range(up.chain) :
                 MissingRoles(q.ask.scope, PoolPerRoles(c.spec.poolPer).roles) # {}
      levels == planLevels(up.chain, q.ask.project, q.ask.scope)
  IN
  /\ pc[r] = "plan"
  /\ IF up.err # "" \/ short THEN Finish(r)
     ELSE /\ req' = [req EXCEPT ![r].levels = levels,
                                ![r].nearest = IF levels = <<>> THEN None ELSE Last(levels),
                                ![r].root = Last(<<q.class>> \o up.chain).key]
          /\ Goto(r, "discover")
  /\ OnlyRequests

\* Discovery walks up again from the root-most level, or from the claim's class
\* when there is none.
DiscoverInTx(r) ==
  LET q == req[r]
      from == IF q.levels = <<>> THEN q.class ELSE Head(q.levels).class
      up == LoadAncestry(from)
      root == Last(<<from>> \o up.chain)
  IN
  /\ pc[r] = "discover"
  /\ IF up.err # "" \/ DiscoverPool(root, q.ask.scope) = {} THEN Finish(r)
     ELSE \E k \in DiscoverPool(root, q.ask.scope) :
            /\ req' = [req EXCEPT ![r].source = k]
            /\ Goto(r, IF q.levels = <<>> THEN "bind" ELSE "ensure")
  /\ OnlyRequests

\* The level the claim has arrived at is done with pool k.
LevelDone(r, k) ==
  /\ req' = [req EXCEPT ![r].levels = Tail(@), ![r].source = k]
  /\ Goto(r, IF Len(req[r].levels) = 1 THEN "bind" ELSE "ensure")

IdentityKey(level) == <<level.class.key[2], level.digest>>

newProvisionedPool(level, sourceKey) ==
  [spec |-> [range |-> {}, family |-> level.class.spec.family, parent |-> sourceKey[2],
             length |-> EffectivePrefixLength(level.class.spec, 0),
             classNames |-> {}, scope |-> level.scope],
   family |-> level.class.spec.family, from |-> sourceKey]

\* The pool there is for the level, or a new one carved from the source.  The
\* transaction fails when the source is full or gone.  A dry run goes the same
\* way.
EnsureLevel(r) ==
  LET level == Head(req[r].levels)
      source == req[r].source
      id == IdentityKey(level)
  IN
  /\ pc[r] = "ensure"
  /\ \/ /\ id \in DOMAIN identity
        /\ LevelDone(r, identity[id]) /\ OnlyRequests
     \/ /\ id \notin DOMAIN identity
        /\ source \in DOMAIN pools /\ level.key \notin DOMAIN pools
        /\ EffectivePrefixLength(level.class.spec, 0) # 0
        /\ identity' = Put(identity, id, level.key)
        /\ pools' = Put(pools, level.key, newProvisionedPool(level, source))
        /\ Touch({source})
        /\ LevelDone(r, level.key)
        /\ UNCHANGED <<world, classes, claims, grants, stale, raced, granted, dropped, writes>>
     \/ id \notin DOMAIN identity /\ Finish(r) /\ OnlyRequests

\* What the claim and its allocation record, and the plan it came from.
Bound(q) ==
  [class |-> q.class.key, local |-> q.class.local, family |-> q.class.spec.family,
   pool |-> q.source, digest |-> q.digest, nearest |-> q.nearest, root |-> q.root,
   uniqueWithin |-> q.class.spec.uniqueWithin]

Bind(r) ==
  LET q == req[r] IN
  /\ pc[r] = "bind"
  /\ \/ /\ q.source \in DOMAIN pools /\ q.ask \notin DOMAIN claims /\ ~q.ask.dry
        /\ claims' = Put(claims, q.ask, Bound(q))
        /\ Touch({q.source})
        /\ UNCHANGED <<world, catalog, grants, stale, raced, granted, dropped, writes>>
     \/ OnlyRequests
  /\ Finish(r)

ReleaseClaim(r) ==
  /\ pc[r] = "idle" /\ "Release" \in world.ops /\ writes < world.maxWrites
  /\ \E a \in DOMAIN claims :
       /\ claims' = Drop(claims, a)
       /\ Touch({claims[a].pool})
  /\ writes' = writes + 1
  /\ UNCHANGED <<world, catalog, grants, pc, req, stale, raced, granted, dropped>>

-----------------------------------------------------------------------------
Operator(r) ==
  \/ CreateClass(r) \/ InsertClass(r) \/ UpdateClass(r) \/ DeleteClass(r)
  \/ CreatePool(r) \/ CheckOverlap(r) \/ InsertPool(r) \/ ReadParent(r) \/ CarvePool(r)
  \/ UpdatePool(r) \/ CasPool(r) \/ DeletePool(r)

Claimant(r) ==
  \/ ResolveClaim(r) \/ PlanCascade(r) \/ DiscoverInTx(r) \/ EnsureLevel(r) \/ Bind(r)
  \/ ReleaseClaim(r)

Next ==
  \/ \E r \in Req : Operator(r) \/ Claimant(r)
  \/ \E p \in Project, k \in DOMAIN classes : Grant(p, k)
  \/ \E g \in grants : Revoke(g)

Spec == Init /\ [][Next]_vars

-----------------------------------------------------------------------------
(***************************************************************************)
(* Properties.                                                             *)
(***************************************************************************)
TypeOK ==
  /\ DOMAIN classes \subseteq ClassKey
  /\ \A k \in DOMAIN classes : classes[k] \in IPClassSpec
  /\ \A k \in DOMAIN pools : pools[k].family \in Family /\ pools[k].spec.scope \in Scope
  /\ \A i \in DOMAIN identity : identity[i] \in DOMAIN pools
  /\ \A a \in DOMAIN claims : a \in IPClaimSpec /\ a.scope \in Scope
  /\ grants \subseteq granted /\ granted \subseteq Project \X ClassKey
  /\ moved \subseteq Req /\ stale \subseteq Req /\ raced \in BOOLEAN /\ dropped \in BOOLEAN

\* The classes that draw from one pool agree on what one address space is,
\* whichever of the pool and the classes was written last and whatever was
\* updated, deleted or created again in between (validateClassOffers,
\* validateOfferAgreement).  Only a write admitted by a check that another
\* write of the project has overtaken can break it.
OffersAgree ==
  raced \/ \A k \in DOMAIN pools : NoDisagreement(k[1], pools[k].spec.classNames)

\* Root pools of one project cover different addresses (validateNoRootOverlap),
\* with the same exception.
RootRangesApart ==
  raced \/ \A p \in Project : \A k, q \in RootPools(p) :
             k = q \/ pools[k].spec.range \cap pools[q].spec.range = {}

\* The parent chains that can be followed from definition k to a class without
\* a parent, within the family and within the depth.
Chains(k) ==
  LET defs == { x \in DOMAIN classes : classes[x].source = None }
      up(x, y) == classes[x].parent # None /\ resolveClassIn(x[1], classes[x].parent).key = y
  IN { p \in UNION { [1 .. n -> defs] : n \in 0 .. MaxClassChainDepth } :
         LET path == <<k>> \o p IN
         /\ \A i \in DOMAIN p : up(path[i], path[i + 1]) /\ classes[p[i]].family = classes[k].family
         /\ classes[Last(path)].parent = None }

\* LoadAncestry answers with the ancestors there are, nearest first, and fails
\* exactly when the parents do not lead to a class without one within the depth
\* and the family: a missing parent, a reference to a reference, a cycle made by
\* classes written in any order.
AncestryAgrees ==
  \A k \in { x \in DOMAIN classes : classes[x].source = None } :
    LET up == LoadAncestry(Resolved(k, k[2]))
        keys == [i \in DOMAIN up.chain |-> up.chain[i].key]
    IN Chains(k) = IF up.err = "" THEN {keys} ELSE {}

\* Two bound claims share a provisioned pool exactly when the nearest parent
\* class says so: the same definition, the same objects for its poolPer roles,
\* and the same consuming project when poolPer names it.  They share an address
\* space exactly when they project to the same objects, within one tenant as
\* soon as there is one (planLevels, PoolDigest, AddressSpaceDigest).
SharedAsDeclared ==
  \A a, b \in DOMAIN claims :
    LET c == claims[a]
        d == claims[b]
        axes(x) == PoolPerRoles(claims[x].nearest.class.spec.poolPer)
        space(x) == ProjectFor(x.scope, RoleSetKey(claims[x].uniqueWithin))
    IN /\ c.nearest # None /\ d.nearest # None =>
            (c.pool = d.pool <=>
               /\ c.nearest.class.key = d.nearest.class.key /\ axes(a) = axes(b)
               /\ ProjectFor(a.scope, axes(a).roles) = ProjectFor(b.scope, axes(b).roles)
               /\ axes(a).perConsumer => a.project = b.project)
       /\ c.digest = d.digest <=>
            space(a) = space(b) /\ (space(a) = <<>> \/ a.project = b.project)

\* The pools below which a pool was carved, itself included, up to the
\* operator's root pool.
Backing(k) ==
  LET up[i \in 0 .. Cardinality(DOMAIN pools)] ==
        IF i = 0 THEN {k} ELSE { pools[x].from : x \in up[i - 1] } \ {None}
  IN UNION { up[i] : i \in 0 .. Cardinality(DOMAIN pools) }


\* A claim that allocates under another project's class does so through a
\* reference that the class's project once allowed (authorizeSource).
ClassUseAuthorised ==
  \A a \in DOMAIN claims :
    claims[a].class[1] = a.project \/ <<a.project, claims[a].class>> \in granted
=============================================================================
