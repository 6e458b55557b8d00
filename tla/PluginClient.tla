---------------------------- MODULE PluginClient ----------------------------
(***************************************************************************)
(* The datumctl plugin (cmd/milo-ipam): what one invocation does between   *)
(* its flags and its exit code, against a server other invocations use at  *)
(* the same time over a network that loses requests and answers.           *)
(*                                                                         *)
(* An invocation passes the service-entitlement preflight, then makes its  *)
(* API calls one at a time: what it read in one call may have changed by   *)
(* the next, and a person may think for as long as they like between the   *)
(* listing a confirmation shows and the deletes it confirms.               *)
(*                                                                         *)
(* The server is the one the other modules describe, seen from outside:    *)
(* each request runs to its end in one step, except that a claim create    *)
(* first passes the namespace check of NamespaceGate.  A class draws from  *)
(* the pool an operator offers it or, if it has a parent, from the pool    *)
(* provisioned there for the parent; a claim's scope is its address space. *)
(***************************************************************************)
EXTENDS Integers, Sequences, FiniteSets, FiniteSetsExt, Functions, Cidr, NamespaceGate

CONSTANT Worlds   \* where a behaviour starts and what is asked in it

\* A world has the classes, pools, claims and allocations there are to begin
\* with, the states the namespaces and the control plane start in, the commands
\* that are run, how many invocations (runs) and how many changes around them
\* (changes) there are, the names a nameless claim may be given (minted), the
\* addresses looked up (queries), the project the caller's identity names, ""
\* for an organisation, whether there is a terminal (tty), whether the transport
\* is datumctl's (datum), whether calls get lost (lossy) and which parts of the
\* environment move (moves).
VARIABLES
  world,
  classes,  \* by name: name, reclaim policy, the operator's pool, the pool of the parent
            \* level ("" without a parent) and its size, default size, the sizes allowed,
            \* family, whether the default
  pools,    \* by name: parent ("" for a root), range, whether provisioned for a class
  claims,   \* by <<namespace, name>>
  allocs,   \* IPAllocations, by the key of the claim they were made for
  ent,      \* the project's ServiceEntitlement for IPAM: phase and Ready
  inv,      \* the invocation each user is running
  runs,     \* bound: invocations so far
  moved     \* bound: changes around them so far

serverVars == <<classes, pools, claims, allocs, ent>>
vars == <<world, serverVars, inv, runs, moved, gateVars>>

\* A flag that is not given and a field that is not set: the empty string.
Unset == ""

Exits == {"OK", "Error", "Usage", "Forbidden", "NotFound", "Conflict", "Invalid",
          "Exhausted", "Unavailable", "Aborted"}

\* The flags of a command, none of them given.
NoCommand ==
  [op |-> Unset, ns |-> Unset, name |-> Unset, class |-> Unset, family |-> Unset, scope |-> Unset,
   pool |-> Unset, policy |-> Unset, address |-> -1, query |-> {}, parent |-> Unset,
   range |-> {}, size |-> 0, dry |-> FALSE, yes |-> FALSE, cascade |-> FALSE]

Query == [form : {"addr", "block"}, lo : Addr, hi : Addr]

Command ==
  [op : STRING, ns : STRING, name : STRING, class : STRING, family : STRING, scope : STRING,
   pool : STRING, policy : STRING, address : Addr \cup {-1}, query : SUBSET Query, parent : STRING,
   range : SUBSET Block, size : Nat, dry : BOOLEAN, yes : BOOLEAN, cascade : BOOLEAN]

NoInvocation ==
  [at |-> "idle", cmd |-> NoCommand, exit |-> Unset, class |-> <<>>, answer |-> <<>>,
   children |-> {}, queue |-> <<>>, planned |-> {}, changed |-> {}, entitled |-> FALSE]

Claim ==
  [class : STRING, family : STRING, scope : STRING, address : Addr \cup {-1}, policy : STRING,
   size : Nat, pool : STRING, block : Block, phase : {"Bound", "Releasing"}]

Allocation ==
  [bound : BOOLEAN, class : STRING, pool : STRING, block : Block, scope : STRING, policy : STRING]

\* A claim has its allocation, an allocation and a child pool the pool they are
\* taken from.
Stored(P, C, A) ==
  /\ DOMAIN C \subseteq DOMAIN A
  /\ \A k \in DOMAIN C : A[k].bound /\ A[k].block = C[k].block
  /\ \A k \in DOMAIN A : A[k].pool \in DOMAIN P
  /\ \A p \in DOMAIN P : P[p].parent \in DOMAIN P \cup {Unset}

\* Objects and classes have names, a claim names the class it resolved to, and
\* the namespace of a claim create is one of the project's.
ASSUME WorldsAssumption ==
  \A w \in Worlds :
    /\ \A c \in w.commands : /\ c \in Command
                             /\ c.op = "claimCreate" => c.ns \in Namespaces
                             /\ c.op = "poolCreate" => c.name # Unset
    /\ \A n \in DOMAIN w.classes :
         w.classes[n].name = n /\ n # Unset /\ w.classes[n].family # Unset
    /\ \A k \in DOMAIN w.claims :
         w.claims[k] \in Claim /\ w.claims[k].class # Unset /\ w.claims[k].family # Unset
    /\ \A k \in DOMAIN w.allocs : w.allocs[k] \in Allocation
    /\ \A p \in DOMAIN w.pools : p # Unset /\ w.pools[p].parent # p
    /\ Stored(w.pools, w.claims, w.allocs)
    /\ IsFiniteSet(DOMAIN w.pools) /\ IsFiniteSet(DOMAIN w.claims)
    /\ w.planes \subseteq {"Serving", "Gone"}

Key(c) == <<c.ns, c.name>>

\* The order a list call returns objects in: always the same, whichever it is.
Listing(S) == CHOOSE f \in [1 .. Cardinality(S) -> S] : IsInjective(f)

Move(u, at) == inv' = [inv EXCEPT ![u].at = at]

Exit(u, code) == inv' = [inv EXCEPT ![u].at = "done", ![u].exit = code]

Reply(u, code, answer) ==
  inv' = [inv EXCEPT ![u].at = "done", ![u].exit = code, ![u].answer = answer]

\* A call nobody answers.  classifyError knows it by its message.
Lost(u) == world.lossy /\ Exit(u, "Unavailable") /\ UNCHANGED <<serverVars, gateVars>>

-----------------------------------------------------------------------------
(***************************************************************************)
(* What the server says and what the plugin makes of it.                   *)
(***************************************************************************)
codeFor(reason) ==
  CASE reason = Unset -> 200
    [] reason = "Exhausted" -> 507
    [] reason \in {"AllocationRetained", "ClaimExists"} -> 409
    [] OTHER -> 400

classifyError(code) ==
  CASE code = 200 -> "OK"
    [] code = 403 -> "Forbidden"
    [] code = 404 -> "NotFound"
    [] code = 409 -> "Conflict"
    [] code \in {400, 422} -> "Invalid"
    [] code = 507 -> "Exhausted"
    [] OTHER -> "Error"

-----------------------------------------------------------------------------
(***************************************************************************)
(* The server's operations, as functions of its state.                     *)
(***************************************************************************)
ResolveClass(c) ==
  IF c.class # Unset THEN c.class
  ELSE LET d == { n \in DOMAIN classes : classes[n].default /\ classes[n].family = c.family }
       IN IF d = {} THEN Unset ELSE CHOOSE n \in d : TRUE

Children(p) == { q \in DOMAIN pools : pools[q].parent = p }

\* The blocks of n addresses of pool p, among the pools P, that nothing a search
\* of the address spaces given has to avoid takes.  A pool an operator carved is
\* recorded like a claim, in the empty space; one provisioned is in every space.
Room(P, p, spaces, n) ==
  LET held == { k \in DOMAIN allocs : allocs[k].pool = p /\ allocs[k].scope \in spaces }
      carved == { q \in DOMAIN P : P[q].parent = p /\ (P[q].provisioned \/ Unset \in spaces) }
      taken == { allocs[k].block : k \in held } \cup { P[q].range : q \in carved }
  IN { b \in FreeBlocks(taken, n) : P[p].range.lo <= b.lo /\ b.hi <= P[p].range.hi }

\* A pool is provisioned clear of every address space.
carveRoom(p, n) == Room(pools, p, STRING, n)

LowestOf(blocks) == CHOOSE b \in blocks : \A c \in blocks : b.lo <= c.lo

\* Why a claim create is refused before its namespace is looked at, or Unset.
resolveRefusal(c) ==
  LET name == ResolveClass(c) IN
  IF name \notin DOMAIN classes THEN IF c.class = Unset THEN "NoDefaultClass" ELSE "ClassNotFound"
  ELSE IF c.family # Unset /\ c.family # classes[name].family THEN "FamilyMismatch"
  ELSE Unset

Without(f, k) == Restrict(f, DOMAIN f \ {k})
With(f, k, v) == [x \in DOMAIN f \cup {k} |-> IF x = k THEN v ELSE f[x]]

\* EffectivePrefixLength.
blockSize(c, class) == IF c.size # 0 THEN c.size ELSE class.size

drawsFrom(class) == IF class.level = Unset THEN class.pool ELSE class.level

\* A create that gets as far as its pool makes the parent's if there is none.
Provisions(c, class) ==
  /\ blockSize(c, class) \in class.sizes
  /\ class.level # Unset /\ class.level \notin DOMAIN pools
  /\ class.pool \in DOMAIN pools /\ carveRoom(class.pool, class.levelSize) # {}

\* The pools there are once ResolvePool returns.  What it makes it commits, in a
\* transaction before the allocation's.
ResolvePool(c, class) ==
  IF Provisions(c, class)
  THEN With(pools, class.level,
            [parent |-> class.pool, provisioned |-> TRUE,
             range |-> LowestOf(carveRoom(class.pool, class.levelSize))])
  ELSE pools

\* What a claim may get: only its own address space is in its way.
claimRoom(c, class) ==
  Room(ResolvePool(c, class), drawsFrom(class), {c.scope}, blockSize(c, class))

\* Why it is refused afterwards, in the order the handler finds out, or Unset.
createRefusal(c, class) ==
  IF blockSize(c, class) \notin class.sizes THEN "PrefixLengthRejected"
  ELSE IF class.pool \notin DOMAIN pools THEN "NoOfferingPool"
  ELSE IF drawsFrom(class) \notin DOMAIN ResolvePool(c, class) THEN "Exhausted"
  ELSE IF claimRoom(c, class) = {} THEN "Exhausted"
  ELSE IF Key(c) \in DOMAIN claims THEN "ClaimExists"
  ELSE IF Key(c) \in DOMAIN allocs THEN "AllocationRetained"
  ELSE Unset

\* Faulty variant: the claim keeps the empty class it asked with.
boundClaim_AsAsked(c, class) ==
  [class |-> c.class, family |-> c.family, scope |-> c.scope, address |-> c.address,
   policy |-> c.policy, size |-> c.size, pool |-> drawsFrom(class),
   block |-> LowestOf(claimRoom(c, class)), phase |-> "Bound"]

\* The claim as it is stored: the class it resolved to is written into it.  The
\* address it asks for (-1 for none) is kept and not otherwise read.
boundClaim(c, class) ==
  [class |-> class.name, family |-> class.family, scope |-> c.scope, address |-> c.address,
   policy |-> c.policy, size |-> c.size, pool |-> drawsFrom(class),
   block |-> LowestOf(claimRoom(c, class)), phase |-> "Bound"]

allocationOf(c, class) ==
  [bound |-> TRUE, class |-> class.name, pool |-> drawsFrom(class),
   block |-> boundClaim(c, class).block,
   scope |-> c.scope, policy |-> IF c.policy # Unset THEN c.policy ELSE class.policy]

\* releaseAndDelete: under Retain the allocation stays, without its claim.
releaseAndDelete(k) ==
  /\ claims' = Without(claims, k)
  /\ allocs' = IF k \in DOMAIN allocs /\ allocs[k].policy = "Retain"
               THEN [allocs EXCEPT ![k].bound = FALSE] ELSE Without(allocs, k)

\* Faulty variant: only the claims of a pool protect it from deletion, so what
\* was retained does not.
deleteStatus_ClaimsOnly(kind, k) ==
  CASE kind = "claim" -> IF k \in DOMAIN claims THEN 200 ELSE 404
    [] kind = "alloc" -> IF k \notin DOMAIN allocs THEN 404
                         ELSE IF allocs[k].bound THEN 422 ELSE 200
    [] kind = "pool" -> IF k \notin DOMAIN pools THEN 404
                        ELSE IF Children(k) # {} \/ \E a \in DOMAIN claims : claims[a].pool = k
                             THEN 409 ELSE 200

\* The status of a delete that is refused, 200 for one that is not.
deleteStatus(kind, k) ==
  CASE kind = "claim" -> IF k \in DOMAIN claims THEN 200 ELSE 404
    [] kind = "alloc" -> IF k \notin DOMAIN allocs THEN 404
                         ELSE IF allocs[k].bound THEN 422 ELSE 200
    [] kind = "pool" -> IF k \notin DOMAIN pools THEN 404
                        ELSE IF Children(k) # {} \/ \E a \in DOMAIN allocs : allocs[a].pool = k
                             THEN 409 ELSE 200

applyDelete(kind, k) ==
  CASE kind = "claim" -> releaseAndDelete(k) /\ UNCHANGED pools
    [] kind = "alloc" -> allocs' = Without(allocs, k) /\ UNCHANGED <<claims, pools>>
    [] kind = "pool" -> pools' = Without(pools, k) /\ UNCHANGED <<claims, allocs>>

-----------------------------------------------------------------------------
(***************************************************************************)
(* Starting, and the preflight every command that calls the API runs.      *)
(***************************************************************************)
\* A kubeconfig is not entitled per project: ensureEntitlement is empty there.
Invoke(u) ==
  /\ inv[u].at \in {"idle", "done"}
  /\ runs < world.runs
  /\ \E c \in world.commands :
       inv' = [inv EXCEPT ![u] = [NoInvocation EXCEPT
                 !.at = IF world.datum THEN "preflight" ELSE "run", !.cmd = c]]
  /\ runs' = runs + 1
  /\ UNCHANGED <<world, moved, serverVars, gateVars>>

Entitled(phase) == phase = "Active"

\* EnsureIPAMEntitlement up to its question.  There is none without a project.
Preflight(u) ==
  /\ inv[u].at = "preflight"
  /\ \/ world.project = Unset /\ Move(u, "run") /\ UNCHANGED <<serverVars, gateVars>>
     \/ world.project # Unset /\ Lost(u)
     \/ /\ world.project # Unset
        /\ CASE Entitled(ent.phase) ->
                  inv' = [inv EXCEPT ![u].at = "run", ![u].entitled = TRUE]
             [] ent.phase \in {"PendingApproval", "Rejected"} -> Exit(u, "Forbidden")
             [] OTHER -> IF world.tty THEN Move(u, "ask") ELSE Exit(u, "Forbidden")
        /\ UNCHANGED <<serverVars, gateVars>>
  /\ UNCHANGED <<world, runs, moved>>

\* promptAndRequestEntitlement: the question, the create and the start of the
\* watch.  An entitlement somebody else has created by now is an error here.
Enable(u) ==
  /\ inv[u].at = "ask"
  /\ \/ Exit(u, "Forbidden") /\ UNCHANGED <<serverVars, gateVars>>
     \/ Lost(u)
     \/ ent.phase # "None" /\ Exit(u, "Unavailable") /\ UNCHANGED <<serverVars, gateVars>>
     \/ /\ ent.phase = "None"
        /\ ent' = [phase |-> Unset, ready |-> FALSE]
        /\ Move(u, "await") \/ Exit(u, "Forbidden") \/ (world.lossy /\ Exit(u, "Unavailable"))
        /\ UNCHANGED <<classes, pools, claims, allocs, gateVars>>
  /\ UNCHANGED <<world, runs, moved>>

\* The watch shows the entitlement once it is Ready.
Await(u) ==
  /\ inv[u].at = "await" /\ ent.ready
  /\ IF Entitled(ent.phase)
     THEN inv' = [inv EXCEPT ![u].at = "run", ![u].entitled = TRUE]
     ELSE Exit(u, "Forbidden")
  /\ UNCHANGED <<world, runs, moved, serverVars, gateVars>>

\* The timeout of the watch, or its channel closing.
GiveUp(u) ==
  /\ inv[u].at = "await"
  /\ Exit(u, "Forbidden")
  /\ UNCHANGED <<world, runs, moved, serverVars, gateVars>>

-----------------------------------------------------------------------------
(***************************************************************************)
(* claim create.                                                           *)
(***************************************************************************)
\* A name with a random suffix: one no object and no running invocation has.
generateResourceName ==
  CHOOSE n \in world.minted :
    /\ \A k \in DOMAIN allocs : k[2] # n
    /\ \A u \in Requests : inv[u].at # "done" => inv[u].cmd.name # n

\* buildClaim: a request names a class or a family; one without a name is given
\* a fresh one.
BuildClaim(u) ==
  LET c == inv[u].cmd IN
  /\ inv[u].at = "run" /\ c.op = "claimCreate"
  /\ IF c.class = Unset /\ c.family = Unset THEN Exit(u, "Usage")
     ELSE IF c.name # Unset THEN Move(u, "getClaim")
     ELSE inv' = [inv EXCEPT ![u].at = "create", ![u].cmd.name = generateResourceName]
  /\ UNCHANGED <<world, runs, moved, serverVars, gateVars>>

\* What a request states differs from the claim that has its name.  A value only
\* one side states is no difference, except for the scope.
claimRequestDiff(c, existing) ==
  \/ c.class # Unset /\ existing.class # Unset /\ c.class # existing.class
  \/ c.family # Unset /\ existing.family # Unset /\ c.family # existing.family
  \/ c.address # -1 /\ existing.address # -1 /\ c.address # existing.address
  \/ c.policy # Unset /\ existing.policy # Unset /\ c.policy # existing.policy
  \/ c.size # 0 /\ existing.size # 0 /\ c.size # existing.size
  \/ c.scope # Unset /\ c.scope # existing.scope

\* Idempotency: the claim that has the name already is the answer, if it was
\* made for this request.
GetClaim(u) ==
  LET c == inv[u].cmd IN
  /\ inv[u].at = "getClaim"
  /\ \/ Lost(u)
     \/ /\ IF Key(c) \notin DOMAIN claims THEN Move(u, "create")
           ELSE IF claimRequestDiff(c, claims[Key(c)]) THEN Exit(u, "Conflict")
           ELSE Reply(u, "OK", <<claims[Key(c)]>>)
        /\ UNCHANGED <<serverVars, gateVars>>
  /\ UNCHANGED <<world, runs, moved>>

\* The create reaches the server, which resolves the class and asks whether the
\* namespace is live.
SendCreate(u) ==
  LET c == inv[u].cmd
      reason == resolveRefusal(c)
  IN
  /\ inv[u].at = "create"
  /\ \/ Lost(u)
     \/ /\ reason # Unset
        /\ Exit(u, classifyError(codeFor(reason)))
        /\ UNCHANGED <<serverVars, gateVars>>
     \/ /\ reason = Unset
        /\ State(u, world.project, c.ns)
        /\ inv' = [inv EXCEPT ![u].at = "admit", ![u].class = <<classes[ResolveClass(c)]>>]
        /\ UNCHANGED <<serverVars, now, nsState, plane, serving, lastLive, lastServed>>
  /\ UNCHANGED <<world, runs, moved>>

\* Faulty variant: the transaction of a dry run is committed like any other.
Persists_Always(c) == TRUE

Persists(c) == ~c.dry

\* Faulty variant: a create that got through keeps its namespace's entry alive.
Answered_Caches(u) ==
  /\ check' = [check EXCEPT ![u] = NoCheck("")]
  /\ live' = IF RefuseNamespace(check[u].verdict) THEN live ELSE cacheLive(check[u].ns)
  /\ UNCHANGED <<now, nsState, plane, serving, lastLive, lastServed>>

\* checkNamespaceLiveness returns: its lookup is over and nothing else follows.
Answered(u) == Forget(u)

\* The rest of the create, once the namespace check has its verdict.  A dry run
\* and a refusal undo the allocation and keep the pool that was provisioned.
ServeCreate(u) ==
  LET c == inv[u].cmd
      class == inv[u].class[1]
      reason == createRefusal(c, class)
      made == IF Provisions(c, class) THEN {<<"pool", class.level>>} ELSE {}
      lost == IF world.lossy THEN {"Unavailable"} ELSE {}
  IN
  /\ inv[u].at = "admit" /\ check[u].at = "done"
  /\ \/ /\ RefuseNamespace(check[u].verdict)
        /\ Exit(u, classifyError(403))
        /\ UNCHANGED <<pools, claims, allocs>>
     \/ /\ ~RefuseNamespace(check[u].verdict) /\ reason # Unset
        /\ pools' = ResolvePool(c, class)
        /\ \E exit \in {classifyError(codeFor(reason))} \cup lost :
             inv' = [inv EXCEPT ![u].at = "done", ![u].exit = exit, ![u].changed = made]
        /\ UNCHANGED <<claims, allocs>>
     \/ /\ ~RefuseNamespace(check[u].verdict) /\ reason = Unset
        /\ pools' = ResolvePool(c, class)
        /\ IF Persists(c)
           THEN /\ claims' = With(claims, Key(c), boundClaim(c, class))
                /\ allocs' = With(allocs, Key(c), allocationOf(c, class))
           ELSE UNCHANGED <<claims, allocs>>
        /\ \E exit \in {"OK"} \cup lost :
             inv' = [inv EXCEPT ![u].at = "done", ![u].exit = exit,
                       ![u].answer = <<boundClaim(c, class)>>,
                       ![u].changed = made \cup IF Persists(c) THEN {<<"claim", Key(c)>>} ELSE {}]
  /\ Answered(u)
  /\ UNCHANGED <<world, runs, moved, classes, ent>>

-----------------------------------------------------------------------------
(***************************************************************************)
(* The releases: read, show what would go, ask, delete.                    *)
(***************************************************************************)
\* claim release reads the claim.
GetToRelease(u) ==
  LET c == inv[u].cmd IN
  /\ inv[u].at = "run" /\ c.op = "claimRelease"
  /\ \/ Lost(u)
     \/ /\ IF Key(c) \notin DOMAIN claims THEN Exit(u, "NotFound")
           ELSE Move(u, "fate")
        /\ UNCHANGED <<serverVars, gateVars>>
  /\ UNCHANGED <<world, runs, moved>>

\* The steps of a release once its prompt can be shown.
Plan(u, planned) ==
  LET c == inv[u].cmd IN
  inv' = [inv EXCEPT ![u].queue = planned, ![u].planned = Range(planned),
            ![u].at = IF c.dry THEN "done" ELSE "confirm",
            ![u].exit = IF c.dry THEN "OK" ELSE Unset]

\* The prompt's sentence about the address: effectiveReclaimPolicy takes the
\* claim's policy or else its class's, and goes on without an answer.
ShowFate(u) ==
  /\ inv[u].at = "fate"
  /\ Plan(u, <<<<"claim", Key(inv[u].cmd)>>>>)
  /\ UNCHANGED <<world, runs, moved, serverVars, gateVars>>

\* allocation release refuses an address a claim still holds.
GetAllocation(u) ==
  LET c == inv[u].cmd IN
  /\ inv[u].at = "run" /\ c.op = "allocationRelease"
  /\ \/ Lost(u)
     \/ /\ IF Key(c) \notin DOMAIN allocs THEN Exit(u, "NotFound")
           ELSE IF allocs[Key(c)].bound THEN Exit(u, "Conflict")
           ELSE Plan(u, <<<<"alloc", Key(c)>>>>)
        /\ UNCHANGED <<serverVars, gateVars>>
  /\ UNCHANGED <<world, runs, moved>>

GetPool(u) ==
  /\ inv[u].at = "run" /\ inv[u].cmd.op = "poolRelease"
  /\ \/ Lost(u)
     \/ /\ IF inv[u].cmd.name \in DOMAIN pools THEN Move(u, "listPools") ELSE Exit(u, "NotFound")
        /\ UNCHANGED <<serverVars, gateVars>>
  /\ UNCHANGED <<world, runs, moved>>

\* The two lists of the blast radius: a list that fails is an empty one.
ListChildPools(u) ==
  /\ inv[u].at = "listPools"
  /\ \E seen \in {Children(inv[u].cmd.name)} \cup (IF world.lossy THEN {{}} ELSE {}) :
       inv' = [inv EXCEPT ![u].at = "listClaims", ![u].children = seen]
  /\ UNCHANGED <<world, runs, moved, serverVars, gateVars>>

ListHeldPrefixes(u) ==
  LET c == inv[u].cmd
      held == { k \in DOMAIN claims : k[1] = c.ns /\ claims[k].pool = c.name }
  IN
  /\ inv[u].at = "listClaims"
  /\ \E seen \in {held} \cup (IF world.lossy THEN {{}} ELSE {}) :
       IF ~c.dry /\ ~c.cascade /\ inv[u].children \cup seen # {} THEN Exit(u, "Conflict")
       ELSE Plan(u, (IF c.cascade \/ c.dry
                     THEN Listing({ <<"claim", k>> : k \in seen })
                          \o Listing({ <<"pool", q>> : q \in inv[u].children })
                     ELSE <<>>) \o <<<<"pool", c.name>>>>)
  /\ UNCHANGED <<world, runs, moved, serverVars, gateVars>>

\* confirmYesNo lets a script through, confirmTyped only with --yes.
Confirmed(c) ==
  IF c.yes THEN {TRUE}
  ELSE IF world.tty THEN BOOLEAN
  ELSE {c.op # "poolRelease"}

Confirm(u) ==
  /\ inv[u].at = "confirm"
  /\ \E yes \in Confirmed(inv[u].cmd) : IF yes THEN Move(u, "delete") ELSE Exit(u, "Aborted")
  /\ UNCHANGED <<world, runs, moved, serverVars, gateVars>>

\* Faulty variant: a cascade goes on past what it could not delete.
Refused_Skip(u, code) ==
  IF Len(inv[u].queue) > 1 THEN inv' = [inv EXCEPT ![u].queue = Tail(@)]
  ELSE Exit(u, classifyError(code))

Refused(u, code) == Exit(u, classifyError(code))

\* One delete of the plan.  A claim's release may also fail after its first
\* transaction, and leave it Releasing.
DeleteNext(u) ==
  LET kind == Head(inv[u].queue)[1]
      k == Head(inv[u].queue)[2]
      rest == Tail(inv[u].queue)
      done(at, exit) == inv' = [inv EXCEPT ![u].at = at, ![u].exit = exit, ![u].queue = rest,
                                  ![u].changed = @ \cup {<<kind, k>>}]
  IN
  /\ inv[u].at = "delete"
  /\ \/ Lost(u)
     \/ /\ deleteStatus(kind, k) # 200
        /\ Refused(u, deleteStatus(kind, k))
        /\ UNCHANGED <<serverVars, gateVars>>
     \/ /\ deleteStatus(kind, k) = 200
        /\ \/ /\ applyDelete(kind, k)
              /\ \/ IF rest = <<>> THEN done("done", "OK") ELSE done("delete", Unset)
                 \/ world.lossy /\ done("done", "Unavailable")
           \/ /\ kind = "claim" /\ world.lossy
              /\ claims' = [claims EXCEPT ![k].phase = "Releasing"]
              /\ done("done", "Error")
              /\ UNCHANGED <<allocs, pools>>
        /\ UNCHANGED <<classes, ent, gateVars>>
  /\ UNCHANGED <<world, runs, moved>>

-----------------------------------------------------------------------------
(***************************************************************************)
(* pool create, and the commands that only read.                           *)
(***************************************************************************)
\* A root pool may not overlap another root; a child is carved from its parent.
poolStatus(c) ==
  IF c.name \in DOMAIN pools THEN 409
  ELSE IF c.parent = Unset
  THEN IF \E q \in DOMAIN pools : pools[q].parent = Unset
                                  /\ \E b \in c.range : Overlap(b, pools[q].range)
       THEN 409 ELSE 200
  ELSE IF c.parent \notin DOMAIN pools THEN 400
  ELSE IF Room(pools, c.parent, {Unset}, c.size) = {} THEN 507
  ELSE 200

newPool(c) ==
  [parent |-> c.parent, provisioned |-> FALSE,
   range |-> IF c.parent = Unset THEN CHOOSE b \in c.range : TRUE
             ELSE LowestOf(Room(pools, c.parent, {Unset}, c.size))]

\* The preview of pool create asks nobody.
CreatePool(u) ==
  LET c == inv[u].cmd IN
  /\ inv[u].at = "run" /\ c.op = "poolCreate"
  /\ \/ /\ c.range = {} /\ c.parent = Unset
        /\ Exit(u, "Usage")
        /\ UNCHANGED pools
     \/ /\ c.range # {} \/ c.parent # Unset
        /\ \/ /\ c.dry
              /\ Exit(u, "OK")
              /\ UNCHANGED pools
           \/ /\ ~c.dry /\ world.lossy
              /\ Exit(u, "Unavailable")
              /\ UNCHANGED pools
           \/ /\ ~c.dry /\ poolStatus(c) # 200
              /\ Exit(u, classifyError(poolStatus(c)))
              /\ UNCHANGED pools
           \/ /\ ~c.dry /\ poolStatus(c) = 200
              /\ pools' = With(pools, c.name, newPool(c))
              /\ \E exit \in {"OK"} \cup (IF world.lossy THEN {"Unavailable"} ELSE {}) :
                   inv' = [inv EXCEPT ![u].at = "done", ![u].exit = exit,
                                      ![u].changed = {<<"pool", c.name>>}]
  /\ UNCHANGED <<world, runs, moved, classes, claims, allocs, ent, gateVars>>

\* An address or a block as it is typed.  Nothing sets status.address, so only a
\* query in block form can equal what an object states.
Exactly(query, block) == query.form = "block" /\ query.lo = block.lo /\ query.hi = block.hi

\* allocationCovers.
allocationCovers(query, block) ==
  block.lo <= query.lo /\ query.lo <= block.hi /\ query.hi - query.lo <= block.hi - block.lo

\* The state of the reverse lookup's loop after one more allocation.
\* Faulty variant: of two equally specific blocks the first is kept.
Consider_First(found, k, query) ==
  LET b == allocs[k].block
      bits == Size - (b.hi - b.lo)
  IN CASE Exactly(query, b) -> [found EXCEPT !.exact = @ \cup {k}]
       [] ~Exactly(query, b) /\ allocationCovers(query, b) /\ bits > found.bits ->
            [found EXCEPT !.best = {k}, !.bits = bits]
       [] OTHER -> found

Consider(found, k, query) ==
  LET b == allocs[k].block
      bits == Size - (b.hi - b.lo)
  IN CASE Exactly(query, b) -> [found EXCEPT !.exact = @ \cup {k}]
       [] ~Exactly(query, b) /\ allocationCovers(query, b) /\ bits > found.bits ->
            [found EXCEPT !.best = {k}, !.bits = bits]
       [] ~Exactly(query, b) /\ allocationCovers(query, b) /\ bits = found.bits ->
            [found EXCEPT !.best = @ \cup {k}]
       [] OTHER -> found

\* lookupAllocationsByAddress: exact matches, else the tightest blocks around it.
lookupAllocationsByAddress(ns, query) ==
  LET found == FoldSet(LAMBDA k, f : Consider(f, k, query), [exact |-> {}, best |-> {}, bits |-> -1],
                       { k \in DOMAIN allocs : k[1] = ns })
  IN IF found.exact # {} THEN found.exact ELSE found.best

\* resolveClaim: by name, or the first claim stating the address.
resolveClaim(c) ==
  IF c.name # Unset THEN {Key(c)} \cap DOMAIN claims
  ELSE { k \in DOMAIN claims : k[1] = c.ns /\ \E q \in c.query : Exactly(q, claims[k].block) }

\* Every holder of the address, those of equally specific blocks included.
showAddress(c) == UNION { lookupAllocationsByAddress(c.ns, q) : q \in c.query }

resolveAllocation(c) ==
  IF c.name # Unset THEN {Key(c)} \cap DOMAIN allocs ELSE showAddress(c)

\* buildRoots.
buildRoots(name) ==
  IF name # Unset THEN {name} \cap DOMAIN pools
  ELSE { p \in DOMAIN pools : pools[p].parent \notin DOMAIN pools }

\* printTreeNode prints a pool and, below it, its children.
printTreeNode(roots) ==
  LET printed[depth \in 0 .. Cardinality(DOMAIN pools)] ==
        IF depth = 0 THEN roots
        ELSE printed[depth - 1] \cup UNION { Children(p) : p \in printed[depth - 1] }
  IN printed[Cardinality(DOMAIN pools)]

\* A pool or a class is shown by its name.
showPool(c) == {c.name} \cap DOMAIN pools
showClass(c) == {c.name} \cap DOMAIN classes

\* What a command that shows one thing finds.
Found(c) ==
  CASE c.op = "claimShow" -> resolveClaim(c)
    [] c.op = "allocationShow" -> resolveAllocation(c)
    [] c.op = "addressShow" -> showAddress(c)
    [] c.op = "poolShow" -> showPool(c)
    [] c.op = "poolTree" -> printTreeNode(buildRoots(c.name))
    [] c.op = "classShow" -> showClass(c)

\* What the filters of a list let through.
matches(c, k, o) ==
  /\ k[1] = c.ns
  /\ c.class \in {Unset, o.class}
  /\ c.pool \in {Unset, o.pool}
  /\ c.scope \in {Unset, o.scope}

listClaims(c) == { k \in DOMAIN claims : matches(c, k, claims[k]) }

\* With --unclaimed, the leak check: what no claim holds.
listAllocations(c) ==
  { k \in DOMAIN allocs : /\ matches(c, k, allocs[k])
                          /\ c.op = "unclaimedList" => ~allocs[k].bound }

listPools == DOMAIN pools
listClasses(c) == { n \in DOMAIN classes : c.family \in {Unset, classes[n].family} }

\* What a list prints.
Listed(c) ==
  CASE c.op = "claimList" -> listClaims(c)
    [] c.op \in {"allocationList", "unclaimedList"} -> listAllocations(c)
    [] c.op = "poolList" -> listPools
    [] c.op = "classList" -> listClasses(c)

Shows == {"claimShow", "allocationShow", "addressShow", "poolShow", "poolTree", "classShow"}
Lists == {"claimList", "allocationList", "unclaimedList", "poolList", "classList"}

Show(u) ==
  LET c == inv[u].cmd IN
  /\ inv[u].at = "run" /\ c.op \in Shows
  /\ \/ Lost(u)
     \/ /\ Reply(u, IF Found(c) = {} /\ ~(c.op = "poolTree" /\ c.name = Unset)
                    THEN "NotFound" ELSE "OK", <<Found(c)>>)
        /\ UNCHANGED <<serverVars, gateVars>>
  /\ UNCHANGED <<world, runs, moved>>

List(u) ==
  LET c == inv[u].cmd IN
  /\ inv[u].at = "run" /\ c.op \in Lists
  /\ \/ Lost(u)
     \/ /\ Reply(u, "OK", <<Listed(c)>>)
        /\ UNCHANGED <<serverVars, gateVars>>
  /\ UNCHANGED <<world, runs, moved>>

-----------------------------------------------------------------------------
(***************************************************************************)
(* What moves besides the invocations, and the specification.              *)
(***************************************************************************)
Moves(what) == what \in world.moves /\ moved < world.changes /\ moved' = moved + 1

\* The service catalog's reconciler, and the people who approve.
EntitlementStep ==
  /\ Moves("entitlement")
  /\ \/ /\ ent.phase = Unset /\ ~ent.ready
        /\ \E phase \in {"Active", "PendingApproval", "Rejected", Unset} :
             ent' = [phase |-> phase, ready |-> TRUE]
     \/ /\ ent.phase = "PendingApproval"
        /\ ent' = [ent EXCEPT !.phase = "Active"]
  /\ UNCHANGED <<world, classes, pools, claims, allocs, inv, runs, gateVars>>

\* An operator retires a class; what was claimed under it stays.
RetireClass ==
  /\ Moves("classes")
  /\ \E n \in DOMAIN classes : classes' = Without(classes, n)
  /\ UNCHANGED <<world, pools, claims, allocs, ent, inv, runs, gateVars>>

\* A namespace is deleted, gone, or made again.  What is in it goes with it.
NamespaceMoves(ns) ==
  LET stays(f) == Restrict(f, { k \in DOMAIN f : k[1] # ns \/ nsState'[ns] # "Absent" }) IN
  /\ Moves(ns)
  /\ NamespaceStep(ns)
  /\ claims' = stays(claims)
  /\ allocs' = stays(allocs)
  /\ UNCHANGED <<world, classes, pools, ent, inv, runs>>

PlaneMoves == Moves("plane") /\ PlaneStep /\ UNCHANGED <<world, serverVars, inv, runs>>

\* The plugin's own steps take no time; what its calls ask of the server does.
TimePasses ==
  /\ "clock" \in world.moves
  /\ \A u \in Requests : inv[u].at \in {"idle", "admit", "done"}
  /\ Tick
  /\ UNCHANGED <<world, serverVars, inv, runs, moved>>

\* A step of the namespace check of u's create.
Admission(u) == LookupStep(u) /\ UNCHANGED <<world, serverVars, inv, runs, moved>>

Init ==
  /\ world \in Worlds
  /\ classes = world.classes
  /\ pools = world.pools
  /\ claims = world.claims
  /\ allocs = world.allocs
  /\ ent = [phase |-> world.entitlement, ready |-> world.entitlement \notin {"None", Unset}]
  /\ inv = [u \in Requests |-> NoInvocation]
  /\ runs = 0 /\ moved = 0
  /\ nsState = [ns \in Namespaces |-> "Active"]
  /\ plane \in world.planes
  /\ GateInit

Step(u) ==
  \/ Preflight(u) \/ Enable(u) \/ Await(u) \/ GiveUp(u)
  \/ BuildClaim(u) \/ GetClaim(u) \/ SendCreate(u) \/ Admission(u) \/ ServeCreate(u)
  \/ GetToRelease(u) \/ ShowFate(u) \/ GetAllocation(u)
  \/ GetPool(u) \/ ListChildPools(u) \/ ListHeldPrefixes(u) \/ Confirm(u) \/ DeleteNext(u)
  \/ CreatePool(u) \/ Show(u) \/ List(u)

\* Nothing is left to do.  Short of this an invocation that could not go on would
\* be a deadlock.
AllEnded ==
  /\ runs = world.runs /\ \A u \in Requests : inv[u].at \in {"idle", "done"}
  /\ UNCHANGED vars

Next ==
  \/ \E u \in Requests : Invoke(u) \/ Step(u)
  \/ EntitlementStep \/ RetireClass \/ PlaneMoves \/ TimePasses
  \/ \E ns \in Namespaces : NamespaceMoves(ns)
  \/ AllEnded

Spec == Init /\ [][Next]_vars

-----------------------------------------------------------------------------
(***************************************************************************)
(* Properties.                                                             *)
(***************************************************************************)
Ended(u) == inv[u].at = "done"

\* Every object is where its key says, every allocation of a live claim is the
\* claim's, and the namespace check's state is well formed.
TypeOK ==
  /\ GateTypeOK
  /\ \A u \in Requests : inv[u].exit \in Exits \cup {Unset} /\ (Ended(u) <=> inv[u].exit # Unset)
  /\ Stored(pools, claims, allocs)

\* A claim create that exits 0 answers what was asked: "reusing a name for a
\* different class or scope is refused", whichever of two requests for the name
\* came first, whether its answer arrived, and whether it named its class or
\* left the server to default it (runClaimCreate, claimRequestDiff, Create).
AnswerMatchesRequest ==
  \A u \in Requests :
    LET c == inv[u].cmd IN
    Ended(u) /\ c.op = "claimCreate" /\ inv[u].exit = "OK" =>
      LET claim == inv[u].answer[1] IN
      /\ c.class \in {Unset, claim.class}
      /\ c.family \in {Unset, claim.family}
      /\ c.scope \in {Unset, claim.scope}

\* Under datumctl a project has to be entitled, and an organisation has not.
Gated(w) == w.datum /\ w.project # Unset

\* The pool of the parent of the class an invocation's create resolved to.
ParentPools(i) == { <<"pool", i.class[n].level>> : n \in DOMAIN i.class }

\* A preview, a refusal and an aborted command, unless it is a cascade that began,
\* leave claims, allocations and the pools people made as they were.  What they
\* may leave behind is one thing: the pool provisioned for the parent of a
\* create's class, which ResolvePool commits before the dry run rolls back and
\* before a 409 or a 507 is known.  And under datumctl nothing changes before the
\* project's entitlement was seen Active (the dry runs, claimCreateError,
\* confirm.go, EnsureIPAMEntitlement).
RefusalChangesNothing ==
  \A u \in Requests :
    LET c == inv[u].cmd IN
    /\ Ended(u) /\ (c.dry \/ (inv[u].exit \notin {"OK", "Unavailable", "Error"} /\ ~c.cascade))
         => inv[u].changed \subseteq ParentPools(inv[u])
    /\ Gated(world) /\ inv[u].changed # {} => inv[u].entitled

\* "A bulk operation that partially fails must never exit 0": a release that
\* exits 0 has itself removed everything its prompt said it would, and a pool
\* release that stopped on the way has kept the pool (newPoolReleaseCommand).
PartialNeverZero ==
  \A u \in Requests :
    LET c == inv[u].cmd IN
    Ended(u) /\ c.op \in {"claimRelease", "allocationRelease", "poolRelease"} /\ ~c.dry =>
      /\ inv[u].exit = "OK" => inv[u].planned = inv[u].changed
      /\ <<"pool", c.name>> \in inv[u].changed => inv[u].planned = inv[u].changed

\* The reverse lookup names every holder: all that state the block asked for, or
\* else all of the tightest blocks around it, two address spaces or two pools
\* holding the same one included (lookupAllocationsByAddress).
LookupFindsHolders ==
  \A q \in world.queries, ns \in Namespaces :
    LET mine == { k \in DOMAIN allocs : k[1] = ns }
        exact == { k \in mine : Exactly(q, allocs[k].block) }
        around == { k \in mine : allocationCovers(q, allocs[k].block) }
        tightest == { k \in around : \A j \in around :
                        allocs[k].block.hi - allocs[k].block.lo
                          <= allocs[j].block.hi - allocs[j].block.lo }
    IN lookupAllocationsByAddress(ns, q) = IF exact # {} THEN exact ELSE tightest
=============================================================================
