-------------------------- MODULE PluginStepProofs --------------------------
(***************************************************************************)
(* What the plugin's proofs rest on: the shape of an invocation, what      *)
(* holds of it wherever it stands, what the server holds, the invariant    *)
(* that is made of these, and the steps up to the end of a claim create.   *)
(***************************************************************************)
EXTENDS PluginClient, FiniteSetTheorems, TLAPS

-----------------------------------------------------------------------------
(***************************************************************************)
(* The state of an invocation.                                             *)
(***************************************************************************)
InvocationOf(V) ==
  [at : V, cmd : V, exit : V, class : V, answer : V, children : V, queue : V, planned : V,
   changed : V, entitled : V]

CommandOf(V) ==
  [op : V, ns : V, name : V, class : V, family : V, scope : V, pool : V, policy : V, address : V,
   query : V, parent : V, range : V, size : V, dry : V, yes : V, cascade : V]

Shaped(i) == (\E V : i \in InvocationOf(V)) /\ \E V : i.cmd \in CommandOf(V)

InvTyped == DOMAIN inv = Requests /\ \A u \in Requests : Shaped(inv[u])

\* The invocations of the other users stand still.
Only(u) == \A v \in Requests : v # u => inv'[v] = inv[v]

\* What a step that only moves on or ends leaves as it was.
Rest(i, j) ==
  /\ j.cmd = i.cmd /\ j.class = i.class /\ j.answer = i.answer /\ j.children = i.children
  /\ j.queue = i.queue /\ j.planned = i.planned /\ j.changed = i.changed /\ j.entitled = i.entitled

\* The invocation of one user is replaced.
LEMMA Replaced ==
  ASSUME InvTyped, NEW u \in Requests, NEW i, Shaped(i), inv' = [inv EXCEPT ![u] = i]
  PROVE  InvTyped' /\ Only(u) /\ inv'[u] = i
BY DEF InvTyped, Only

\* An invocation that exits keeps everything but its place and its code.
LEMMA ExitGoes ==
  ASSUME InvTyped, NEW u \in Requests, NEW code, Exit(u, code)
  PROVE  /\ InvTyped' /\ Only(u) /\ Rest(inv[u], inv'[u])
         /\ inv'[u].at = "done" /\ inv'[u].exit = code
<1> DEFINE i == [inv[u] EXCEPT !.at = "done", !.exit = code]
<1>1. inv' = [inv EXCEPT ![u] = i]
  BY Zenon DEF Exit, InvTyped
<1>2. PICK V : inv[u] \in InvocationOf(V)
  BY DEF InvTyped, Shaped
<1>3. /\ i \in InvocationOf(V \cup {"done", code}) /\ Rest(inv[u], i)
      /\ i.at = "done" /\ i.exit = code
  BY Zenon, <1>2 DEF InvocationOf, Rest
<1>4. Shaped(i)
  BY <1>3 DEF InvTyped, Shaped, Rest
<1> HIDE DEF i
<1> QED BY Zenon, <1>1, <1>3, <1>4, Replaced

\* An invocation that goes on keeps everything but its place.
LEMMA MoveGoes ==
  ASSUME InvTyped, NEW u \in Requests, NEW at, Move(u, at)
  PROVE  /\ InvTyped' /\ Only(u) /\ Rest(inv[u], inv'[u])
         /\ inv'[u].at = at /\ inv'[u].exit = inv[u].exit
<1> DEFINE i == [inv[u] EXCEPT !.at = at]
<1>1. inv' = [inv EXCEPT ![u] = i]
  BY DEF Move, InvTyped
<1>2. PICK V : inv[u] \in InvocationOf(V)
  BY DEF InvTyped, Shaped
<1>3. /\ i \in InvocationOf(V \cup {at}) /\ Rest(inv[u], i)
      /\ i.at = at /\ i.exit = inv[u].exit
  BY <1>2 DEF InvocationOf, Rest
<1>4. Shaped(i)
  BY <1>3 DEF InvTyped, Shaped, Rest
<1> HIDE DEF i
<1> QED BY Zenon, <1>1, <1>3, <1>4, Replaced

\* The preflight that passes says so and changes nothing else.
LEMMA EntitledGoes ==
  ASSUME InvTyped, NEW u \in Requests,
         inv' = [inv EXCEPT ![u].at = "run", ![u].entitled = TRUE]
  PROVE  /\ InvTyped' /\ Only(u)
         /\ inv'[u].at = "run" /\ inv'[u].cmd = inv[u].cmd /\ inv'[u].exit = inv[u].exit
         /\ inv'[u].class = inv[u].class /\ inv'[u].answer = inv[u].answer /\ inv'[u].children = inv[u].children
         /\ inv'[u].queue = inv[u].queue /\ inv'[u].planned = inv[u].planned
         /\ inv'[u].changed = inv[u].changed /\ inv'[u].entitled = TRUE
<1> DEFINE i == [inv[u] EXCEPT !.at = "run", !.entitled = TRUE]
<1>1. inv' = [inv EXCEPT ![u] = i]
  BY Zenon DEF InvTyped
<1>2. PICK V : inv[u] \in InvocationOf(V)
  BY DEF InvTyped, Shaped
<1>3. /\ i.at = "run" /\ i.cmd = inv[u].cmd /\ i.exit = inv[u].exit
      /\ i.class = inv[u].class /\ i.answer = inv[u].answer /\ i.children = inv[u].children
      /\ i.queue = inv[u].queue /\ i.planned = inv[u].planned
      /\ i.changed = inv[u].changed /\ i.entitled = TRUE
  BY <1>2 DEF InvocationOf
<1>4. i \in InvocationOf(V \cup {"run", TRUE})
  BY Zenon, <1>2 DEF InvocationOf
<1>5. Shaped(i)
  BY <1>3, <1>4 DEF InvTyped, Shaped
<1> HIDE DEF i
<1> QED BY Zenon, <1>1, <1>3, <1>5, Replaced

\* An invocation that answers keeps its command and what it changed.
LEMMA ReplyGoes ==
  ASSUME InvTyped, NEW u \in Requests, NEW code, NEW answer,
         Reply(u, code, answer)
  PROVE  /\ InvTyped' /\ Only(u)
         /\ inv'[u].at = "done" /\ inv'[u].cmd = inv[u].cmd /\ inv'[u].exit = code
         /\ inv'[u].class = inv[u].class /\ inv'[u].answer = answer /\ inv'[u].children = inv[u].children
         /\ inv'[u].queue = inv[u].queue /\ inv'[u].planned = inv[u].planned
         /\ inv'[u].changed = inv[u].changed /\ inv'[u].entitled = inv[u].entitled
<1> DEFINE i == [inv[u] EXCEPT !.at = "done", !.exit = code, !.answer = answer]
<1>1. inv' = [inv EXCEPT ![u] = i]
  BY Zenon DEF Reply, InvTyped
<1>2. PICK V : inv[u] \in InvocationOf(V)
  BY DEF InvTyped, Shaped
<1>3. /\ i.at = "done" /\ i.cmd = inv[u].cmd /\ i.exit = code
      /\ i.class = inv[u].class /\ i.answer = answer /\ i.children = inv[u].children
      /\ i.queue = inv[u].queue /\ i.planned = inv[u].planned
      /\ i.changed = inv[u].changed /\ i.entitled = inv[u].entitled
  BY <1>2 DEF InvocationOf
<1>4. i \in InvocationOf(V \cup {"done", code, answer})
  BY Zenon, <1>2 DEF InvocationOf
<1>5. Shaped(i)
  BY <1>3, <1>4 DEF InvTyped, Shaped
<1> HIDE DEF i
<1> QED BY Zenon, <1>1, <1>3, <1>5, Replaced

\* An invocation that resolved its class keeps all the rest.
LEMMA ClassGoes ==
  ASSUME InvTyped, NEW u \in Requests, NEW class,
         inv' = [inv EXCEPT ![u].at = "admit", ![u].class = class]
  PROVE  /\ InvTyped' /\ Only(u)
         /\ inv'[u].at = "admit" /\ inv'[u].cmd = inv[u].cmd /\ inv'[u].exit = inv[u].exit
         /\ inv'[u].class = class /\ inv'[u].answer = inv[u].answer /\ inv'[u].children = inv[u].children
         /\ inv'[u].queue = inv[u].queue /\ inv'[u].planned = inv[u].planned
         /\ inv'[u].changed = inv[u].changed /\ inv'[u].entitled = inv[u].entitled
<1> DEFINE i == [inv[u] EXCEPT !.at = "admit", !.class = class]
<1>1. inv' = [inv EXCEPT ![u] = i]
  BY Zenon DEF InvTyped
<1>2. PICK V : inv[u] \in InvocationOf(V)
  BY DEF InvTyped, Shaped
<1>3. /\ i.at = "admit" /\ i.cmd = inv[u].cmd /\ i.exit = inv[u].exit
      /\ i.class = class /\ i.answer = inv[u].answer /\ i.children = inv[u].children
      /\ i.queue = inv[u].queue /\ i.planned = inv[u].planned
      /\ i.changed = inv[u].changed /\ i.entitled = inv[u].entitled
  BY <1>2 DEF InvocationOf
<1>4. i \in InvocationOf(V \cup {"admit", class})
  BY Zenon, <1>2 DEF InvocationOf
<1>5. Shaped(i)
  BY <1>3, <1>4 DEF InvTyped, Shaped
<1> HIDE DEF i
<1> QED BY Zenon, <1>1, <1>3, <1>5, Replaced

Served(u, exit, answer, changed) ==
  inv' = [inv EXCEPT ![u].at = "done", ![u].exit = exit, ![u].answer = answer, ![u].changed = changed]

\* An invocation the server answered has the code and the answer of it.
LEMMA ServedGoes ==
  ASSUME InvTyped, NEW u \in Requests, NEW exit, NEW answer, NEW changed, Served(u, exit, answer, changed)
  PROVE  /\ InvTyped' /\ Only(u)
         /\ inv'[u].at = "done" /\ inv'[u].cmd = inv[u].cmd /\ inv'[u].exit = exit
         /\ inv'[u].class = inv[u].class /\ inv'[u].answer = answer /\ inv'[u].children = inv[u].children
         /\ inv'[u].queue = inv[u].queue /\ inv'[u].planned = inv[u].planned
         /\ inv'[u].changed = changed /\ inv'[u].entitled = inv[u].entitled
<1> DEFINE i == [inv[u] EXCEPT !.at = "done", !.exit = exit, !.answer = answer, !.changed = changed]
<1>1. inv' = [inv EXCEPT ![u] = i]
  BY Zenon DEF Served, InvTyped
<1>2. PICK V : inv[u] \in InvocationOf(V)
  BY DEF InvTyped, Shaped
<1>3. /\ i.at = "done" /\ i.cmd = inv[u].cmd /\ i.exit = exit
      /\ i.class = inv[u].class /\ i.answer = answer /\ i.children = inv[u].children
      /\ i.queue = inv[u].queue /\ i.planned = inv[u].planned
      /\ i.changed = changed /\ i.entitled = inv[u].entitled
  BY <1>2 DEF InvocationOf
<1>4. i \in InvocationOf(V \cup {"done", exit, answer, changed})
  BY Zenon, <1>2 DEF InvocationOf
<1>5. Shaped(i)
  BY <1>3, <1>4 DEF InvTyped, Shaped
<1> HIDE DEF i
<1> QED BY Zenon, <1>1, <1>3, <1>5, Replaced

\* An invocation that listed the child pools keeps all the rest.
LEMMA ListedGoes ==
  ASSUME InvTyped, NEW u \in Requests, NEW seen,
         inv' = [inv EXCEPT ![u].at = "listClaims", ![u].children = seen]
  PROVE  /\ InvTyped' /\ Only(u)
         /\ inv'[u].at = "listClaims" /\ inv'[u].cmd = inv[u].cmd /\ inv'[u].exit = inv[u].exit
         /\ inv'[u].class = inv[u].class /\ inv'[u].answer = inv[u].answer /\ inv'[u].children = seen
         /\ inv'[u].queue = inv[u].queue /\ inv'[u].planned = inv[u].planned
         /\ inv'[u].changed = inv[u].changed /\ inv'[u].entitled = inv[u].entitled
<1> DEFINE i == [inv[u] EXCEPT !.at = "listClaims", !.children = seen]
<1>1. inv' = [inv EXCEPT ![u] = i]
  BY Zenon DEF InvTyped
<1>2. PICK V : inv[u] \in InvocationOf(V)
  BY DEF InvTyped, Shaped
<1>3. /\ i.at = "listClaims" /\ i.cmd = inv[u].cmd /\ i.exit = inv[u].exit
      /\ i.class = inv[u].class /\ i.answer = inv[u].answer /\ i.children = seen
      /\ i.queue = inv[u].queue /\ i.planned = inv[u].planned
      /\ i.changed = inv[u].changed /\ i.entitled = inv[u].entitled
  BY <1>2 DEF InvocationOf
<1>4. i \in InvocationOf(V \cup {"listClaims", seen})
  BY Zenon, <1>2 DEF InvocationOf
<1>5. Shaped(i)
  BY <1>3, <1>4 DEF InvTyped, Shaped
<1> HIDE DEF i
<1> QED BY Zenon, <1>1, <1>3, <1>5, Replaced

Planned(u, queue, planned, at, exit) ==
  inv' = [inv EXCEPT ![u].queue = queue, ![u].planned = planned, ![u].at = at,
            ![u].exit = exit]

\* An invocation that planned its deletes has changed nothing by that.
LEMMA PlannedGoes ==
  ASSUME InvTyped, NEW u \in Requests, NEW queue, NEW planned, NEW at, NEW exit,
         Planned(u, queue, planned, at, exit)
  PROVE  /\ InvTyped' /\ Only(u)
         /\ inv'[u].at = at /\ inv'[u].cmd = inv[u].cmd /\ inv'[u].exit = exit
         /\ inv'[u].class = inv[u].class /\ inv'[u].answer = inv[u].answer /\ inv'[u].children = inv[u].children
         /\ inv'[u].queue = queue /\ inv'[u].planned = planned
         /\ inv'[u].changed = inv[u].changed /\ inv'[u].entitled = inv[u].entitled
<1> DEFINE i == [inv[u] EXCEPT !.queue = queue, !.planned = planned, !.at = at, !.exit = exit]
<1>1. inv' = [inv EXCEPT ![u] = i]
  BY Zenon DEF Planned, InvTyped
<1>2. PICK V : inv[u] \in InvocationOf(V)
  BY DEF InvTyped, Shaped
<1>3. /\ i.at = at /\ i.cmd = inv[u].cmd /\ i.exit = exit
      /\ i.class = inv[u].class /\ i.answer = inv[u].answer /\ i.children = inv[u].children
      /\ i.queue = queue /\ i.planned = planned
      /\ i.changed = inv[u].changed /\ i.entitled = inv[u].entitled
  BY <1>2 DEF InvocationOf
<1>4. i \in InvocationOf(V \cup {queue, planned, at, exit})
  BY Zenon, <1>2 DEF InvocationOf
<1>5. Shaped(i)
  BY <1>3, <1>4 DEF InvTyped, Shaped
<1> HIDE DEF i
<1> QED BY Zenon, <1>1, <1>3, <1>5, Replaced

Deleted(u, at, exit, queue, item) ==
  inv' = [inv EXCEPT ![u].at = at, ![u].exit = exit, ![u].queue = queue,
            ![u].changed = @ \cup {item}]

\* An invocation that made a delete has the rest of its plan to go.
LEMMA DeletedGoes ==
  ASSUME InvTyped, NEW u \in Requests, NEW at, NEW exit, NEW queue, NEW item,
         Deleted(u, at, exit, queue, item)
  PROVE  /\ InvTyped' /\ Only(u)
         /\ inv'[u].at = at /\ inv'[u].cmd = inv[u].cmd /\ inv'[u].exit = exit
         /\ inv'[u].class = inv[u].class /\ inv'[u].answer = inv[u].answer /\ inv'[u].children = inv[u].children
         /\ inv'[u].queue = queue /\ inv'[u].planned = inv[u].planned
         /\ inv'[u].changed = inv[u].changed \cup {item} /\ inv'[u].entitled = inv[u].entitled
<1> DEFINE i == [inv[u] EXCEPT !.at = at, !.exit = exit, !.queue = queue, !.changed = inv[u].changed \cup {item}]
<1>1. inv' = [inv EXCEPT ![u] = i]
  BY Zenon DEF Deleted, InvTyped
<1>2. PICK V : inv[u] \in InvocationOf(V)
  BY DEF InvTyped, Shaped
<1>3. /\ i.at = at /\ i.cmd = inv[u].cmd /\ i.exit = exit
      /\ i.class = inv[u].class /\ i.answer = inv[u].answer /\ i.children = inv[u].children
      /\ i.queue = queue /\ i.planned = inv[u].planned
      /\ i.changed = inv[u].changed \cup {item} /\ i.entitled = inv[u].entitled
  BY <1>2 DEF InvocationOf
<1>4. i \in InvocationOf(V \cup {at, exit, queue, inv[u].changed \cup {item}})
  BY Zenon, <1>2 DEF InvocationOf
<1>5. Shaped(i)
  BY <1>3, <1>4 DEF InvTyped, Shaped
<1> HIDE DEF i
<1> QED BY Zenon, <1>1, <1>3, <1>5, Replaced

Created(u, exit, changed) ==
  inv' = [inv EXCEPT ![u].at = "done", ![u].exit = exit, ![u].changed = changed]

\* An invocation that made its create keeps its command.
LEMMA CreatedGoes ==
  ASSUME InvTyped, NEW u \in Requests, NEW exit, NEW changed,
         Created(u, exit, changed)
  PROVE  /\ InvTyped' /\ Only(u)
         /\ inv'[u].at = "done" /\ inv'[u].cmd = inv[u].cmd /\ inv'[u].exit = exit
         /\ inv'[u].class = inv[u].class /\ inv'[u].answer = inv[u].answer /\ inv'[u].children = inv[u].children
         /\ inv'[u].queue = inv[u].queue /\ inv'[u].planned = inv[u].planned
         /\ inv'[u].changed = changed /\ inv'[u].entitled = inv[u].entitled
<1> DEFINE i == [inv[u] EXCEPT !.at = "done", !.exit = exit, !.changed = changed]
<1>1. inv' = [inv EXCEPT ![u] = i]
  BY Zenon DEF Created, InvTyped
<1>2. PICK V : inv[u] \in InvocationOf(V)
  BY DEF InvTyped, Shaped
<1>3. /\ i.at = "done" /\ i.cmd = inv[u].cmd /\ i.exit = exit
      /\ i.class = inv[u].class /\ i.answer = inv[u].answer /\ i.children = inv[u].children
      /\ i.queue = inv[u].queue /\ i.planned = inv[u].planned
      /\ i.changed = changed /\ i.entitled = inv[u].entitled
  BY <1>2 DEF InvocationOf
<1>4. i \in InvocationOf(V \cup {"done", exit, changed})
  BY Zenon, <1>2 DEF InvocationOf
<1>5. Shaped(i)
  BY <1>3, <1>4 DEF InvTyped, Shaped
<1> HIDE DEF i
<1> QED BY Zenon, <1>1, <1>3, <1>5, Replaced

\* A claim without a name is given one.
LEMMA NamedGoes ==
  ASSUME InvTyped, NEW u \in Requests, NEW n,
         inv' = [inv EXCEPT ![u].at = "create", ![u].cmd.name = n]
  PROVE  /\ InvTyped' /\ Only(u) /\ inv'[u].at = "create" /\ inv'[u].exit = inv[u].exit
         /\ inv'[u].changed = inv[u].changed /\ inv'[u].entitled = inv[u].entitled
         /\ LET c == inv[u].cmd
                d == inv'[u].cmd
            IN d.op = c.op /\ d.ns = c.ns /\ d.dry = c.dry
<1> DEFINE d == [inv[u].cmd EXCEPT !.name = n]
           i == [inv[u] EXCEPT !.at = "create", !.cmd = d]
<1>1. inv' = [inv EXCEPT ![u] = i]
  BY Zenon DEF InvTyped
<1>2. PICK V : inv[u] \in InvocationOf(V)
  BY DEF InvTyped, Shaped
<1>3. PICK W : inv[u].cmd \in CommandOf(W)
  BY DEF InvTyped, Shaped
<1>4. /\ d \in CommandOf(W \cup {n})
      /\ d.op = inv[u].cmd.op /\ d.ns = inv[u].cmd.ns /\ d.dry = inv[u].cmd.dry
  BY <1>3 DEF CommandOf
<1>5. /\ i.at = "create" /\ i.cmd = d /\ i.exit = inv[u].exit
      /\ i.changed = inv[u].changed /\ i.entitled = inv[u].entitled
      /\ i \in InvocationOf(V \cup {"create", d})
  <2> HIDE DEF d
  <2> QED BY Zenon, <1>2 DEF InvocationOf
<1>6. Shaped(i)
  BY <1>4, <1>5 DEF Shaped
<1> HIDE DEF i
<1>7. InvTyped' /\ Only(u) /\ inv'[u] = i
  BY Zenon, <1>1, <1>6, Replaced
<1> QED BY Zenon, <1>4, <1>5, <1>7

-----------------------------------------------------------------------------
(***************************************************************************)
(* What holds of an invocation wherever it stands; gated says whether it   *)
(* has to see an entitlement first.                                        *)
(***************************************************************************)
\* An empty text, and what is asked for or left open.
Blank(x) == x = Unset
Agrees(asked, has) == asked \in {Unset, has}

Before == {"idle", "preflight", "ask", "await"}
Creates == {"getClaim", "create", "admit"}
Working == {"run", "fate", "listPools", "listClaims", "confirm", "delete"} \cup Creates
Releases == {"claimRelease", "allocationRelease", "poolRelease"}
Kinds == {"claim", "alloc", "pool"}

\* The step fits the command, and only an end has an exit code.
CommandOK(i) ==
  /\ i.at \in Before \cup Working \cup {"done"}
  /\ IF i.at = "done" THEN i.exit \in Exits ELSE Blank(i.exit)
  /\ i.cmd.op = "claimCreate" => i.cmd.ns \in Namespaces
  /\ i.cmd.op = "poolCreate" => ~Blank(i.cmd.name)
  /\ i.at \in Creates => i.cmd.op = "claimCreate"
  /\ i.at = "fate" => i.cmd.op = "claimRelease"
  /\ i.at \in {"listPools", "listClaims"} => i.cmd.op = "poolRelease"
  /\ i.at \in {"confirm", "delete"} => i.cmd.op \in Releases /\ ~i.cmd.dry

\* Nothing is changed before the last call of a create or the deletes of a
\* release, nor without an entitlement, and a preview or a refusal has made no
\* more than the pool of its class's parent.
ChangesOK(gated, i) ==
  /\ i.at \notin {"delete", "done"} => i.changed = {}
  /\ i.at = "done" /\ (i.cmd.dry \/ (i.exit \notin {"OK", "Unavailable", "Error"} /\ ~i.cmd.cascade))
       => i.changed \subseteq ParentPools(i)
  /\ gated /\ (i.at \in Working \/ i.changed # {}) => i.entitled

\* A release knows what is left of its plan.  The pool it is for comes last, and
\* without --cascade there is nothing else.
PlanOK(i) ==
  LET pool == <<"pool", i.cmd.name>> IN
  /\ i.at = "listClaims" => i.cmd.name \notin i.children /\ IsFiniteSet(i.children)
  /\ i.at \in {"confirm", "delete"} =>
       /\ \E S : i.queue \in Seq(Kinds \X S)
       /\ i.queue # <<>>
       /\ i.planned = i.changed \cup Range(i.queue)
       /\ pool \notin i.changed
       /\ \A n \in 1 .. Len(i.queue) : i.queue[n] = pool => n = Len(i.queue)
       /\ ~i.cmd.cascade => Len(i.queue) = 1 /\ i.changed = {}
  /\ i.at = "done" /\ i.cmd.op \in Releases /\ ~i.cmd.dry =>
       /\ i.exit = "OK" => i.planned = i.changed
       /\ pool \in i.changed => i.planned = i.changed

Fits(c, claim) ==
  Agrees(c.class, claim.class) /\ Agrees(c.family, claim.family) /\ Agrees(c.scope, claim.scope)

\* The class a create has resolved, and the claim it answers, are of the class,
\* family and scope it asked for.
AnswerOK(i) ==
  LET c == i.cmd IN
  /\ i.at = "admit" =>
       LET class == i.class[1] IN
       /\ 1 \in DOMAIN i.class /\ ~Blank(class.name) /\ ~Blank(class.family)
       /\ Agrees(c.class, class.name) /\ Agrees(c.family, class.family)
  /\ i.at = "done" /\ c.op = "claimCreate" /\ i.exit = "OK" => Fits(c, i.answer[1])

RunOK(gated, i) == CommandOK(i) /\ ChangesOK(gated, i) /\ PlanOK(i) /\ AnswerOK(i)

\* An invocation may end at any step of its own, with a code other than 0 unless
\* it neither claims nor releases.
LEMMA EndsOK ==
  ASSUME NEW gated, NEW i, NEW j, RunOK(gated, i), Rest(i, j), j.at = "done",
         i.at \notin {"idle", "done"}, j.exit \in Exits,
         j.exit = "OK" => i.cmd.op \notin Releases \cup {"claimCreate"}
  PROVE  RunOK(gated, j)
<1> USE DEF RunOK, Rest
<1>1. CommandOK(j)
  BY DEF CommandOK, Exits, Creates, Working, Before
<1>2. i.changed = {} \/ (i.at = "delete" /\ ~i.cmd.dry /\ i.cmd.cascade)
  BY DEF ChangesOK, PlanOK, CommandOK
<1>3. ChangesOK(gated, j)
  <2>1. "done" \notin Working
    BY DEF Working, Creates
  <2>2. gated /\ j.changed # {} => j.entitled
    BY DEF ChangesOK
  <2>3. j.cmd.dry \/ ~j.cmd.cascade => j.changed \subseteq ParentPools(j)
    BY <1>2
  <2> QED BY <2>1, <2>2, <2>3 DEF ChangesOK
<1>4. PlanOK(j)
  BY <1>2 DEF PlanOK
<1>5. AnswerOK(j)
  BY DEF AnswerOK
<1> QED BY <1>1, <1>3, <1>4, <1>5

\* The steps an invocation takes on its way without touching anything.
OnTheWay(op) ==
  { <<"preflight", "ask">>, <<"ask", "await">>, <<"confirm", "delete">> }
  \cup (IF op = "claimCreate" THEN { <<"run", "getClaim">>, <<"getClaim", "create">> } ELSE {})
  \cup (IF op = "claimRelease" THEN { <<"run", "fate">> } ELSE {})
  \cup (IF op = "poolRelease" THEN { <<"run", "listPools">> } ELSE {})

\* Going on from one call to the next breaks none of this.
LEMMA MovesOK ==
  ASSUME NEW gated, NEW i, NEW j, RunOK(gated, i), Rest(i, j), j.exit = i.exit,
         <<i.at, j.at>> \in OnTheWay(i.cmd.op)
  PROVE  RunOK(gated, j)
<1> USE DEF RunOK, Rest
<1>0. \/ i.at = "preflight" /\ j.at = "ask"
      \/ i.at = "ask" /\ j.at = "await"
      \/ i.at = "confirm" /\ j.at = "delete"
      \/ i.at = "run" /\ j.at = "getClaim" /\ i.cmd.op = "claimCreate"
      \/ i.at = "getClaim" /\ j.at = "create" /\ i.cmd.op = "claimCreate"
      \/ i.at = "run" /\ j.at = "fate" /\ i.cmd.op = "claimRelease"
      \/ i.at = "run" /\ j.at = "listPools" /\ i.cmd.op = "poolRelease"
  BY DEF OnTheWay
<1>1. CommandOK(j)
  BY <1>0 DEF CommandOK, Creates, Working, Before
<1>3. ChangesOK(gated, j)
  BY <1>0 DEF ChangesOK, CommandOK, Working, Creates
<1>4. PlanOK(j)
  BY Zenon, <1>0 DEF PlanOK
<1>5. AnswerOK(j)
  BY <1>0 DEF AnswerOK
<1> QED BY <1>1, <1>3, <1>4, <1>5

\* It holds of an invocation that has just started,
LEMMA InvokedOK ==
  ASSUME NEW gated, NEW j, j.at \in {"preflight", "run"}, gated => j.at = "preflight", Blank(j.exit), j.changed = {},
         j.cmd.op = "claimCreate" => j.cmd.ns \in Namespaces,
         j.cmd.op = "poolCreate" => ~Blank(j.cmd.name)
  PROVE  RunOK(gated, j)
<1>0. j.at \in {"preflight", "run"} /\ (gated => j.at = "preflight")
  OBVIOUS
<1>1. CommandOK(j)
  BY <1>0 DEF CommandOK, Creates, Working, Before, Exits
<1>3. ChangesOK(gated, j)
  BY <1>0 DEF ChangesOK, Working, Creates
<1>4. PlanOK(j)
  BY <1>0 DEF PlanOK
<1>5. AnswerOK(j)
  BY <1>0 DEF AnswerOK
<1> QED BY <1>1, <1>3, <1>4, <1>5 DEF RunOK

\* of one that has no project to be entitled,
LEMMA UngatedOK ==
  ASSUME NEW gated, NEW i, NEW j, RunOK(gated, i), ~gated, i.at = "preflight", Rest(i, j),
         j.at = "run", j.exit = i.exit
  PROVE  RunOK(gated, j)
<1> USE DEF RunOK, Rest
<1>1. CommandOK(j)
  BY DEF CommandOK, Creates, Working, Before, Exits
<1>3. ChangesOK(gated, j)
  BY DEF ChangesOK
<1>4. PlanOK(j)
  BY DEF PlanOK
<1>5. AnswerOK(j)
  BY DEF AnswerOK
<1> QED BY <1>1, <1>3, <1>4, <1>5

\* of one that has passed the preflight,
LEMMA EntitledOK ==
  ASSUME NEW gated, NEW i, NEW j, RunOK(gated, i), i.at \in {"preflight", "await"},
         j.at = "run", j.entitled, j.cmd = i.cmd, j.exit = i.exit, j.changed = i.changed
  PROVE  RunOK(gated, j)
<1>1. CommandOK(j)
  BY DEF CommandOK, Creates, Working, Before, Exits, RunOK
<1>3. ChangesOK(gated, j)
  BY DEF ChangesOK, RunOK
<1>4. PlanOK(j)
  BY DEF PlanOK
<1>5. AnswerOK(j)
  BY DEF AnswerOK
<1> QED BY <1>1, <1>3, <1>4, <1>5 DEF RunOK

\* of one whose nameless claim was given a name,
LEMMA NamedOK ==
  ASSUME NEW gated, NEW i, NEW j, RunOK(gated, i), i.at = "run", i.cmd.op = "claimCreate",
         j.at = "create", j.entitled = i.entitled, j.exit = i.exit, j.changed = i.changed,
         j.cmd.op = i.cmd.op, j.cmd.ns = i.cmd.ns, j.cmd.dry = i.cmd.dry
  PROVE  RunOK(gated, j)
<1>1. CommandOK(j)
  BY DEF CommandOK, Creates, Working, Before, Exits, RunOK
<1>3. ChangesOK(gated, j)
  BY DEF ChangesOK, Working, RunOK
<1>4. PlanOK(j)
  BY DEF PlanOK
<1>5. AnswerOK(j)
  BY DEF AnswerOK
<1> QED BY <1>1, <1>3, <1>4, <1>5 DEF RunOK

\* of one that read the class it asks for,
LEMMA ClassOK ==
  ASSUME NEW gated, NEW i, NEW j, RunOK(gated, i), i.at = "create",
         j.at = "admit", j.entitled = i.entitled, j.exit = i.exit, j.changed = i.changed,
         j.cmd = i.cmd, NEW k, j.class = <<k>>, ~Blank(k.name), ~Blank(k.family),
         Agrees(i.cmd.class, k.name), Agrees(i.cmd.family, k.family)
  PROVE  RunOK(gated, j)
<1>1. CommandOK(j)
  BY DEF CommandOK, Creates, Working, Before, Exits, RunOK
<1>3. ChangesOK(gated, j)
  BY DEF ChangesOK, Working, Creates, RunOK
<1>4. PlanOK(j)
  BY DEF PlanOK
<1>5. AnswerOK(j)
  <2>1. 1 \in DOMAIN j.class /\ j.class[1] = k /\ j.cmd = i.cmd /\ j.at # "done"
    OBVIOUS
  <2> QED BY <2>1 DEF AnswerOK
<1> QED BY <1>1, <1>3, <1>4, <1>5 DEF RunOK

\* An answer, of a create that ends with a claim among others.
LEMMA ReplyOK ==
  ASSUME NEW gated, NEW i, NEW j, RunOK(gated, i), i.at \in Working \ {"delete"},
         j.at = "done", j.entitled = i.entitled, j.exit \in Exits, j.cmd = i.cmd,
         i.cmd.op \notin Releases,
         i.cmd.dry \/ j.exit \notin {"OK", "Unavailable", "Error"} => j.changed \subseteq ParentPools(j),
         i.cmd.op = "claimCreate" /\ j.exit = "OK" => Fits(i.cmd, j.answer[1])
  PROVE  RunOK(gated, j)
<1>1. CommandOK(j)
  BY DEF CommandOK, Creates, Working, Before, Exits, RunOK
<1>3. ChangesOK(gated, j)
  <2>1. gated => i.entitled
    BY DEF ChangesOK, RunOK
  <2> QED BY <2>1 DEF ChangesOK
<1>4. PlanOK(j)
  BY DEF PlanOK
<1>5. AnswerOK(j)
  BY DEF AnswerOK
<1> QED BY <1>1, <1>3, <1>4, <1>5 DEF RunOK

\* and of one that listed the children of its pool.
LEMMA ListedOK ==
  ASSUME NEW gated, NEW i, NEW j, RunOK(gated, i), i.at = "listPools",
         j.at = "listClaims", j.entitled = i.entitled, j.exit = i.exit, j.changed = i.changed,
         j.cmd = i.cmd, j.cmd.name \notin j.children, IsFiniteSet(j.children)
  PROVE  RunOK(gated, j)
<1>1. CommandOK(j)
  BY DEF CommandOK, Creates, Working, Before, Exits, RunOK
<1>3. ChangesOK(gated, j)
  BY DEF ChangesOK, Working, Creates, RunOK
<1>4. PlanOK(j)
  BY DEF PlanOK
<1>5. AnswerOK(j)
  BY DEF AnswerOK
<1> QED BY <1>1, <1>3, <1>4, <1>5 DEF RunOK

-----------------------------------------------------------------------------
(***************************************************************************)
(* Plans, and what is left of them.                                        *)
(***************************************************************************)
\* A plan loses its first delete.
LEMMA TailOfPlan ==
  ASSUME NEW S, NEW q \in Seq(S), q # <<>>
  PROVE  /\ Tail(q) \in Seq(S) /\ Len(Tail(q)) = Len(q) - 1 /\ Len(q) \in Nat \ {0}
         /\ \A n \in 1 .. Len(Tail(q)) : Tail(q)[n] = q[n + 1]
         /\ Head(q) = q[1]
         /\ Range(q) = {Head(q)} \cup Range(Tail(q))
<1>1. /\ Tail(q) \in Seq(S) /\ Len(Tail(q)) = Len(q) - 1 /\ Len(q) \in Nat \ {0}
      /\ \A n \in 1 .. Len(Tail(q)) : Tail(q)[n] = q[n + 1]
      /\ Head(q) = q[1]
  OBVIOUS
<1>2. DOMAIN q = 1 .. Len(q) /\ DOMAIN Tail(q) = 1 .. (Len(q) - 1)
  BY <1>1
<1>3. ASSUME NEW x \in Range(q) PROVE x \in {Head(q)} \cup Range(Tail(q))
  <2>1. PICK n \in 1 .. Len(q) : x = q[n]
    BY <1>2 DEF Range
  <2>2. CASE n = 1
    BY <1>1, <2>1, <2>2
  <2>3. CASE n # 1
    <3>1. n - 1 \in 1 .. (Len(q) - 1) /\ (n - 1) + 1 = n
      BY <1>1, <2>1, <2>3
    <3>2. Tail(q)[n - 1] = q[n]
      BY <1>1, <3>1
    <3> QED BY Zenon, <1>2, <2>1, <3>1, <3>2 DEF Range
  <2> QED BY <2>2, <2>3
<1>4. ASSUME NEW x \in {Head(q)} \cup Range(Tail(q)) PROVE x \in Range(q)
  <2>1. CASE x = Head(q)
    BY <1>1, <1>2, <2>1 DEF Range
  <2>2. CASE x \in Range(Tail(q))
    <3>1. PICK n \in 1 .. (Len(q) - 1) : x = Tail(q)[n]
      BY <1>2, <2>2 DEF Range
    <3>2. x = q[n + 1] /\ n + 1 \in 1 .. Len(q)
      BY <1>1, <3>1
    <3> QED BY <1>2, <3>2 DEF Range
  <2> QED BY <2>1, <2>2
<1> QED BY <1>1, <1>3, <1>4

\* A finite set is listed, in some order.
LEMMA SetIsListed ==
  ASSUME NEW S, IsFiniteSet(S)
  PROVE  Listing(S) \in Seq(S)
<1>1. Cardinality(S) \in Nat /\ ExistsBijection(1 .. Cardinality(S), S)
  BY FS_CardinalityType
<1>2. PICK f \in [1 .. Cardinality(S) -> S] : IsInjective(f)
  BY <1>1 DEF ExistsBijection, Bijection, Injection, IsInjective
<1>3. Listing(S) \in [1 .. Cardinality(S) -> S]
  BY Zenon, <1>2 DEF Listing
<1> QED BY <1>1, <1>3

\* What is listed can be counted.
LEMMA TagsAreFinite ==
  ASSUME NEW S, IsFiniteSet(S), NEW tag
  PROVE  IsFiniteSet({<<tag, k>> : k \in S})
<1> DEFINE T == {<<tag, k>> : k \in S}
           f == [k \in S |-> <<tag, k>>]
<1>1. f \in Surjection(S, T)
  <2>1. f \in [S -> T] /\ \A t \in T : \E k \in S : f[k] = t
    OBVIOUS
  <2> HIDE DEF f, T
  <2> QED BY <2>1 DEF Surjection
<1> HIDE DEF f, T
<1>2. IsFiniteSet(T)
  BY <1>1, FS_Surjection
<1> QED BY <1>2 DEF T

\* A plan that ends with its only delete of the pool.
LEMMA PlanEnds ==
  ASSUME NEW S, NEW a \in Seq(S), NEW b \in Seq(S), NEW p \in S,
         \A n \in 1 .. Len(a) : a[n] # p, \A n \in 1 .. Len(b) : b[n] # p,
         NEW q, q = (a \o b) \o <<p>>
  PROVE  /\ q \in Seq(S) /\ q # <<>>
         /\ \A n \in 1 .. Len(q) : q[n] = p => n = Len(q)
<1> DEFINE c == a \o b
<1>0. q = c \o <<p>>
  OBVIOUS
<1>1. c \in Seq(S) /\ \A n \in 1 .. Len(c) : c[n] # p
  OBVIOUS
<1>2. q \in Seq(S) /\ Len(q) = Len(c) + 1 /\ \A n \in 1 .. Len(c) : q[n] = c[n]
  <2> HIDE DEF c
  <2> QED BY <1>0, <1>1
<1>3. Len(c) \in Nat
  BY <1>1
<1> HIDE DEF c
<1>4. q # <<>> /\ \A n \in 1 .. Len(q) : q[n] = p => n = Len(q)
  BY <1>1, <1>2, <1>3
<1> QED BY <1>2, <1>4

\* The plan of a command: the pool it is for comes last, if at all, and without
\* --cascade it is all there is to delete.
PlanFor(c, q) ==
  /\ \E S : q \in Seq(Kinds \X S)
  /\ q # <<>>
  /\ \A n \in 1 .. Len(q) : q[n] = <<"pool", c.name>> => n = Len(q)
  /\ ~c.cascade /\ ~c.dry => Len(q) = 1

\* A release shows what it would do.
LEMMA PlannedOK ==
  ASSUME NEW gated, NEW i, NEW j, RunOK(gated, i), i.at \in {"run", "fate", "listClaims"},
         i.cmd.op \in Releases, j.cmd = i.cmd, j.changed = i.changed,
         j.entitled = i.entitled, j.planned = Range(j.queue), PlanFor(i.cmd, j.queue),
         j.at = IF i.cmd.dry THEN "done" ELSE "confirm",
         IF i.cmd.dry THEN j.exit = "OK" ELSE Blank(j.exit)
  PROVE  RunOK(gated, j)
<1>1. CommandOK(j)
  BY DEF CommandOK, Creates, Working, Before, Exits, RunOK, Releases
<1>2. i.changed = {} /\ (gated => i.entitled)
  BY DEF ChangesOK, RunOK, Working
<1>3. ChangesOK(gated, j)
  BY <1>2 DEF ChangesOK
<1>4. PlanOK(j)
  <2>1. CASE i.cmd.dry
    BY <2>1 DEF PlanOK
  <2>2. CASE ~i.cmd.dry
    <3>1. j.at = "confirm" /\ j.planned = j.changed \cup Range(j.queue) /\ <<"pool", j.cmd.name>> \notin j.changed
      BY <1>2, <2>2
    <3> QED BY <1>2, <2>2, <3>1 DEF PlanOK, PlanFor
  <2> QED BY <2>1, <2>2
<1>5. AnswerOK(j)
  BY DEF AnswerOK, Releases
<1> QED BY <1>1, <1>3, <1>4, <1>5 DEF RunOK

\* One delete of the plan is done, and the release goes on or ends.
LEMMA DeletedOK ==
  ASSUME NEW gated, NEW i, NEW j, RunOK(gated, i), i.at = "delete",
         j.cmd = i.cmd, j.planned = i.planned, j.entitled = i.entitled,
         j.queue = Tail(i.queue), j.changed = i.changed \cup {Head(i.queue)},
         \/ j.at = "delete" /\ Blank(j.exit) /\ Tail(i.queue) # <<>>
         \/ j.at = "done" /\ j.exit = "OK" /\ Tail(i.queue) = <<>>
         \/ j.at = "done" /\ j.exit \in {"Unavailable", "Error"}
  PROVE  RunOK(gated, j)
<1> DEFINE pool == <<"pool", i.cmd.name>>
<1>1. CommandOK(j)
  BY DEF CommandOK, Creates, Working, Before, Exits, RunOK
<1>2. /\ i.cmd.op \in Releases /\ ~i.cmd.dry /\ (gated => i.entitled)
  BY DEF ChangesOK, CommandOK, RunOK, Working
<1>3. ChangesOK(gated, j)
  BY <1>2 DEF ChangesOK
<1>4. PICK S : i.queue \in Seq(Kinds \X S)
  BY Zenon DEF PlanOK, RunOK
<1>5. /\ i.queue # <<>> /\ i.planned = i.changed \cup Range(i.queue) /\ pool \notin i.changed
      /\ \A n \in 1 .. Len(i.queue) : i.queue[n] = pool => n = Len(i.queue)
      /\ ~i.cmd.cascade => Len(i.queue) = 1
  BY DEF PlanOK, RunOK
<1> DEFINE t == Tail(i.queue)
<1>6. /\ t \in Seq(Kinds \X S) /\ Len(t) = Len(i.queue) - 1 /\ Len(i.queue) \in Nat \ {0}
      /\ \A n \in 1 .. Len(t) : t[n] = i.queue[n + 1]
      /\ Head(i.queue) = i.queue[1] /\ Range(i.queue) = {Head(i.queue)} \cup Range(t)
  BY <1>4, <1>5, TailOfPlan
<1>7. t = <<>> => Range(t) = {}
  BY DEF Range
<1> HIDE DEF pool, t
<1>8. j.planned = j.changed \cup Range(t)
  BY <1>5, <1>6
<1>9. pool \in j.changed => t = <<>>
  <2> SUFFICES ASSUME pool \in j.changed PROVE t = <<>>
    OBVIOUS
  <2>1. i.queue[1] = pool
    BY <1>5, <1>6
  <2>2. 1 \in 1 .. Len(i.queue)
    BY <1>6
  <2>3. Len(i.queue) = 1
    BY Zenon, <1>5, <2>1, <2>2
  <2> QED BY <1>6, <2>3
<1>10. \A n \in 1 .. Len(t) : t[n] = pool => n = Len(t)
  <2> SUFFICES ASSUME NEW n \in 1 .. Len(t), t[n] = pool PROVE n = Len(t)
    OBVIOUS
  <2>1. n + 1 \in 1 .. Len(i.queue) /\ i.queue[n + 1] = pool
    BY <1>6
  <2>2. n + 1 = Len(i.queue)
    BY <1>5, <2>1
  <2> QED BY <1>6, <2>2
<1>11. t # <<>> => i.cmd.cascade
  BY <1>5, <1>6
<1>12. PlanOK(j)
  <2>1. j.queue = t /\ pool = <<"pool", j.cmd.name>>
    BY DEF t, pool
  <2>2. CASE j.at = "delete" /\ t # <<>>
    <3>1. \E U : j.queue \in Seq(Kinds \X U)
      BY Zenon, <1>6, <2>1
    <3> QED BY Zenon, <1>8, <1>9, <1>10, <1>11, <2>1, <2>2, <3>1 DEF PlanOK
  <2>3. CASE j.at = "done" /\ (j.exit = "OK" => t = <<>>)
    BY <1>7, <1>8, <1>9, <2>1, <2>3 DEF PlanOK
  <2> QED BY <2>2, <2>3 DEF t
<1>13. AnswerOK(j)
  BY <1>2 DEF AnswerOK, Releases
<1> QED BY <1>1, <1>3, <1>12, <1>13 DEF RunOK

-----------------------------------------------------------------------------
(***************************************************************************)
(* What the server holds.                                                  *)
(***************************************************************************)
ClaimOf(V) ==
  [class : V, family : V, scope : V, address : V, policy : V, size : V, pool : V, block : V, phase : V]

AllocationOf(V) == [bound : V, class : V, pool : V, block : V, scope : V, policy : V]

ClassesOK ==
  \A n \in DOMAIN classes : classes[n].name = n /\ ~Blank(n) /\ ~Blank(classes[n].family)

ClaimOK(c) == (\E V : c \in ClaimOf(V)) /\ ~Blank(c.class) /\ ~Blank(c.family)

ClaimsOK == IsFiniteSet(DOMAIN claims) /\ \A k \in DOMAIN claims : ClaimOK(claims[k])

AllocsOK == \A k \in DOMAIN allocs : \E V : allocs[k] \in AllocationOf(V)

PoolsOK ==
  /\ IsFiniteSet(DOMAIN pools)
  /\ \A p \in DOMAIN pools : ~Blank(p) /\ pools[p].parent # p
  /\ \A p \in DOMAIN pools : Blank(pools[p].parent) \/ pools[p].parent \in DOMAIN pools

HoldersOK ==
  /\ DOMAIN claims \subseteq DOMAIN allocs
  /\ \A k \in DOMAIN claims : allocs[k].bound /\ allocs[k].block = claims[k].block
  /\ \A k \in DOMAIN allocs : allocs[k].pool \in DOMAIN pools

ServerInv == ClassesOK /\ ClaimsOK /\ AllocsOK /\ PoolsOK /\ HoldersOK

\* The last conjunct of TypeOK is part of it.
LEMMA StoredIs == ServerInv => Stored(pools, claims, allocs)
BY DEF ServerInv, PoolsOK, HoldersOK, Blank, Stored

\* What taking an entry out of a table leaves.
LEMMA WithoutIs ==
  ASSUME NEW f, NEW k
  PROVE  /\ DOMAIN Without(f, k) = DOMAIN f \ {k}
         /\ \A x \in DOMAIN f \ {k} : Without(f, k)[x] = f[x]
BY DEF Without, Restrict

\* A claim is released: its allocation goes with it, or stays for Retain.
LEMMA ReleaseKeeps ==
  ASSUME ServerInv, NEW k, releaseAndDelete(k), UNCHANGED <<classes, pools>>
  PROVE  ServerInv'
<1> USE DEF ServerInv
<1>1. /\ DOMAIN claims' = DOMAIN claims \ {k}
      /\ \A x \in DOMAIN claims \ {k} : claims'[x] = claims[x]
  BY Zenon, WithoutIs DEF releaseAndDelete
<1>2. IsFiniteSet(DOMAIN claims')
  BY <1>1, FS_Subset DEF ClaimsOK
<1>3. ClassesOK' /\ PoolsOK' /\ ClaimsOK'
  BY <1>1, <1>2 DEF ClassesOK, PoolsOK, ClaimsOK
<1>4. CASE k \in DOMAIN allocs /\ allocs[k].policy = "Retain"
  <2>1. allocs' = [allocs EXCEPT ![k].bound = FALSE]
    BY <1>4 DEF releaseAndDelete
  <2>2. PICK V : allocs[k] \in AllocationOf(V)
    BY <1>4 DEF AllocsOK
  <2>3. /\ allocs'[k] \in AllocationOf(V \cup {FALSE})
        /\ allocs'[k].pool = allocs[k].pool
    BY Zenon, <1>4, <2>1, <2>2 DEF AllocationOf
  <2>4. DOMAIN allocs' = DOMAIN allocs /\ \A x \in DOMAIN allocs \ {k} : allocs'[x] = allocs[x]
    BY <2>1
  <2>5. AllocsOK'
    BY <2>3, <2>4 DEF AllocsOK
  <2>6. HoldersOK'
    BY <1>1, <2>3, <2>4 DEF HoldersOK
  <2> QED BY <1>3, <2>5, <2>6
<1>5. CASE ~(k \in DOMAIN allocs /\ allocs[k].policy = "Retain")
  <2>1. allocs' = Without(allocs, k)
    BY <1>5 DEF releaseAndDelete
  <2>2. /\ DOMAIN allocs' = DOMAIN allocs \ {k}
        /\ \A x \in DOMAIN allocs \ {k} : allocs'[x] = allocs[x]
    BY Zenon, <2>1, WithoutIs
  <2>3. AllocsOK'
    BY <2>2 DEF AllocsOK
  <2>4. HoldersOK'
    BY <1>1, <2>2 DEF HoldersOK
  <2> QED BY <1>3, <2>3, <2>4
<1> QED BY <1>4, <1>5

\* What no claim holds is deleted.
LEMMA AllocationGoes ==
  ASSUME ServerInv, NEW k \in DOMAIN allocs, ~allocs[k].bound,
         allocs' = Without(allocs, k), UNCHANGED <<classes, pools, claims>>
  PROVE  ServerInv'
<1> USE DEF ServerInv
<1>1. /\ DOMAIN allocs' = DOMAIN allocs \ {k}
      /\ \A x \in DOMAIN allocs \ {k} : allocs'[x] = allocs[x]
  BY Zenon, WithoutIs
<1>2. ClassesOK' /\ PoolsOK' /\ ClaimsOK'
  BY DEF ClassesOK, PoolsOK, ClaimsOK
<1>3. AllocsOK'
  BY <1>1 DEF AllocsOK
<1>4. HoldersOK'
  BY <1>1 DEF HoldersOK
<1> QED BY <1>2, <1>3, <1>4

\* A pool nothing is taken from is deleted.
LEMMA PoolGoes ==
  ASSUME ServerInv, NEW k \in DOMAIN pools, Children(k) = {},
         \A a \in DOMAIN allocs : allocs[a].pool # k,
         pools' = Without(pools, k), UNCHANGED <<classes, claims, allocs>>
  PROVE  ServerInv'
<1> USE DEF ServerInv
<1>1. /\ DOMAIN pools' = DOMAIN pools \ {k}
      /\ \A x \in DOMAIN pools \ {k} : pools'[x] = pools[x]
  BY Zenon, WithoutIs
<1>2. ClassesOK' /\ AllocsOK' /\ ClaimsOK'
  BY DEF ClassesOK, AllocsOK, ClaimsOK
<1>3. IsFiniteSet(DOMAIN pools')
  BY <1>1, FS_Subset DEF PoolsOK
<1>4. \A p \in DOMAIN pools : pools[p].parent # k
  BY DEF Children
<1>5. PoolsOK'
  BY <1>1, <1>3, <1>4 DEF PoolsOK
<1>6. HoldersOK'
  BY <1>1 DEF HoldersOK
<1> QED BY <1>2, <1>5, <1>6

\* A release that failed after its first transaction.
LEMMA ReleasingKeeps ==
  ASSUME ServerInv, NEW k \in DOMAIN claims, claims' = [claims EXCEPT ![k].phase = "Releasing"],
         UNCHANGED <<classes, pools, allocs>>
  PROVE  ServerInv'
<1> USE DEF ServerInv
<1>1. PICK V : claims[k] \in ClaimOf(V)
  BY DEF ClaimsOK, ClaimOK
<1>2. /\ claims'[k] \in ClaimOf(V \cup {"Releasing"})
      /\ claims'[k].class = claims[k].class /\ claims'[k].family = claims[k].family
      /\ claims'[k].block = claims[k].block
  BY <1>1 DEF ClaimOf
<1>3. DOMAIN claims' = DOMAIN claims /\ \A x \in DOMAIN claims \ {k} : claims'[x] = claims[x]
  OBVIOUS
<1>4. ClassesOK' /\ AllocsOK' /\ PoolsOK'
  BY DEF ClassesOK, AllocsOK, PoolsOK
<1>5. ClaimsOK'
  BY <1>2, <1>3 DEF ClaimsOK, ClaimOK
<1>6. HoldersOK'
  BY <1>2, <1>3 DEF HoldersOK
<1> QED BY <1>4, <1>5, <1>6

\* A claim and its allocation are stored, once the pool they are from is there.
LEMMA ClaimStored ==
  ASSUME ServerInv, NEW k, NEW claim, NEW alloc, ClaimOK(claim),
         \E V : alloc \in AllocationOf(V), alloc.bound, alloc.block = claim.block,
         PoolsOK', DOMAIN pools \subseteq DOMAIN pools', alloc.pool \in DOMAIN pools',
         claims' = With(claims, k, claim), allocs' = With(allocs, k, alloc), UNCHANGED classes
  PROVE  ServerInv'
<1> USE DEF ServerInv
<1>1. /\ DOMAIN claims' = DOMAIN claims \cup {k} /\ claims'[k] = claim
      /\ \A x \in DOMAIN claims \ {k} : claims'[x] = claims[x]
  BY DEF With
<1>2. /\ DOMAIN allocs' = DOMAIN allocs \cup {k} /\ allocs'[k] = alloc
      /\ \A x \in DOMAIN allocs \ {k} : allocs'[x] = allocs[x]
  BY DEF With
<1>3. ClassesOK'
  BY DEF ClassesOK
<1>4. IsFiniteSet(DOMAIN claims')
  BY <1>1, FS_AddElement DEF ClaimsOK
<1>5. ClaimsOK'
  BY <1>1, <1>4 DEF ClaimsOK
<1>6. AllocsOK'
  BY <1>2 DEF AllocsOK
<1>7. HoldersOK'
  BY <1>1, <1>2 DEF HoldersOK
<1> QED BY <1>3, <1>5, <1>6, <1>7

\* What a create stores: the class it resolved to, whatever was asked.
LEMMA BoundClaimIs ==
  ASSUME NEW c, NEW class, ~Blank(class.name), ~Blank(class.family)
  PROVE  /\ ClaimOK(boundClaim(c, class))
         /\ boundClaim(c, class).class = class.name /\ boundClaim(c, class).family = class.family
         /\ boundClaim(c, class).scope = c.scope
<1> DEFINE b == boundClaim(c, class)
           V == {class.name, class.family, c.scope, c.address, c.policy, c.size, drawsFrom(class),
                 LowestOf(claimRoom(c, class)), "Bound"}
<1>1. /\ b \in ClaimOf(V) /\ b.class = class.name /\ b.family = class.family /\ b.scope = c.scope
  BY Zenon DEF boundClaim, ClaimOf
<1> HIDE DEF b, V
<1>2. ClaimOK(b)
  BY <1>1 DEF ClaimOK
<1> QED BY <1>1, <1>2 DEF b

\* An allocation that is made is of the claim's class, pool and block.
LEMMA AllocationIs ==
  ASSUME NEW c, NEW class
  PROVE  /\ \E V : allocationOf(c, class) \in AllocationOf(V)
         /\ allocationOf(c, class).bound /\ allocationOf(c, class).pool = drawsFrom(class)
         /\ allocationOf(c, class).block = boundClaim(c, class).block
<1> DEFINE a == allocationOf(c, class)
           policy == IF c.policy # Unset THEN c.policy ELSE class.policy
           V == {TRUE, class.name, drawsFrom(class), boundClaim(c, class).block, c.scope, policy}
<1>1. a = [bound |-> TRUE, class |-> class.name, pool |-> drawsFrom(class),
           block |-> boundClaim(c, class).block, scope |-> c.scope, policy |-> policy]
  BY Zenon DEF allocationOf
<1> HIDE DEF policy
<1> HIDE DEF a
<1>2. a \in AllocationOf(V) /\ a.bound /\ a.pool = drawsFrom(class) /\ a.block = boundClaim(c, class).block
  BY <1>1 DEF AllocationOf
<1> HIDE DEF V
<1> QED BY <1>2 DEF a

\* A pool is created, with the parent it names if it names one.
LEMMA PoolStored ==
  ASSUME ServerInv, NEW k, k \notin DOMAIN pools, ~Blank(k), NEW pool,
         Blank(pool.parent) \/ pool.parent \in DOMAIN pools,
         pools' = With(pools, k, pool), UNCHANGED <<classes, claims, allocs>>
  PROVE  ServerInv'
<1> USE DEF ServerInv
<1>1. /\ DOMAIN pools' = DOMAIN pools \cup {k} /\ pools'[k] = pool
      /\ \A x \in DOMAIN pools \ {k} : pools'[x] = pools[x]
  BY DEF With
<1>2. ClassesOK' /\ AllocsOK' /\ ClaimsOK'
  BY DEF ClassesOK, AllocsOK, ClaimsOK
<1>3. IsFiniteSet(DOMAIN pools')
  BY <1>1, FS_AddElement DEF PoolsOK
<1>4. pool.parent # k
  <2>1. CASE Blank(pool.parent)
    BY <2>1
  <2> QED BY <2>1
<1>5. PoolsOK'
  BY <1>1, <1>3, <1>4 DEF PoolsOK
<1>6. HoldersOK'
  BY <1>1 DEF HoldersOK
<1> QED BY <1>2, <1>5, <1>6

\* The pool a create is served from is there when ResolvePool returns, or was
\* already.
LEMMA PoolResolved ==
  ASSUME ServerInv, NEW c, NEW class, pools' = ResolvePool(c, class)
  PROVE  PoolsOK' /\ DOMAIN pools \subseteq DOMAIN pools'
<1>1. CASE Provisions(c, class)
  <2> DEFINE new == [parent |-> class.pool, provisioned |-> TRUE,
                     range |-> LowestOf(carveRoom(class.pool, class.levelSize))]
  <2>0. pools' = With(pools, class.level, new) /\ new.parent = class.pool
    BY Zenon, <1>1 DEF ResolvePool
  <2> HIDE DEF new
  <2>1. PICK k, pool : k = class.level /\ pools' = With(pools, k, pool) /\ pool.parent = class.pool
    BY Zenon, <2>0
  <2>2. ~Blank(k) /\ k \notin DOMAIN pools /\ pool.parent \in DOMAIN pools
    BY Zenon, <1>1, <2>1 DEF Provisions, Blank
  <2>3. /\ DOMAIN pools' = DOMAIN pools \cup {k} /\ pools'[k] = pool
        /\ \A x \in DOMAIN pools \ {k} : pools'[x] = pools[x]
    BY <2>1 DEF With
  <2>4. IsFiniteSet(DOMAIN pools')
    BY <2>3, FS_AddElement DEF ServerInv, PoolsOK
  <2> QED BY <2>2, <2>3, <2>4 DEF ServerInv, PoolsOK
<1>2. CASE ~Provisions(c, class)
  <2>1. UNCHANGED pools
    BY Zenon, <1>2 DEF ResolvePool
  <2> QED BY <2>1 DEF ServerInv, PoolsOK
<1> QED BY <1>1, <1>2

\* A class is retired.
LEMMA ClassGone ==
  ASSUME ServerInv, NEW n, classes' = Without(classes, n), UNCHANGED <<pools, claims, allocs>>
  PROVE  ServerInv'
<1> USE DEF ServerInv
<1>1. /\ DOMAIN classes' = DOMAIN classes \ {n}
      /\ \A x \in DOMAIN classes \ {n} : classes'[x] = classes[x]
  BY Zenon, WithoutIs
<1>2. ClassesOK'
  BY <1>1 DEF ClassesOK
<1> QED BY <1>2 DEF ClaimsOK, AllocsOK, PoolsOK, HoldersOK

\* A namespace goes with all that is in it.
LEMMA NamespaceCleared ==
  ASSUME ServerInv, NEW K, NEW L, K \subseteq DOMAIN claims, L \subseteq DOMAIN allocs, K \subseteq L,
         claims' = Restrict(claims, K), allocs' = Restrict(allocs, L), UNCHANGED <<classes, pools>>
  PROVE  ServerInv'
<1> USE DEF ServerInv
<1>1. /\ DOMAIN claims' = K /\ \A x \in K : claims'[x] = claims[x]
      /\ DOMAIN allocs' = L /\ \A x \in L : allocs'[x] = allocs[x]
  BY DEF Restrict
<1>2. IsFiniteSet(DOMAIN claims')
  BY <1>1, FS_Subset DEF ClaimsOK
<1>3. ClassesOK' /\ PoolsOK'
  BY DEF ClassesOK, PoolsOK
<1>4. ClaimsOK' /\ AllocsOK'
  BY <1>1, <1>2 DEF ClaimsOK, AllocsOK
<1>5. HoldersOK'
  BY <1>1 DEF HoldersOK
<1> QED BY <1>3, <1>4, <1>5

\* What stands still stays right.
LEMMA SameServer ==
  ASSUME ServerInv, UNCHANGED serverVars
  PROVE  ServerInv'
BY DEF ServerInv, serverVars, ClassesOK, ClaimsOK, AllocsOK, PoolsOK, HoldersOK

-----------------------------------------------------------------------------
(***************************************************************************)
(* The invariant, and what the steps of an invocation do to it.            *)
(***************************************************************************)
\* Only a create that reached the server has a namespace check.
ChecksOK ==
  /\ DOMAIN check = Requests
  /\ \A u \in Requests : inv[u].at # "admit" => check[u].at = "idle"

RunsOK == \A u \in Requests : RunOK(Gated(world), inv[u])

ClientInv == world \in Worlds /\ InvTyped /\ RunsOK /\ ServerInv /\ ChecksOK

\* A step of one invocation that leaves the rest alone.
LEMMA OwnStep ==
  ASSUME ClientInv, NEW u \in Requests, InvTyped', Only(u), RunOK(Gated(world), inv'[u]),
         world' = world, ServerInv', ChecksOK'
  PROVE  ClientInv'
BY DEF ClientInv, RunsOK, Only

\* A check no one touches stays right.
LEMMA SameChecks ==
  ASSUME ClientInv, NEW u \in Requests, inv[u].at # "admit", Only(u), UNCHANGED check
  PROVE  ChecksOK'
BY DEF ClientInv, ChecksOK, Only

\* A step that leaves the server and the checks alone keeps the invariant when
\* its own invocation is in order.
LEMMA QuietStep ==
  ASSUME ClientInv, NEW u \in Requests, inv[u].at # "admit", InvTyped', Only(u),
         RunOK(Gated(world), inv'[u]), UNCHANGED <<world, serverVars, gateVars>>
  PROVE  ClientInv'
<1>1. ServerInv'
  BY SameServer DEF ClientInv
<1>2. ChecksOK'
  BY SameChecks DEF gateVars
<1> QED BY <1>1, <1>2, OwnStep

\* An invocation ends, with code 0 only if it neither claims nor releases.
LEMMA ExitKeeps ==
  ASSUME ClientInv, NEW u \in Requests, NEW code \in Exits, Exit(u, code),
         inv[u].at \notin {"idle", "done", "admit"},
         code = "OK" => inv[u].cmd.op \notin Releases \cup {"claimCreate"},
         UNCHANGED <<world, serverVars, gateVars>>
  PROVE  ClientInv'
<1>1. InvTyped /\ RunOK(Gated(world), inv[u])
  BY DEF ClientInv, RunsOK
<1>2. /\ InvTyped' /\ Only(u) /\ Rest(inv[u], inv'[u])
      /\ inv'[u].at = "done" /\ inv'[u].exit = code
  BY <1>1, ExitGoes
<1>3. RunOK(Gated(world), inv'[u])
  BY <1>1, <1>2, EndsOK
<1> QED BY <1>2, <1>3, QuietStep

\* So does a call nobody answers,
LEMMA LostKeeps ==
  ASSUME ClientInv, NEW u \in Requests, Lost(u), inv[u].at \notin {"idle", "done", "admit"},
         UNCHANGED world
  PROVE  ClientInv'
<1>1. Exit(u, "Unavailable") /\ UNCHANGED <<world, serverVars, gateVars>> /\ "Unavailable" \in Exits
  BY DEF Lost, Exits
<1> QED BY <1>1, ExitKeeps

\* and going on to the next call.
LEMMA MoveKeeps ==
  ASSUME ClientInv, NEW u \in Requests, NEW at, Move(u, at), inv[u].at # "admit",
         <<inv[u].at, at>> \in OnTheWay(inv[u].cmd.op), UNCHANGED <<world, serverVars, gateVars>>
  PROVE  ClientInv'
<1>1. InvTyped /\ RunOK(Gated(world), inv[u])
  BY DEF ClientInv, RunsOK
<1>2. /\ InvTyped' /\ Only(u) /\ Rest(inv[u], inv'[u])
      /\ inv'[u].at = at /\ inv'[u].exit = inv[u].exit
  BY <1>1, MoveGoes
<1>3. RunOK(Gated(world), inv'[u])
  BY <1>1, <1>2, MovesOK
<1> QED BY <1>2, <1>3, QuietStep

\* The entitlement is Active.
LEMMA EntitledKeeps ==
  ASSUME ClientInv, NEW u \in Requests, inv[u].at \in {"preflight", "await"},
         inv' = [inv EXCEPT ![u].at = "run", ![u].entitled = TRUE],
         UNCHANGED <<world, serverVars, gateVars>>
  PROVE  ClientInv'
<1>1. InvTyped /\ RunOK(Gated(world), inv[u])
  BY DEF ClientInv, RunsOK
<1>2. /\ InvTyped' /\ Only(u) /\ inv'[u].at = "run" /\ inv'[u].cmd = inv[u].cmd
      /\ inv'[u].exit = inv[u].exit /\ inv'[u].changed = inv[u].changed /\ inv'[u].entitled
  BY Zenon, <1>1, EntitledGoes
<1>3. RunOK(Gated(world), inv'[u])
  BY Zenon, <1>1, <1>2, EntitledOK
<1> QED BY Zenon, <1>2, <1>3, QuietStep

\* The error codes of the server and what the plugin makes of them.
LEMMA ErrorsExit ==
  /\ \A code : classifyError(code) \in Exits /\ (code # 200 => classifyError(code) # "OK")
  /\ \A reason : ~Blank(reason) => codeFor(reason) # 200
<1>1. \A code : classifyError(code) \in Exits /\ (code # 200 => classifyError(code) # "OK")
  BY DEF classifyError, Exits
<1>2. \A reason : ~Blank(reason) => codeFor(reason) # 200
  BY DEF codeFor, Blank
<1> QED BY <1>1, <1>2

-----------------------------------------------------------------------------
(***************************************************************************)
(* One lemma for each step.                                                *)
(***************************************************************************)
\* Every command of a world has all of its flags.
LEMMA CommandShaped ==
  ASSUME NEW c \in Command
  PROVE  \E V : c \in CommandOf(V)
<1>1. PICK A, Q, B : A = Addr \cup {-1} /\ Q = SUBSET Query /\ B = SUBSET Block
  BY Zenon
<1>2. c \in CommandOf(STRING \cup A \cup Q \cup B \cup Nat \cup BOOLEAN)
  <2>1. c \in [op : STRING, ns : STRING, name : STRING, class : STRING, family : STRING, scope : STRING,
               pool : STRING, policy : STRING, address : A, query : Q, parent : STRING, range : B,
               size : Nat, dry : BOOLEAN, yes : BOOLEAN, cascade : BOOLEAN]
    BY Zenon, <1>1 DEF Command
  <2> QED BY <2>1 DEF CommandOf
<1> QED BY <1>2

\* An invocation begins with nothing asked, planned or changed.
LEMMA NothingYet ==
  (\E V : NoInvocation \in InvocationOf(V)) /\ Blank(NoInvocation.exit) /\ NoInvocation.changed = {}
<1>1. NoInvocation \in InvocationOf({"idle", NoCommand, Unset, <<>>, {}, FALSE})
  BY Zenon DEF NoInvocation, InvocationOf
<1>2. NoInvocation.exit = Unset /\ NoInvocation.changed = {}
  BY Zenon DEF NoInvocation
<1> QED BY Zenon, <1>1, <1>2 DEF Blank

\* The command is parsed and the invocation starts.
LEMMA InvokeKeeps ==
  ASSUME ClientInv, NEW u \in Requests, Invoke(u)
  PROVE  ClientInv'
<1>1. InvTyped /\ RunOK(Gated(world), inv[u]) /\ world \in Worlds
  BY DEF ClientInv, RunsOK
<1>2. PICK c \in world.commands :
        inv' = [inv EXCEPT ![u] = [NoInvocation EXCEPT
                 !.at = IF world.datum THEN "preflight" ELSE "run", !.cmd = c]]
  BY Zenon DEF Invoke
<1> DEFINE at == IF world.datum THEN "preflight" ELSE "run"
           i == [NoInvocation EXCEPT !.at = at, !.cmd = c]
<1>3. PICK V : NoInvocation \in InvocationOf(V)
  BY NothingYet
<1>4. i.at = at /\ i.cmd = c /\ Blank(i.exit) /\ i.changed = {}
  BY <1>3, NothingYet DEF InvocationOf
<1>5. i \in InvocationOf(V \cup {at, c})
  BY Zenon, <1>3 DEF InvocationOf
<1>6. c \in Command /\ (c.op = "claimCreate" => c.ns \in Namespaces) /\ (c.op = "poolCreate" => ~Blank(c.name))
  BY Zenon, <1>1, WorldsAssumption DEF Blank
<1>7. \E W : c \in CommandOf(W)
  BY <1>6, CommandShaped
<1> HIDE DEF i
<1>8. Shaped(i) /\ inv' = [inv EXCEPT ![u] = i]
  BY Zenon, <1>2, <1>4, <1>5, <1>7 DEF Shaped, i
<1>9. InvTyped' /\ Only(u) /\ inv'[u] = i
  BY Zenon, <1>1, <1>8, Replaced
<1>10. RunOK(Gated(world), inv'[u])
  <2>1. at \in {"preflight", "run"} /\ (Gated(world) => at = "preflight")
    BY Zenon DEF Gated
  <2> HIDE DEF at
  <2> QED BY <1>4, <1>6, <1>9, <2>1, InvokedOK
<1>11. inv[u].at # "admit" /\ UNCHANGED <<world, serverVars, gateVars>>
  BY Zenon DEF Invoke
<1> QED BY <1>9, <1>10, <1>11, QuietStep

\* The entitlement is read, if there is a project that can have one.
LEMMA PreflightKeeps ==
  ASSUME ClientInv, NEW u \in Requests, Preflight(u)
  PROVE  ClientInv'
<1>1. inv[u].at = "preflight" /\ UNCHANGED world
  BY DEF Preflight
<1>2. CASE Lost(u)
  BY <1>1, <1>2, LostKeeps
<1>3. CASE ~Lost(u) /\ world.project # Unset
  <2>1. UNCHANGED <<world, serverVars, gateVars>>
    BY <1>3 DEF Preflight
  <2>2. \/ inv' = [inv EXCEPT ![u].at = "run", ![u].entitled = TRUE]
        \/ Exit(u, "Forbidden")
        \/ Move(u, "ask")
    BY <1>3 DEF Preflight
  <2>3. "Forbidden" \in Exits /\ <<"preflight", "ask">> \in OnTheWay(inv[u].cmd.op)
    BY DEF Exits, OnTheWay
  <2> QED BY <1>1, <2>1, <2>2, <2>3, EntitledKeeps, ExitKeeps, MoveKeeps
<1>4. CASE ~Lost(u) /\ world.project = Unset
  <2>1. Move(u, "run") /\ UNCHANGED <<world, serverVars, gateVars>>
    BY Zenon, <1>4 DEF Preflight
  <2>2. InvTyped /\ RunOK(Gated(world), inv[u]) /\ ~Gated(world)
    BY Zenon, <1>4 DEF ClientInv, RunsOK, Gated
  <2>3. /\ InvTyped' /\ Only(u) /\ Rest(inv[u], inv'[u])
        /\ inv'[u].at = "run" /\ inv'[u].exit = inv[u].exit
    BY Zenon, <2>1, <2>2, MoveGoes
  <2>4. RunOK(Gated(world), inv'[u])
    BY <1>1, <2>2, <2>3, UngatedOK
  <2> QED BY Zenon, <1>1, <2>1, <2>3, <2>4, QuietStep
<1> QED BY <1>2, <1>3, <1>4

\* The service is enabled, or the offer to do so declined.
LEMMA EnableKeeps ==
  ASSUME ClientInv, NEW u \in Requests, Enable(u)
  PROVE  ClientInv'
<1>1. inv[u].at = "ask" /\ UNCHANGED world
  BY DEF Enable
<1>2. /\ Exit(u, "Forbidden") \/ Exit(u, "Unavailable") \/ Move(u, "await")
      /\ UNCHANGED <<classes, pools, claims, allocs, gateVars>>
  BY DEF Enable, Lost, serverVars
<1>3. InvTyped /\ RunOK(Gated(world), inv[u]) /\ ServerInv
  BY DEF ClientInv, RunsOK
<1>4. InvTyped' /\ Only(u) /\ RunOK(Gated(world), inv'[u])
  <2>1. \A code \in {"Forbidden", "Unavailable"} : code \in Exits /\ code # "OK"
    BY DEF Exits
  <2>2. ASSUME NEW code \in {"Forbidden", "Unavailable"}, Exit(u, code)
        PROVE  InvTyped' /\ Only(u) /\ RunOK(Gated(world), inv'[u])
    <3>1. InvTyped' /\ Only(u) /\ Rest(inv[u], inv'[u]) /\ inv'[u].at = "done" /\ inv'[u].exit = code
      BY Zenon, <1>3, <2>2, ExitGoes
    <3>2. code \in Exits /\ code # "OK"
      BY Zenon, <2>1
    <3> QED BY <1>1, <1>3, <3>1, <3>2, EndsOK
  <2>3. CASE Move(u, "await")
    <3>1. <<"ask", "await">> \in OnTheWay(inv[u].cmd.op)
      BY DEF OnTheWay
    <3> QED BY <1>1, <1>3, <2>3, <3>1, MoveGoes, MovesOK
  <2> QED BY <1>2, <2>2, <2>3
<1>5. ServerInv'
  BY <1>2, <1>3 DEF ServerInv, ClassesOK, ClaimsOK, AllocsOK, PoolsOK, HoldersOK
<1>6. ChecksOK'
  BY <1>1, <1>2, <1>4, SameChecks DEF gateVars
<1> QED BY <1>1, <1>4, <1>5, <1>6, OwnStep

\* The entitlement is polled.
LEMMA AwaitKeeps ==
  ASSUME ClientInv, NEW u \in Requests, Await(u) \/ GiveUp(u)
  PROVE  ClientInv'
<1>1. /\ inv[u].at = "await" /\ UNCHANGED <<world, serverVars, gateVars>>
      /\ \/ inv' = [inv EXCEPT ![u].at = "run", ![u].entitled = TRUE]
         \/ Exit(u, "Forbidden")
  BY DEF Await, GiveUp
<1>2. "Forbidden" \in Exits
  BY DEF Exits
<1> QED BY <1>1, <1>2, EntitledKeeps, ExitKeeps

\* claim create: the flags make a claim, with a name of its own or a minted
\* one.
LEMMA BuildClaimKeeps ==
  ASSUME ClientInv, NEW u \in Requests, BuildClaim(u)
  PROVE  ClientInv'
<1>1. /\ inv[u].at = "run" /\ inv[u].cmd.op = "claimCreate"
      /\ UNCHANGED <<world, serverVars, gateVars>>
  BY DEF BuildClaim
<1>2. \/ Exit(u, "Usage")
      \/ Move(u, "getClaim")
      \/ inv' = [inv EXCEPT ![u].at = "create", ![u].cmd.name = generateResourceName]
  BY DEF BuildClaim
<1>3. "Usage" \in Exits /\ <<"run", "getClaim">> \in OnTheWay(inv[u].cmd.op)
  BY <1>1 DEF Exits, OnTheWay
<1>4. CASE inv' = [inv EXCEPT ![u].at = "create", ![u].cmd.name = generateResourceName]
  <2>1. InvTyped /\ RunOK(Gated(world), inv[u])
    BY DEF ClientInv, RunsOK
  <2> DEFINE n == generateResourceName
  <2>2. inv' = [inv EXCEPT ![u].at = "create", ![u].cmd.name = n]
    BY <1>4
  <2> HIDE DEF n
  <2>3. /\ InvTyped' /\ Only(u) /\ inv'[u].at = "create" /\ inv'[u].exit = inv[u].exit
        /\ inv'[u].changed = inv[u].changed /\ inv'[u].entitled = inv[u].entitled
        /\ inv'[u].cmd.op = inv[u].cmd.op /\ inv'[u].cmd.ns = inv[u].cmd.ns
        /\ inv'[u].cmd.dry = inv[u].cmd.dry
    BY Zenon, <2>1, <2>2, NamedGoes
  <2>4. RunOK(Gated(world), inv'[u])
    BY Zenon, <1>1, <2>1, <2>3, NamedOK
  <2> QED BY <1>1, <2>3, <2>4, QuietStep
<1> QED BY <1>1, <1>2, <1>3, <1>4, ExitKeeps, MoveKeeps

\* The claim that is there already is of the class, family and scope asked for.
LEMMA SameRequest ==
  ASSUME NEW c, NEW claim, ClaimOK(claim), ~claimRequestDiff(c, claim)
  PROVE  Fits(c, claim)
BY DEF ClaimOK, claimRequestDiff, Fits, Agrees, Blank

\* claim create: a claim of that name is returned when it is the same request.
LEMMA GetClaimKeeps ==
  ASSUME ClientInv, NEW u \in Requests, GetClaim(u)
  PROVE  ClientInv'
<1> DEFINE c == inv[u].cmd
<1>1. inv[u].at = "getClaim" /\ UNCHANGED world
  BY DEF GetClaim
<1>2. InvTyped /\ RunOK(Gated(world), inv[u]) /\ ServerInv
  BY DEF ClientInv, RunsOK
<1>3. c.op = "claimCreate"
  BY Zenon, <1>1, <1>2 DEF RunOK, CommandOK, Creates
<1>4. CASE Lost(u)
  BY <1>1, <1>4, LostKeeps
<1>5. CASE ~Lost(u)
  <2>1. UNCHANGED <<world, serverVars, gateVars>>
    BY Zenon, <1>5 DEF GetClaim
  <2>2. \/ Move(u, "create")
        \/ Exit(u, "Conflict")
        \/ Key(c) \in DOMAIN claims /\ ~claimRequestDiff(c, claims[Key(c)]) /\ Reply(u, "OK", <<claims[Key(c)]>>)
    BY Zenon, <1>5 DEF GetClaim
  <2>3. "Conflict" \in Exits /\ "OK" \in Exits /\ <<"getClaim", "create">> \in OnTheWay(c.op)
    BY <1>3 DEF Exits, OnTheWay
  <2>4. CASE Key(c) \in DOMAIN claims /\ ~claimRequestDiff(c, claims[Key(c)]) /\ Reply(u, "OK", <<claims[Key(c)]>>)
    <3>1. PICK claim : claim = claims[Key(c)]
      OBVIOUS
    <3>2. PICK answer : Fits(c, claim) /\ answer = <<claim>> /\ Reply(u, "OK", answer)
      BY <1>2, <2>4, <3>1, SameRequest DEF ServerInv, ClaimsOK
    <3>3. /\ InvTyped' /\ Only(u) /\ inv'[u].at = "done" /\ inv'[u].cmd = c /\ inv'[u].exit = "OK"
          /\ inv'[u].answer = answer /\ inv'[u].changed = inv[u].changed
          /\ inv'[u].entitled = inv[u].entitled
      BY ZenonT(30), <1>2, <3>2, ReplyGoes
    <3>4. inv'[u].changed \subseteq ParentPools(inv'[u]) /\ inv'[u].answer[1] = claim
      <4>1. inv[u].changed = {}
        BY Zenon, <1>1, <1>2 DEF RunOK, ChangesOK
      <4>2. answer[1] = claim
        BY <3>2
      <4> QED BY Zenon, <3>3, <4>1, <4>2
    <3>5. RunOK(Gated(world), inv'[u])
      BY Zenon, <1>1, <1>2, <1>3, <2>3, <3>2, <3>3, <3>4, ReplyOK DEF Working, Creates, Releases
    <3> QED BY Zenon, <1>1, <2>1, <3>3, <3>5, QuietStep
  <2> QED BY Zenon, <1>1, <2>1, <2>2, <2>3, <2>4, ExitKeeps, MoveKeeps
<1> QED BY <1>4, <1>5

\* None of the reasons is the empty one.
LEMMA ReasonsAreSet ==
  \A r \in {"NoDefaultClass", "ClassNotFound", "FamilyMismatch", "PrefixLengthRejected",
            "NoOfferingPool", "Exhausted", "ClaimExists", "AllocationRetained"} : r # Unset
BY Zenon DEF Unset

\* The class that is resolved is the one asked for, or of the family asked for.
LEMMA ResolvedClass ==
  ASSUME ClassesOK, NEW c, resolveRefusal(c) = Unset
  PROVE  LET k == classes[ResolveClass(c)] IN
         ~Blank(k.name) /\ ~Blank(k.family) /\ Agrees(c.class, k.name) /\ Agrees(c.family, k.family)
<1> DEFINE name == ResolveClass(c)
<1>1. c.class # Unset => name = c.class
  BY DEF ResolveClass
<1> HIDE DEF name
<1>2. name \in DOMAIN classes
  <2> SUFFICES ASSUME name \notin DOMAIN classes PROVE FALSE
    OBVIOUS
  <2>1. resolveRefusal(c) = IF c.class = Unset THEN "NoDefaultClass" ELSE "ClassNotFound"
    BY DEF resolveRefusal, name
  <2> QED BY <2>1, ReasonsAreSet
<1>3. c.family = Unset \/ c.family = classes[name].family
  <2> SUFFICES ASSUME ~(c.family = Unset \/ c.family = classes[name].family) PROVE FALSE
    OBVIOUS
  <2>1. resolveRefusal(c) = "FamilyMismatch"
    BY <1>2 DEF resolveRefusal, name
  <2> QED BY <2>1, ReasonsAreSet
<1> QED BY <1>1, <1>2, <1>3 DEF name, ClassesOK, Blank, Agrees

\* claim create: the request is sent, in a preview to be resolved only.
LEMMA SendCreateKeeps ==
  ASSUME ClientInv, NEW u \in Requests, SendCreate(u)
  PROVE  ClientInv'
<1> DEFINE c == inv[u].cmd
<1>1. inv[u].at = "create" /\ UNCHANGED world
  BY DEF SendCreate
<1>2. InvTyped /\ RunOK(Gated(world), inv[u]) /\ ServerInv /\ ChecksOK
  BY DEF ClientInv, RunsOK
<1>3. CASE Lost(u)
  BY <1>1, <1>3, LostKeeps
<1>4. CASE /\ resolveRefusal(c) # Unset /\ Exit(u, classifyError(codeFor(resolveRefusal(c))))
           /\ UNCHANGED <<serverVars, gateVars>>
  <2>1. PICK code : code = classifyError(codeFor(resolveRefusal(c)))
    OBVIOUS
  <2>2. code \in Exits /\ code # "OK"
    BY <1>4, <2>1, ErrorsExit DEF Blank
  <2> QED BY <1>1, <1>4, <2>1, <2>2, ExitKeeps
<1>5. CASE /\ resolveRefusal(c) = Unset /\ State(u, world.project, c.ns)
           /\ inv' = [inv EXCEPT ![u].at = "admit", ![u].class = <<classes[ResolveClass(c)]>>]
           /\ UNCHANGED serverVars
  <2>1. PICK k : k = classes[ResolveClass(c)]
    OBVIOUS
  <2>2. ~Blank(k.name) /\ ~Blank(k.family) /\ Agrees(c.class, k.name) /\ Agrees(c.family, k.family)
    BY <1>2, <1>5, <2>1, ResolvedClass DEF ServerInv
  <2>3. inv' = [inv EXCEPT ![u].at = "admit", ![u].class = <<k>>]
    BY <1>5, <2>1
  <2>4. /\ InvTyped' /\ Only(u) /\ inv'[u].at = "admit" /\ inv'[u].cmd = c
        /\ inv'[u].exit = inv[u].exit /\ inv'[u].class = <<k>> /\ inv'[u].changed = inv[u].changed
        /\ inv'[u].entitled = inv[u].entitled
    BY Zenon, <1>2, <2>3, ClassGoes
  <2>5. RunOK(Gated(world), inv'[u])
    BY Zenon, <1>1, <1>2, <2>2, <2>4, ClassOK
  <2>6. PICK x : check' = [check EXCEPT ![u] = x]
    BY Zenon, <1>5 DEF State
  <2>7. ChecksOK'
    BY <1>2, <2>4, <2>6 DEF ChecksOK, Only
  <2>8. ServerInv'
    BY <1>2, <1>5, SameServer
  <2> QED BY Zenon, <1>1, <2>4, <2>5, <2>7, <2>8, OwnStep
<1> QED BY Zenon, <1>3, <1>4, <1>5 DEF SendCreate

\* A step of a namespace check is a step of a create that reached the server.
LEMMA AdmissionKeeps ==
  ASSUME ClientInv, NEW u \in Requests, Admission(u)
  PROVE  ClientInv'
<1>1. InvTyped /\ RunsOK /\ ServerInv /\ ChecksOK /\ world \in Worlds
  BY DEF ClientInv
<1>2. UNCHANGED <<world, serverVars, inv>> /\ LookupStep(u)
  BY DEF Admission
<1>3. check[u].at # "idle"
  BY Zenon, <1>2 DEF LookupStep, AnswerGet, ReceivedGet, AnswerProbe, ReceivedProbe
<1>4. /\ DOMAIN check' = DOMAIN check
      /\ \A v \in Requests : v # u => check'[v] = check[v]
  BY <1>1, <1>2 DEF LookupStep, AnswerGet, ReceivedGet, AnswerProbe, ReceivedProbe, ChecksOK
<1>5. ChecksOK'
  BY <1>1, <1>2, <1>3, <1>4 DEF ChecksOK
<1>6. ServerInv'
  BY <1>1, <1>2, SameServer
<1> QED BY <1>1, <1>2, <1>5, <1>6 DEF ClientInv, InvTyped, RunsOK

\* What a create that reached its pool has made is the pool of its class's parent.
LEMMA MadeIsParent ==
  ASSUME NEW i, 1 \in DOMAIN i.class, NEW c, NEW made,
         made = IF Provisions(c, i.class[1]) THEN {<<"pool", i.class[1].level>>} ELSE {}
  PROVE  made \subseteq ParentPools(i)
BY Zenon DEF ParentPools

\* claim create: the server serves what the namespace check let through.
LEMMA ServeCreateKeeps ==
  ASSUME ClientInv, NEW u \in Requests, ServeCreate(u)
  PROVE  ClientInv'
<1> DEFINE c == inv[u].cmd
           class == inv[u].class[1]
           refused == RefuseNamespace(check[u].verdict)
<1>1. inv[u].at = "admit" /\ UNCHANGED <<world, classes>> /\ Forget(u)
  BY Zenon DEF ServeCreate, Answered
<1>2. InvTyped /\ RunOK(Gated(world), inv[u]) /\ ServerInv /\ ChecksOK
  BY DEF ClientInv, RunsOK
<1>3. ASSUME Only(u) PROVE ChecksOK'
  <2>1. check' = [check EXCEPT ![u] = NoCheck("")]
    BY Zenon, <1>1 DEF Forget
  <2>2. NoCheck("").at = "idle"
    BY Zenon DEF NoCheck
  <2>3. PICK x : x = NoCheck("")
    BY Zenon
  <2>4. check' = [check EXCEPT ![u] = x] /\ x.at = "idle"
    BY Zenon, <2>1, <2>2, <2>3
  <2> QED BY Zenon, <1>2, <1>3, <2>4 DEF ChecksOK, Only
<1>4. CASE refused
  <2>1. Exit(u, classifyError(403)) /\ UNCHANGED <<pools, claims, allocs>>
    BY Zenon, <1>4 DEF ServeCreate
  <2>2. PICK code : code = classifyError(403)
    OBVIOUS
  <2>3. code \in Exits /\ code # "OK"
    BY <2>2, ErrorsExit
  <2>4. InvTyped' /\ Only(u) /\ Rest(inv[u], inv'[u]) /\ inv'[u].at = "done" /\ inv'[u].exit = code
    BY Zenon, <1>2, <2>1, <2>2, ExitGoes
  <2>5. RunOK(Gated(world), inv'[u])
    BY Zenon, <1>1, <1>2, <2>3, <2>4, EndsOK
  <2>6. ServerInv'
    BY Zenon, <1>1, <1>2, <2>1 DEF ServerInv, ClassesOK, ClaimsOK, AllocsOK, PoolsOK, HoldersOK
  <2> QED BY Zenon, <1>1, <1>3, <2>4, <2>5, <2>6, OwnStep
<1>5. /\ 1 \in DOMAIN inv[u].class /\ c.op = "claimCreate"
      /\ ~Blank(class.name) /\ ~Blank(class.family)
      /\ Agrees(c.class, class.name) /\ Agrees(c.family, class.family)
  BY Zenon, <1>1, <1>2 DEF RunOK, AnswerOK, CommandOK, Creates
<1>6. PICK made : made = IF Provisions(c, class) THEN {<<"pool", class.level>>} ELSE {}
  BY Zenon
<1>7. ASSUME ~refused PROVE PoolsOK' /\ DOMAIN pools \subseteq DOMAIN pools'
  <2>1. pools' = ResolvePool(c, class)
    BY Zenon, <1>7 DEF ServeCreate
  <2> QED BY Zenon, <1>2, <2>1, PoolResolved
<1>8. ASSUME ~refused, UNCHANGED <<claims, allocs>> PROVE ServerInv'
  <2>1. PoolsOK' /\ DOMAIN pools \subseteq DOMAIN pools'
    BY Zenon, <1>7, <1>8
  <2> QED BY Zenon, <1>1, <1>2, <1>8, <2>1 DEF ServerInv, ClassesOK, ClaimsOK, AllocsOK, HoldersOK
<1>9. CASE ~refused /\ createRefusal(c, class) # Unset
  <2>1. /\ UNCHANGED <<claims, allocs>>
        /\ \E exit \in {classifyError(codeFor(createRefusal(c, class))), "Unavailable"} :
             inv' = [inv EXCEPT ![u].at = "done", ![u].exit = exit, ![u].changed = made]
    BY Zenon, <1>6, <1>9 DEF ServeCreate
  <2>2. PICK exit \in {classifyError(codeFor(createRefusal(c, class))), "Unavailable"} :
          inv' = [inv EXCEPT ![u].at = "done", ![u].exit = exit, ![u].changed = made]
    BY Zenon, <2>1
  <2>3. exit \in Exits /\ exit # "OK"
    BY Zenon, <1>9, <2>2, ErrorsExit DEF Blank, Exits
  <2>4. Created(u, exit, made)
    BY Zenon, <2>2 DEF Created
  <2>5. /\ InvTyped' /\ Only(u) /\ inv'[u].at = "done" /\ inv'[u].cmd = c /\ inv'[u].exit = exit
        /\ inv'[u].class = inv[u].class /\ inv'[u].changed = made
        /\ inv'[u].entitled = inv[u].entitled
    BY <1>2, <2>4, CreatedGoes
  <2>6. inv'[u].changed \subseteq ParentPools(inv'[u])
    BY Zenon, <1>5, <1>6, <2>5, MadeIsParent
  <2>7. RunOK(Gated(world), inv'[u])
    BY Zenon, <1>1, <1>2, <1>5, <2>3, <2>5, <2>6, ReplyOK DEF Working, Creates, Releases
  <2> QED BY Zenon, <1>1, <1>3, <1>8, <1>9, <2>1, <2>5, <2>7, OwnStep
<1>10. CASE ~refused /\ createRefusal(c, class) = Unset
  <2>1. PICK changed : changed = made \cup IF Persists(c) THEN {<<"claim", Key(c)>>} ELSE {}
    BY Zenon
  <2>2. PICK exit \in {"OK", "Unavailable"} :
          inv' = [inv EXCEPT ![u].at = "done", ![u].exit = exit,
                    ![u].answer = <<boundClaim(c, class)>>, ![u].changed = changed]
    BY Zenon, <1>6, <1>10, <2>1 DEF ServeCreate
  <2>3. PICK claim, alloc : claim = boundClaim(c, class) /\ alloc = allocationOf(c, class)
    BY Zenon
  <2>4. ClaimOK(claim) /\ claim.class = class.name /\ claim.family = class.family /\ claim.scope = c.scope
    BY ZenonT(30), <1>5, <2>3, BoundClaimIs
  <2>5. Fits(c, claim)
    BY Zenon, <1>5, <2>4 DEF Fits, Agrees
  <2>6. PICK answer : answer = <<claim>> /\ Served(u, exit, answer, changed)
    BY Zenon, <2>2, <2>3 DEF Served
  <2>7. /\ InvTyped' /\ Only(u) /\ inv'[u].at = "done" /\ inv'[u].cmd = c /\ inv'[u].exit = exit
        /\ inv'[u].class = inv[u].class /\ inv'[u].answer = answer /\ inv'[u].changed = changed
        /\ inv'[u].entitled = inv[u].entitled
    <3>1. Served(u, exit, answer, changed) /\ InvTyped
      BY Zenon, <1>2, <2>6
    <3> QED BY SMTT(30), <3>1, ServedGoes
  <2>8. c.dry \/ exit \notin {"OK", "Unavailable", "Error"} => inv'[u].changed \subseteq ParentPools(inv'[u])
    <3>1. c.dry => changed = made
      BY Zenon, <2>1 DEF Persists
    <3>2. made \subseteq ParentPools(inv'[u])
      BY Zenon, <1>5, <1>6, <2>7, MadeIsParent
    <3> QED BY Zenon, <2>2, <2>7, <3>1, <3>2
  <2>9. inv'[u].answer[1] = claim /\ exit \in Exits
    <3>1. answer[1] = claim
      BY <2>6
    <3> QED BY Zenon, <2>2, <2>7, <3>1 DEF Exits
  <2>10. RunOK(Gated(world), inv'[u])
    BY Zenon, <1>1, <1>2, <1>5, <2>5, <2>7, <2>8, <2>9, ReplyOK DEF Working, Creates, Releases
  <2>11. ServerInv'
    <3>1. CASE Persists(c)
      <4>1. claims' = With(claims, Key(c), claim) /\ allocs' = With(allocs, Key(c), alloc)
        BY Zenon, <1>10, <2>3, <3>1 DEF ServeCreate
      <4>2. drawsFrom(class) \in DOMAIN pools'
        <5>1. drawsFrom(class) \in DOMAIN ResolvePool(c, class)
          BY Zenon, <1>10, ReasonsAreSet DEF createRefusal
        <5> QED BY Zenon, <1>10, <5>1 DEF ServeCreate
      <4>3. /\ \E V : alloc \in AllocationOf(V)
            /\ alloc.bound /\ alloc.pool = drawsFrom(class) /\ alloc.block = claim.block
        BY ZenonT(30), <2>3, AllocationIs
      <4>4. PoolsOK' /\ DOMAIN pools \subseteq DOMAIN pools'
        BY Zenon, <1>7, <1>10
      <4> QED BY Zenon, <1>1, <1>2, <2>4, <4>1, <4>2, <4>3, <4>4, ClaimStored
    <3>2. CASE ~Persists(c)
      <4>1. UNCHANGED <<claims, allocs>>
        BY Zenon, <1>10, <3>2 DEF ServeCreate
      <4> QED BY Zenon, <1>8, <1>10, <4>1
    <3> QED BY <3>1, <3>2
  <2> QED BY Zenon, <1>1, <1>3, <2>7, <2>10, <2>11, OwnStep
<1> QED BY Zenon, <1>4, <1>9, <1>10

=============================================================================
