--------------------------- MODULE MCPluginClient ---------------------------
(***************************************************************************)
(* Instances of PluginClient: eight addresses, two users, two namespaces,  *)
(* classes of one pool and one whose parent is given half of it.  Each     *)
(* world lets one part of the system move freely and keeps the others      *)
(* still.                                                                  *)
(***************************************************************************)
EXTENDS PluginClient

Class(name, policy, size, default) ==
  [name |-> name, policy |-> policy, pool |-> "root", level |-> "", levelSize |-> 0,
   size |-> size, sizes |-> {2, 4}, family |-> "IPv4", default |-> default]

std == Class("std", "Delete", 2, TRUE)
keep == Class("keep", "Retain", 4, FALSE)
deep == [Class("deep", "Delete", 2, FALSE) EXCEPT !.level = "site", !.levelSize = 4, !.sizes = {2, 4, 8}]

ClassesOf(S) == [n \in { c.name : c \in S } |-> CHOOSE c \in S : c.name = n]

Range8 == [lo |-> 0, hi |-> 7]
root == [parent |-> "", provisioned |-> FALSE, range |-> Range8]

Create(ns, name, class, scope) ==
  [NoCommand EXCEPT !.op = "claimCreate", !.ns = ns, !.name = name, !.class = class, !.scope = scope]
Default(ns, name) ==
  [NoCommand EXCEPT !.op = "claimCreate", !.ns = ns, !.name = name, !.family = "IPv4"]
Release(op, ns, name) == [NoCommand EXCEPT !.op = op, !.ns = ns, !.name = name]
Yes(c) == [c EXCEPT !.yes = TRUE]
Sized(c, n) == [c EXCEPT !.size = n]
Dry(c) == [c EXCEPT !.dry = TRUE]
Cascade(c) == [c EXCEPT !.cascade = TRUE]
Look(op, ns, name, query) == [NoCommand EXCEPT !.op = op, !.ns = ns, !.name = name, !.query = query]

Held(class, scope, lo, hi, policy) ==
  [claim |-> [class |-> class, family |-> "IPv4", scope |-> scope, address |-> -1, policy |-> "",
              size |-> 0, pool |-> "root", block |-> [lo |-> lo, hi |-> hi], phase |-> "Bound"],
   alloc |-> [bound |-> TRUE, class |-> class, pool |-> "root", block |-> [lo |-> lo, hi |-> hi],
              scope |-> scope, policy |-> policy]]

Empty ==
  [classes |-> ClassesOf({std, keep}), pools |-> [p \in {"root"} |-> root],
   claims |-> <<>>, allocs |-> <<>>, entitlement |-> "None", planes |-> {"Serving"},
   commands |-> {}, project |-> "shop", runs |-> 3, changes |-> 3, minted |-> {}, queries |-> {},
   tty |-> FALSE, datum |-> FALSE, lossy |-> FALSE, moves |-> {}]

\* Two users ask for one name in different words, lose answers and try again.
Names ==
  [Empty EXCEPT !.lossy = TRUE, !.runs = 3, !.changes = 1, !.moves = {"classes"},
     !.commands = {Create("a", "web", "std", ""), Create("a", "web", "keep", "net"),
                   Default("a", "web"), Dry(Create("a", "web", "std", "net")),
                   Yes(Release("claimRelease", "a", "web"))}]

web == Held("std", "", 0, 1, "Delete")
old == Held("keep", "", 4, 7, "Retain")

StoredClaims(f) == [k \in DOMAIN f |-> f[k].claim]
StoredAllocs(f) == [k \in DOMAIN f |-> f[k].alloc]
Holding(w, f) == [w EXCEPT !.claims = StoredClaims(f), !.allocs = StoredAllocs(f)]

\* A pool with a child and a claim is released, by name and with what is under
\* it, while another user claims from it, carves from it and releases.
Pools(policy) ==
  [Holding(Empty, [k \in {<<"a", "web">>} |-> Held("std", "", 0, 1, policy)]) EXCEPT
     !.tty = TRUE, !.lossy = TRUE, !.runs = 2,
     !.pools = [p \in {"root", "kid"} |->
                  IF p = "root" THEN root
                  ELSE [root EXCEPT !.parent = "root", !.range = [lo |-> 4, hi |-> 5]]],
     !.commands = {Cascade(Release("poolRelease", "a", "root")), Yes(Release("poolRelease", "a", "kid")),
                   Release("poolRelease", "a", "root"), Dry(Release("poolRelease", "a", "root")),
                   Create("b", "late", "std", ""), Create("b", "net", "keep", "net"),
                   Yes(Release("claimRelease", "a", "web")),
                   [NoCommand EXCEPT !.op = "poolCreate", !.name = "kid", !.parent = "root", !.size = 2],
                   [NoCommand EXCEPT !.op = "poolCreate", !.name = "dup", !.range = {Range8}],
                   [NoCommand EXCEPT !.op = "poolCreate", !.name = "none"],
                   [NoCommand EXCEPT !.op = "poolCreate", !.name = "dry", !.parent = "root", !.dry = TRUE],
                   [NoCommand EXCEPT !.op = "poolCreate", !.name = "two", !.parent = "gone", !.size = 2]}]

\* Claims are released under both policies, and what was retained after them.
Fates ==
  [Holding(Empty, [k \in {<<"a", "web">>, <<"a", "old">>} |-> IF k[2] = "web" THEN web ELSE old])
   EXCEPT
     !.tty = TRUE, !.lossy = TRUE, !.runs = 3,
     !.commands = {Release("claimRelease", "a", "web"), Dry(Release("claimRelease", "a", "old")),
                   Yes(Release("claimRelease", "a", "old")), Release("allocationRelease", "a", "old"),
                   Create("a", "old", "std", ""), Create("a", "old", "", "")}]

\* A project that has not enabled IPAM, and one that has asked.
Entitlements ==
  { [Empty EXCEPT !.datum = TRUE, !.tty = tty, !.lossy = TRUE, !.entitlement = phase,
       !.runs = 2, !.moves = {"entitlement"}, !.minted = {"claim-1", "claim-2"},
       !.commands = {Create("a", "", "std", "")}] :
    tty \in BOOLEAN, phase \in {"None", "PendingApproval"} }

\* Claims are previewed in two namespaces, one of which is deleted, with room for
\* one cached answer.
Gate ==
  [Empty EXCEPT !.runs = 3, !.changes = 1, !.moves = {"a", "clock"},
     !.minted = {"claim-1", "claim-2", "claim-3"},
     !.commands = {Dry(Create("a", "", "std", "")), Dry(Create("b", "", "std", ""))}]

\* One namespace of a project whose control plane comes and goes.
Plane ==
  [Empty EXCEPT !.runs = 2, !.changes = 2, !.moves = {"a", "plane", "clock"},
     !.planes = {"Serving", "Gone"}, !.minted = {"claim-1", "claim-2"},
     !.commands = {Dry(Create("a", "", "std", ""))}]

\* A class with a parent: the pool of the parent is made by the first create that
\* gets as far, a preview and one that is refused included, used by the next, and
\* released with what is under it.
Chain(names) ==
  [Holding(Empty, [k \in { <<"a", n>> : n \in names } |-> IF k[2] = "web" THEN web ELSE old]) EXCEPT
     !.classes = ClassesOf({std, deep}), !.lossy = TRUE, !.runs = 3,
     !.commands = {Dry(Create("a", "new", "deep", "")), Create("a", "web", "deep", "net"),
                   Create("a", "new", "deep", "net"), Sized(Create("a", "big", "deep", ""), 4),
                   Sized(Create("a", "big", "deep", ""), 8), Sized(Create("a", "big", "deep", ""), 1),
                   Create("a", "low", "std", "net"), Yes(Release("poolRelease", "a", "site"))}]

\* A caller with an organisation and no project, under datumctl and without.
Organisation(datum) ==
  [Empty EXCEPT !.project = "", !.datum = datum, !.runs = 1, !.minted = {"claim-1"},
     !.commands = {Create("a", "", "std", "")}]

\* Claims into a namespace that is deleted under them and made again.
Doomed ==
  [Empty EXCEPT !.runs = 3, !.moves = {"a"}, !.minted = {"claim-1", "claim-2", "claim-3"},
     !.commands = {Create("a", "", "std", ""), Yes(Release("claimRelease", "a", "claim-1"))}]

\* The commands that read, over blocks that two address spaces come to share.
Q(form, lo, hi) == [form |-> form, lo |-> lo, hi |-> hi]
Queries == { Q("addr", 1, 1), Q("block", 0, 1), Q("block", 0, 0), Q("addr", 6, 6), Q("block", 4, 7) }
Reads ==
  [Holding(Empty, [k \in {<<"a", "web">>, <<"a", "old">>} |->
                     IF k[2] = "web" THEN web ELSE old]) EXCEPT
     !.lossy = TRUE, !.runs = 2, !.queries = Queries,
     !.commands = { Look(op, "a", "", {q}) : op \in {"claimShow", "allocationShow", "addressShow"},
                                            q \in Queries }
                  \cup { Look(op, "a", n, {}) : op \in {"claimShow", "poolShow", "poolTree", "classShow"},
                                               n \in {"web", "root", "std"} }
                  \cup { Look(op, "a", "", {}) : op \in Lists \cup {"poolTree"} }
                  \cup { Create("a", "net", "std", "net"), Create("a", "big", "keep", ""), Yes(Release("claimRelease", "a", "old")) }]

MCWorlds == {Names, Pools("Delete"), Pools("Retain"), Fates, Gate, Plane, Doomed, Reads,
             Chain({"web"}), Chain({"web", "old"})}
            \cup Entitlements \cup { Organisation(datum) : datum \in BOOLEAN }
=============================================================================
