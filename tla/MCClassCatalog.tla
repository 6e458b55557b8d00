--------------------------- MODULE MCClassCatalog ---------------------------
(***************************************************************************)
(* Instances of ClassCatalog: a platform project that defines classes and  *)
(* authors pools, and a consumer that claims through references.           *)
(***************************************************************************)
EXTENDS ClassCatalog

CONSTANTS lon, par, net

MCProject == {"plat", "shop"}
MCRoleOrder == <<"location", "network">>
MCRef == {lon, par, net}
MCNameOrder == <<"block", "edge", "site", "vm">>
MCMaxLength == [f \in {"IPv4", "IPv6"} |-> 4]

Class(project, name, family, parent, uniqueWithin, poolPer) ==
  [key |-> <<project, name>>,
   spec |-> [source |-> None, family |-> family, parent |-> parent,
             uniqueWithin |-> uniqueWithin, poolPer |-> poolPer,
             lo |-> 2, hi |-> 2, size |-> 0, strategy |-> "FirstFit", default |-> FALSE]]

Reference(project, name, source) ==
  [key |-> <<project, name>>,
   spec |-> [source |-> source, family |-> None, parent |-> None,
             uniqueWithin |-> <<>>, poolPer |-> <<>>,
             lo |-> 0, hi |-> 0, size |-> 0, strategy |-> "FirstFit", default |-> FALSE]]

Pool(project, name, range, names, scope) ==
  [key |-> <<project, <<name>>>>,
   spec |-> [range |-> range, family |-> "IPv4", parent |-> None, length |-> 0,
             classNames |-> names, scope |-> scope]]

Child(project, name, parent, names) ==
  [key |-> <<project, <<name>>>>,
   spec |-> [range |-> {}, family |-> None, parent |-> <<parent>>, length |-> 3,
             classNames |-> names, scope |-> <<>>]]

Ask(project, class, scope) ==
  [project |-> project, class |-> class, family |-> None, scope |-> scope, length |-> 0, dry |-> FALSE]

MCPoolOrder == << <<"plat", <<"a">>>>, <<"plat", <<"b">>>>, <<"plat", <<"c">>>>, <<"shop", <<"a">>>> >>

Stored(docs) ==
  [k \in { d.key : d \in docs } |-> (CHOOSE d \in docs : d.key = k).spec]
StoredPools(docs) ==
  [k \in { d.key : d \in docs } |->
     LET p == (CHOOSE d \in docs : d.key = k).spec
     IN [spec |-> p, family |-> p.family, from |-> None]]

block == Class("plat", "block", "IPv4", None, <<>>, <<"location">>)
site == Class("plat", "site", "IPv4", "block", <<>>, <<"project", "location">>)
vm == Class("plat", "vm", "IPv4", "site", <<"network">>, <<>>)
vmRef == Reference("shop", "vm", <<"plat", "vm">>)

\* Operators write classes and pools that have to agree with one another.
Authoring ==
  [classes |-> <<>>, pools |-> <<>>, grants |-> {}, asks |-> {},
   classWrites |-> {block, [block EXCEPT !.spec.default = TRUE],
                    Class("plat", "edge", "IPv4", None, <<"network">>, <<>>),
                    Class("plat", "edge", "IPv4", None, <<>>, <<>>),
                    Class("plat", "edge", "IPv4", "edge", <<>>, <<>>)},
   poolWrites |-> {Pool("plat", "a", {1, 2}, {"block", "edge"}, <<>>),
                   Pool("plat", "a", {1, 2}, {"block"}, <<>>),
                   Pool("plat", "b", {2, 3}, {"edge"}, <<>>),
                   Child("plat", "c", "a", {"block", "edge"})},
   ops |-> {"Class", "ClassUpdate", "ClassDelete", "Pool", "PoolUpdate", "PoolDelete"},
   maxWrites |-> 4]

\* Classes with parents, written in any order and across projects.
Chaining ==
  [classes |-> Stored({block}), pools |-> <<>>, grants |-> {<<"shop", <<"plat", "site">>>>}, asks |-> {},
   classWrites |-> {site, Class("plat", "block", "IPv4", "vm", <<>>, <<>>), vm,
                    Class("plat", "vm", "IPv6", "block", <<>>, <<>>),
                    Reference("shop", "site", <<"plat", "site">>),
                    Class("shop", "vm", "IPv4", "site", <<>>, <<>>),
                    Reference("shop", "edge", <<"shop", "site">>)},
   poolWrites |-> {}, ops |-> {"Class", "ClassDelete"}, maxWrites |-> 4]

\* Claims of two projects through one chain of classes.
Claiming ==
  [classes |-> Stored({block, site, vm, vmRef}),
   pools |-> StoredPools({Pool("plat", "a", {1, 2}, {"block"}, <<>>),
                          Pool("shop", "a", {3}, {"block"}, <<>>)}),
   grants |-> {<<"shop", vm.key>>}, classWrites |-> {}, poolWrites |-> {},
   asks |-> {Ask("plat", "vm", [location |-> lon, network |-> net]),
             Ask("shop", "vm", [location |-> lon, network |-> net]),
             Ask("shop", "vm", [location |-> par, network |-> net]),
             Ask("shop", "vm", [location |-> lon, network |-> net, project |-> net])},
   ops |-> {"Claim", "Release", "PoolDelete"}, maxWrites |-> 2]

\* A reference made, used and made again while the permission comes and goes.
Referencing ==
  [classes |-> Stored({Class("plat", "edge", "IPv4", None, <<>>, <<>>)}),
   pools |-> StoredPools({Pool("plat", "a", {1, 2}, {"edge"}, <<>>)}),
   grants |-> {}, classWrites |-> {Reference("shop", "vm", <<"plat", "edge">>)}, poolWrites |-> {},
   asks |-> {Ask("shop", "vm", <<>>), Ask("shop", None, <<>>)},
   ops |-> {"Class", "ClassDelete", "Grant", "Claim", "Release"}, maxWrites |-> 4]

\* Claims that leave the class open, in a project whose pools are for one
\* location each, with a dry run among them.
spread == [Class("plat", "edge", "IPv4", None, <<"network">>, <<>>) EXCEPT
             !.spec.strategy = "LeastUtilized", !.spec.default = TRUE, !.spec.hi = 3]
Defaulting ==
  [classes |-> Stored({spread, [vm EXCEPT !.spec.default = TRUE, !.spec.family = "IPv6"]}),
   pools |-> StoredPools({Pool("plat", "a", {1}, {"edge"}, [location |-> lon]),
                          Pool("plat", "b", {2}, {"edge"}, <<>>),
                          Pool("plat", "c", {3}, {"block"}, <<>>)}),
   grants |-> {}, classWrites |-> {site}, poolWrites |-> {Pool("plat", "b", {2}, {"edge"}, [location |-> par])},
   asks |-> {[Ask("plat", None, [location |-> a[1], network |-> net]) EXCEPT
                !.family = a[2], !.length = a[3], !.dry = a[4]]
               : a \in {<<lon, "IPv4", 3, FALSE>>, <<par, "IPv4", 2, TRUE>>, <<par, "IPv6", 2, FALSE>>}},
   ops |-> {"Claim", "Release", "PoolUpdate", "PoolDelete"}, maxWrites |-> 3]

\* The root of a chain is deleted and created again as a reference to a class of
\* another project, with the pools of the old chain in place.
Rebuilding ==
  [classes |-> Stored({block, site, vm, Class("shop", "block", "IPv4", None, <<>>, <<"location">>)}),
   pools |-> StoredPools({Pool("plat", "a", {1, 2}, {"block"}, <<>>),
                          Pool("shop", "a", {3}, {"block"}, <<>>)}),
   grants |-> {<<"plat", <<"shop", "block">>>>}, poolWrites |-> {},
   classWrites |-> {Reference("plat", "block", <<"shop", "block">>)},
   asks |-> {Ask("plat", "vm", [location |-> lon, network |-> n]) : n \in {net, par}},
   ops |-> {"Class", "ClassDelete", "Claim", "PoolDelete"}, maxWrites |-> 3]

MCWorlds == {Authoring, Chaining, Claiming, Referencing, Defaulting, Rebuilding}
=============================================================================
