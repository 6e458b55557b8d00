----------------------------- MODULE ScopeDigest -----------------------------
(***************************************************************************)
(* Scopes and the two digests taken over them (internal/scope/scope.go).   *)
(* A scope maps role names to opaque references.  A digest is its canonical*)
(* form: the sequence of fields CanonicalPool and CanonicalAddressSpace    *)
(* write, each written with its length in front so that two different      *)
(* sequences of fields never read as the same bytes; the fields of one     *)
(* role, always as many, are kept together.  SHA-256 is taken to be        *)
(* injective.                                                              *)
(***************************************************************************)
EXTENDS Naturals, Sequences, FiniteSets, Functions

CONSTANTS
  RoleOrder,  \* the role names in string order
  Ref         \* {apiGroup, kind, name} references, never interpreted

\* Role names are listed once each; the reserved one is not among the roles a
\* request can carry.
ASSUME RoleOrderAssumption ==
  /\ \A i, j \in DOMAIN RoleOrder : RoleOrder[i] = RoleOrder[j] => i = j
  /\ "project" \notin Range(RoleOrder)

ReservedRoleProject == "project"

Role == Range(RoleOrder)
Scope == UNION { [rs -> Ref] : rs \in SUBSET Role }

\* What makes two pools of one class different besides the scope: the project
\* that holds the class and, for a class carved per consumer, the consumer.
NoConsumer == "none"
PoolTenancy(owner, consumer) == [owner |-> owner, consumer |-> consumer]

WithoutReservedRoles(roles) == { r \in Range(roles) : r # ReservedRoleProject }

PoolPerRoles(poolPer) ==
  [roles |-> WithoutReservedRoles(poolPer),
   perConsumer |-> ReservedRoleProject \in Range(poolPer)]

\* Two lists of roles mean the same space when they name the same roles.
RoleSetKey(roles) == Range(roles)

\* ProjectFor: the entries of s for the given roles; a role s does not carry is
\* an error that names every missing one.
MissingRoles(s, roles) == roles \ DOMAIN s
ProjectFor(s, roles) == [r \in roles \cap DOMAIN s |-> s[r]]

Roles(s) == SelectSeq(RoleOrder, LAMBDA r : r \in DOMAIN s)

CanonicalPool(t, s) ==
  <<"ipam.scope.v4", t.owner, t.consumer, Cardinality(DOMAIN s)>>
    \o [i \in DOMAIN Roles(s) |-> <<Roles(s)[i], s[Roles(s)[i]]>>]

\* Faulty variant: the consumer is not part of a pool's identity.
PoolDigest_NoConsumer(t, s) == CanonicalPool([t EXCEPT !.consumer = NoConsumer], s)

PoolDigest(t, s) == CanonicalPool(t, s)

\* The tenant qualifies each reference, so a scope without references is one
\* address space whoever claims in it.
CanonicalAddressSpace(tenant, s) ==
  <<"ipam.scope.v3", Cardinality(DOMAIN s)>>
    \o [i \in DOMAIN Roles(s) |-> <<Roles(s)[i], tenant, s[Roles(s)[i]]>>]

AddressSpaceDigest(tenant, s) == CanonicalAddressSpace(tenant, s)

=============================================================================
