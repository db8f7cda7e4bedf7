------------------------------ MODULE Topology ------------------------------
(***************************************************************************)
(* The management hierarchy of internal/corecontracts: scopes nested under *)
(* one global root, sites and management zones bound to scopes, and the    *)
(* node roles assigned inside them.                                        *)
(*                                                                         *)
(* A topology is a record of three sets of documents,                      *)
(*   scopes [id, kind, parent, delegations]   sites [id, scope]            *)
(*   zones  [id, scope, site]                                              *)
(* with None for an absent reference.  Identifiers are well formed, so the *)
(* syntax checks (validateIdentifier, validateDisplayName) always succeed. *)
(***************************************************************************)
EXTENDS Naturals, FiniteSets

CONSTANT None

ScopeKinds == {"global", "management", "site", "resource"}

DelegatedAuthorities ==
  {"rbac", "policy", "configuration", "desired-state", "applications"}

NodeRoles ==
  {"management-node", "global-controller", "site-controller",
   "controller-cluster-member", "worker-node", "managed-node", "agent",
   "data-node", "consensus-node", "repository-node", "telemetry-node",
   "backup-repository-node", "edge-gateway"}

ControllerRoles ==
  {"global-controller", "site-controller", "controller-cluster-member"}

HasId(docs, id) == \E d \in docs : d.id = id

ById(docs, id) == CHOOSE d \in docs : d.id = id

RootId(t) == (CHOOSE s \in t.scopes : s.kind = "global").id

(* The scope itself and every scope met on the walk over parents.          *)
PathUp(t, id) ==
  LET up[n \in 0..Cardinality(t.scopes)] ==
        IF n = 0 THEN {id}
        ELSE LET below == up[n - 1]
             IN  below \cup {s.parent : s \in {x \in t.scopes :
                                /\ x.id \in below
                                /\ x.kind # "global"}}
  IN  up[Cardinality(t.scopes)]

(* Topology.Contains: false for an id that is not in the topology.         *)
Contains(t, ancestor, descendant) ==
  /\ HasId(t.scopes, ancestor)
  /\ HasId(t.scopes, descendant)
  /\ ancestor \in PathUp(t, descendant)

(* Topology.IsDelegated: direct grants only, nothing is inherited.         *)
IsDelegated(t, id, authority) ==
  /\ HasId(t.scopes, id)
  /\ authority \in ById(t.scopes, id).delegations

(* The root needs no grant; every other owner needs a direct one.          *)
MayOwn(t, owner, scope, authority) ==
  /\ Contains(t, owner, scope)
  /\ owner # RootId(t) => IsDelegated(t, owner, authority)

ValidScope(s) ==
  /\ s.kind \in ScopeKinds
  /\ s.delegations \subseteq DelegatedAuthorities
  /\ IF s.kind = "global"
     THEN s.parent = None /\ s.delegations = {}
     ELSE s.parent # None /\ s.parent # s.id

UniqueIds(docs) == \A a, b \in docs : a.id = b.id => a = b

(* validatePathToRoot: with one parent each, a scope reaches the root or   *)
(* runs into a cycle.                                                      *)
ValidPathToRoot(t, id) == RootId(t) \in PathUp(t, id)

ValidSite(t, site) ==
  \E s \in t.scopes : s.id = site.scope /\ s.kind = "site"

ValidManagementZone(t, zone) ==
  /\ HasId(t.scopes, zone.scope)
  /\ zone.site # None =>
       /\ HasId(t.sites, zone.site)
       /\ Contains(t, ById(t.sites, zone.site).scope, zone.scope)

NewTopologyAccepts(t) ==
  /\ \A s \in t.scopes : ValidScope(s)
  /\ UniqueIds(t.scopes) /\ UniqueIds(t.sites) /\ UniqueIds(t.zones)
  /\ Cardinality({s \in t.scopes : s.kind = "global"}) = 1
  /\ \A s \in t.scopes : s.kind # "global" => HasId(t.scopes, s.parent)
  /\ \A s \in t.scopes : ValidPathToRoot(t, s.id)
  /\ \A s \in t.sites : ValidSite(t, s)
  /\ \A a, b \in t.sites : a.scope = b.scope => a = b
  /\ \A z \in t.zones : ValidManagementZone(t, z)

-----------------------------------------------------------------------------
(* Role assignments: [object, scope, owner, node, service, role, site,     *)
(* zone].                                                                  *)

RoleFitsScope(t, a) ==
  LET kind == ById(t.scopes, a.scope).kind
      direct == a.site # None /\ ById(t.sites, a.site).scope = a.scope
  IN  /\ a.role = "global-controller" => kind = "global" /\ a.site = None
      /\ a.role = "site-controller" => kind = "site" /\ direct
      /\ a.role = "controller-cluster-member" =>
           /\ kind \in {"global", "site"}
           /\ kind = "global" => a.site = None
           /\ kind = "site" => direct

ZoneFitsAssignment(t, a) ==
  a.zone # None =>
    /\ HasId(t.zones, a.zone)
    /\ LET zone == ById(t.zones, a.zone)
       IN  /\ Contains(t, zone.scope, a.scope)
           /\ a.site # None /\ zone.site # None => zone.site = a.site

ValidateRoleAssignment(t, a) ==
  /\ a.role \in NodeRoles
  /\ HasId(t.scopes, a.scope)
  /\ MayOwn(t, a.owner, a.scope, "desired-state")
  /\ a.site # None =>
       /\ HasId(t.sites, a.site)
       /\ Contains(t, ById(t.sites, a.site).scope, a.scope)
  /\ RoleFitsScope(t, a)
  /\ ZoneFitsAssignment(t, a)

(* A set of assignments: a node holds a role for a service once, and the   *)
(* controllers of a scope are members of one service that serves no other  *)
(* scope.                                                                  *)
ValidateRoleAssignments(t, assignments) ==
  LET controllers == {a \in assignments : a.role \in ControllerRoles}
  IN  /\ \A a \in assignments : ValidateRoleAssignment(t, a)
      /\ \A a, b \in assignments :
           \/ a = b
           \/ /\ a.object # b.object
              /\ <<a.node, a.role, a.service>> # <<b.node, b.role, b.service>>
      /\ \A a, b \in controllers : (a.scope = b.scope) = (a.service = b.service)
=============================================================================
