---------------------------- MODULE CoreContracts ----------------------------
(***************************************************************************)
(* The stored objects of internal/corecontracts, the validation of a whole *)
(* snapshot and the preparation of one mutation against it.                *)
(*                                                                         *)
(* A stored object is an envelope [object, type, scope, owner, generation, *)
(* version, created, updated] and a typed document doc:                    *)
(*   scope, site, management-zone   as in Topology                         *)
(*   network-zone       [id, kind, scope, site]                            *)
(*   network-interface  [id, node, name, kind, scope, site, zone, state,   *)
(*                       mac, mtu, speed, parent, vlan]                    *)
(*   role-assignment    [node, service, role, site, zone]                  *)
(*   desired-state      [kind, target, spec]                               *)
(*   actual-state       [kind, target, desired, observedGeneration,        *)
(*                       source, observedAt, status, state]                *)
(* A document is its parsed content, so two JSON texts that differ only in *)
(* key order or spacing are one document and a fingerprint is the request  *)
(* itself.  Documents that do not parse are refused before anything else.  *)
(* Interface addresses are left out: no other object refers to them.       *)
(***************************************************************************)
EXTENDS Topology

ObjectTypes ==
  {"scope", "site", "management-zone", "network-zone", "network-interface",
   "role-assignment", "desired-state", "actual-state"}

NetworkZoneKinds ==
  {"unassigned", "wan", "lan", "management", "dmz", "cluster", "storage",
   "backup", "trusted"}

NetworkInterfaceKinds == {"physical", "bond", "bridge", "vlan", "virtual"}

NetworkLinkStates == {"up", "down", "unknown"}

ActualStateStatuses ==
  {"converged", "progressing", "drifted", "failed", "unknown"}

MaxNetworkInterfacesPerNode == 64
MaxMTU == 65535
MaxLinkSpeedMbps == 10000000
MaxVLAN == 4094

OfType(objects, type) == {o \in objects : o.type = type}

DocsOf(objects, type) == {o.doc : o \in OfType(objects, type)}

(* topologyFromObjects, without the validation NewTopology does.           *)
TopologyOf(objects) ==
  [scopes |-> DocsOf(objects, "scope"),
   sites  |-> DocsOf(objects, "site"),
   zones  |-> DocsOf(objects, "management-zone")]

RoleAssignmentFrom(o) ==
  [object |-> o.object, scope |-> o.scope, owner |-> o.owner,
   node |-> o.doc.node, service |-> o.doc.service, role |-> o.doc.role,
   site |-> o.doc.site, zone |-> o.doc.zone]

Assignments(objects) ==
  {RoleAssignmentFrom(o) : o \in OfType(objects, "role-assignment")}

-----------------------------------------------------------------------------
(* Object metadata.                                                        *)

ValidMetadata(o) ==
  /\ o.generation > 0
  /\ o.created <= o.updated

(* Mutant of PreconditionHolds: the opaque version is not compared, so an  *)
(* update that leaves the generation alone goes unnoticed.                 *)
PreconditionHoldsByGeneration(pre, current) ==
  /\ pre.object = current.object
  /\ pre.generation # None => pre.generation = current.generation

(* ObjectPrecondition.ValidateAgainst; the generation is optional.         *)
PreconditionHolds(pre, current) ==
  /\ pre.object = current.object
  /\ pre.version = current.version
  /\ pre.generation # None => pre.generation = current.generation

ValidateSuccessor(current, next, desiredChanged) ==
  /\ ValidMetadata(current) /\ ValidMetadata(next)
  /\ next.object = current.object
  /\ next.created = current.created
  /\ next.updated >= current.updated
  /\ next.version # current.version
  /\ ~desiredChanged => /\ next.scope = current.scope
                        /\ next.owner = current.owner
  /\ next.generation = current.generation + (IF desiredChanged THEN 1 ELSE 0)

-----------------------------------------------------------------------------
(* Network zones and interfaces against the rest of the snapshot.          *)

ValidateNetworkZone(t, zone) ==
  /\ zone.kind \in NetworkZoneKinds
  /\ HasId(t.sites, zone.site)
  /\ Contains(t, ById(t.sites, zone.site).scope, zone.scope)

NodesAtSite(assignments, site) ==
  {a.node : a \in {b \in assignments : b.site = site}}

ValidateNetworkInterface(t, zones, assignments, i) ==
  /\ i.kind \in NetworkInterfaceKinds
  /\ i.state \in NetworkLinkStates
  /\ HasId(t.sites, i.site)
  /\ Contains(t, ById(t.sites, i.site).scope, i.scope)
  /\ HasId(zones, i.zone)
  /\ ById(zones, i.zone).site = i.site
  /\ Contains(t, ById(zones, i.zone).scope, i.scope)
  /\ i.node \in NodesAtSite(assignments, i.site)
  /\ i.mtu \in 68..MaxMTU
  /\ i.speed <= MaxLinkSpeedMbps
  /\ i.kind = "physical" => i.mac # None
  /\ IF i.kind = "vlan" THEN i.parent # None /\ i.vlan \in 1..MaxVLAN
                        ELSE i.vlan = None
  /\ i.parent # None => i.kind \in {"vlan", "virtual"}

ValidParent(interfaces, i) ==
  i.parent # None =>
    \E p \in interfaces :
      /\ p.id = i.parent /\ p.id # i.id
      /\ <<p.node, p.site, p.scope>> = <<i.node, i.site, i.scope>>

(* The interfaces met on the walk over parents, the interface excluded: a  *)
(* cycle is an interface above itself.                                     *)
InterfacesAbove(interfaces, id) ==
  LET up[n \in 1..Cardinality(interfaces)] ==
        LET below == IF n = 1 THEN {id} ELSE up[n - 1]
        IN  (IF n = 1 THEN {} ELSE below) \cup
              {i.parent : i \in {x \in interfaces : /\ x.id \in below
                                                    /\ x.parent # None}}
  IN  up[Cardinality(interfaces)]

ValidateNetworkContracts(t, zones, interfaces, assignments) ==
  /\ \A z \in zones : ValidateNetworkZone(t, z)
  /\ \A i \in interfaces :
       ValidateNetworkInterface(t, zones, assignments, i)
  /\ UniqueIds(zones) /\ UniqueIds(interfaces)
  /\ \A i, j \in interfaces :
       (i.node = j.node /\ i.name = j.name) => i = j
  /\ \A i \in interfaces :
       Cardinality({j \in interfaces : j.node = i.node})
         <= MaxNetworkInterfacesPerNode
  /\ \A i \in interfaces : ValidParent(interfaces, i)
  /\ \A i, j \in interfaces :
       (/\ i.kind = "vlan" /\ j.kind = "vlan"
        /\ <<i.node, i.parent, i.vlan>> = <<j.node, j.parent, j.vlan>>)
          => i = j
  /\ \A i \in interfaces : i.id \notin InterfacesAbove(interfaces, i.id)

-----------------------------------------------------------------------------
(* Desired and actual state.                                               *)

ValidateDesiredState(t, o) ==
  /\ HasId(t.scopes, o.scope)
  /\ MayOwn(t, o.owner, o.scope, "desired-state")

(* An observation is owned where it is made: no delegation is asked for.   *)
ValidateActualState(t, o) ==
  /\ HasId(t.scopes, o.scope)
  /\ Contains(t, o.owner, o.scope)
  /\ o.doc.status \in ActualStateStatuses

ValidateStatePair(t, desired, actual) ==
  /\ ValidateDesiredState(t, desired)
  /\ ValidateActualState(t, actual)
  /\ actual.doc.desired = desired.object
  /\ actual.doc.target = desired.doc.target
  /\ actual.doc.kind = desired.doc.kind
  /\ Contains(t, desired.scope, actual.owner)
  /\ actual.doc.observedGeneration <= desired.generation

IsConverged(t, desired, actual) ==
  /\ ValidateStatePair(t, desired, actual)
  /\ actual.doc.observedGeneration = desired.generation
  /\ actual.doc.status = "converged"

-----------------------------------------------------------------------------
(* A complete snapshot.                                                    *)

(* Sites, zones, network zones and interfaces carry their own id and scope *)
(* in the document; both must agree with the envelope.                     *)
BoundDocument(t, o) ==
  /\ o.doc.id = o.object
  /\ o.doc.scope = o.scope
  /\ MayOwn(t, o.owner, o.scope, "configuration")

ValidScopeObject(t, o) ==
  /\ o.doc.id = o.object
  /\ IF o.doc.kind = "global"
     THEN o.scope = o.object /\ o.owner = o.object
     ELSE /\ o.scope = o.doc.parent
          /\ MayOwn(t, o.owner, o.object, "configuration")

ValidateTypedObject(t, o) ==
  CASE o.type = "scope" -> ValidScopeObject(t, o)
    [] o.type \in {"site", "management-zone", "network-zone",
                   "network-interface"} -> BoundDocument(t, o)
    [] o.type = "role-assignment" ->
         ValidateRoleAssignment(t, RoleAssignmentFrom(o))
    [] o.type = "desired-state" -> ValidateDesiredState(t, o)
    [] o.type = "actual-state" -> ValidateActualState(t, o)

(* Two objects may not carry one document id: NewTopology and the network  *)
(* checks see every document, also when two objects hold the same one.     *)
UniqueDocuments(objects) ==
  \A a, b \in objects :
    (/\ a.type = b.type
     /\ a.type \in {"scope", "site", "management-zone", "network-zone",
                    "network-interface"}
     /\ a.doc.id = b.doc.id) => a = b

ValidateStoredObjects(objects) ==
  LET t == TopologyOf(objects)
  IN  /\ objects # {}
      /\ \A o \in objects : o.type \in ObjectTypes /\ ValidMetadata(o)
      /\ \A a, b \in objects : a.object = b.object => a = b
      /\ UniqueDocuments(objects)
      /\ NewTopologyAccepts(t)
      /\ \A o \in objects : ValidateTypedObject(t, o)
      /\ ValidateRoleAssignments(t, Assignments(objects))
      /\ ValidateNetworkContracts(t, DocsOf(objects, "network-zone"),
                                  DocsOf(objects, "network-interface"),
                                  Assignments(objects))

-----------------------------------------------------------------------------
(* One mutation: [operation, type, object, scope, owner, doc, pre], where  *)
(* pre is None or [object, version, generation].                           *)

ReplaceInSnapshot(objects, next) ==
  {o \in objects : o.object # next.object} \cup {next}

(* What a replacement may never change, by type.                           *)
ImmutableFields(type) ==
  CASE type = "scope"             -> {"kind"}
    [] type = "role-assignment"   -> {"role", "service"}
    [] type = "network-zone"      -> {"kind", "site"}
    [] type = "network-interface" -> {"node", "kind", "site"}
    [] type = "desired-state"     -> {"kind", "target"}
    [] type = "actual-state"      -> {"kind", "target", "desired", "source"}
    [] OTHER                      -> {}

ValidateTypedSuccessor(objects, current, next) ==
  LET t == TopologyOf(ReplaceInSnapshot(objects, next))
  IN  /\ NewTopologyAccepts(t)
      /\ \A f \in ImmutableFields(current.type) : next.doc[f] = current.doc[f]
      /\ current.type = "role-assignment" =>
           /\ ValidateRoleAssignment(t, RoleAssignmentFrom(current))
           /\ ValidateRoleAssignment(t, RoleAssignmentFrom(next))
      /\ current.type = "actual-state" =>
           /\ next.doc.observedGeneration >= current.doc.observedGeneration
           /\ next.doc.observedAt >= current.doc.observedAt

(* Mutant of DesiredChanged: a move to another owner or scope does not     *)
(* count, and neither does a new document.                                 *)
DesiredChangedByOwnership(request, current) ==
  /\ request.type # "actual-state"
  /\ \/ request.scope # current.scope
     \/ request.owner # current.owner

DesiredChanged(request, current) ==
  /\ request.type # "actual-state"
  /\ \/ request.scope # current.scope
     \/ request.owner # current.owner
     \/ request.doc # current.doc

(* The object a request asks for: server-allocated version, generation and *)
(* times; the creation time of the object it replaces.                     *)
NextObject(request, current, now, version) ==
  [object |-> request.object, type |-> request.type, scope |-> request.scope,
   owner |-> request.owner, doc |-> request.doc, version |-> version,
   generation |-> IF current = None THEN 1
                  ELSE IF DesiredChanged(request, current)
                       THEN current.generation + 1 ELSE current.generation,
   created |-> IF current = None THEN now ELSE current.created,
   updated |-> now]

(* Mutant of CandidateAccepted: only the object written is checked, not    *)
(* what the rest of the snapshot makes of it.                              *)
CandidateAcceptedAlone(objects, next) ==
  ValidateTypedObject(TopologyOf(ReplaceInSnapshot(objects, next)), next)

CandidateAccepted(objects, next) ==
  ValidateStoredObjects(ReplaceInSnapshot(objects, next))

(* PrepareMutation succeeds with NextObject exactly when this holds.       *)
MutationPrepared(request, objects, current, now, version) ==
  LET next == NextObject(request, current, now, version)
  IN  /\ request.type \in ObjectTypes
      /\ IF request.operation = "create"
         THEN current = None /\ request.pre = None
         ELSE /\ current # None
              /\ request.pre # None
              /\ PreconditionHolds(request.pre, current)
              /\ request.type = current.type
              /\ ValidateTypedSuccessor(objects, current, next)
              /\ ValidateSuccessor(current, next,
                                   DesiredChanged(request, current))
      /\ CandidateAccepted(objects, next)
=============================================================================
