---------------------------- MODULE MCCoreObjects ----------------------------
(* One site under the global root: a site controller and an agent on node  *)
(* n1, one interface of n1, one desired state.  Operators revoke and grant *)
(* the site's delegations, move the agent role to n2, change the intent    *)
(* and its owner, file a second control plane and a VLAN; the agent        *)
(* reports.                                                                *)
EXTENDS CoreObjects, TLC

CONSTANTS j1, j2, j3

Stored(type, id, scope, owner, doc) ==
  [object |-> id, type |-> type, scope |-> scope, owner |-> owner,
   generation |-> 1, version |-> 0, created |-> 1, updated |-> 1, doc |-> doc]

Wanted(type, id, scope, owner, doc) ==
  [object |-> id, type |-> type, scope |-> scope, owner |-> owner, doc |-> doc]

SiteScopeDoc(delegated) ==
  [id |-> "branch", kind |-> "site", parent |-> "global",
   delegations |-> delegated]

RoleDoc(node, service, role) ==
  [node |-> node, service |-> service, role |-> role, site |-> "site",
   zone |-> "mzone"]

InterfaceDoc(id, kind, parent, vlan) ==
  [id |-> id, scope |-> "branch", kind |-> kind, parent |-> parent,
   node |-> "n1", site |-> "site", zone |-> "lan", vlan |-> vlan,
   name |-> id, state |-> "up", mac |-> "mac", mtu |-> 1500, speed |-> 1000]

IntentDoc(content) == [kind |-> "config", target |-> "n1", spec |-> content]

MCInitialStore ==
  {Stored("scope", "global", "global", "global",
          [id |-> "global", kind |-> "global", parent |-> None,
           delegations |-> {}]),
   Stored("scope", "branch", "global", "global",
          SiteScopeDoc({"desired-state", "configuration"})),
   Stored("site", "site", "branch", "global",
          [id |-> "site", scope |-> "branch"]),
   Stored("management-zone", "mzone", "branch", "global",
          [id |-> "mzone", scope |-> "branch", site |-> "site"]),
   Stored("network-zone", "lan", "branch", "global",
          [id |-> "lan", scope |-> "branch", kind |-> "lan",
           site |-> "site"]),
   Stored("role-assignment", "control", "branch", "global",
          RoleDoc("n2", "svc", "site-controller")),
   Stored("role-assignment", "role", "branch", "global",
          RoleDoc("n1", "agent", "agent")),
   Stored("desired-state", "intent", "branch", "global", IntentDoc("v1"))}

MCTemplates ==
  {Wanted("scope", "branch", "global", "global", SiteScopeDoc({})),
   Wanted("scope", "branch", "global", "global",
          SiteScopeDoc({"desired-state"})),
   Wanted("role-assignment", "role", "branch", "global",
          RoleDoc("n2", "agent", "agent")),
   Wanted("role-assignment", "control2", "branch", "global",
          RoleDoc("n1", "other", "site-controller")),
   Wanted("network-interface", "eth0", "branch", "branch",
          InterfaceDoc("eth0", "physical", None, None)),
   Wanted("network-interface", "vlan5", "branch", "global",
          InterfaceDoc("vlan5", "vlan", "eth0", 5)),
   Wanted("desired-state", "intent", "branch", "branch", IntentDoc("v2")),
   Wanted("desired-state", "intent", "branch", "global", IntentDoc("v2")),
   Wanted("desired-state", "intent", "branch", "global", IntentDoc("v1"))}

MCObservers ==
  {[scope |-> "branch", owner |-> "branch", object |-> "actual",
    source |-> "n1", desired |-> "intent"]}

MCJobs == {j1, j2, j3}

JobSymmetry == Permutations(MCJobs)
=============================================================================
