-------------------------- MODULE MCNodeAdmission --------------------------
(***************************************************************************)
(* One token, one managed node and a second one it might be mistaken for,  *)
(* an operator and a monitor.  The reports and the assignments hold one    *)
(* that is good and near misses of it.                                     *)
(***************************************************************************)
EXTENDS NodeAdmission

CONSTANTS n1, n2, t1, root, branch, site1, zone1, operator, monitor

MCTopology ==
  [scopes |-> {[id |-> root, kind |-> "global", parent |-> None,
                delegations |-> {}],
               [id |-> branch, kind |-> "site", parent |-> root,
                delegations |-> {"desired-state"}]},
   sites |-> {[id |-> site1, scope |-> branch]},
   zones |-> {[id |-> zone1, scope |-> branch, site |-> site1]}]

Ask(node, scope, ttl) ==
  [node |-> node, scope |-> scope, transport |-> "ssh", ttl |-> ttl]

MCTokenRequests == {Ask(n1, branch, 1), Ask(n2, branch, 1), Ask(n1, root, 16)}

Disk == [id |-> "disk", kind |-> "nvme", capacity |-> 8]

Port ==
  [id |-> "eth0", kind |-> "physical", parent |-> None, state |-> "up",
   zone |-> "lan", mtu |-> 1500, speed |-> 1, mac |-> "mac", vlan |-> None,
   addresses |-> {"address"}]

Observed(metric, target, value, at) ==
  [metric |-> metric, target |-> target, value |-> value,
   unit |-> CapacityMetricDefinitions[metric].unit, evidence |-> "measured",
   observed |-> at]

MCReport ==
  [contract |-> "v2", node |-> n1, site |-> site1, zone |-> zone1,
   collected |-> 1, capabilities |-> {"inventory"}, roles |-> {"agent"},
   hardware |-> [machine |-> "machine", product |-> None, serial |-> None,
                 architecture |-> "amd64", sockets |-> 1, physical |-> 2,
                 logical |-> 4, memory |-> 4, storage |-> {Disk}],
   interfaces |-> {Port},
   identity |-> [notBefore |-> -10, notAfter |-> 10,
                 algorithm |-> "ed25519"],
   observations |-> {Observed("cpu.utilization", n1, 100, 1),
                     Observed("memory.used", n1, 4, 1),
                     Observed("storage.used", "disk", 8, -14),
                     Observed("network.throughput", "eth0", 1000000, 0)}]

(* Too late, from before the certificate, stale, about another node, with  *)
(* more memory in use than there is, and of the first contract.            *)
MCReports ==
  {MCReport,
   [MCReport EXCEPT !.collected = 2],
   [MCReport EXCEPT !.identity.notBefore = 2],
   [MCReport EXCEPT !.observations =
      @ \cup {Observed("storage.iops", "disk", 0, -15)}],
   [MCReport EXCEPT !.node = n2],
   [MCReport EXCEPT !.hardware.memory = 3],
   [MCReport EXCEPT !.roles = {"agent", "data-node"}],
   [contract |-> "v1", node |-> n1, site |-> None, zone |-> None,
    collected |-> None, capabilities |-> {"inventory"}, roles |-> {},
    hardware |-> None, interfaces |-> {}, identity |-> None,
    observations |-> {}]}

Assigned(node, scope, role) ==
  [scope |-> scope, site |-> site1, node |-> node, zone |-> zone1,
   role |-> role, object |-> <<node, role>>, owner |-> branch,
   service |-> "agents"]

MCAssignmentSets ==
  {{}, {Assigned(n1, branch, "agent")}, {Assigned(n2, branch, "agent")},
   {Assigned(n1, branch, "agent"), Assigned(n1, branch, "edge-gateway")}}

MCPlacements ==
  {[id |-> "web", kind |-> "stateless", adapter |-> None, outside |-> 0],
   [id |-> "db", kind |-> "stateful", adapter |-> "postgres", outside |-> 1]}
=============================================================================
