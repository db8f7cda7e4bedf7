-------------------------- MODULE AgentEnrollment --------------------------
(***************************************************************************)
(* The enrolment contract of internal/agent: what an agent reports about   *)
(* its node and when the report is good enough to admit the node.          *)
(*                                                                         *)
(* A report of contract v2 is a record                                     *)
(*   [contract, node, site, zone, collected, capabilities, roles,          *)
(*    hardware, interfaces, identity, observations]                        *)
(* and a v1 report has None, or nothing, in the extended fields.  Text is  *)
(* already trimmed and lower case, names are well formed and lists are     *)
(* sets: normalisation sorts them and drops what repeats.  Times are       *)
(* minutes.                                                                *)
(***************************************************************************)
EXTENDS CoreContracts, Integers, TLC

MaxCapabilities == 64
MaxRoles == 16
MaxStorageDevices == 64
MaxNetworkInterfaces == 64
MaxCapacityObservations == 256

StorageKinds == {"hdd", "ssd", "nvme", "other"}

Architectures == {"amd64", "arm64"}

PublicKeyAlgorithms == {"rsa", "ecdsa", "ed25519"}

Evidences == {"measured", "estimated", "benchmark"}

CapacityFreshnessWindow == 15
ClockSkewAllowed == 5

(* capacityMetricDefinitions: None for the metrics whose safety bound is   *)
(* 10^21, which no observation here comes near.                            *)
Metric(unit, target, maximum) ==
  [unit |-> unit, target |-> target, maximum |-> maximum]

CapacityMetricDefinitions ==
  "cpu.utilization" :> Metric("percent", "node", 100) @@
  "memory.used" :> Metric("bytes", "node", None) @@
  "storage.used" :> Metric("bytes", "storage", None) @@
  "storage.iops" :> Metric("operations-per-second", "storage", None) @@
  "storage.latency" :> Metric("milliseconds", "storage", None) @@
  "storage.queue-depth" :> Metric("count", "storage", None) @@
  "network.throughput" :> Metric("bits-per-second", "network-interface", None) @@
  "network.latency" :> Metric("milliseconds", "network-interface", None) @@
  "network.packet-loss" :> Metric("percent", "network-interface", 100) @@
  "database.latency" :> Metric("milliseconds", "database", None) @@
  "database.transactions" :> Metric("transactions-per-second", "database", None) @@
  "service.queue-depth" :> Metric("count", "service", None)

-----------------------------------------------------------------------------
(* The parts of a v2 report.                                               *)

ValidHardware(h) ==
  /\ h.machine # None \/ h.product # None \/ h.serial # None
  /\ h.architecture \in Architectures
  /\ h.sockets > 0
  /\ h.sockets <= h.physical /\ h.physical <= h.logical
  /\ h.memory > 0
  /\ Cardinality(h.storage) \in 1..MaxStorageDevices
  /\ \A d \in h.storage : d.kind \in StorageKinds /\ d.capacity > 0
  /\ UniqueIds(h.storage)

ValidInterface(i) ==
  /\ i.kind \in NetworkInterfaceKinds
  /\ i.state \in NetworkLinkStates
  /\ i.zone \in NetworkZoneKinds
  /\ i.mtu \in 68..MaxMTU
  /\ i.speed <= MaxLinkSpeedMbps
  /\ i.kind = "physical" => i.mac # None
  /\ IF i.kind = "vlan" THEN i.parent # None /\ i.vlan \in 1..MaxVLAN
                        ELSE i.vlan = None
  /\ i.parent # None => i.kind \in {"vlan", "virtual"}

ValidInterfaces(interfaces) ==
  /\ Cardinality(interfaces) \in 1..MaxNetworkInterfaces
  /\ \A i \in interfaces : ValidInterface(i)
  /\ UniqueIds(interfaces)
  /\ \A i \in interfaces :
       i.parent # None => HasId(interfaces, i.parent) /\ i.parent # i.id
  /\ \A i \in interfaces : i.id \notin InterfacesAbove(interfaces, i.id)

ValidIdentity(identity) ==
  /\ identity.notBefore < identity.notAfter
  /\ identity.algorithm \in PublicKeyAlgorithms

(* validateObservationTarget: what the metric measures must be part of the *)
(* same report and cannot exceed it.                                       *)
ValidTarget(report, o) ==
  LET target == CapacityMetricDefinitions[o.metric].target
  IN  /\ target = "node" =>
           /\ o.target = report.node
           /\ o.metric = "memory.used" => o.value <= report.hardware.memory
      /\ target = "storage" =>
           \E d \in report.hardware.storage :
             /\ d.id = o.target
             /\ o.metric = "storage.used" => o.value <= d.capacity
      /\ target = "network-interface" =>
           \E i \in report.interfaces :
             /\ i.id = o.target
             /\ (o.metric = "network.throughput" /\ i.speed > 0) =>
                  o.value <= i.speed * 1000000

ValidObservation(report, o) ==
  /\ o.metric \in DOMAIN CapacityMetricDefinitions
  /\ LET definition == CapacityMetricDefinitions[o.metric]
     IN  /\ o.unit = definition.unit
         /\ o.value >= 0
         /\ definition.maximum # None => o.value <= definition.maximum
  /\ o.evidence \in Evidences
  /\ o.observed <= report.collected + ClockSkewAllowed
  /\ ValidTarget(report, o)

ValidObservations(report) ==
  /\ Cardinality(report.observations) <= MaxCapacityObservations
  /\ \A o \in report.observations : ValidObservation(report, o)
  /\ \A a, b \in report.observations :
       <<a.metric, a.target, a.observed>> = <<b.metric, b.target, b.observed>>
         => a = b

HasV2Fields(report) ==
  \/ report.roles # {} \/ report.interfaces # {} \/ report.observations # {}
  \/ report.site # None \/ report.zone # None \/ report.collected # None
  \/ report.hardware # None \/ report.identity # None

NormalizeEnrollmentV2(report) ==
  /\ report.site # None /\ report.zone # None /\ report.collected # None
  /\ report.hardware # None /\ report.identity # None
  /\ Cardinality(report.capabilities) <= MaxCapabilities
  /\ report.roles \subseteq NodeRoles
  /\ Cardinality(report.roles) \in 1..MaxRoles
  /\ ValidHardware(report.hardware)
  /\ ValidInterfaces(report.interfaces)
  /\ ValidIdentity(report.identity)
  /\ ValidObservations(report)

NormalizeEnrollment(report) ==
  IF report.contract \in {None, "v1"}
  THEN /\ ~HasV2Fields(report)
       /\ Cardinality(report.capabilities) <= MaxCapabilities
  ELSE /\ report.contract = "v2"
       /\ NormalizeEnrollmentV2(report)

-----------------------------------------------------------------------------
(* Admission preconditions, evaluated at the time of collection.           *)

RequiredMetrics(roles) ==
  {"cpu.utilization", "memory.used", "storage.used", "network.throughput"}
    \cup (IF "data-node" \in roles THEN {"database.latency"} ELSE {})

ManagementPathZones == {"management", "lan", "trusted"}

ManagementPath(report) ==
  \E i \in report.interfaces :
    i.zone \in ManagementPathZones /\ i.state = "up" /\ i.addresses # {}

CertificateValid(report) ==
  /\ report.identity.notBefore <= report.collected
  /\ report.collected < report.identity.notAfter

PreconditionsReady(report) ==
  /\ report.contract = "v2"
  /\ "agent" \in report.roles
  /\ "inventory" \in report.capabilities
  /\ CertificateValid(report)
  /\ ManagementPath(report)
  /\ report.observations # {}
  /\ \A o \in report.observations :
       /\ o.evidence = "measured"
       /\ o.observed <= report.collected
       /\ report.collected - o.observed <= CapacityFreshnessWindow
  /\ \A m \in RequiredMetrics(report.roles) :
       \E o \in report.observations : o.metric = m
=============================================================================
