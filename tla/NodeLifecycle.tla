---------------------------- MODULE NodeLifecycle ----------------------------
(***************************************************************************)
(* The node lifecycle contract of internal/nodelifecycle: the states of a  *)
(* node, the edges between them, the evidence every edge requires, and the *)
(* plans an operator gets before anything is executed.                     *)
(*                                                                         *)
(* A lifecycle object is an object of the core contracts with the fields   *)
(*   [object, scope, owner, generation, version, created, updated,         *)
(*    state, changed, reason]                                              *)
(* where reason is None or an incident.  A transition request is           *)
(*   [to, type, reason, pre, evidence].                                    *)
(***************************************************************************)
EXTENDS CoreContracts

States ==
  {"discovered", "enrolling", "ready", "degraded", "draining", "maintenance",
   "updating", "replacing", "removing", "offline", "recovering", "retired"}

EvidenceChecks ==
  {"enrollment-authorized", "identity-verified", "readiness-passed",
   "maintenance-preflight-passed", "scheduling-disabled",
   "scheduling-enabled", "drain-complete", "no-active-jobs",
   "no-active-placements", "stateful-workloads-safe", "operation-approved",
   "operation-cancelled", "rollback-verified", "update-verified",
   "replacement-node-ready", "state-synchronized", "switchover-verified",
   "replacement-health-verified", "removal-approved", "removal-verified",
   "recovery-started", "recovery-verified", "retirement-approved",
   "no-managed-state"}

DrainChecks ==
  {"maintenance-preflight-passed", "scheduling-disabled", "drain-complete",
   "no-active-jobs", "no-active-placements", "stateful-workloads-safe"}

Preflight == {"maintenance-preflight-passed", "scheduling-disabled"}
Rollback == {"operation-cancelled", "rollback-verified"}
Unmanaged == {"retirement-approved", "no-managed-state"}

(* Desired edges are operator intent; observations report progress or      *)
(* health and keep the generation.                                         *)
Desired(from, to, checks) ==
  [from |-> from, to |-> to, type |-> "desired", checks |-> checks]
Observation(from, to, checks) ==
  [from |-> from, to |-> to, type |-> "observation", checks |-> checks]

(* A node that fails is seen degraded or offline from any state in which   *)
(* it is managed.                                                          *)
FailureRules ==
  {Observation(s, "degraded", {}) : s \in
     {"enrolling", "ready", "draining", "maintenance", "updating",
      "replacing", "removing", "recovering"}}
  \cup
  {Observation(s, "offline", {}) : s \in
     {"enrolling", "ready", "degraded", "draining", "maintenance",
      "updating", "replacing", "removing", "recovering"}}

PlannedRules ==
  {Desired("discovered", "enrolling", {"enrollment-authorized"}),
   Desired("discovered", "retired", Unmanaged),
   Observation("enrolling", "ready", {"identity-verified",
                                      "readiness-passed"}),
   Desired("enrolling", "retired", Unmanaged),
   Desired("ready", "draining", Preflight),
   Observation("degraded", "ready", {"readiness-passed"}),
   Desired("degraded", "draining", Preflight),
   Observation("degraded", "recovering", {"recovery-started"}),
   Observation("draining", "maintenance", DrainChecks),
   Desired("draining", "ready", {"operation-cancelled", "scheduling-enabled",
                                 "readiness-passed"}),
   Desired("maintenance", "ready", {"scheduling-enabled",
                                    "readiness-passed"}),
   Desired("maintenance", "updating", {"operation-approved",
                                       "maintenance-preflight-passed"}),
   Desired("maintenance", "replacing",
           {"operation-approved", "replacement-node-ready",
            "state-synchronized"}),
   Desired("maintenance", "removing",
           {"operation-approved", "removal-approved"} \cup DrainChecks),
   Observation("updating", "ready", {"update-verified", "scheduling-enabled",
                                     "readiness-passed"}),
   Observation("updating", "maintenance", {"update-verified"}),
   Observation("replacing", "retired",
               {"replacement-node-ready", "state-synchronized",
                "switchover-verified", "replacement-health-verified"}),
   Desired("replacing", "maintenance", Rollback),
   Observation("removing", "retired", {"removal-verified",
                                       "retirement-approved"}),
   Desired("removing", "maintenance", Rollback),
   Observation("offline", "recovering", {"identity-verified",
                                         "recovery-started"}),
   Desired("offline", "retired", Unmanaged \cup {"stateful-workloads-safe"}),
   Observation("recovering", "ready", {"recovery-verified",
                                       "readiness-passed"}),
   Desired("recovering", "draining", Preflight)}

(* Mutant of TransitionRules: a node that recovered goes straight back     *)
(* into maintenance, as if the drain before the incident still held.       *)
TransitionRulesResume ==
  FailureRules \cup PlannedRules \cup
    {Desired("recovering", "maintenance", Preflight)}

TransitionRules == FailureRules \cup PlannedRules

ReasonStates == {"degraded", "offline", "recovering", "retired"}

(* An incident state says why; every other state clears the reason.        *)
ValidReason(state, reason) == (state \in ReasonStates) = (reason # None)

Validate(o) ==
  /\ ValidMetadata(o)
  /\ o.state \in States
  /\ o.created <= o.changed /\ o.changed <= o.updated
  /\ ValidReason(o.state, o.reason)

ValidateInitial(o) ==
  /\ Validate(o)
  /\ o.state = "discovered"
  /\ o.generation = 1
  /\ o.created = o.updated /\ o.changed = o.created

ValidateTransition(current, next, request) ==
  /\ Validate(current) /\ Validate(next)
  /\ request.to = next.state
  /\ request.reason = next.reason
  /\ PreconditionHolds(request.pre, current)
  /\ \E rule \in TransitionRules :
       /\ rule.from = current.state /\ rule.to = next.state
       /\ request.type = rule.type
       /\ request.evidence \subseteq EvidenceChecks
       /\ rule.checks \subseteq request.evidence
  /\ current.scope = next.scope /\ current.owner = next.owner
  /\ next.changed = next.updated
  /\ next.changed > current.changed
  /\ ValidateSuccessor(current, next, request.type = "desired")

(* The object a request turns current into, written at the given time.     *)
Successor(current, request, at, version) ==
  [current EXCEPT !.state = request.to, !.reason = request.reason,
                  !.updated = at, !.changed = at, !.version = version,
                  !.generation =
                     @ + (IF request.type = "desired" THEN 1 ELSE 0)]

(* The version of the synthetic successor a plan is validated with; no     *)
(* stored object has it.                                                   *)
PlanVersion == 0

BuildTransitionPlan(current, request, at) ==
  /\ Validate(current)
  /\ at > current.updated
  /\ ValidateTransition(current,
                        Successor(current, request, at, PlanVersion), request)

-----------------------------------------------------------------------------
(* Operation plans: the lifecycle steps of a drain or a replacement and    *)
(* the evidence each of them asks for, in order.                           *)

OperationSteps(kind) ==
  IF kind = "drain"
  THEN <<[to |-> "draining", evidence |-> Preflight],
         [to |-> "maintenance", evidence |-> DrainChecks]>>
  ELSE <<[to |-> "replacing",
          evidence |-> {"operation-approved", "replacement-node-ready",
                        "state-synchronized"}],
         [to |-> "retired",
          evidence |-> {"replacement-node-ready", "state-synchronized",
                        "switchover-verified",
                        "replacement-health-verified"}]>>

(* A placement is [id, kind, adapter, outside]: a stateful workload moves  *)
(* only with an adapter and a healthy replica elsewhere.                   *)
ValidPlacements(placements) ==
  /\ UniqueIds(placements)
  /\ \A p \in placements :
       \/ p.kind = "stateless" /\ p.outside >= 0
       \/ p.kind = "stateful" /\ p.adapter # None /\ p.outside >= 1

BuildOperationPlan(current, kind, replacement, placements) ==
  /\ Validate(current)
  /\ ValidPlacements(placements)
  /\ kind = "drain" => /\ current.state \in {"ready", "degraded"}
                       /\ replacement = None
  /\ kind = "replace" => /\ current.state = "maintenance"
                         /\ replacement # None
                         /\ replacement # current.object
=============================================================================
