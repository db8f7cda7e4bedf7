---------------------------- MODULE NodeAdmission ----------------------------
(***************************************************************************)
(* How a node gets into the system and through its life: a bootstrap token *)
(* that is issued, handed over and presented (internal/agent/bootstrap.go),*)
(* the admission plan that joins the grant with the agent's report         *)
(* (admission.go), and the lifecycle of the node that the plan authorises  *)
(* (internal/nodelifecycle).                                               *)
(*                                                                         *)
(* The token registry serves concurrent presenters under one lock; every   *)
(* presenter reads its clock before it waits for the lock, and a           *)
(* presentation may be delivered again.  An operator and a health monitor  *)
(* review the projection of the node and file transition requests; the     *)
(* jobs that execute them run later, in any order, and may run again.  The *)
(* storage adapter is not part of the repository: it validates and writes  *)
(* in one step, as ValidateTransition demands of it.                       *)
(***************************************************************************)
EXTENDS NodeLifecycle, AgentEnrollment, Sequences

CONSTANTS
  Node,             \* the node whose lifecycle is followed
  NodeScope,        \* the scope of its lifecycle object
  Tokens,           \* token identifiers
  TokenRequests,    \* what operators ask tokens for: [node, scope,
                    \* transport, ttl]
  Reports,          \* the enrolment reports of agents
  AssignmentSets,   \* the role assignments proposed with a report
  CoreTopology,     \* scopes, sites and management zones
  Placements,       \* the workloads on the node, as operators report them
  Replacement,      \* the node that would replace it
  Requesters,       \* who files transition requests
  MaxNow,           \* bound on the clock of the token registry
  MaxVersion        \* bound on the versions of the lifecycle object

Transports == {"ssh", "winrm", "offline-bundle"}
MinimumBootstrapTTL == 1
MaximumBootstrapTTL == 15

(* What the registry keeps of a token (bootstrapTokenState), the grant it  *)
(* answers a presentation with and the plan built from a grant.            *)
TokenStates ==
  [node: {q.node : q \in TokenRequests}, scope: {q.scope : q \in TokenRequests},
   transport: Transports, issued: Nat, expires: Int, consumed: BOOLEAN]

Grants ==
  [token: Tokens, node: {q.node : q \in TokenRequests},
   scope: {q.scope : q \in TokenRequests}, transport: Transports,
   consumedAt: Nat]

AdmissionPlans ==
  [grant: Grants, report: Reports, assignments: AssignmentSets]

(* None is no token and no plan, and times are numbers.                    *)
ASSUME NodeAdmissionAssumption ==
  /\ NewTopologyAccepts(CoreTopology)
  /\ MaxNow \in Nat /\ MaxVersion \in Nat
  /\ None \notin TokenStates /\ None \notin AdmissionPlans
  /\ \A q \in TokenRequests : q.ttl \in Int
  /\ \A report \in Reports :
       /\ report.collected \in Int \/ report.collected = None
       /\ \A o \in report.observations : o.observed \in Int

VARIABLES
  now,        \* the clock
  tokens,     \* token -> None or its state in the registry
  revealed,   \* tokens whose secret was handed over
  presented,  \* presentations under way: [token, at]
  grants,     \* every grant the registry returned, in order
  plans,      \* the admission plans built so far
  lifecycle,  \* the stored lifecycle object of Node
  pending,    \* requester -> None or [request, reviewed]
  attested,   \* checks that passed since the node last carried workloads
  origin      \* None or the admission plan the node was enrolled by

tokenVars == <<now, tokens, revealed, presented, grants>>
nodeVars == <<lifecycle, pending, attested, origin>>
vars == <<tokenVars, plans, nodeVars>>

InitialLifecycle ==
  [object |-> Node, scope |-> NodeScope, owner |-> NodeScope,
   generation |-> 1, version |-> 1, created |-> 1, updated |-> 1,
   state |-> "discovered", changed |-> 1, reason |-> None]

Init ==
  /\ now = 1
  /\ tokens = [t \in Tokens |-> None]
  /\ revealed = {}
  /\ presented = {}
  /\ grants = <<>>
  /\ plans = {}
  /\ ValidateInitial(InitialLifecycle)
  /\ lifecycle = InitialLifecycle
  /\ pending = [r \in Requesters |-> None]
  /\ attested = {}
  /\ origin = None

-----------------------------------------------------------------------------
(* Bootstrap tokens.                                                       *)

(* Issue; an identifier that is taken is refused.                          *)
Issue(t, request) ==
  /\ request.transport \in Transports
  /\ request.ttl >= MinimumBootstrapTTL /\ request.ttl <= MaximumBootstrapTTL
  /\ tokens[t] = None
  /\ tokens' = [tokens EXCEPT ![t] =
       [node |-> request.node, scope |-> request.scope,
        transport |-> request.transport, issued |-> now,
        expires |-> now + request.ttl, consumed |-> FALSE]]
  /\ UNCHANGED <<now, revealed, presented, grants, plans, nodeVars>>

(* IssuedBootstrapToken.Reveal: the secret leaves the process once.        *)
Reveal(t) ==
  /\ tokens[t] # None
  /\ t \notin revealed
  /\ revealed' = revealed \cup {t}
  /\ UNCHANGED <<now, tokens, presented, grants, plans, nodeVars>>

(* A holder of the secret presents it; the call reads the clock.           *)
Present(t) ==
  /\ t \in revealed
  /\ [token |-> t, at |-> now] \notin presented
  /\ presented' = presented \cup {[token |-> t, at |-> now]}
  /\ UNCHANGED <<now, tokens, revealed, grants, plans, nodeVars>>

Grant(t, at) ==
  [token |-> t, node |-> tokens[t].node, scope |-> tokens[t].scope,
   transport |-> tokens[t].transport, consumedAt |-> at]

(* Mutant of Consume: the token is looked up before the lock is taken and  *)
(* not marked, so a second presentation is granted as well.                *)
ConsumeAgain(p) ==
  /\ tokens[p.token] # None
  /\ p.at < tokens[p.token].expires
  /\ Len(grants) < 2
  /\ grants' = Append(grants, Grant(p.token, p.at))
  /\ UNCHANGED <<now, tokens, revealed, presented, plans, nodeVars>>

(* Consume, under the registry's lock.  The presentation may come again.   *)
Consume(p) ==
  /\ tokens[p.token] # None
  /\ ~tokens[p.token].consumed
  /\ p.at < tokens[p.token].expires
  /\ tokens' = [tokens EXCEPT ![p.token].consumed = TRUE]
  /\ grants' = Append(grants, Grant(p.token, p.at))
  /\ UNCHANGED <<now, revealed, presented, plans, nodeVars>>

Tick ==
  /\ now < MaxNow
  /\ now' = now + 1
  /\ UNCHANGED <<tokens, revealed, presented, grants, plans, nodeVars>>

-----------------------------------------------------------------------------
(* Admission.                                                              *)

(* BuildEnrollmentAdmissionPlan; the checks of the report and of the roles *)
(* against the topology, which do not depend on the grant, come last.      *)
AdmissionAccepted(grant, report, assignments) ==
  /\ grant.transport \in Transports
  /\ grant.node = report.node
  /\ assignments # {}
  /\ \A a \in assignments :
       /\ a.node = grant.node
       /\ a.scope = grant.scope
       /\ a.site = report.site /\ a.zone = report.zone
       /\ a.role \in report.roles
  /\ \A a, b \in assignments : a.role = b.role => a = b
  /\ {a.role : a \in assignments} = report.roles
  /\ NormalizeEnrollment(report)
  /\ PreconditionsReady(report)
  /\ report.collected <= grant.consumedAt
  /\ ValidateRoleAssignments(CoreTopology, assignments)

(* The plan is identified by its content, so a repeated call builds it     *)
(* again and nothing else.                                                 *)
BuildAdmissionPlan(grant, report, assignments) ==
  /\ AdmissionAccepted(grant, report, assignments)
  /\ plans' = plans \cup {[grant |-> grant, report |-> report,
                           assignments |-> assignments]}
  /\ UNCHANGED <<tokenVars, nodeVars>>

-----------------------------------------------------------------------------
(* Lifecycle.                                                              *)

(* The evidence subsystems attest for an edge out of the reviewed state:   *)
(* what its rule or the operation plan of the operator asks for, or        *)
(* nothing.  Only an admission plan for the node authorises enrolment.     *)
Attestations(reviewed, to) ==
  LET asked ==
        {rule.checks : rule \in {x \in TransitionRules :
                          x.from = reviewed.state /\ x.to = to}}
      planned ==
        UNION {{step.evidence : step \in
                  {s \in {OperationSteps(kind)[i] : i \in 1..2} : s.to = to}}
               : kind \in {k \in {"drain", "replace"} :
                    BuildOperationPlan(reviewed, k,
                      IF k = "drain" THEN None ELSE Replacement, Placements)}}
  IN  {e \in asked \cup planned \cup {{}} :
         "enrollment-authorized" \in e =>
           \E p \in plans : /\ p.grant.node = reviewed.object
                            /\ p.grant.scope = reviewed.scope}

(* MemoryProjection.Get: a copy, so what is reviewed does not change when  *)
(* the stored object does.                                                 *)
Projected == lifecycle

(* handlePlan: a request is reviewed against the projection and planned    *)
(* before it is filed as a change.                                         *)
FileTransition(r, type, to, evidence, reason) ==
  LET reviewed == Projected
      request == [to |-> to, type |-> type, reason |-> reason,
                  evidence |-> evidence,
                  pre |-> [object |-> reviewed.object,
                           version |-> reviewed.version, generation |-> None]]
  IN  /\ BuildTransitionPlan(reviewed, request, reviewed.updated + 1)
      /\ pending' = [pending EXCEPT ![r] = [request |-> request,
                                            reviewed |-> reviewed]]
      /\ UNCHANGED <<tokenVars, plans, lifecycle, attested, origin>>

(* States in which the node runs workloads or may still run them.          *)
WorkingStates ==
  {"discovered", "enrolling", "ready", "degraded", "draining", "offline",
   "recovering"}

(* The job of a filed request runs, perhaps not for the first time.  The   *)
(* clock of the adapter may not have moved since the last write.           *)
Execute(r, at) ==
  /\ pending[r] # None
  /\ lifecycle.version < MaxVersion
  /\ LET request == pending[r].request
         next == Successor(lifecycle, request, at, lifecycle.version + 1)
     IN  /\ ValidateTransition(lifecycle, next, request)
         /\ lifecycle' = next
         /\ attested' = IF next.state \in WorkingStates THEN {}
                        ELSE attested \cup request.evidence
         /\ origin' = IF next.state = "enrolling"
                      THEN CHOOSE p \in plans :
                             p.grant.node = Node /\ p.grant.scope = NodeScope
                      ELSE origin
  /\ UNCHANGED <<tokenVars, plans, pending>>

Next ==
  \/ \E t \in Tokens, request \in TokenRequests : Issue(t, request)
  \/ \E t \in Tokens : Reveal(t)
  \/ \E t \in Tokens : Present(t)
  \/ \E p \in presented : Consume(p)
  \/ Tick
  \/ \E i \in DOMAIN grants, report \in Reports, assignments \in AssignmentSets :
       BuildAdmissionPlan(grants[i], report, assignments)
  \/ \E to \in States :
       \E evidence \in Attestations(Projected, to), r \in Requesters,
          type \in {"desired", "observation"}, reason \in {None, "incident"} :
         FileTransition(r, type, to, evidence, reason)
  \/ \E r \in Requesters, at \in {lifecycle.updated, lifecycle.updated + 1} :
       Execute(r, at)

Spec == Init /\ [][Next]_vars

-----------------------------------------------------------------------------

(* The states only a drained node may be in.                               *)
ServiceStates == {"maintenance", "updating", "replacing", "removing"}

(* A node that was let in was let in by one token: the token was issued    *)
(* for this node and this scope, was used exactly once and before it       *)
(* expired although it may be presented many times, and everything the     *)
(* plan rests on had been observed and collected when it was used.         *)
(* (Consume, BuildEnrollmentAdmissionPlan, discovered -> enrolling.)       *)
EnrolledByOneGrant ==
  /\ lifecycle.state \notin {"discovered", "retired"} => origin # None
  /\ origin # None =>
       LET grant == origin.grant
       IN  /\ Cardinality({i \in DOMAIN grants :
                              grants[i].token = grant.token}) = 1
           /\ grant.node = lifecycle.object
           /\ grant.scope = lifecycle.scope
           /\ tokens[grant.token].issued <= grant.consumedAt
           /\ grant.consumedAt < tokens[grant.token].expires
           /\ \A o \in origin.report.observations :
                o.observed <= grant.consumedAt
           /\ origin.report.collected <= grant.consumedAt
           /\ \A a \in origin.assignments :
                a.node = lifecycle.object /\ a.scope = lifecycle.scope

(* A node is serviced, replaced or removed only after a drain that was     *)
(* attested complete since it last could run workloads, however it was     *)
(* degraded, lost or recovered in between; and it retires only after such  *)
(* a drain or when nothing managed is left on it.                          *)
ServiceAfterDrain ==
  lifecycle.state \in ServiceStates \cup {"retired"} =>
    \/ DrainChecks \subseteq attested
    \/ lifecycle.state = "retired" /\ "no-managed-state" \in attested

(* Every stored transition starts from the very object its requester       *)
(* reviewed: an observation that slipped in between, which keeps the       *)
(* generation, stops the operator's request, and a job that runs again     *)
(* does nothing.                                                           *)
TransitionsAreReviewed ==
  [][lifecycle' # lifecycle =>
       \E r \in Requesters : /\ pending[r] # None
                             /\ pending[r].reviewed = lifecycle
                             /\ pending[r].request.to = lifecycle'.state]_vars
=============================================================================
