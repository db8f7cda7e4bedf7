---------------------------- MODULE NetworkChange ---------------------------
(***************************************************************************)
(* A guarded change of a node's network (internal/networkpolicy): a plan   *)
(* (change_plan.go, policy.go), the safety state machine that carries it   *)
(* out (change_machine.go), and the verification evidence that must be     *)
(* fresh before the machine may open its apply window                      *)
(* (verification_*.go).                                                    *)
(*                                                                         *)
(* The executors are not part of the code: they capture the snapshot,      *)
(* apply the configuration for a limited time, probe and roll back, and    *)
(* report each of these as an event.  Reports are delayed, lost, delivered *)
(* twice and overtake one another; a supervisor ends overdue phases.       *)
(***************************************************************************)
EXTENDS Integers, FiniteSets

CONSTANTS
  Requests,        \* the plan requests that may be made
  MaxPhaseTimeout, \* maxPhaseTimeout
  MaxAge,          \* ChangePlanVerificationFreshnessPolicy.MaxAge
  MaxFutureSkew,   \* ChangePlanVerificationFreshnessPolicy.MaxFutureSkew
  MaxLateness,     \* bound: how long an overdue phase may stay unnoticed
  MaxReports       \* bound: reports in flight

VARIABLES
  clock,      \* the true time
  current,    \* the authoritative plan
  m,          \* ChangeMachine.snapshot, with its plan and the passed probes
  processed,  \* identifiers of ChangeMachine.processedEvents
  sent,       \* reports in flight
  evidence,   \* the authoritative verification evidence
  admission,  \* the preflight admission issued last
  applied,    \* does the node run the new configuration?
  window      \* history: when the apply window of the machine closes

vars == <<clock, current, m, processed, sent, evidence, admission, applied, window>>

Zones == {"WAN", "LAN", "MANAGEMENT", "DMZ", "CLUSTER", "STORAGE", "BACKUP"}
ProbeKinds == {"link_state", "zone_reachability", "control_plane"}
Terminal == {"committed", "rolled_back", "failed_closed"}
States == Terminal \cup
  {"snapshot_pending", "preflight", "apply_window", "probing", "rollback_pending"}

ASSUME NetworkChangeAssumption ==
  /\ {MaxPhaseTimeout, MaxAge} \subseteq Nat \ {0}
  /\ {MaxFutureSkew, MaxLateness, MaxReports} \subseteq Nat

-----------------------------------------------------------------------------
(***************************************************************************)
(* A request binds interfaces to zones, names the zone pairs to forward    *)
(* and the probes, and sets the timeouts.  Interfaces and probes are       *)
(* functions on their identifiers, so these cannot repeat.                 *)
(***************************************************************************)
Probes(plan) == DOMAIN plan.probes
Interfaces(plan) == DOMAIN plan.interfaces
DeclaredZones(plan) == {plan.interfaces[i].zone : i \in Interfaces(plan)}

AuthorizeForwarding(f) ==
  /\ {f.source, f.destination} \subseteq Zones
  /\ f.source # f.destination =>
       f.enabled /\ ("WAN" \in {f.source, f.destination} => f.edgeGateway)

validateTimeouts(t) ==
  /\ {t.snapshot, t.preflight, t.applyWindow, t.probe, t.rollback}
       \subseteq 1 .. MaxPhaseTimeout
  /\ t.probe <= t.applyWindow

validateProbeCoverage(plan) ==
  /\ \A i \in Interfaces(plan) : plan.interfaces[i].changed =>
       \E p \in Probes(plan) : plan.probes[p].interface = i
  /\ \E p \in Probes(plan) :
       /\ plan.probes[p].kind = "control_plane"
       /\ plan.probes[p].zone \in {"MANAGEMENT", "LAN"}

(* BuildChangePlan accepts the request.                                    *)
Valid(plan) ==
  /\ validateTimeouts(plan.timeouts)
  /\ DeclaredZones(plan) \subseteq Zones
  /\ \E i \in Interfaces(plan) : plan.interfaces[i].changed
  /\ \A f \in plan.forwarding :
       /\ AuthorizeForwarding(f) /\ {f.source, f.destination} \subseteq DeclaredZones(plan)
       /\ \A g \in plan.forwarding \ {f} :
            <<f.source, f.destination>> # <<g.source, g.destination>>
  /\ \A p \in Probes(plan) : LET probe == plan.probes[p] IN
       /\ probe.kind \in ProbeKinds
       /\ probe.interface \in Interfaces(plan)
       /\ plan.interfaces[probe.interface].zone = probe.zone
  /\ validateProbeCoverage(plan)

Plans == {plan \in Requests : Valid(plan)}

-----------------------------------------------------------------------------
(* The machine.                                                            *)

NewChangeMachine(plan) ==
  [plan |-> plan, state |-> "snapshot_pending", version |-> 1, updatedAt |-> clock,
   deadline |-> clock + plan.timeouts.snapshot, snapshot |-> FALSE, passed |-> {}]

NoEvidence == [plan |-> "none"]
NoAdmission == [ready |-> FALSE]

NetworkChangeInit ==
  /\ clock = 1
  /\ current \in Plans
  /\ m = NewChangeMachine(current)
  /\ processed = {} /\ sent = {}
  /\ evidence = NoEvidence /\ admission = NoAdmission
  /\ applied = FALSE /\ window = 0

(* An event; a reporter names it after what it reports.                    *)
Event(type, probe) ==
  [id |-> <<type, IF type = "phase_timed_out" THEN m.state ELSE probe>>,
   type |-> type, probe |-> probe, at |-> clock]

Enter(n, state, at, timeout) ==
  [n EXCEPT !.state = state, !.deadline = IF timeout > 0 THEN at + timeout ELSE 0]

(* Mutants of Transition: one passed probe commits; an apply window that   *)
(* runs out is taken for a change that was not applied.                    *)
TransitionFirstProbe(n, e) ==
  IF e.type = "probe_passed" THEN {Enter(n, "committed", e.at, 0)}
  ELSE IF e.type = "temporary_applied" THEN {Enter(n, "probing", e.at, n.plan.timeouts.probe)}
  ELSE IF e.type = "preflight_passed" THEN {Enter(n, "apply_window", e.at, n.plan.timeouts.applyWindow)}
  ELSE {Enter(n, "preflight", e.at, n.plan.timeouts.preflight)}
TransitionNoRollback(n, e) ==
  IF e.type = "preflight_passed" THEN {Enter(n, "apply_window", e.at, n.plan.timeouts.applyWindow)}
  ELSE IF e.type = "snapshot_captured" THEN {Enter(n, "preflight", e.at, n.plan.timeouts.preflight)}
  ELSE {Enter(n, "failed_closed", e.at, 0)}

(***************************************************************************)
(* transition: the records an event may lead to; none when the event is    *)
(* refused in the state.                                                   *)
(***************************************************************************)
Transition(n, e) ==
  LET t == n.plan.timeouts
      on(state, types) == n.state = state /\ e.type \in types
      passed == n.passed \cup {e.probe}
      probeBy == IF e.at + t.probe > n.deadline THEN n.deadline ELSE e.at + t.probe
  IN  CASE on("snapshot_pending", {"snapshot_captured"}) ->
             {[Enter(n, "preflight", e.at, t.preflight) EXCEPT !.snapshot = TRUE]}
        [] on("preflight", {"preflight_passed"}) ->
             {Enter(n, "apply_window", e.at, t.applyWindow)}
        [] on("apply_window", {"temporary_applied"}) ->
             {[n EXCEPT !.state = "probing", !.deadline = probeBy]}
        [] on("apply_window", {"phase_timed_out"}) ->
             {Enter(n, "rollback_pending", e.at, t.rollback)}
        [] on("probing", {"probe_passed"}) ->
             IF e.probe \notin Probes(n.plan) \ n.passed THEN {}
             ELSE {[(IF passed = Probes(n.plan) THEN Enter(n, "committed", e.at, 0) ELSE n)
                      EXCEPT !.passed = passed]}
        [] on("probing", {"probe_failed", "phase_timed_out"}) ->
             IF e.type = "probe_failed" /\ e.probe \notin Probes(n.plan) THEN {}
             ELSE {Enter(n, "rollback_pending", e.at, t.rollback)}
        [] on("rollback_pending", {"rollback_succeeded"}) ->
             {Enter(n, "rolled_back", e.at, 0)}
        [] \/ on("snapshot_pending", {"snapshot_failed", "phase_timed_out"})
           \/ on("preflight", {"preflight_failed", "phase_timed_out"})
           \/ on("rollback_pending", {"rollback_failed", "phase_timed_out"}) ->
             {Enter(n, "failed_closed", e.at, 0)}
        [] OTHER -> {}

(* Mutants of Apply: reports count after the deadline; so do not timeouts. *)
ApplyAnyTime(e, expected) ==
  /\ e.id \notin processed
  /\ m.version = expected /\ m.state \notin Terminal /\ e.at >= m.updatedAt
  /\ \E n \in Transition(m, e) : m' = [n EXCEPT !.version = @ + 1, !.updatedAt = e.at]
  /\ processed' = processed \cup {e.id}
ApplyInTime(e, expected) == e.at <= m.deadline /\ ApplyAnyTime(e, expected)

(***************************************************************************)
(* Apply: an event already processed (also one under the same identifier   *)
(* with other content), a version that moved on, a final state, an event   *)
(* older than the state, a timeout before and another event after the      *)
(* deadline are all refused.                                               *)
(***************************************************************************)
Apply(e, expected) ==
  /\ e.id \notin processed
  /\ m.version = expected
  /\ m.state \notin Terminal
  /\ e.at >= m.updatedAt
  /\ IF e.type = "phase_timed_out" THEN e.at >= m.deadline ELSE e.at <= m.deadline
  /\ \E n \in Transition(m, e) :
       m' = [n EXCEPT !.version = @ + 1, !.updatedAt = e.at]
  /\ processed' = processed \cup {e.id}

-----------------------------------------------------------------------------
(* Verification evidence and the admission of the preflight.               *)

VerificationExpiry(ev) ==
  LET ends == {ev.verifiedAt + MaxAge} \cup
              {ev.checks[p].observedAt + MaxAge : p \in DOMAIN ev.checks}
  IN  CHOOSE t \in ends : \A u \in ends : t <= u

(* The evidence is well formed: it is for this plan and not from the       *)
(* future.                                                                 *)
Acceptable(ev, plan, now) ==
  /\ ev.plan = plan
  /\ DOMAIN ev.checks # {} /\ DOMAIN ev.checks \subseteq Probes(plan)
  /\ ev.verifiedAt <= now + MaxFutureSkew
  /\ \A p \in DOMAIN ev.checks :
       /\ ev.checks[p].observedAt <= now + MaxFutureSkew
       /\ ev.checks[p].observedAt <= ev.verifiedAt + MaxFutureSkew

(* EvaluateVerificationFreshness: nothing missing, stale or failed.        *)
Ready(ev, plan, now) ==
  /\ ev.verifiedAt + MaxAge > now
  /\ \A p \in Probes(plan) :
       /\ p \in DOMAIN ev.checks
       /\ ev.checks[p].status = "PASS"
       /\ ev.checks[p].observedAt + MaxAge > now

(* New evidence for the authoritative plan takes the place of the old.     *)
Verify(checks) ==
  /\ m.state = "preflight"
  /\ evidence' = [plan |-> current, verifiedAt |-> clock, checks |-> checks]
  /\ UNCHANGED <<clock, current, m, processed, sent, admission, applied, window>>

(* BuildCurrentVerificationPreflightAdmission.                             *)
Admit ==
  /\ evidence # NoEvidence
  /\ m.plan = current /\ m.state = "preflight"
  /\ Acceptable(evidence, current, clock)
  /\ admission' =
       IF Ready(evidence, current, clock)
       THEN [ready |-> TRUE, plan |-> current, evidence |-> evidence,
             version |-> m.version, evaluatedAt |-> clock,
             expiresAt |-> VerificationExpiry(evidence)]
       ELSE NoAdmission
  /\ UNCHANGED <<clock, current, m, processed, sent, evidence, applied, window>>

(* Mutant of StillCurrent: the admission is trusted on its own.            *)
AdmissionTrusted(at) == TRUE

(* What ApplyCurrentVerifiedPreflight checks again before the transition.  *)
StillCurrent(at) ==
  /\ evidence # NoEvidence
  /\ m.plan = current /\ admission.plan = current
  /\ evidence = admission.evidence
  /\ Acceptable(evidence, current, at) /\ Ready(evidence, current, at)
  /\ admission.expiresAt = VerificationExpiry(evidence)

(***************************************************************************)
(* ApplyCurrentVerifiedPreflight, then ApplyVerifiedPreflight.  Admission  *)
(* and evidence have served their purpose.                                 *)
(***************************************************************************)
PassPreflight ==
  /\ admission.ready
  /\ StillCurrent(clock)
  /\ m.plan = admission.plan /\ m.state = "preflight"
  /\ admission.evaluatedAt <= clock /\ clock < admission.expiresAt
  /\ Apply(Event("preflight_passed", "none"), admission.version)
  /\ window' = m'.deadline
  /\ evidence' = NoEvidence /\ admission' = NoAdmission
  /\ UNCHANGED <<clock, current, sent, applied>>

-----------------------------------------------------------------------------
(* The executors and the supervisor.                                       *)

Send(e) ==
  /\ Cardinality(sent) < MaxReports
  /\ e \notin sent
  /\ sent' = sent \cup {e}

Report(types, probe) == \E type \in types : Send(Event(type, probe))

(* Snapshot, refused preflight and probes only report.                     *)
Observe ==
  /\ \/ m.state = "snapshot_pending"
        /\ Report({"snapshot_captured", "snapshot_failed"}, "none")
     \/ m.state = "preflight" /\ Report({"preflight_failed"}, "none")
     \/ /\ m.state = "probing"
        /\ \E p \in Probes(m.plan) : Report({"probe_passed", "probe_failed"}, p)
  /\ UNCHANGED <<clock, current, m, processed, evidence, admission, applied, window>>

(* The adapter applies the change only inside the window.                  *)
TemporaryApply ==
  /\ m.state = "apply_window" /\ ~applied
  /\ clock <= m.deadline
  /\ applied' = TRUE
  /\ Report({"temporary_applied"}, "none")
  /\ UNCHANGED <<clock, current, m, processed, evidence, admission, window>>

RollBack ==
  /\ m.state = "rollback_pending"
  /\ \/ applied' = FALSE /\ Report({"rollback_succeeded"}, "none")
     \/ UNCHANGED applied /\ Report({"rollback_failed"}, "none")
  /\ UNCHANGED <<clock, current, m, processed, evidence, admission, window>>

(***************************************************************************)
(* A report arrives, under a version its sender read.  A second copy finds *)
(* its identifier processed and changes nothing.                           *)
(***************************************************************************)
Deliver(e, expected) ==
  /\ Apply(e, expected)
  /\ sent' = sent \ {e}
  /\ UNCHANGED <<clock, current, evidence, admission, applied, window>>

Lose(e) ==
  /\ sent' = sent \ {e}
  /\ UNCHANGED <<clock, current, m, processed, evidence, admission, applied, window>>

(* The supervisor ends an overdue phase; its event may also be delayed.    *)
TimeOut ==
  /\ Apply(Event("phase_timed_out", "none"), m.version)
  /\ UNCHANGED <<clock, current, sent, evidence, admission, applied, window>>

LateTimeOut ==
  /\ m.state \notin Terminal /\ clock >= m.deadline
  /\ Send(Event("phase_timed_out", "none"))
  /\ UNCHANGED <<clock, current, m, processed, evidence, admission, applied, window>>

(* The desired state is revised: another plan becomes authoritative.       *)
Revise ==
  /\ m.state \in {"snapshot_pending", "preflight"}
  /\ current' \in Plans \ {current}
  /\ UNCHANGED <<clock, m, processed, sent, evidence, admission, applied, window>>

Tick ==
  /\ m.state \notin Terminal
  /\ clock < m.deadline + MaxLateness
  /\ clock' = clock + 1
  /\ UNCHANGED <<current, m, processed, sent, evidence, admission, applied, window>>

(* A probe passed now or one unit ago, failed, or is missing.              *)
Checks ==
  LET result(status, at) == [status |-> status, observedAt |-> at]
      results == {result("PASS", clock), result("PASS", clock - 1), result("FAIL", clock)}
  IN  UNION {[seen -> results] : seen \in SUBSET Probes(current)}

NetworkChangeNext ==
  \/ Tick
  \/ Revise
  \/ \E checks \in Checks : Verify(checks)
  \/ Admit
  \/ PassPreflight
  \/ Observe
  \/ TemporaryApply
  \/ RollBack
  \/ \E e \in sent : Lose(e) \/ \E v \in 1 .. m.version : Deliver(e, v)
  \/ TimeOut
  \/ LateTimeOut

NetworkChangeSpec == NetworkChangeInit /\ [][NetworkChangeNext]_vars

(* Time passes, and the supervisor of an overdue phase is not forgotten.   *)
NetworkChangeFairSpec ==
  NetworkChangeSpec /\ WF_vars(Tick) /\ WF_vars(TimeOut)

-----------------------------------------------------------------------------
(***************************************************************************)
(* A change is committed only when it runs on the node, every probe of its *)
(* plan passed, and with them every changed interface and a control-plane  *)
(* path over MANAGEMENT or LAN; and never later than the end of its apply  *)
(* window: probing does not extend it, whatever the order of late reports. *)
(***************************************************************************)
CommitsAreProbed ==
  /\ m.state = "probing" => m.deadline <= window
  /\ m.state = "committed" =>
    /\ applied /\ m.snapshot
    /\ m.updatedAt <= window
    /\ m.passed = Probes(m.plan)
    /\ \A i \in Interfaces(m.plan) : m.plan.interfaces[i].changed =>
         \E p \in m.passed : m.plan.probes[p].interface = i
    /\ \E p \in m.passed : /\ m.plan.probes[p].kind = "control_plane"
                           /\ m.plan.probes[p].zone \in {"MANAGEMENT", "LAN"}

(***************************************************************************)
(* A node that may run the new configuration is never abandoned: a machine *)
(* that stops while the change is applied has committed it or comes from   *)
(* rollback_pending, and one that reports rolled_back left nothing behind. *)
(***************************************************************************)
NothingLeftApplied ==
  [][m.state \notin Terminal /\ m'.state \in Terminal /\ applied' =>
       \/ m'.state = "committed"
       \/ m.state = "rollback_pending" /\ m'.state = "failed_closed"]_vars

(***************************************************************************)
(* The apply window opens only for the authoritative plan and on evidence  *)
(* in which every probe passed and is fresh at that moment.                *)
(***************************************************************************)
PreflightIsCurrent ==
  [][m.state = "preflight" /\ m'.state = "apply_window" =>
       /\ m.plan = current /\ evidence # NoEvidence /\ evidence.plan = current
       /\ \A p \in Probes(m.plan) :
            /\ p \in DOMAIN evidence.checks /\ evidence.checks[p].status = "PASS"
            /\ m'.updatedAt < evidence.checks[p].observedAt + MaxAge]_vars

(* Every change ends: each phase has a deadline that is enforced.          *)
EveryChangeEnds == <>(m.state \in Terminal)
=============================================================================
