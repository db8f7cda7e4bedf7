------------------------- MODULE NetworkChangeProofs -------------------------
(***************************************************************************)
(* Proofs about the guarded network change, for any set of plan requests,  *)
(* any timeouts the validator accepts, any freshness policy and any number *)
(* of delayed, lost and reordered reports.                                 *)
(***************************************************************************)
EXTENDS NetworkChange, TLAPS

ProbeIds == UNION {Probes(plan) : plan \in Plans}

MachineRecord ==
  [plan: Plans, state: States, version: Nat, updatedAt: Nat, deadline: Nat,
   snapshot: BOOLEAN, passed: SUBSET ProbeIds]

(* What executors and supervisor report.  The passed preflight is not      *)
(* among it: only PassPreflight raises that event.                         *)
ReportTypes ==
  {"snapshot_captured", "snapshot_failed", "preflight_failed", "temporary_applied",
   "probe_passed", "probe_failed", "rollback_succeeded", "rollback_failed",
   "phase_timed_out"}

TypesOK ==
  /\ clock \in Nat /\ window \in Nat /\ applied \in BOOLEAN
  /\ m \in MachineRecord
  /\ \A e \in sent : e.type \in ReportTypes /\ e.at \in Nat

(***************************************************************************)
(* What the state of the machine and the reports still in flight tell      *)
(* about the node.  A report of the temporary change may arrive long after *)
(* the window and a report of the rollback after the machine gave up; both *)
(* stay true where they can still be accepted.                             *)
(***************************************************************************)
NodeOK ==
  /\ m.state \in {"snapshot_pending", "preflight"} => ~applied
  /\ m.state \in {"probing", "committed"} => applied
  /\ m.state = "rolled_back" => ~applied
  /\ \A e \in sent : e.type = "temporary_applied" =>
       /\ m.state \notin {"snapshot_pending", "preflight"}
       /\ m.state = "apply_window" => applied
  /\ \A e \in sent : e.type = "rollback_succeeded" =>
       ~applied /\ m.state \in {"rollback_pending", "rolled_back", "failed_closed"}

(* How the machine stands to its window, its snapshot and its probes.      *)
WindowOK ==
  /\ m.state \in {"apply_window", "probing"} => m.deadline <= window
  /\ m.state \notin {"snapshot_pending", "failed_closed"} => m.snapshot
  /\ m.state = "committed" => m.updatedAt <= window /\ m.passed = Probes(m.plan)

(* The inductive invariant.                                                *)
ChangeOK == TypesOK /\ NodeOK /\ WindowOK

-----------------------------------------------------------------------------
(* The timeouts of a plan that BuildChangePlan accepted are durations.     *)
LEMMA PlanTimeouts ==
  ASSUME NEW plan \in Plans
  PROVE  /\ plan.timeouts.snapshot \in Nat /\ plan.timeouts.preflight \in Nat
         /\ plan.timeouts.applyWindow \in Nat /\ plan.timeouts.probe \in Nat
         /\ plan.timeouts.rollback \in Nat
<1>1. validateTimeouts(plan.timeouts)
  BY DEF Plans, Valid
<1> QED
  BY <1>1, NetworkChangeAssumption DEF validateTimeouts, NetworkChangeAssumption

(* Enter sets the state and a deadline.                                    *)
LEMMA EnterFields ==
  ASSUME NEW n \in MachineRecord, NEW state \in States, NEW at, NEW timeout,
         at \in Nat, timeout \in Nat
  PROVE  /\ Enter(n, state, at, timeout) \in MachineRecord
         /\ Enter(n, state, at, timeout).state = state
         /\ Enter(n, state, at, timeout).plan = n.plan
         /\ Enter(n, state, at, timeout).snapshot = n.snapshot
         /\ Enter(n, state, at, timeout).passed = n.passed
<1>1. (IF timeout > 0 THEN at + timeout ELSE 0) \in Nat
  OBVIOUS
<1> QED
  BY <1>1 DEF Enter, MachineRecord

(* What Apply adds to the record that a transition yields.                 *)
LEMMA StampFields ==
  ASSUME NEW n \in MachineRecord, NEW at \in Nat
  PROVE  LET s == [n EXCEPT !.version = @ + 1, !.updatedAt = at]
         IN  /\ s \in MachineRecord
             /\ s.state = n.state /\ s.plan = n.plan /\ s.snapshot = n.snapshot
             /\ s.passed = n.passed /\ s.deadline = n.deadline /\ s.updatedAt = at
<1>1. n.version + 1 \in Nat
  BY DEF MachineRecord
<1> QED
  BY <1>1 DEF MachineRecord

(* The steps of the state machine, as a table.                             *)
Moves(n, e, s) ==
  \/ /\ n.state = "snapshot_pending" /\ s.state = "preflight" /\ s.snapshot
  \/ /\ n.state = "preflight" /\ e.type = "preflight_passed"
     /\ s.state = "apply_window" /\ s.snapshot = n.snapshot
  \/ /\ n.state = "apply_window" /\ e.type = "temporary_applied"
     /\ s.state = "probing" /\ s.deadline <= n.deadline /\ s.snapshot = n.snapshot
  \/ /\ n.state \in {"apply_window", "probing"}
     /\ s.state = "rollback_pending" /\ s.snapshot = n.snapshot
  \/ /\ n.state = "probing" /\ e.type = "probe_passed"
     /\ s.state = "probing" /\ s.deadline = n.deadline /\ s.snapshot = n.snapshot
  \/ /\ n.state = "probing" /\ e.type = "probe_passed"
     /\ s.state = "committed" /\ s.passed = Probes(n.plan) /\ s.snapshot = n.snapshot
  \/ /\ n.state = "rollback_pending" /\ e.type = "rollback_succeeded"
     /\ s.state = "rolled_back" /\ s.snapshot = n.snapshot
  \/ /\ n.state \in {"snapshot_pending", "preflight", "rollback_pending"}
     /\ s.state = "failed_closed"

(* transition makes these steps only.                                      *)
LEMMA TransitionMoves ==
  ASSUME NEW n \in MachineRecord, NEW e, e.at \in Nat, NEW s \in Transition(n, e)
  PROVE  s \in MachineRecord /\ s.plan = n.plan /\ Moves(n, e, s)
<1> DEFINE t == n.plan.timeouts
           on(state, types) == n.state = state /\ e.type \in types
           Goal == s \in MachineRecord /\ s.plan = n.plan /\ Moves(n, e, s)
<1>1. n.plan \in Plans /\ n.deadline \in Nat /\ n.passed \subseteq ProbeIds
  BY DEF MachineRecord
<1>2. /\ t.snapshot \in Nat /\ t.preflight \in Nat /\ t.applyWindow \in Nat
      /\ t.probe \in Nat /\ t.rollback \in Nat
  BY <1>1, PlanTimeouts
<1>3. /\ "preflight" \in States /\ "apply_window" \in States /\ "probing" \in States
      /\ "rollback_pending" \in States /\ "committed" \in States
      /\ "rolled_back" \in States /\ "failed_closed" \in States
  BY DEF States, Terminal
<1> HIDE DEF t
<1>4. CASE on("snapshot_pending", {"snapshot_captured"})
  <2>1. s = [Enter(n, "preflight", e.at, t.preflight) EXCEPT !.snapshot = TRUE]
    BY <1>4 DEF Transition, t
  <2>2. /\ Enter(n, "preflight", e.at, t.preflight) \in MachineRecord
        /\ Enter(n, "preflight", e.at, t.preflight).state = "preflight"
        /\ Enter(n, "preflight", e.at, t.preflight).plan = n.plan
    BY <1>2, <1>3, EnterFields
  <2> QED
    BY <1>4, <2>1, <2>2 DEF MachineRecord, Moves
<1>5. CASE on("preflight", {"preflight_passed"})
  <2>1. s = Enter(n, "apply_window", e.at, t.applyWindow)
    BY <1>5 DEF Transition, t
  <2> QED
    BY <1>2, <1>3, <1>5, <2>1, EnterFields DEF Moves
<1>6. CASE on("apply_window", {"temporary_applied"})
  <2> DEFINE by == IF e.at + t.probe > n.deadline THEN n.deadline ELSE e.at + t.probe
  <2>1. s = [n EXCEPT !.state = "probing", !.deadline = by]
    BY <1>6 DEF Transition, t
  <2>2. by \in Nat /\ by <= n.deadline
    BY <1>1, <1>2
  <2> HIDE DEF by
  <2> QED
    BY <1>3, <1>6, <2>1, <2>2 DEF MachineRecord, Moves
<1>7. CASE on("apply_window", {"phase_timed_out"})
  <2>1. s = Enter(n, "rollback_pending", e.at, t.rollback)
    BY <1>7 DEF Transition, t
  <2> QED
    BY <1>2, <1>3, <1>7, <2>1, EnterFields DEF Moves
<1>8. CASE on("probing", {"probe_passed"})
  <2> DEFINE passed == n.passed \cup {e.probe}
             base == IF passed = Probes(n.plan) THEN Enter(n, "committed", e.at, 0) ELSE n
  <2>1. e.probe \in Probes(n.plan) /\ s = [base EXCEPT !.passed = passed]
    BY <1>8 DEF Transition
  <2>2. passed \subseteq ProbeIds
    BY <1>1, <2>1 DEF ProbeIds
  <2>3. /\ base \in MachineRecord /\ base.plan = n.plan /\ base.snapshot = n.snapshot
        /\ IF passed = Probes(n.plan) THEN base.state = "committed" ELSE base = n
    BY <1>3, EnterFields
  <2> HIDE DEF passed, base
  <2>4. /\ s \in MachineRecord /\ s.plan = base.plan /\ s.snapshot = base.snapshot
        /\ s.state = base.state /\ s.deadline = base.deadline /\ s.passed = passed
    BY <2>1, <2>2, <2>3 DEF MachineRecord
  <2> QED
    BY <1>8, <2>3, <2>4 DEF Moves
<1>9. CASE on("probing", {"probe_failed", "phase_timed_out"})
  <2>1. s = Enter(n, "rollback_pending", e.at, t.rollback)
    BY <1>9 DEF Transition, t
  <2> QED
    BY <1>2, <1>3, <1>9, <2>1, EnterFields DEF Moves
<1>10. CASE on("rollback_pending", {"rollback_succeeded"})
  <2>1. s = Enter(n, "rolled_back", e.at, 0)
    BY <1>10 DEF Transition
  <2> QED
    BY <1>3, <1>10, <2>1, EnterFields DEF Moves
<1>11. CASE \/ on("snapshot_pending", {"snapshot_failed", "phase_timed_out"})
            \/ on("preflight", {"preflight_failed", "phase_timed_out"})
            \/ on("rollback_pending", {"rollback_failed", "phase_timed_out"})
  <2>1. s = Enter(n, "failed_closed", e.at, 0)
    BY <1>11 DEF Transition
  <2> QED
    BY <1>3, <1>11, <2>1, EnterFields DEF Moves
<1> QED
  BY <1>4, <1>5, <1>6, <1>7, <1>8, <1>9, <1>10, <1>11 DEF Transition

(* Apply stamps such a step; whatever is not a timeout came in time.       *)
LEMMA ApplyMoves ==
  ASSUME m \in MachineRecord, NEW e, e.at \in Nat, NEW v, Apply(e, v)
  PROVE  /\ m' \in MachineRecord
         /\ m'.plan = m.plan
         /\ m'.updatedAt = e.at
         /\ e.type # "phase_timed_out" => m'.updatedAt <= m.deadline
         /\ Moves(m, e, m')
<1>1. PICK n \in Transition(m, e) : m' = [n EXCEPT !.version = @ + 1, !.updatedAt = e.at]
  BY DEF Apply
<1>2. n \in MachineRecord /\ n.plan = m.plan /\ Moves(m, e, n)
  BY TransitionMoves
<1>3. /\ m' \in MachineRecord
      /\ m'.state = n.state /\ m'.plan = n.plan /\ m'.snapshot = n.snapshot
      /\ m'.passed = n.passed /\ m'.deadline = n.deadline /\ m'.updatedAt = e.at
  BY <1>1, <1>2, StampFields
<1>4. e.type # "phase_timed_out" => m'.updatedAt <= m.deadline
  BY <1>3 DEF Apply
<1>5. Moves(m, e, m')
  BY <1>2, <1>3 DEF Moves
<1> QED
  BY <1>2, <1>3, <1>4, <1>5

(* The machine starts in the invariant.                                    *)
LEMMA ChangeInitOK == NetworkChangeInit => ChangeOK
<1> SUFFICES ASSUME NetworkChangeInit PROVE ChangeOK
  OBVIOUS
<1>1. current \in Plans /\ clock = 1 /\ m = NewChangeMachine(current)
  BY DEF NetworkChangeInit
<1>2. clock + current.timeouts.snapshot \in Nat
  BY <1>1, PlanTimeouts
<1>3. m \in MachineRecord /\ m.state = "snapshot_pending"
  BY <1>1, <1>2 DEF NewChangeMachine, MachineRecord, States
<1>4. sent = {} /\ applied = FALSE /\ window = 0
  BY DEF NetworkChangeInit
<1>5. TypesOK
  BY <1>1, <1>3, <1>4 DEF TypesOK
<1>6. NodeOK /\ WindowOK
  BY <1>3, <1>4 DEF NodeOK, WindowOK
<1> QED
  BY <1>5, <1>6 DEF ChangeOK

(* A report that reaches the machine.                                      *)
LEMMA DeliverOK ==
  ASSUME ChangeOK, NEW e \in sent, NEW v, Deliver(e, v)
  PROVE  ChangeOK'
<1>1. /\ m \in MachineRecord /\ e.at \in Nat /\ e.type \in ReportTypes
      /\ m.deadline \in Nat /\ window \in Nat
  BY DEF ChangeOK, TypesOK, MachineRecord
<1>2. /\ m' \in MachineRecord /\ m'.plan = m.plan /\ m'.updatedAt \in Nat
      /\ m'.deadline \in Nat
      /\ e.type # "phase_timed_out" => m'.updatedAt <= m.deadline
      /\ Moves(m, e, m')
  BY <1>1, ApplyMoves DEF Deliver, MachineRecord
<1>3. sent' = sent \ {e} /\ UNCHANGED <<clock, applied, window>>
  BY DEF Deliver
<1>4. TypesOK'
  BY <1>2, <1>3 DEF ChangeOK, TypesOK
<1>5. NodeOK'
  BY <1>1, <1>2, <1>3 DEF ChangeOK, NodeOK, Moves, ReportTypes
<1>6. WindowOK'
  BY <1>1, <1>2, <1>3 DEF ChangeOK, WindowOK, Moves, ReportTypes
<1> QED
  BY <1>4, <1>5, <1>6 DEF ChangeOK

(* The supervisor ends an overdue phase.                                   *)
LEMMA TimeOutOK ==
  ASSUME ChangeOK, TimeOut
  PROVE  ChangeOK'
<1> DEFINE e == Event("phase_timed_out", "none")
<1>1. m \in MachineRecord /\ m.deadline \in Nat /\ window \in Nat /\ clock \in Nat
  BY DEF ChangeOK, TypesOK, MachineRecord
<1>2. e.at = clock /\ e.type = "phase_timed_out" /\ Apply(e, m.version)
  BY DEF Event, TimeOut
<1> HIDE DEF e
<1>3. m' \in MachineRecord /\ Moves(m, e, m') /\ m'.plan = m.plan
  BY <1>1, <1>2, ApplyMoves
<1>4. UNCHANGED <<clock, sent, applied, window>>
  BY DEF TimeOut
<1>5. TypesOK'
  BY <1>3, <1>4 DEF ChangeOK, TypesOK
<1>6. NodeOK'
  BY <1>2, <1>3, <1>4 DEF ChangeOK, NodeOK, Moves
<1>7. WindowOK'
  BY <1>1, <1>2, <1>3, <1>4 DEF ChangeOK, WindowOK, Moves
<1> QED
  BY <1>5, <1>6, <1>7 DEF ChangeOK

(* The verified preflight opens the window.                                *)
LEMMA PassPreflightOK ==
  ASSUME ChangeOK, PassPreflight
  PROVE  ChangeOK'
<1> DEFINE e == Event("preflight_passed", "none")
<1>1. m \in MachineRecord /\ clock \in Nat
  BY DEF ChangeOK, TypesOK
<1>2. e.at = clock /\ e.type = "preflight_passed" /\ Apply(e, admission.version)
  BY DEF Event, PassPreflight
<1> HIDE DEF e
<1>3. m' \in MachineRecord /\ Moves(m, e, m') /\ m'.deadline \in Nat
  BY <1>1, <1>2, ApplyMoves DEF MachineRecord
<1>4. UNCHANGED <<clock, sent, applied>> /\ window' = m'.deadline /\ m.state = "preflight"
  BY DEF PassPreflight
<1>5. TypesOK'
  BY <1>3, <1>4 DEF ChangeOK, TypesOK
<1>6. NodeOK'
  BY <1>2, <1>3, <1>4 DEF ChangeOK, NodeOK, Moves
<1>7. WindowOK'
  BY <1>2, <1>3, <1>4 DEF ChangeOK, WindowOK, Moves
<1> QED
  BY <1>5, <1>6, <1>7 DEF ChangeOK

(* A report put on its way carries its type and the time.                  *)
LEMMA Reported ==
  ASSUME NEW types, NEW probe, Report(types, probe)
  PROVE  \E e : e.type \in types /\ e.at = clock /\ sent' = sent \cup {e}
BY DEF Report, Send, Event

(* Every step keeps the invariant.                                         *)
LEMMA ChangeNextOK == ChangeOK /\ [NetworkChangeNext]_vars => ChangeOK'
<1> SUFFICES ASSUME ChangeOK, [NetworkChangeNext]_vars PROVE ChangeOK'
  OBVIOUS
<1>1. /\ clock \in Nat /\ clock + 1 \in Nat
  BY DEF ChangeOK, TypesOK
<1>2. CASE UNCHANGED vars
  BY <1>2 DEF vars, ChangeOK, TypesOK, NodeOK, WindowOK
<1>3. CASE Tick
  BY <1>1, <1>3 DEF Tick, ChangeOK, TypesOK, NodeOK, WindowOK
<1>4. CASE Revise \/ Admit \/ \E checks \in Checks : Verify(checks)
  <2>1. UNCHANGED <<clock, m, sent, applied, window>>
    BY <1>4 DEF Revise, Admit, Verify
  <2> QED
    BY <2>1 DEF ChangeOK, TypesOK, NodeOK, WindowOK
<1>5. CASE Observe
  <2>1. UNCHANGED <<clock, m, applied, window>>
    BY <1>5 DEF Observe
  <2>2. \E e : /\ e.type \in ReportTypes \ {"temporary_applied", "rollback_succeeded"}
               /\ e.at = clock /\ sent' = sent \cup {e}
    BY <1>5, Reported DEF Observe, ReportTypes
  <2> QED
    BY <1>1, <2>1, <2>2 DEF ChangeOK, TypesOK, NodeOK, WindowOK
<1>6. CASE TemporaryApply
  <2>1. UNCHANGED <<clock, m, window>> /\ applied' = TRUE /\ m.state = "apply_window"
    BY <1>6 DEF TemporaryApply
  <2>2. \E e : /\ e.type = "temporary_applied" /\ e.at = clock /\ sent' = sent \cup {e}
    BY <1>6, Reported DEF TemporaryApply
  <2>3. TypesOK'
    BY <1>1, <2>1, <2>2 DEF ChangeOK, TypesOK, ReportTypes
  <2> QED
    BY <2>1, <2>2, <2>3 DEF ChangeOK, NodeOK, WindowOK
<1>7. CASE RollBack
  <2>1. UNCHANGED <<clock, m, window>> /\ m.state = "rollback_pending"
    BY <1>7 DEF RollBack
  <2>2. \E e : /\ e.at = clock /\ sent' = sent \cup {e}
               /\ \/ e.type = "rollback_succeeded" /\ applied' = FALSE
                  \/ e.type = "rollback_failed" /\ applied' = applied
    BY <1>7, Reported DEF RollBack
  <2>3. TypesOK'
    BY <1>1, <2>1, <2>2 DEF ChangeOK, TypesOK, ReportTypes
  <2> QED
    BY <2>1, <2>2, <2>3 DEF ChangeOK, NodeOK, WindowOK
<1>8. CASE LateTimeOut
  <2>1. UNCHANGED <<clock, m, applied, window>>
    BY <1>8 DEF LateTimeOut
  <2>2. \E e : e.type = "phase_timed_out" /\ e.at = clock /\ sent' = sent \cup {e}
    BY <1>8 DEF LateTimeOut, Send, Event
  <2> QED
    BY <1>1, <2>1, <2>2 DEF ChangeOK, TypesOK, NodeOK, WindowOK, ReportTypes
<1>9. ASSUME NEW e \in sent, Lose(e) PROVE ChangeOK'
  BY <1>9 DEF Lose, ChangeOK, TypesOK, NodeOK, WindowOK
<1> QED
  BY <1>2, <1>3, <1>4, <1>5, <1>6, <1>7, <1>8, <1>9, DeliverOK, TimeOutOK, PassPreflightOK
    DEF NetworkChangeNext

(* The invariant holds in every reachable state.                           *)
LEMMA ChangeInvariance == NetworkChangeSpec => []ChangeOK
BY ChangeInitOK, ChangeNextOK, PTL DEF NetworkChangeSpec

-----------------------------------------------------------------------------
(***************************************************************************)
(* A change is committed only while it runs on the node, inside its apply  *)
(* window, after a snapshot, and when every probe of the plan passed; the  *)
(* coverage that BuildChangePlan demands makes these reach every changed   *)
(* interface and a control-plane path.                                     *)
(***************************************************************************)
THEOREM CommitsAreAlwaysProbed == NetworkChangeSpec => []CommitsAreProbed
<1>1. ChangeOK => CommitsAreProbed
  <2> SUFFICES ASSUME ChangeOK PROVE CommitsAreProbed
    OBVIOUS
  <2>1. validateProbeCoverage(m.plan)
    BY DEF ChangeOK, TypesOK, MachineRecord, Plans, Valid
  <2> QED
    BY <2>1 DEF ChangeOK, NodeOK, WindowOK, CommitsAreProbed, validateProbeCoverage
<1> QED
  BY <1>1, ChangeInvariance, PTL

(***************************************************************************)
(* A machine that stops while the node may run the new configuration has   *)
(* committed it, or gives up a rollback it had begun.                      *)
(***************************************************************************)
THEOREM NothingIsLeftApplied == NetworkChangeSpec => NothingLeftApplied
<1> DEFINE Stop == m.state \notin Terminal /\ m'.state \in Terminal /\ applied' =>
              \/ m'.state = "committed"
              \/ m.state = "rollback_pending" /\ m'.state = "failed_closed"
<1>1. ASSUME ChangeOK, NetworkChangeNext PROVE Stop
  <2> USE <1>1
  <2>1. ChangeOK' /\ m \in MachineRecord
    BY ChangeNextOK DEF ChangeOK, TypesOK
  <2>2. ASSUME NEW e \in sent, NEW v, Deliver(e, v) PROVE Stop
    <3>1. Moves(m, e, m') /\ applied' = applied
      BY <2>2, ApplyMoves DEF Deliver, ChangeOK, TypesOK
    <3> QED
      BY <2>1, <3>1 DEF ChangeOK, NodeOK, Moves, Terminal
  <2>3. ASSUME TimeOut PROVE Stop
    <3> DEFINE e == Event("phase_timed_out", "none")
    <3>1. e.at \in Nat /\ e.type = "phase_timed_out" /\ Apply(e, m.version)
      BY <2>3 DEF Event, TimeOut, ChangeOK, TypesOK
    <3> HIDE DEF e
    <3>2. Moves(m, e, m') /\ applied' = applied
      BY <2>1, <2>3, <3>1, ApplyMoves DEF TimeOut
    <3> QED
      BY <2>1, <3>2 DEF ChangeOK, NodeOK, Moves, Terminal
  <2>4. ASSUME PassPreflight PROVE Stop
    <3> DEFINE e == Event("preflight_passed", "none")
    <3>1. /\ e.at \in Nat /\ e.type = "preflight_passed" /\ Apply(e, admission.version)
          /\ m.state = "preflight" /\ applied' = applied
      BY <2>4 DEF Event, PassPreflight, ChangeOK, TypesOK
    <3> QED
      BY <3>1 DEF ChangeOK, NodeOK
  <2>5. CASE UNCHANGED m
    BY <2>5
  <2> QED
    BY <2>2, <2>3, <2>4, <2>5 DEF NetworkChangeNext, Tick, Revise, Verify, Admit, Observe,
      TemporaryApply, RollBack, Lose, LateTimeOut
<1>2. ChangeOK /\ [NetworkChangeNext]_vars => [Stop]_vars
  BY <1>1
<1> QED
  BY <1>2, ChangeInvariance, PTL DEF NetworkChangeSpec, NothingLeftApplied

(***************************************************************************)
(* The apply window opens only for the authoritative plan and on evidence  *)
(* in which every probe passed and is fresh at that moment, however old    *)
(* the admission is and whatever was revised since it was issued.          *)
(***************************************************************************)
THEOREM PreflightIsAlwaysCurrent == NetworkChangeSpec => PreflightIsCurrent
<1> DEFINE Open == m.state = "preflight" /\ m'.state = "apply_window" =>
              /\ m.plan = current /\ evidence # NoEvidence /\ evidence.plan = current
              /\ \A p \in Probes(m.plan) :
                   /\ p \in DOMAIN evidence.checks /\ evidence.checks[p].status = "PASS"
                   /\ m'.updatedAt < evidence.checks[p].observedAt + MaxAge
<1>1. ASSUME ChangeOK, NetworkChangeNext PROVE Open
  <2> USE <1>1
  <2>1. m \in MachineRecord /\ clock \in Nat
    BY DEF ChangeOK, TypesOK
  <2>2. ASSUME NEW e \in sent, NEW v, Deliver(e, v) PROVE Open
    <3>1. Moves(m, e, m') /\ e.type \in ReportTypes
      BY <2>2, ApplyMoves DEF Deliver, ChangeOK, TypesOK
    <3> QED
      BY <3>1 DEF Moves, ReportTypes
  <2>3. ASSUME TimeOut PROVE Open
    <3> DEFINE e == Event("phase_timed_out", "none")
    <3>1. e.at \in Nat /\ e.type = "phase_timed_out" /\ Apply(e, m.version)
      BY <2>1, <2>3 DEF Event, TimeOut
    <3> HIDE DEF e
    <3>2. Moves(m, e, m')
      BY <2>1, <3>1, ApplyMoves
    <3> QED
      BY <3>1, <3>2 DEF Moves
  <2>4. ASSUME PassPreflight PROVE Open
    <3> DEFINE e == Event("preflight_passed", "none")
    <3>1. e.at = clock /\ Apply(e, admission.version)
      BY <2>4 DEF Event, PassPreflight
    <3> HIDE DEF e
    <3>2. m'.updatedAt = clock
      BY <2>1, <3>1, ApplyMoves
    <3> QED
      BY <2>4, <3>2 DEF PassPreflight, StillCurrent, Acceptable, Ready
  <2>5. CASE UNCHANGED m
    BY <2>5
  <2> QED
    BY <2>2, <2>3, <2>4, <2>5 DEF NetworkChangeNext, Tick, Revise, Verify, Admit, Observe,
      TemporaryApply, RollBack, Lose, LateTimeOut
<1>2. ChangeOK /\ [NetworkChangeNext]_vars => [Open]_vars
  BY <1>1
<1> QED
  BY <1>2, ChangeInvariance, PTL DEF NetworkChangeSpec, PreflightIsCurrent
=============================================================================
