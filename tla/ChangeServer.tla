---------------------------- MODULE ChangeServer ----------------------------
(***************************************************************************)
(* The change server (internal/orchestration/httpapi/server.go) between    *)
(* its two stores: the change rows of PostgreSQL                           *)
(* (internal/persistence/postgres/orchestration.go) and the job queue,     *)
(* seen here through JobLifecycle.  The server keeps the changes in memory *)
(* as state machines (internal/orchestration/change/change.go), writes     *)
(* them through to PostgreSQL, admits a job for an approved change, and    *)
(* carries the outcome of the job back into the change.                    *)
(*                                                                         *)
(* The handlers hold the server's mutex, so each is one action; what the   *)
(* worker loop and the cancel handler read from the queue before they take *)
(* the mutex is kept in "observed".  A durable write may fail, or commit   *)
(* and lose its answer (an expired request context, a broken connection);  *)
(* the process may crash between any two steps.                            *)
(***************************************************************************)
EXTENDS Integers, FiniteSets

CONSTANTS
  Changes,            \* changes, each with the idempotency key it is sent under
  Actors,             \* principals
  Requester,          \* change -> the principal who creates it
  Required,           \* change -> Requirement.Minimum of its policy decision
  Denied,             \* the changes that policy denies
  Input,              \* change -> "canonical" if PostgreSQL prints the JSON
                      \* input the way the client wrote it, else "plain"
  RepeatedApprovals,  \* may an actor approve the same change again?
  FaultKinds,         \* how a durable write may go wrong
  MaxFaults,          \* bound: failed writes
  MaxRevisions,       \* bound: configuration revisions
  MaxVersion,         \* bound: a change is approved only below this version
  MaxAttempts,        \* the MaxAttempts that enqueue asks for
  MaxInFlight         \* bound: job results read and not yet reconciled

VARIABLES
  server,    \* "down", "enqueueing", "sweeping", "sweep_failed" or "up"
  todo,      \* what the startup sweep has still to reconcile
  mem,       \* Server.changes
  cand,      \* Server.reconciliationCandidates
  memRev,    \* sequence of Server.currentRevision, 0 for none
  dur,       \* cc_changes with cc_change_approvals
  durRev,    \* the newest row of cc_config_revisions
  jobs,      \* cc_jobs, one job for each change
  observed,  \* <<change, job status>> read but not yet reconciled
  faults     \* failed writes so far

memory == <<mem, cand, memRev, observed>>
vars == <<server, todo, memory, dur, durRev, jobs, faults>>

Outcomes == {"ok"} \cup FaultKinds

ChangeTerminal == {"succeeded", "failed", "cancelled", "rejected"}
ChangeStates == ChangeTerminal \cup
  {"pending_approval", "approved", "queued", "executing", "verifying"}
JobTerminal == {"succeeded", "failed", "cancelled"}
JobStatuses == JobTerminal \cup
  {"queued", "running", "retry_wait", "cancel_requested"}

ASSUME ChangeServerAssumption ==
  /\ IsFiniteSet(Actors)
  /\ Requester \in [Changes -> Actors]
  /\ Required \in [Changes -> Nat]
  /\ Denied \subseteq Changes
  /\ Input \in [Changes -> {"plain", "canonical"}]
  /\ RepeatedApprovals \in BOOLEAN
  /\ FaultKinds \subseteq {"error", "lost"}
  /\ {MaxFaults, MaxRevisions, MaxVersion, MaxAttempts, MaxInFlight} \subseteq Nat

Lifecycle == INSTANCE JobLifecycle WITH Jobs <- Changes, life <- jobs

(***************************************************************************)
(* A change record, in memory and as a row.  "approvals" are the actors    *)
(* who approved (the row set is unique by actor; the list in memory may    *)
(* repeat one, which shows only in the version); "job" says whether JobID  *)
(* is set; "input" is the JSON text held in memory or sent for the row.    *)
(***************************************************************************)
Absent ==
  [state |-> "absent", version |-> 0, approvals |-> {}, job |-> FALSE,
   input |-> "plain", revision |-> 0]

NoJob == [status |-> "absent", attempt |-> 0, max |-> 0, input |-> "plain"]

ChangeServerInit ==
  /\ server = "down" /\ todo = {}
  /\ mem = [c \in Changes |-> Absent] /\ cand = {} /\ memRev = 0
  /\ dur = [c \in Changes |-> Absent] /\ durRev = 0
  /\ jobs = [c \in Changes |-> NoJob]
  /\ observed = {} /\ faults = 0

-----------------------------------------------------------------------------
(* The state machine of a change.                                          *)

(* CheckApprovals: distinct actors other than the requester.               *)
Satisfied(c, approvals) ==
  Cardinality(approvals \ {Requester[c]}) >= Required[c]

(* change.New, and Approve on top of it: the state the policy decision and *)
(* the approvals give.                                                     *)
Decided(c, approvals) ==
  IF c \in Denied THEN "rejected"
  ELSE IF Satisfied(c, approvals) THEN "approved" ELSE "pending_approval"

NewChange(c) ==
  [Absent EXCEPT !.state = Decided(c, {}), !.version = 1, !.input = Input[c],
                 !.revision = memRev]

Approved(c, m, a) ==
  [m EXCEPT !.approvals = @ \cup {a}, !.version = @ + 1,
            !.state = Decided(c, m.approvals \cup {a})]

Allowed(from) ==
  CASE from = "pending_approval" -> {"cancelled", "rejected"}
    [] from = "approved" -> {"queued", "cancelled"}
    [] from = "queued" -> {"executing", "cancelled", "failed"}
    [] from = "executing" -> {"verifying", "failed", "cancelled"}
    [] from = "verifying" -> {"succeeded", "failed"}
    [] OTHER -> {}

-----------------------------------------------------------------------------
(* Mutant of ReplayedVersion: failed and cancelled are replayed without a  *)
(* look at the version that is left to reach.                              *)
ReplayedVersionShort(c, d) ==
  LET start == Decided(c, d.approvals)
      base == 1 + Cardinality(d.approvals)
  IN  IF d.state = start THEN base
      ELSE IF start # "approved" THEN 0
      ELSE CASE d.state = "queued" -> base + 1
             [] d.state = "executing" -> base + 2
             [] d.state \in {"failed", "cancelled"} -> base + 2
             [] OTHER -> base + 4

(***************************************************************************)
(* restoreChange replays a row: the approvals, then the shortest run of    *)
(* transitions to the stored state, guided for failed and cancelled by the *)
(* version that is left to reach.  The result is the version reached, 0    *)
(* when a transition is refused.                                           *)
(***************************************************************************)
ReplayedVersion(c, d) ==
  LET start == Decided(c, d.approvals)
      base == 1 + Cardinality(d.approvals)
      viaQueue == IF d.version - (base + 1) \in {0, 1} THEN base + 2 ELSE base + 3
  IN  IF d.state = start THEN base
      ELSE IF start # "approved"
      THEN IF d.state = "cancelled" /\ start = "pending_approval" THEN base + 1 ELSE 0
      ELSE CASE d.state = "queued" -> base + 1
             [] d.state = "executing" -> base + 2
             [] d.state = "verifying" -> base + 3
             [] d.state = "succeeded" -> base + 4
             [] d.state = "failed" -> viaQueue
             [] d.state = "cancelled" -> IF d.job THEN viaQueue ELSE base + 1
             [] OTHER -> 0

Restorable(c) == ReplayedVersion(c, dur[c]) = dur[c].version

(* Mutant of Restored: the machine is rebuilt under its first version.     *)
RestoredFirstVersion(d) == [d EXCEPT !.input = "canonical", !.version = 1]

(* The JSON input comes back in the form jsonb prints.                     *)
Restored(d) == [d EXCEPT !.input = "canonical"]

-----------------------------------------------------------------------------
(***************************************************************************)
(* A handler works on the slice of the state that belongs to one change:   *)
(* the record in memory, the row, the job, whether the change is a         *)
(* reconciliation candidate, the failed writes, and whether the last call  *)
(* returned without an error.                                              *)
(***************************************************************************)
Slice(c) ==
  [mem |-> mem[c], dur |-> dur[c], job |-> jobs[c], cand |-> c \in cand,
   faults |-> faults, ok |-> TRUE]

Cost(outcome) == IF outcome = "ok" THEN 0 ELSE 1

(* UpdateChange overwrites a row that is not newer; approvals are only     *)
(* added.                                                                  *)
UpdateChange(e, outcome) ==
  LET fits == e.dur.version <= e.mem.version IN
  [e EXCEPT
     !.dur = IF fits /\ outcome # "error"
             THEN [e.dur EXCEPT !.state = e.mem.state, !.version = e.mem.version,
                                !.job = e.mem.job,
                                !.approvals = e.dur.approvals \cup e.mem.approvals]
             ELSE e.dur,
     !.ok = fits /\ outcome = "ok",
     !.faults = @ + Cost(outcome)]

(* JobRepository.Create under the key of the change.                       *)
CreateJob(e, outcome) ==
  LET exists == e.job.status # "absent" IN
  [e EXCEPT
     !.job = IF exists \/ outcome = "error" THEN @
             ELSE [status |-> "queued", attempt |-> 0, max |-> MaxAttempts,
                   input |-> e.mem.input],
     !.ok = outcome = "ok" /\ (exists => e.job.input = e.mem.input),
     !.faults = @ + Cost(outcome)]

Transition(e, to) ==
  IF e.mem.state = to \/ ~e.ok THEN e
  ELSE IF to \in Allowed(e.mem.state)
       THEN [e EXCEPT !.mem.state = to, !.mem.version = @ + 1]
       ELSE [e EXCEPT !.ok = FALSE]

(* enqueue moves the change to queued in memory before the job exists; the *)
(* row learns the job only from the last write.                            *)
Enqueue(e, created, written) ==
  LET q == CreateJob(Transition(e, "queued"), created)
  IN  IF q.ok THEN UpdateChange([q EXCEPT !.mem.job = TRUE, !.cand = TRUE], written)
      ELSE q

EnqueueIfApproved(e, created, written) ==
  IF e.mem.state = "approved" /\ ~e.mem.job THEN Enqueue(e, created, written) ELSE e

(* Mutant of Reached: a failed attempt is taken for a failed job.          *)
ReachedEarlyFailure(e, status) ==
  CASE status = "cancelled" -> Transition(e, "cancelled")
    [] status \in {"failed", "retry_wait"} -> Transition(e, "failed")
    [] OTHER -> e

(* The transitions of reconcileJob for a job found in the given status.    *)
Reached(e, status) ==
  LET started == IF e.mem.state = "queued" /\ status # "queued"
                 THEN Transition(e, "executing") ELSE e
  IN  CASE status = "cancelled" -> Transition(e, "cancelled")
        [] status = "failed" -> Transition(started, "failed")
        [] status = "succeeded" ->
             Transition(IF started.mem.state = "executing"
                        THEN Transition(started, "verifying") ELSE started,
                        "succeeded")
        [] OTHER -> started

(* Mutant of ReconcileJob: a candidate in doubt counts as recorded.        *)
ReconcileJobTrustsMemory(e, status, outcome) ==
  LET r == Reached(e, status)
      p == UpdateChange(r, outcome)
  IN  IF e.mem.state = "absent" \/ ~r.ok THEN [e EXCEPT !.ok = FALSE]
      ELSE IF status \in JobTerminal /\ e.mem.state = status THEN e
      ELSE [p EXCEPT !.cand = ~p.ok \/ (status \notin JobTerminal /\ @)]

(***************************************************************************)
(* reconcileJob: nothing to do when the outcome is already recorded and    *)
(* not in doubt; else move, then persist.  A failed write makes the change *)
(* a candidate, a written terminal outcome settles it; a refused           *)
(* transition leaves the moves made so far in memory.                      *)
(***************************************************************************)
ReconcileJob(e, status, outcome) ==
  LET r == Reached(e, status)
      p == UpdateChange(r, outcome)
  IN  IF e.mem.state = "absent" THEN [e EXCEPT !.ok = FALSE]
      ELSE IF status \in JobTerminal /\ e.mem.state = status /\ ~e.cand THEN e
      ELSE IF ~r.ok THEN r
      ELSE [p EXCEPT !.cand = IF ~p.ok THEN TRUE
                              ELSE IF status \in JobTerminal THEN FALSE ELSE @]

Commit(c, slice) ==
  \E e \in {slice} :
    /\ e.faults <= MaxFaults
    /\ faults' = e.faults
    /\ mem' = [mem EXCEPT ![c] = e.mem]
    /\ dur' = [dur EXCEPT ![c] = e.dur]
    /\ jobs' = [jobs EXCEPT ![c] = e.job]
    /\ cand' = IF e.cand THEN cand \cup {c} ELSE cand \ {c}

-----------------------------------------------------------------------------
(* The handlers of a running server.                                       *)

(* A new revision; if the answer of the database is lost the row stays     *)
(* unknown to the server until the request is repeated.                    *)
CreateRevision(outcome) ==
  /\ server = "up"
  /\ outcome # "error"
  /\ durRev < MaxRevisions
  /\ durRev' = durRev + 1
  /\ memRev' = IF outcome = "ok" THEN durRev' ELSE memRev
  /\ faults + Cost(outcome) <= MaxFaults
  /\ faults' = faults + Cost(outcome)
  /\ UNCHANGED <<server, todo, mem, cand, observed, dur, jobs>>

RepeatRevision ==
  /\ server = "up"
  /\ memRev < durRev
  /\ memRev' \in memRev + 1 .. durRev
  /\ UNCHANGED <<server, todo, mem, cand, observed, dur, durRev, jobs, faults>>

(***************************************************************************)
(* createChange for a change the server does not know.  A row left by an   *)
(* earlier request is restored if the fingerprint (which covers the        *)
(* revision) agrees.  When no job could be created the server forgets the  *)
(* change again.                                                           *)
(***************************************************************************)
StoredNew(c, outcome) ==
  LET e == [Slice(c) EXCEPT !.faults = @ + Cost(outcome), !.ok = outcome = "ok"]
      new == NewChange(c)
  IN  [e EXCEPT !.dur = IF outcome = "error" THEN @ ELSE new,
                !.mem = IF outcome = "ok" THEN new ELSE @]

Found(c) ==
  LET d == dur[c] IN
  [Slice(c) EXCEPT !.mem = Restored(d), !.cand = d.job /\ d.state \notin ChangeTerminal]

CreateChange(c, stored, created, written) ==
  /\ server = "up"
  /\ mem[c].state = "absent"
  /\ memRev > 0
  /\ \/ dur[c].state = "absent"
     \/ dur[c].revision = memRev /\ Restorable(c) /\ stored = "ok"
  /\ LET e == IF dur[c].state = "absent" THEN StoredNew(c, stored) ELSE Found(c)
         q == IF e.ok THEN EnqueueIfApproved(e, created, written) ELSE e
     IN  Commit(c, IF ~q.ok /\ ~q.mem.job
                   THEN [q EXCEPT !.mem = Absent, !.cand = FALSE] ELSE q)
  /\ UNCHANGED <<server, todo, memRev, observed, durRev>>

(* Mutant of ApproveChange: the job is admitted although the approval was  *)
(* not written.                                                            *)
ApproveChangeUnwritten(c, a, stored, created, written) ==
  /\ server = "up"
  /\ mem[c].state = "pending_approval"
  /\ mem[c].version < MaxVersion
  /\ RepeatedApprovals \/ a \notin mem[c].approvals
  /\ LET e == UpdateChange([Slice(c) EXCEPT !.mem = Approved(c, mem[c], a)], stored)
     IN  Commit(c, EnqueueIfApproved(e, created, written))
  /\ UNCHANGED <<server, todo, memRev, observed, durRev>>

(***************************************************************************)
(* approveChange: the approval is made in memory first.  If it cannot be   *)
(* written the handler returns, and no job is admitted.                    *)
(***************************************************************************)
ApproveChange(c, a, stored, created, written) ==
  /\ server = "up"
  /\ mem[c].state = "pending_approval"
  /\ mem[c].version < MaxVersion
  /\ RepeatedApprovals \/ a \notin mem[c].approvals
  /\ LET e == UpdateChange([Slice(c) EXCEPT !.mem = Approved(c, mem[c], a)], stored)
     IN  Commit(c, IF e.ok THEN EnqueueIfApproved(e, created, written) ELSE e)
  /\ UNCHANGED <<server, todo, memRev, observed, durRev>>

(* A worker, or a cancellation, takes the job through a legal step.        *)
JobStep(c) ==
  /\ server = "up"
  /\ jobs[c].status # "absent"
  /\ \E status \in JobStatuses, attempt \in 0 .. MaxAttempts :
       LET after == [jobs[c] EXCEPT !.status = status, !.attempt = attempt]
       IN  /\ after # jobs[c]
           /\ Lifecycle!LegalStep(jobs[c], after)
           /\ jobs' = [jobs EXCEPT ![c] = after]
  /\ UNCHANGED <<server, todo, memory, dur, durRev, faults>>

(* RunOne returns a job, the cancel handler a cancelled one, the sweep the *)
(* terminal ones; none of them holds the mutex of the server.              *)
Observe(c) ==
  /\ server = "up"
  /\ jobs[c].status \notin {"absent", "queued"}
  /\ Cardinality(observed) < MaxInFlight
  /\ observed' = observed \cup {<<c, jobs[c].status>>}
  /\ UNCHANGED <<server, todo, mem, cand, memRev, dur, durRev, jobs, faults>>

Reconcile(c, status, outcome) ==
  /\ server = "up"
  /\ <<c, status>> \in observed
  /\ observed' = observed \ {<<c, status>>}
  /\ Commit(c, ReconcileJob(Slice(c), status, outcome))
  /\ UNCHANGED <<server, todo, memRev, durRev>>

-----------------------------------------------------------------------------
(* Crash and start.                                                        *)

Forget ==
  /\ server' = "down" /\ todo' = {}
  /\ mem' = [c \in Changes |-> Absent] /\ cand' = {} /\ memRev' = 0
  /\ observed' = {}

Crash ==
  /\ server # "down"
  /\ Forget
  /\ UNCHANGED <<dur, durRev, jobs, faults>>

(* New restores every row; one that does not replay to its version stops   *)
(* the start.                                                              *)
Load ==
  /\ server = "down"
  /\ \A c \in Changes : dur[c].state # "absent" => Restorable(c)
  /\ server' = "enqueueing"
  /\ mem' = [c \in Changes |-> IF dur[c].state = "absent" THEN Absent
                               ELSE Restored(dur[c])]
  /\ cand' = {c \in Changes : dur[c].job /\ dur[c].state \notin ChangeTerminal}
  /\ memRev' = durRev
  /\ UNCHANGED <<todo, observed, dur, durRev, jobs, faults>>

Unqueued == {c \in Changes : mem[c].state = "approved" /\ ~mem[c].job}

(* Admission left undone by the last process; an error ends the start.     *)
StartupEnqueue(c, created, written) ==
  /\ server = "enqueueing"
  /\ c \in Unqueued
  /\ LET e == Enqueue(Slice(c), created, written) IN
       \/ /\ e.ok
          /\ Commit(c, e)
          /\ UNCHANGED <<server, todo, memRev, observed, durRev>>
       \/ /\ ~e.ok
          /\ e.faults <= MaxFaults
          /\ faults' = e.faults
          /\ dur' = [dur EXCEPT ![c] = e.dur]
          /\ jobs' = [jobs EXCEPT ![c] = e.job]
          /\ Forget
          /\ UNCHANGED durRev

BeginSweep ==
  /\ server = "enqueueing"
  /\ Unqueued = {}
  /\ server' = "sweeping"
  /\ todo' = cand
  /\ UNCHANGED <<memory, dur, durRev, jobs, faults>>

(* ReconcileTerminalJobs goes on after an error and reports it at the end. *)
StartupSweep(c, outcome) ==
  /\ server \in {"sweeping", "sweep_failed"}
  /\ c \in todo
  /\ todo' = todo \ {c}
  /\ IF jobs[c].status \in JobTerminal
     THEN LET e == ReconcileJob(Slice(c), jobs[c].status, outcome) IN
            /\ Commit(c, e)
            /\ server' = IF e.ok THEN server ELSE "sweep_failed"
     ELSE UNCHANGED <<server, mem, cand, dur, jobs, faults>>
  /\ UNCHANGED <<memRev, observed, durRev>>

EndSweep ==
  /\ todo = {}
  /\ \/ /\ server = "sweeping"
        /\ server' = "up"
        /\ UNCHANGED <<todo, memory>>
     \/ /\ server = "sweep_failed"
        /\ Forget
  /\ UNCHANGED <<dur, durRev, jobs, faults>>

Start ==
  \/ Load
  \/ BeginSweep
  \/ EndSweep
  \/ \E c \in Changes, o1, o2 \in Outcomes :
       StartupEnqueue(c, o1, o2) \/ StartupSweep(c, o1)

ReconcileNext(c) ==
  \E status \in {s \in JobStatuses : <<c, s>> \in observed}, o \in Outcomes :
    Reconcile(c, status, o)

Handle(c) ==
  \/ \E o1, o2, o3 \in Outcomes :
       \/ CreateChange(c, o1, o2, o3)
       \/ \E a \in Actors : ApproveChange(c, a, o1, o2, o3)
  \/ JobStep(c)
  \/ Observe(c)
  \/ ReconcileNext(c)

ChangeServerNext ==
  \/ Crash
  \/ Start
  \/ \E o \in Outcomes : CreateRevision(o)
  \/ RepeatRevision
  \/ \E c \in Changes : Handle(c)

ChangeServerSpec == ChangeServerInit /\ [][ChangeServerNext]_vars

(***************************************************************************)
(* The reconciliation ticker of runWorker sweeps all candidates for ever,  *)
(* and of what was read of a change something is always reconciled.        *)
(***************************************************************************)
ChangeServerFairSpec ==
  /\ ChangeServerSpec
  /\ \A c \in Changes :
       /\ SF_vars(c \in cand /\ jobs[c].status \in JobTerminal /\ Observe(c))
       /\ WF_vars(ReconcileNext(c))

-----------------------------------------------------------------------------
(***************************************************************************)
(* The memory of the server is never behind its store: a row has no later  *)
(* version than the record in memory, and under the same version the two   *)
(* are in the same state.  UpdateChange therefore never meets a version    *)
(* conflict, whatever writes failed or lost their answers before.          *)
(***************************************************************************)
MemoryCoversDurable ==
  \A c \in Changes : mem[c].state # "absent" =>
    /\ dur[c].version <= mem[c].version
    /\ dur[c].version = mem[c].version => dur[c].state = mem[c].state
    /\ dur[c].approvals \subseteq mem[c].approvals

(***************************************************************************)
(* A job exists only for a change whose approvals are satisfied in the     *)
(* durable record: an approval that was only made in memory never admits   *)
(* a job.                                                                  *)
(***************************************************************************)
JobNeedsApproval ==
  \A c \in Changes : jobs[c].status # "absent" =>
    /\ c \notin Denied
    /\ Cardinality(dur[c].approvals \ {Requester[c]}) >= Required[c]

(***************************************************************************)
(* A change reports an outcome only if it is the final outcome of its job, *)
(* whatever stale job results were reconciled in between.                  *)
(***************************************************************************)
OutcomeIsTheJobs ==
  \A c \in Changes : \A r \in {mem[c], dur[c]} :
    r.state \in JobTerminal => jobs[c].status = r.state

(***************************************************************************)
(* Every row whose outcome was reached through its job replays to its own  *)
(* version, whatever writes failed or lost their answers, so a restart     *)
(* does not refuse it.  (Stated for changes whose approvers are distinct.) *)
(***************************************************************************)
RowsReplay ==
  \A c \in Changes :
    dur[c].state # "absent" /\ (dur[c].state \in JobTerminal => dur[c].job) =>
      Restorable(c)

(***************************************************************************)
(* Three contracts the code does not keep, see "Known disagreements" in    *)
(* the README.  First: every row can be restored, so a restart is never    *)
(* refused.                                                                *)
(***************************************************************************)
RestartRestores ==
  \A c \in Changes : dur[c].state # "absent" => Restorable(c)

(***************************************************************************)
(* Second, what New needs to start: no change left approved by the last    *)
(* process has a job whose fingerprint differs from the input restored.    *)
(***************************************************************************)
StartupAdmits ==
  \A c \in Unqueued : server = "enqueueing" =>
    (jobs[c].status # "absent" => jobs[c].input = mem[c].input)

(***************************************************************************)
(* Third, the contract of evaluateJobAdmission: a job is admitted only     *)
(* while the revision of its change is the current one.                    *)
(***************************************************************************)
AdmissionIsCurrent ==
  [][\A c \in Changes :
       jobs[c].status = "absent" /\ jobs'[c].status # "absent" =>
         dur'[c].revision = memRev]_vars

(***************************************************************************)
(* A finished job of a candidate is eventually recorded in the row of its  *)
(* change, or the server stops.                                            *)
(***************************************************************************)
CandidatesResolve ==
  \A c \in Changes :
    (server = "up" /\ c \in cand /\ jobs[c].status \in JobTerminal)
      ~> (dur[c].state \in ChangeTerminal \/ server # "up")
=============================================================================
