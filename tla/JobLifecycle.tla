---------------------------- MODULE JobLifecycle ----------------------------
(***************************************************************************)
(* What the job repository promises, as the timeline evidence of a job     *)
(* understands it: TimelineEntryFromTransition                             *)
(* (internal/orchestration/job/timeline_transition.go) is the code's own   *)
(* definition of a legal lifecycle step.  The abstract state of a job is   *)
(* its status, its attempt and its attempt limit; one repository call may  *)
(* move several jobs, each by one legal step.                              *)
(***************************************************************************)
EXTENDS Integers

CONSTANT Jobs

VARIABLE life     \* job identifier -> [status, attempt, max]

(***************************************************************************)
(* The rows of TimelineEntryFromTransition: the event it derives, the      *)
(* statuses it accepts before and after, and how far the attempt counter   *)
(* may move.  "none" is the result without an entry; the last row is the   *)
(* state-neutral case, which the switch reaches only for queued.           *)
(***************************************************************************)
Row(event, from, to, started) ==
  [event |-> event, from |-> from, to |-> to, started |-> started]

Startable == {"queued", "retry_wait", "running"}

TimelineRows ==
  { Row("created", {"absent"}, "queued", {0}),
    Row("attempt_started", Startable, "running", {1}),
    Row("none", {"running"}, "running", {0}),
    Row("retry_scheduled", {"running"}, "retry_wait", {0}),
    Row("cancel_requested", {"running"}, "cancel_requested", {0}),
    Row("cancelled", Startable \cup {"cancel_requested"}, "cancelled", {0, 1}),
    Row("succeeded", {"running"}, "succeeded", {0}),
    Row("failed", Startable, "failed", {0, 1}),
    Row("none", {"queued"}, "queued", {0}) }

(* The events a stored change yields: none at all when the code answers    *)
(* ErrInvalidTimelineEntry.                                                *)
TimelineEvents(before, after) ==
  { row.event : row \in
      { row \in TimelineRows :
          /\ before.status \in row.from
          /\ after.status = row.to
          /\ after.attempt - before.attempt \in row.started
          /\ after.attempt <= after.max } }

LifeInit ==
  life = [j \in Jobs |-> [status |-> "absent", attempt |-> 0, max |-> 0]]

LegalStep(before, after) ==
  \/ after = before
  \/ /\ TimelineEvents(before, after) \ {"none"} # {}
     /\ after.max = before.max \/ before.status = "absent"

LifeNext == \A j \in Jobs : LegalStep(life[j], life'[j])

LifeSpec == LifeInit /\ [][LifeNext]_life
=============================================================================
