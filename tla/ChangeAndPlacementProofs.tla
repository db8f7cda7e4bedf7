---------------------- MODULE ChangeAndPlacementProofs ----------------------
(***************************************************************************)
(* Proofs about the change server and about placement advice.              *)
(*                                                                         *)
(* The change server, for any number of changes and actors, any policy,    *)
(* and any number of failed writes, lost answers, crashes and restarts: a  *)
(* handler touches one change only, through its slice of the state, so the *)
(* invariant is a predicate on slices (SliceOK); one lemma for each step   *)
(* that handlers are made of shows that the step keeps it, and the         *)
(* handlers follow by composition.                                         *)
(*                                                                         *)
(* Placement advice, for any fleet, profiles, telemetry and requests: the  *)
(* documents a gate combines are checked against the profiles and          *)
(* telemetry of the moment, so what remains is what the functions compute. *)
(* Lemmas about ranks (OneIsFirst), about sums (SumRemove, WorstLoss) and  *)
(* about percentages and rounded ages carry the two theorems; the          *)
(* invariant they need is only that profiles and telemetry are valid ones  *)
(* (WorldOK).                                                              *)
(***************************************************************************)
EXTENDS ChangeServer, PlacementReuse, FiniteSetTheorems, WellFoundedInduction, TLAPS

Texts == {"plain", "canonical"}

ChangeRecord ==
  [state: ChangeStates \cup {"absent"}, version: Nat, approvals: SUBSET Actors,
   job: BOOLEAN, input: Texts, revision: Nat]

JobRecord ==
  [status: JobStatuses \cup {"absent"}, attempt: Nat, max: Nat, input: Texts]

SliceRecord ==
  [mem: ChangeRecord, dur: ChangeRecord, job: JobRecord, cand: BOOLEAN,
   faults: Nat, ok: BOOLEAN]

(* The states of a change that no job has moved yet.                       *)
Undecided == {"pending_approval", "approved", "rejected"}

(***************************************************************************)
(* A change was created, approved as often as it has approvers, and then   *)
(* moved along one path through its job: its version tells the state, up   *)
(* to the two ways of being cancelled.                                     *)
(***************************************************************************)
VersionOK(r) ==
  LET base == 1 + Cardinality(r.approvals) IN
  /\ r.state \in Undecided => r.version = base
  /\ r.state = "queued" => r.version = base + 1
  /\ r.state = "executing" => r.version = base + 2
  /\ r.state = "failed" => r.version = base + 3
  /\ r.state = "succeeded" => r.version = base + 4
  /\ r.state = "cancelled" => r.version = base + 2 \/ r.version = base + 3

(***************************************************************************)
(* A record, in memory or as a row: before a job moves it, it is in the    *)
(* state its approvals give; afterwards those approvals are sufficient.    *)
(* No record is left in verifying, which only reconcileJob passes through. *)
(***************************************************************************)
RecordOK(c, r) ==
  /\ r \in ChangeRecord
  /\ r.state # "verifying"
  /\ r.state \in Undecided => r.state = Decided(c, r.approvals) /\ ~r.job
  /\ r.state \notin Undecided \cup {"absent"} => Decided(c, r.approvals) = "approved"
  /\ ~RepeatedApprovals => VersionOK(r)

Covers(m, d) ==
  m.state # "absent" =>
    /\ d.state # "absent"
    /\ d.version <= m.version
    /\ d.version = m.version => d.state = m.state
    /\ d.approvals \subseteq m.approvals

Admissible(c, d) ==
  d.state # "absent" /\ c \notin Denied /\ Satisfied(c, d.approvals)

OutcomeIsOf(r, j) == r.state \in JobTerminal => j.status = r.state

(* What holds of the record, the row and the job of one change.            *)
PartsOK(c, m, d, j) ==
  /\ RecordOK(c, m)
  /\ RecordOK(c, d)
  /\ j \in JobRecord
  /\ Covers(m, d)
  /\ j.status # "absent" => Admissible(c, d)
  /\ OutcomeIsOf(m, j)
  /\ OutcomeIsOf(d, j)

SliceOK(c, e) == e \in SliceRecord /\ PartsOK(c, e.mem, e.dur, e.job)

(***************************************************************************)
(* What holds besides in the phases of the server: while the start admits  *)
(* jobs, memory is backed by the rows; once it is over, no change with a   *)
(* job is waiting for admission, so a job result finds it queued or later. *)
(***************************************************************************)
PhaseOK(c, s, m, d, j) ==
  m.state = "approved" =>
    /\ s = "enqueueing" => Satisfied(c, d.approvals)
    /\ s \in {"sweeping", "sweep_failed", "up"} => j.status = "absent"

(* A job result that was read is of a job that exists, and final if it is  *)
(* a final status.                                                         *)
ResultOK(status, j) ==
  /\ j.status # "absent"
  /\ status \in JobTerminal => j.status = status

ServerOK ==
  /\ server \in {"down", "enqueueing", "sweeping", "sweep_failed", "up"}
  /\ mem = [c \in Changes |-> mem[c]]
  /\ dur = [c \in Changes |-> dur[c]]
  /\ jobs = [c \in Changes |-> jobs[c]]
  /\ memRev \in Nat /\ durRev \in Nat /\ faults \in Nat
  /\ \A c \in Changes :
       /\ PartsOK(c, mem[c], dur[c], jobs[c])
       /\ PhaseOK(c, server, mem[c], dur[c], jobs[c])
       /\ \A status \in JobStatuses :
            <<c, status>> \in observed => ResultOK(status, jobs[c])

-----------------------------------------------------------------------------
(* Approvals and what is decided from them.                                *)

(* The names that the definitions below tell apart.                        *)
LEMMA StateNames ==
  /\ Undecided \subseteq ChangeStates
  /\ JobTerminal \subseteq ChangeStates /\ JobTerminal \subseteq JobStatuses
  /\ {"queued", "executing", "verifying"} \subseteq ChangeStates
  /\ "queued" \in JobStatuses
  /\ "absent" \notin ChangeStates /\ "absent" \notin JobStatuses
  /\ Undecided \cap JobTerminal = {}
BY DEF Undecided, ChangeStates, ChangeTerminal, JobTerminal, JobStatuses

(* Approvals form finite sets, and another approver counts one more.       *)
LEMMA ApprovalsCounted ==
  ASSUME NEW A \in SUBSET Actors
  PROVE  /\ Cardinality(A) \in Nat
         /\ \A a \in Actors \ A : Cardinality(A \cup {a}) = Cardinality(A) + 1
<1>1. IsFiniteSet(A)
  BY ChangeServerAssumption, FS_Subset DEF ChangeServerAssumption
<1> QED
  BY <1>1, FS_CardinalityType, FS_AddElement

(* More approvals never undo a sufficient number of them.                  *)
LEMMA SatisfiedGrows ==
  ASSUME NEW c \in Changes, NEW A \in SUBSET Actors, NEW B \in SUBSET Actors,
         A \subseteq B, Satisfied(c, A)
  PROVE  Satisfied(c, B)
<1> DEFINE X == A \ {Requester[c]}
           Y == B \ {Requester[c]}
<1>1. IsFiniteSet(Y) /\ X \in SUBSET Y
  BY ChangeServerAssumption, FS_Subset DEF ChangeServerAssumption
<1>2. Cardinality(X) <= Cardinality(Y)
  BY <1>1, FS_Subset
<1>3. Cardinality(X) \in Nat /\ Cardinality(Y) \in Nat /\ Required[c] \in Nat
  BY ChangeServerAssumption, ApprovalsCounted DEF ChangeServerAssumption
<1>4. Cardinality(X) >= Required[c]
  BY DEF Satisfied
<1>5. Cardinality(Y) >= Required[c]
  BY <1>2, <1>3, <1>4
<1> QED
  BY <1>5 DEF Satisfied

(* The three decisions, and what "approved" stands for.                    *)
LEMMA DecisionNames ==
  ASSUME NEW c \in Changes, NEW A \in SUBSET Actors
  PROVE  /\ Decided(c, A) \in Undecided
         /\ Decided(c, A) = "approved" <=> c \notin Denied /\ Satisfied(c, A)
BY DEF Decided, Undecided

-----------------------------------------------------------------------------
(* The steps of which handlers are made.                                   *)

(* UpdateChange in a covered slice always fits: after an attempt that may  *)
(* reach the database the row has the state of the record.                 *)
LEMMA UpdateOK ==
  ASSUME NEW c \in Changes, NEW e, SliceOK(c, e), e.mem.state # "absent",
         NEW outcome \in Outcomes
  PROVE  LET u == UpdateChange(e, outcome) IN
         /\ SliceOK(c, u)
         /\ u.mem = e.mem /\ u.job = e.job /\ u.cand = e.cand
         /\ u.ok => u.dur.approvals = e.mem.approvals
         /\ e.dur.approvals \subseteq u.dur.approvals
<1> DEFINE u == UpdateChange(e, outcome)
           row == [e.dur EXCEPT !.state = e.mem.state, !.version = e.mem.version,
                                !.job = e.mem.job,
                                !.approvals = e.dur.approvals \cup e.mem.approvals]
<1>1. e \in SliceRecord /\ PartsOK(c, e.mem, e.dur, e.job)
  BY DEF SliceOK
<1>2. e.mem \in ChangeRecord /\ e.dur \in ChangeRecord /\ e.job \in JobRecord
  BY <1>1 DEF SliceRecord
<1>3. e.dur.version <= e.mem.version /\ e.dur.approvals \subseteq e.mem.approvals
  BY <1>1 DEF PartsOK, Covers
<1>4. /\ row \in ChangeRecord
      /\ row.state = e.mem.state /\ row.version = e.mem.version
      /\ row.job = e.mem.job /\ row.approvals = e.mem.approvals
  BY <1>2, <1>3 DEF ChangeRecord
<1>5. /\ u \in SliceRecord
      /\ u.mem = e.mem /\ u.job = e.job /\ u.cand = e.cand
      /\ u.dur = row \/ u.dur = e.dur
      /\ u.ok => u.dur = row
  <2>1. Cost(outcome) \in Nat
    BY DEF Cost
  <2>2. e.faults + Cost(outcome) \in Nat
    BY <1>1, <2>1 DEF SliceRecord
  <2> HIDE DEF row
  <2>3. u = [e EXCEPT !.dur = IF e.dur.version <= e.mem.version /\ outcome # "error"
                              THEN row ELSE e.dur,
                      !.ok = e.dur.version <= e.mem.version /\ outcome = "ok",
                      !.faults = e.faults + Cost(outcome)]
    BY DEF UpdateChange, row
  <2> QED
    BY <2>2, <2>3, <1>1, <1>2, <1>4 DEF SliceRecord
<1>6. RecordOK(c, row)
  BY <1>1, <1>4 DEF PartsOK, RecordOK, VersionOK
<1>7. PartsOK(c, e.mem, row, e.job)
  <2>1. Covers(e.mem, row)
    BY <1>2, <1>4 DEF Covers, ChangeRecord
  <2>2. e.job.status # "absent" => Admissible(c, row)
    BY <1>1, <1>2, <1>3, <1>4, SatisfiedGrows DEF PartsOK, Admissible, ChangeRecord
  <2>3. OutcomeIsOf(row, e.job)
    BY <1>1, <1>4 DEF PartsOK, OutcomeIsOf
  <2> QED
    BY <1>1, <1>6, <2>1, <2>2, <2>3 DEF PartsOK
<1> HIDE DEF row, u
<1> QED
  BY <1>1, <1>3, <1>4, <1>5, <1>7 DEF SliceOK, u

(* JobRepository.Create keeps the parts when the change may be admitted.   *)
LEMMA CreateJobOK ==
  ASSUME NEW c \in Changes, NEW e, SliceOK(c, e), Admissible(c, e.dur),
         NEW outcome \in Outcomes
  PROVE  LET q == CreateJob(e, outcome) IN
         /\ SliceOK(c, q)
         /\ q.mem = e.mem /\ q.dur = e.dur /\ q.cand = e.cand
         /\ q.job = e.job \/ e.job.status = "absent"
<1> DEFINE q == CreateJob(e, outcome)
           new == [status |-> "queued", attempt |-> 0, max |-> MaxAttempts,
                   input |-> e.mem.input]
<1>1. e \in SliceRecord /\ PartsOK(c, e.mem, e.dur, e.job)
  BY DEF SliceOK
<1>2. e.mem \in ChangeRecord /\ e.dur \in ChangeRecord /\ e.job \in JobRecord
  BY <1>1 DEF SliceRecord
<1>3. new \in JobRecord
  BY <1>2, StateNames, ChangeServerAssumption
     DEF JobRecord, ChangeRecord, ChangeServerAssumption
<1>4. /\ q \in SliceRecord
      /\ q.mem = e.mem /\ q.dur = e.dur /\ q.cand = e.cand
      /\ q.job = e.job \/ (e.job.status = "absent" /\ q.job = new)
  <2>1. Cost(outcome) \in Nat
    BY DEF Cost
  <2>2. e.faults + Cost(outcome) \in Nat
    BY <1>1, <2>1 DEF SliceRecord
  <2>3. PICK ok \in BOOLEAN : q = [e EXCEPT !.job = IF e.job.status # "absent" \/ outcome = "error"
                                      THEN e.job ELSE new,
                              !.ok = ok, !.faults = e.faults + Cost(outcome)]
    BY DEF CreateJob
  <2> HIDE DEF new, q
  <2>4. q.job = IF e.job.status # "absent" \/ outcome = "error" THEN e.job ELSE new
    BY <2>3, <1>1 DEF SliceRecord
  <2>5. /\ q \in SliceRecord
        /\ q.mem = e.mem /\ q.dur = e.dur /\ q.cand = e.cand
    BY <2>2, <2>3, <1>1, <1>2, <1>3 DEF SliceRecord
  <2> QED
    BY <2>4, <2>5
<1>5. PartsOK(c, e.mem, e.dur, q.job)
  BY <1>1, <1>3, <1>4, StateNames DEF PartsOK, OutcomeIsOf
<1> HIDE DEF new, q
<1> QED
  BY <1>4, <1>5 DEF SliceOK, q

-----------------------------------------------------------------------------
(* The moves of a change.                                                  *)

Advanced(r, to, n) == [r EXCEPT !.state = to, !.version = r.version + n]

Advance(e, to, n) == [e EXCEPT !.mem = Advanced(e.mem, to, n)]

(* The moves that admission and reconcileJob make, passing states          *)
(* included, and by how much they raise the version.                       *)
Moves ==
  { <<"approved", "queued", 1>>, <<"queued", "executing", 1>>,
    <<"queued", "cancelled", 1>>, <<"executing", "cancelled", 1>>,
    <<"queued", "failed", 2>>, <<"executing", "failed", 1>>,
    <<"queued", "succeeded", 3>>, <<"executing", "succeeded", 2>> }

(* The fields of a record that has moved.                                  *)
LEMMA AdvancedFields ==
  ASSUME NEW r \in ChangeRecord, NEW to \in ChangeStates, NEW n, n \in Nat
  PROVE  /\ Advanced(r, to, n) \in ChangeRecord
         /\ Advanced(r, to, n).state = to
         /\ Advanced(r, to, n).version = r.version + n
         /\ Advanced(r, to, n).approvals = r.approvals
         /\ Advanced(r, to, n).job = r.job
         /\ Advanced(r, to, n).input = r.input
<1>1. r.version + n \in Nat
  BY DEF ChangeRecord
<1> QED
  BY <1>1 DEF Advanced, ChangeRecord

(* The fields of a slice whose record has moved.                           *)
LEMMA AdvanceFields ==
  ASSUME NEW e \in SliceRecord, NEW to \in ChangeStates, NEW n, n \in Nat
  PROVE  /\ Advance(e, to, n) \in SliceRecord
         /\ Advance(e, to, n).mem = Advanced(e.mem, to, n)
         /\ Advance(e, to, n).dur = e.dur
         /\ Advance(e, to, n).job = e.job
         /\ Advance(e, to, n).cand = e.cand
         /\ Advance(e, to, n).ok = e.ok
<1>1. e.mem \in ChangeRecord
  BY DEF SliceRecord
<1>2. Advanced(e.mem, to, n) \in ChangeRecord
  BY <1>1, AdvancedFields
<1> QED
  BY <1>2 DEF Advance, SliceRecord

(* Two moves are one.                                                      *)
LEMMA AdvanceTwice ==
  ASSUME NEW e \in SliceRecord, NEW s \in ChangeStates, NEW t \in ChangeStates,
         NEW n, n \in Nat, NEW k, k \in Nat
  PROVE  Advance(Advance(e, s, n), t, k) = Advance(e, t, n + k)
<1>1. e.mem \in ChangeRecord
  BY DEF SliceRecord
<1>2. Advanced(Advanced(e.mem, s, n), t, k) = Advanced(e.mem, t, n + k)
  <2>1. Advanced(e.mem, s, n).version + k = e.mem.version + (n + k)
    BY <1>1, AdvancedFields DEF ChangeRecord
  <2>2. Advanced(Advanced(e.mem, s, n), t, k)
          = [Advanced(e.mem, s, n) EXCEPT !.state = t, !.version = e.mem.version + (n + k)]
    BY <2>1 DEF Advanced
  <2> QED
    BY <1>1, <2>2 DEF Advanced, ChangeRecord
<1>3. Advanced(e.mem, s, n) \in ChangeRecord
  BY <1>1, AdvancedFields
<1> QED
  BY <1>2, <1>3 DEF Advance, SliceRecord

(* An allowed transition is a move by one version.                         *)
LEMMA TransitionAdvances ==
  ASSUME NEW e \in SliceRecord, NEW to \in ChangeStates,
         e.ok, e.mem.state # to, to \in Allowed(e.mem.state)
  PROVE  Transition(e, to) = Advance(e, to, 1)
<1>1. e.mem \in ChangeRecord
  BY DEF SliceRecord
<1>2. Transition(e, to) = [e EXCEPT !.mem.state = to, !.mem.version = e.mem.version + 1]
  BY <1>1 DEF Transition, SliceRecord, ChangeRecord
<1>3. @ = [e EXCEPT !.mem = [e.mem EXCEPT !.state = to, !.version = e.mem.version + 1]]
  BY <1>1 DEF SliceRecord, ChangeRecord
<1> QED
  BY <1>2, <1>3 DEF Advance, Advanced

(* A move keeps the parts, if an outcome is the one of the job.            *)
LEMMA MoveOK ==
  ASSUME NEW c \in Changes, NEW m, NEW d, NEW j, PartsOK(c, m, d, j),
         NEW to, NEW n, <<m.state, to, n>> \in Moves,
         to \in JobTerminal => j.status = to
  PROVE  PartsOK(c, Advanced(m, to, n), d, j)
<1> DEFINE r == Advanced(m, to, n)
<1>1. /\ to \in ChangeStates /\ to \notin Undecided /\ to # "absent" /\ to # "verifying"
      /\ n \in Nat /\ n > 0 /\ m.state # "absent"
      /\ m.state \in {"approved", "queued", "executing"}
  BY DEF Moves, ChangeStates, ChangeTerminal, Undecided
<1>2. m \in ChangeRecord /\ d \in ChangeRecord
  BY DEF PartsOK, RecordOK
<1>3. /\ r \in ChangeRecord /\ r.state = to /\ r.version = m.version + n
      /\ r.approvals = m.approvals
  BY <1>1, <1>2, AdvancedFields
<1>4. Decided(c, m.approvals) = "approved"
  BY <1>1 DEF PartsOK, RecordOK, Undecided
<1>5. ~RepeatedApprovals => VersionOK(r)
  <2>1. Cardinality(m.approvals) \in Nat
    BY <1>2, ApprovalsCounted DEF ChangeRecord
  <2>2. ~RepeatedApprovals => VersionOK(m)
    BY DEF PartsOK, RecordOK
  <2>3. to \notin Undecided
    BY <1>1
  <2>4. m.state = "approved" => m.state \in Undecided
    BY DEF Undecided
  <2> HIDE DEF r
  <2> QED
    BY <1>2, <1>3, <2>1, <2>2, <2>3, <2>4 DEF VersionOK, Moves
<1> HIDE DEF r
<1>6. RecordOK(c, r)
  BY <1>1, <1>3, <1>4, <1>5 DEF RecordOK
<1>7. Covers(r, d)
  <2>1. /\ d.state # "absent"
        /\ d.version <= m.version /\ d.approvals \subseteq m.approvals
        /\ d.version \in Nat /\ m.version \in Nat
    BY <1>1, <1>2 DEF PartsOK, Covers, ChangeRecord
  <2> QED
    BY <1>1, <1>3, <2>1 DEF Covers
<1>8. OutcomeIsOf(r, j)
  BY <1>3 DEF OutcomeIsOf
<1> QED
  BY <1>6, <1>7, <1>8 DEF PartsOK, r

(* enqueue leaves an approved change that its row backs queued in memory,  *)
(* whether or not the job was created and the row was written.             *)
LEMMA EnqueueOK ==
  ASSUME NEW c \in Changes, NEW e, SliceOK(c, e), e.ok, e.mem.state = "approved",
         Satisfied(c, e.dur.approvals),
         NEW created \in Outcomes, NEW written \in Outcomes
  PROVE  LET q == Enqueue(e, created, written) IN
         /\ SliceOK(c, q) /\ q.mem.state = "queued"
         /\ q.job = e.job \/ e.job.status = "absent"
<1> DEFINE t == Advance(e, "queued", 1)
           q == CreateJob(t, created)
           k == [q EXCEPT !.mem.job = TRUE, !.cand = TRUE]
<1>1. e \in SliceRecord /\ PartsOK(c, e.mem, e.dur, e.job)
  BY DEF SliceOK
<1>2. e.mem \in ChangeRecord
  BY <1>1 DEF SliceRecord
<1>3. "queued" \in ChangeStates /\ "queued" \notin JobTerminal
  BY DEF ChangeStates, JobTerminal
<1>4. Transition(e, "queued") = t
  <2>1. "queued" \in Allowed(e.mem.state)
    BY DEF Allowed
  <2> QED
    BY <1>1, <1>3, <2>1, TransitionAdvances
<1>5. /\ t \in SliceRecord /\ t.dur = e.dur /\ t.job = e.job
      /\ t.mem = Advanced(e.mem, "queued", 1) /\ t.mem.state = "queued"
  BY <1>1, <1>2, <1>3, AdvanceFields, AdvancedFields
<1>6. SliceOK(c, t)
  <2>1. <<e.mem.state, "queued", 1>> \in Moves
    BY DEF Moves
  <2>2. PartsOK(c, Advanced(e.mem, "queued", 1), e.dur, e.job)
    BY <1>1, <1>3, <2>1, MoveOK
  <2> HIDE DEF t
  <2> QED
    BY <1>5, <2>2 DEF SliceOK
<1>7. Admissible(c, t.dur)
  <2>1. Decided(c, e.mem.approvals) = "approved"
    BY <1>1 DEF PartsOK, RecordOK, Undecided
  <2>2. c \notin Denied
    BY <1>2, <2>1, DecisionNames DEF ChangeRecord
  <2> QED
    BY <1>1, <1>5, <2>2 DEF PartsOK, Covers, Admissible
<1> HIDE DEF t
<1>8. /\ SliceOK(c, q) /\ q.mem = t.mem
      /\ q.job = e.job \/ e.job.status = "absent"
  BY <1>5, <1>6, <1>7, CreateJobOK
<1> HIDE DEF q
<1>9. SliceOK(c, k) /\ k.mem.state = "queued" /\ k.job = q.job
  <2>1. q \in SliceRecord /\ PartsOK(c, q.mem, q.dur, q.job) /\ q.mem \in ChangeRecord
    BY <1>8 DEF SliceOK, SliceRecord
  <2> DEFINE r == [q.mem EXCEPT !.job = TRUE]
  <2>2. /\ r \in ChangeRecord /\ r.state = q.mem.state /\ r.version = q.mem.version
        /\ r.approvals = q.mem.approvals
    BY <2>1 DEF ChangeRecord
  <2>3. q.mem.state \notin Undecided /\ q.mem.state = "queued"
    BY <1>5, <1>8 DEF Undecided
  <2>4. k \in SliceRecord /\ k.mem = r /\ k.dur = q.dur /\ k.job = q.job
    BY <2>1, <2>2 DEF SliceRecord
  <2> HIDE DEF r, k
  <2>5. RecordOK(c, r)
    BY <2>1, <2>2, <2>3 DEF PartsOK, RecordOK, VersionOK
  <2>6. Covers(r, q.dur) /\ OutcomeIsOf(r, q.job)
    BY <2>1, <2>2 DEF PartsOK, Covers, OutcomeIsOf
  <2> QED
    BY <2>1, <2>2, <2>3, <2>4, <2>5, <2>6 DEF SliceOK, PartsOK
<1> HIDE DEF k
<1>10. CASE q.ok
  <2>1. Enqueue(e, created, written) = UpdateChange(k, written)
    BY <1>4, <1>10 DEF Enqueue, q, k
  <2> QED
    BY <1>8, <1>9, <2>1, UpdateOK
<1>11. CASE ~q.ok
  <2>1. Enqueue(e, created, written) = q
    BY <1>4, <1>11 DEF Enqueue, q
  <2> QED
    BY <1>5, <1>8, <2>1
<1> QED
  BY <1>10, <1>11

(***************************************************************************)
(* A job result finds the change queued or later, and every transition it  *)
(* asks for is allowed: reconcileJob never meets a refused transition, and *)
(* moves the change, if at all, by one of Moves.                           *)
(***************************************************************************)
LEMMA ReachedMoves ==
  ASSUME NEW c \in Changes, NEW e, SliceOK(c, e), e.ok,
         NEW status \in JobStatuses, ResultOK(status, e.job),
         e.mem.state # "absent", e.mem.state # "approved"
  PROVE  \/ Reached(e, status) = e
         \/ \E to \in ChangeStates : \E n \in Nat :
              /\ Reached(e, status) = Advance(e, to, n)
              /\ <<e.mem.state, to, n>> \in Moves
              /\ to \in JobTerminal => e.job.status = to
<1> DEFINE Goal(to, n) == /\ Reached(e, status) = Advance(e, to, n)
                          /\ <<e.mem.state, to, n>> \in Moves
                          /\ to \in JobTerminal => e.job.status = to
<1> SUFFICES \/ Reached(e, status) = e
             \/ \E to \in ChangeStates : \E n \in Nat : Goal(to, n)
  OBVIOUS
<1>1. e \in SliceRecord /\ PartsOK(c, e.mem, e.dur, e.job)
  BY DEF SliceOK
<1>2. e.mem \in ChangeRecord
  BY <1>1 DEF SliceRecord
<1>3. /\ "executing" \in ChangeStates /\ "verifying" \in ChangeStates
      /\ "succeeded" \in ChangeStates /\ "failed" \in ChangeStates
      /\ "cancelled" \in ChangeStates
      /\ "executing" \notin JobTerminal
  BY DEF ChangeStates, ChangeTerminal, JobTerminal
<1>4. e.mem.state \in {"queued", "executing"} \cup JobTerminal
  <2>1. Admissible(c, e.dur) /\ e.dur.approvals \subseteq e.mem.approvals
    BY <1>1 DEF PartsOK, Covers, ResultOK
  <2>2. Satisfied(c, e.mem.approvals) /\ c \notin Denied
    BY <1>1, <1>2, <2>1, SatisfiedGrows DEF Admissible, SliceRecord, ChangeRecord
  <2>3. Decided(c, e.mem.approvals) = "approved"
    BY <1>2, <2>2, DecisionNames DEF ChangeRecord
  <2>4. e.mem.state \notin Undecided
    BY <1>1, <2>3 DEF PartsOK, RecordOK
  <2>5. e.mem.state # "verifying"
    BY <1>1 DEF PartsOK, RecordOK
  <2> QED
    BY <1>2, <2>4, <2>5 DEF ChangeRecord, ChangeStates, ChangeTerminal, Undecided,
       JobTerminal
<1>5. e.mem.state \in JobTerminal => e.job.status = e.mem.state
  BY <1>1 DEF PartsOK, OutcomeIsOf
<1>6. status \in JobTerminal => e.job.status = status
  BY DEF ResultOK
<1>7. CASE e.mem.state = "queued" /\ status # "queued"
  <2>1. Transition(e, "executing") = Advance(e, "executing", 1)
    BY <1>1, <1>3, <1>7, TransitionAdvances DEF Allowed
  <2> DEFINE x == Advance(e, "executing", 1)
  <2>2. /\ x \in SliceRecord /\ x.mem.state = "executing" /\ x.ok
        /\ x.mem \in ChangeRecord
    BY <1>1, <1>2, <1>3, AdvanceFields, AdvancedFields
  <2> HIDE DEF x
  <2>3. CASE status = "cancelled"
    <3>1. Reached(e, status) = Advance(e, "cancelled", 1)
      BY <1>1, <1>3, <1>7, <2>3, TransitionAdvances DEF Allowed, Reached
    <3>2. <<e.mem.state, "cancelled", 1>> \in Moves
      BY <1>7 DEF Moves
    <3> QED
      BY <1>3, <1>6, <2>3, <3>1, <3>2 DEF JobTerminal
  <2>4. CASE status = "failed"
    <3>1. Reached(e, status) = Transition(x, "failed")
      BY <1>7, <2>1, <2>4 DEF Reached, x
    <3>2. @ = Advance(x, "failed", 1)
      BY <1>3, <2>2, TransitionAdvances DEF Allowed
    <3>3. @ = Advance(e, "failed", 1 + 1)
      BY <1>1, <1>3, AdvanceTwice DEF x
    <3>4. <<e.mem.state, "failed", 1 + 1>> \in Moves
      BY <1>7 DEF Moves
    <3> QED
      BY <1>3, <1>6, <2>4, <3>1, <3>2, <3>3, <3>4 DEF JobTerminal
  <2>5. CASE status = "succeeded"
    <3> DEFINE y == Advance(x, "verifying", 1)
    <3>1. Transition(x, "verifying") = y
      BY <1>3, <2>2, TransitionAdvances DEF Allowed
    <3>2. y \in SliceRecord /\ y.mem.state = "verifying" /\ y.ok
      BY <1>3, <2>2, AdvanceFields, AdvancedFields
    <3> HIDE DEF y
    <3>3. Reached(e, status) = Transition(y, "succeeded")
      BY <1>7, <2>1, <2>2, <2>5, <3>1 DEF Reached, x
    <3>4. @ = Advance(y, "succeeded", 1)
      BY <1>3, <3>2, TransitionAdvances DEF Allowed
    <3>5. @ = Advance(x, "succeeded", 1 + 1)
      BY <1>3, <2>2, AdvanceTwice DEF y
    <3>6. @ = Advance(e, "succeeded", 1 + (1 + 1))
      BY <1>1, <1>3, AdvanceTwice DEF x
    <3>7. <<e.mem.state, "succeeded", 1 + (1 + 1)>> \in Moves
      BY <1>7 DEF Moves
    <3> QED
      BY <1>3, <1>6, <2>5, <3>3, <3>4, <3>5, <3>6, <3>7 DEF JobTerminal
  <2>6. CASE status \notin {"cancelled", "failed", "succeeded"}
    <3>1. Reached(e, status) = Advance(e, "executing", 1)
      BY <1>7, <2>1, <2>6 DEF Reached
    <3>2. <<e.mem.state, "executing", 1>> \in Moves
      BY <1>7 DEF Moves
    <3> QED
      BY <1>3, <3>1, <3>2
  <2> QED
    BY <2>3, <2>4, <2>5, <2>6
<1>8. CASE e.mem.state = "executing"
  <2>1. CASE status \in {"cancelled", "failed"}
    <3>1. Reached(e, status) = Advance(e, status, 1)
      BY <1>1, <1>3, <1>8, <2>1, TransitionAdvances DEF Allowed, Reached
    <3>2. <<e.mem.state, status, 1>> \in Moves
      BY <1>8, <2>1 DEF Moves
    <3> QED
      BY <1>3, <1>6, <2>1, <3>1, <3>2 DEF JobTerminal
  <2>2. CASE status = "succeeded"
    <3> DEFINE y == Advance(e, "verifying", 1)
    <3>1. Transition(e, "verifying") = y
      BY <1>1, <1>3, <1>8, TransitionAdvances DEF Allowed
    <3>2. y \in SliceRecord /\ y.mem.state = "verifying" /\ y.ok
      BY <1>1, <1>2, <1>3, AdvanceFields, AdvancedFields
    <3> HIDE DEF y
    <3>3. Reached(e, status) = Transition(y, "succeeded")
      BY <1>8, <2>2, <3>1 DEF Reached
    <3>4. @ = Advance(y, "succeeded", 1)
      BY <1>3, <3>2, TransitionAdvances DEF Allowed
    <3>5. @ = Advance(e, "succeeded", 1 + 1)
      BY <1>1, <1>3, AdvanceTwice DEF y
    <3>6. <<e.mem.state, "succeeded", 1 + 1>> \in Moves
      BY <1>8 DEF Moves
    <3> QED
      BY <1>3, <1>6, <2>2, <3>3, <3>4, <3>5, <3>6 DEF JobTerminal
  <2>3. CASE status \notin {"cancelled", "failed", "succeeded"}
    BY <1>8, <2>3 DEF Reached
  <2> QED
    BY <2>1, <2>2, <2>3
<1>9. CASE e.mem.state = "queued" /\ status = "queued"
  BY <1>9 DEF Reached
<1>10. CASE e.mem.state \in JobTerminal
  <2>1. status \in JobTerminal => status = e.mem.state
    BY <1>5, <1>6, <1>10
  <2> QED
    BY <1>10, <2>1 DEF Reached, Transition, JobTerminal
<1> QED
  BY <1>4, <1>7, <1>8, <1>9, <1>10

(* reconcileJob keeps the parts, leaves the job alone, and does not send a *)
(* change back to wait for admission.                                      *)
LEMMA ReconcileOK ==
  ASSUME NEW c \in Changes, NEW e, SliceOK(c, e), e.ok,
         NEW status \in JobStatuses, ResultOK(status, e.job),
         e.mem.state # "approved", NEW outcome \in Outcomes
  PROVE  LET k == ReconcileJob(e, status, outcome) IN
         SliceOK(c, k) /\ k.job = e.job /\ k.mem.state # "approved"
<1> DEFINE k == ReconcileJob(e, status, outcome)
           r == Reached(e, status)
           p == UpdateChange(r, outcome)
<1>1. e \in SliceRecord /\ PartsOK(c, e.mem, e.dur, e.job)
  BY DEF SliceOK
<1>2. CASE e.mem.state = "absent"
  <2>1. k = [e EXCEPT !.ok = FALSE]
    BY <1>2 DEF ReconcileJob
  <2>2. k \in SliceRecord /\ k.mem = e.mem /\ k.dur = e.dur /\ k.job = e.job
    BY <1>1, <2>1 DEF SliceRecord
  <2> HIDE DEF k
  <2> QED
    BY <1>1, <2>2 DEF SliceOK, k
<1>3. CASE e.mem.state # "absent"
  <2>1. /\ SliceOK(c, r) /\ r.ok /\ r.job = e.job
        /\ r.mem.state # "approved" /\ r.mem.state # "absent"
    <3>1. CASE r = e
      BY <1>3, <3>1
    <3>2. ASSUME NEW to \in ChangeStates, NEW n \in Nat, r = Advance(e, to, n),
                 <<e.mem.state, to, n>> \in Moves,
                 to \in JobTerminal => e.job.status = to
          PROVE  /\ SliceOK(c, r) /\ r.ok /\ r.job = e.job
                 /\ r.mem.state # "approved" /\ r.mem.state # "absent"
      <4>1. PartsOK(c, Advanced(e.mem, to, n), e.dur, e.job)
        BY <1>1, <3>2, MoveOK
      <4>2. /\ r \in SliceRecord /\ r.mem = Advanced(e.mem, to, n) /\ r.dur = e.dur
            /\ r.job = e.job /\ r.ok
        BY <1>1, <3>2, AdvanceFields
      <4>3. r.mem.state = to
        BY <1>1, <4>2, AdvancedFields DEF SliceRecord
      <4>4. to # "approved" /\ to # "absent"
        BY <3>2 DEF Moves
      <4> HIDE DEF r
      <4> QED
        BY <4>1, <4>2, <4>3, <4>4 DEF SliceOK
    <3> HIDE DEF r
    <3> QED
      BY <1>3, <3>1, <3>2, ReachedMoves DEF r
  <2> HIDE DEF r
  <2>2. SliceOK(c, p) /\ p.mem = r.mem /\ p.job = r.job
    BY <2>1, UpdateOK
  <2> HIDE DEF p
  <2>3. CASE k = e
    BY <2>3
  <2>4. ASSUME NEW b \in BOOLEAN, k = [p EXCEPT !.cand = b]
        PROVE  SliceOK(c, k) /\ k.job = e.job /\ k.mem.state # "approved"
    <3>1. k \in SliceRecord /\ k.mem = p.mem /\ k.dur = p.dur /\ k.job = p.job
      BY <2>2, <2>4 DEF SliceOK, SliceRecord
    <3> HIDE DEF k
    <3> QED
      BY <2>1, <2>2, <3>1 DEF SliceOK
  <2>5. k = e \/ \E b \in BOOLEAN : k = [p EXCEPT !.cand = b]
    <3>1. p.cand \in BOOLEAN
      BY <2>2 DEF SliceOK, SliceRecord
    <3>2. k = e \/ k = [p EXCEPT !.cand = IF ~p.ok THEN TRUE
                                 ELSE IF status \in JobTerminal THEN FALSE ELSE p.cand]
      BY <1>3, <2>1 DEF ReconcileJob, r, p
    <3> HIDE DEF k
    <3>3. (IF ~p.ok THEN TRUE ELSE IF status \in JobTerminal THEN FALSE ELSE p.cand)
            \in BOOLEAN
      BY <3>1
    <3> QED
      BY <3>2, <3>3
  <2> HIDE DEF k
  <2> QED
    BY <2>3, <2>4, <2>5 DEF k
<1> QED
  BY <1>2, <1>3

-----------------------------------------------------------------------------
(* Steps of the server.                                                    *)

(* The slice of a change holds what the state holds.                       *)
LEMMA SliceOfState ==
  ASSUME ServerOK, NEW c \in Changes
  PROVE  /\ SliceOK(c, Slice(c))
         /\ Slice(c).mem = mem[c] /\ Slice(c).dur = dur[c] /\ Slice(c).job = jobs[c]
         /\ Slice(c).ok
<1>1. PartsOK(c, mem[c], dur[c], jobs[c]) /\ faults \in Nat
  BY DEF ServerOK
<1>2. mem[c] \in ChangeRecord /\ dur[c] \in ChangeRecord /\ jobs[c] \in JobRecord
  BY <1>1 DEF PartsOK, RecordOK
<1>3. Slice(c) \in SliceRecord
  BY <1>1, <1>2 DEF Slice, SliceRecord
<1> QED
  BY <1>1, <1>3 DEF Slice, SliceOK

(***************************************************************************)
(* Writing a good slice back keeps the invariant: the other changes are    *)
(* not touched, and a job that was read about is still the same job.       *)
(***************************************************************************)
LEMMA CommitOK ==
  ASSUME ServerOK, NEW c \in Changes, NEW e, SliceOK(c, e), Commit(c, e),
         e.job = jobs[c] \/ jobs[c].status = "absent",
         \/ server' = server
         \/ server = "sweeping" /\ server' = "sweep_failed",
         PhaseOK(c, server', e.mem, e.dur, e.job),
         observed' \subseteq observed,
         memRev' \in Nat, durRev' \in Nat
  PROVE  ServerOK'
<1>1. /\ faults' = e.faults
      /\ mem' = [mem EXCEPT ![c] = e.mem]
      /\ dur' = [dur EXCEPT ![c] = e.dur]
      /\ jobs' = [jobs EXCEPT ![c] = e.job]
  BY DEF Commit
<1>2. /\ mem = [x \in Changes |-> mem[x]] /\ dur = [x \in Changes |-> dur[x]]
      /\ jobs = [x \in Changes |-> jobs[x]]
  BY DEF ServerOK
<1>3. /\ mem' = [x \in Changes |-> mem'[x]] /\ dur' = [x \in Changes |-> dur'[x]]
      /\ jobs' = [x \in Changes |-> jobs'[x]]
  BY <1>1, <1>2
<1>4. ASSUME NEW x \in Changes
      PROVE  /\ PartsOK(x, mem'[x], dur'[x], jobs'[x])
             /\ PhaseOK(x, server', mem'[x], dur'[x], jobs'[x])
             /\ \A status \in JobStatuses :
                  <<x, status>> \in observed' => ResultOK(status, jobs'[x])
  <2>1. /\ PartsOK(x, mem[x], dur[x], jobs[x])
        /\ PhaseOK(x, server, mem[x], dur[x], jobs[x])
        /\ \A status \in JobStatuses :
             <<x, status>> \in observed => ResultOK(status, jobs[x])
    BY DEF ServerOK
  <2>2. CASE x = c
    <3>1. mem'[x] = e.mem /\ dur'[x] = e.dur /\ jobs'[x] = e.job
      BY <1>1, <1>2, <2>2
    <3>2. \A status \in JobStatuses : <<x, status>> \in observed => jobs'[x] = jobs[x]
      BY <2>1, <2>2, <3>1 DEF ResultOK
    <3> QED
      BY <2>1, <2>2, <3>1, <3>2 DEF SliceOK
  <2>3. CASE x # c
    <3>1. mem'[x] = mem[x] /\ dur'[x] = dur[x] /\ jobs'[x] = jobs[x]
      BY <1>1, <1>2, <2>3
    <3>2. PhaseOK(x, server', mem[x], dur[x], jobs[x])
      BY <2>1 DEF PhaseOK
    <3> QED
      BY <2>1, <3>1, <3>2
  <2> QED
    BY <2>2, <2>3
<1>5. faults' \in Nat
  BY <1>1 DEF SliceOK, SliceRecord
<1>6. server' \in {"down", "enqueueing", "sweeping", "sweep_failed", "up"}
  BY DEF ServerOK
<1> QED
  BY <1>3, <1>4, <1>5, <1>6 DEF ServerOK

(* Admission of a change that its row backs, if it is approved.            *)
LEMMA EnqueueIfApprovedOK ==
  ASSUME NEW c \in Changes, NEW e, SliceOK(c, e), e.ok,
         e.mem.state = "approved" => Satisfied(c, e.dur.approvals),
         NEW created \in Outcomes, NEW written \in Outcomes
  PROVE  LET q == EnqueueIfApproved(e, created, written) IN
         /\ SliceOK(c, q) /\ q.mem.state # "approved"
         /\ q.job = e.job \/ e.job.status = "absent"
<1>1. e.mem.state = "approved" => ~e.mem.job
  BY DEF SliceOK, PartsOK, RecordOK, Undecided
<1>2. CASE e.mem.state = "approved"
  BY <1>1, <1>2, EnqueueOK DEF EnqueueIfApproved
<1>3. CASE e.mem.state # "approved"
  BY <1>3 DEF EnqueueIfApproved
<1> QED
  BY <1>2, <1>3

(* A record that does not exist, and one that was just made.               *)
LEMMA FirstRecords ==
  ASSUME NEW c \in Changes, memRev \in Nat
  PROVE  /\ RecordOK(c, Absent) /\ Absent.state = "absent"
         /\ RecordOK(c, NewChange(c))
         /\ NewChange(c).state = Decided(c, {}) /\ NewChange(c).approvals = {}
<1>1. Absent \in ChangeRecord /\ Absent.state = "absent"
  BY DEF Absent, ChangeRecord, Texts
<1>2. RecordOK(c, Absent)
  BY <1>1 DEF RecordOK, VersionOK, Undecided
<1>3. Decided(c, {}) \in Undecided /\ Undecided \subseteq ChangeStates
  BY DecisionNames, StateNames
<1>4. Input[c] \in Texts
  BY ChangeServerAssumption DEF ChangeServerAssumption, Texts
<1>5. /\ NewChange(c).state = Decided(c, {}) /\ NewChange(c).version = 1
      /\ NewChange(c).approvals = {} /\ ~NewChange(c).job
  BY <1>1 DEF NewChange, Absent, ChangeRecord
<1>6. NewChange(c) \in ChangeRecord
  BY <1>1, <1>3, <1>4 DEF NewChange, ChangeRecord
<1>7. Cardinality({}) = 0
  BY FS_EmptySet
<1>8. RecordOK(c, NewChange(c))
  <2>1. /\ NewChange(c).state \in Undecided /\ NewChange(c).version = 1
        /\ NewChange(c).approvals = {} /\ ~NewChange(c).job
        /\ NewChange(c).state = Decided(c, {})
    BY <1>3, <1>5
  <2>2. "verifying" \notin Undecided /\ "queued" \notin Undecided
        /\ "executing" \notin Undecided /\ "failed" \notin Undecided
        /\ "succeeded" \notin Undecided /\ "cancelled" \notin Undecided
    BY DEF Undecided
  <2>3. VersionOK(NewChange(c))
    BY <1>7, <2>1, <2>2 DEF VersionOK
  <2> QED
    BY <1>6, <2>1, <2>2, <2>3 DEF RecordOK
<1> QED
  BY <1>1, <1>2, <1>5, <1>8

(* A change restored from its row is the row, but for the text of its      *)
(* input.                                                                  *)
LEMMA RestoredOK ==
  ASSUME NEW c \in Changes, NEW d, RecordOK(c, d)
  PROVE  /\ RecordOK(c, Restored(d))
         /\ Restored(d).state = d.state /\ Restored(d).version = d.version
         /\ Restored(d).approvals = d.approvals /\ Restored(d).job = d.job
<1>1. d \in ChangeRecord
  BY DEF RecordOK
<1>2. /\ Restored(d) \in ChangeRecord
      /\ Restored(d).state = d.state /\ Restored(d).version = d.version
      /\ Restored(d).approvals = d.approvals /\ Restored(d).job = d.job
  BY <1>1 DEF Restored, ChangeRecord, Texts
<1> QED
  BY <1>2 DEF RecordOK, VersionOK

(* createChange, for a new change and for one found in the database.       *)
LEMMA CreateChangeOK ==
  ASSUME ServerOK, NEW c \in Changes, NEW stored \in Outcomes,
         NEW created \in Outcomes, NEW written \in Outcomes,
         CreateChange(c, stored, created, written)
  PROVE  ServerOK'
<1> DEFINE e == IF dur[c].state = "absent" THEN StoredNew(c, stored) ELSE Found(c)
           q == IF e.ok THEN EnqueueIfApproved(e, created, written) ELSE e
           k == IF ~q.ok /\ ~q.mem.job
                THEN [q EXCEPT !.mem = Absent, !.cand = FALSE] ELSE q
<1>1. /\ server = "up" /\ mem[c].state = "absent" /\ Commit(c, k)
      /\ UNCHANGED <<server, todo, memRev, observed, durRev>>
  BY DEF CreateChange
<1>2. memRev \in Nat /\ durRev \in Nat
  BY DEF ServerOK
<1>3. /\ SliceOK(c, Slice(c)) /\ Slice(c) \in SliceRecord
      /\ Slice(c).mem = mem[c] /\ Slice(c).dur = dur[c] /\ Slice(c).job = jobs[c]
      /\ Slice(c).ok /\ Slice(c).faults \in Nat
      /\ PartsOK(c, mem[c], dur[c], jobs[c])
  BY SliceOfState DEF SliceOK, SliceRecord
<1>4. /\ SliceOK(c, e)
      /\ e.job = jobs[c]
      /\ e.mem.state = "approved" => Satisfied(c, e.dur.approvals)
      /\ ~e.ok => e.mem.state # "approved"
  <2>1. CASE dur[c].state = "absent"
    <3> DEFINE new == NewChange(c)
               row == IF stored = "error" THEN dur[c] ELSE new
               record == IF stored = "ok" THEN new ELSE mem[c]
    <3>1. /\ RecordOK(c, new) /\ new.state = Decided(c, {}) /\ new.approvals = {}
          /\ new \in ChangeRecord /\ new.state \in Undecided
      BY <1>2, FirstRecords, DecisionNames DEF RecordOK
    <3>2. jobs[c].status = "absent"
      BY <1>3, <2>1 DEF PartsOK, Admissible
    <3>3. Cost(stored) \in Nat
      BY DEF Cost
    <3>4. Slice(c).faults + Cost(stored) \in Nat
      BY <1>3, <3>3
    <3> HIDE DEF new
    <3>5. e = [Slice(c) EXCEPT !.faults = Slice(c).faults + Cost(stored),
                               !.ok = stored = "ok", !.dur = row, !.mem = record]
      BY <1>3, <2>1 DEF StoredNew, SliceRecord, new
    <3>6. /\ RecordOK(c, row) /\ RecordOK(c, record)
          /\ row \in ChangeRecord /\ record \in ChangeRecord
      BY <1>3, <3>1 DEF PartsOK, RecordOK
    <3>7. row.state \notin JobTerminal /\ record.state \notin JobTerminal
      BY <1>1, <2>1, <3>1, StateNames
    <3>8. Covers(record, row)
      <4>1. CASE stored = "ok"
        BY <3>1, <4>1, StateNames DEF Covers, ChangeRecord
      <4>2. CASE stored # "ok"
        BY <1>1, <4>2 DEF Covers
      <4> QED
        BY <4>1, <4>2
    <3>9. record.state = "approved" => stored = "ok" /\ Satisfied(c, row.approvals)
      <4>1. record.state = "approved" => stored = "ok"
        BY <1>1
      <4>2. stored = "ok" => row = new /\ record = new
        OBVIOUS
      <4>3. new.state = "approved" => Satisfied(c, new.approvals)
        BY <3>1, DecisionNames
      <4> QED
        BY <4>1, <4>2, <4>3
    <3> HIDE DEF row, record
    <3>10. /\ e \in SliceRecord /\ e.mem = record /\ e.dur = row /\ e.job = jobs[c]
           /\ e.ok <=> stored = "ok"
      BY <1>3, <3>4, <3>5, <3>6 DEF SliceRecord
    <3>11. PartsOK(c, record, row, jobs[c])
      BY <1>3, <3>2, <3>6, <3>7, <3>8 DEF PartsOK, OutcomeIsOf
    <3> HIDE DEF e
    <3> QED
      BY <3>9, <3>10, <3>11 DEF SliceOK
  <2>2. CASE dur[c].state # "absent"
    <3> DEFINE record == Restored(dur[c])
    <3>1. /\ RecordOK(c, record) /\ record \in ChangeRecord
          /\ record.state = dur[c].state /\ record.version = dur[c].version
          /\ record.approvals = dur[c].approvals
      BY <1>3, RestoredOK DEF PartsOK, RecordOK
    <3> HIDE DEF record
    <3>2. \E b \in BOOLEAN : e = [Slice(c) EXCEPT !.mem = record, !.cand = b]
      <4>1. dur[c].job \in BOOLEAN
        BY <1>3 DEF PartsOK, RecordOK, ChangeRecord
      <4> QED
        BY <2>2, <4>1 DEF Found, record
    <3>3. /\ e \in SliceRecord /\ e.mem = record /\ e.dur = dur[c] /\ e.job = jobs[c]
          /\ e.ok
      BY <1>3, <3>1, <3>2 DEF SliceRecord
    <3>4. Covers(record, dur[c]) /\ OutcomeIsOf(record, jobs[c])
      BY <1>3, <3>1, <2>2 DEF PartsOK, RecordOK, ChangeRecord, Covers, OutcomeIsOf
    <3>5. record.state = "approved" => Satisfied(c, dur[c].approvals)
      BY <3>1, DecisionNames DEF RecordOK, ChangeRecord, Undecided
    <3> HIDE DEF e
    <3> QED
      BY <1>3, <3>1, <3>3, <3>4, <3>5 DEF SliceOK, PartsOK
  <2> QED
    BY <2>1, <2>2
<1> HIDE DEF e
<1>5. /\ SliceOK(c, q) /\ q.mem.state # "approved"
      /\ q.job = jobs[c] \/ jobs[c].status = "absent"
  BY <1>4, EnqueueIfApprovedOK
<1> HIDE DEF q
<1>6. /\ SliceOK(c, k) /\ k.mem.state # "approved" /\ k.job = q.job
  <2>0. k = q \/ k = [q EXCEPT !.mem = Absent, !.cand = FALSE]
    OBVIOUS
  <2> HIDE DEF k
  <2>1. CASE k = q
    BY <1>5, <2>1
  <2>2. CASE k = [q EXCEPT !.mem = Absent, !.cand = FALSE]
    <3>1. RecordOK(c, Absent) /\ Absent.state = "absent" /\ Absent \in ChangeRecord
      BY <1>2, FirstRecords DEF RecordOK
    <3>2. /\ k \in SliceRecord /\ k.mem = Absent /\ k.dur = q.dur /\ k.job = q.job
      BY <1>5, <2>2, <3>1 DEF SliceOK, SliceRecord
    <3>3. Covers(Absent, q.dur) /\ OutcomeIsOf(Absent, q.job)
      BY <3>1, StateNames DEF Covers, OutcomeIsOf
    <3> QED
      BY <1>5, <3>1, <3>2, <3>3 DEF SliceOK, PartsOK
  <2> QED
    BY <2>0, <2>1, <2>2
<1> HIDE DEF k
<1> QED
  BY <1>1, <1>2, <1>5, <1>6, CommitOK DEF PhaseOK

(* approveChange: the approval counts in memory at once, and admits a job  *)
(* only when the row has it too.                                           *)
LEMMA ApproveChangeOK ==
  ASSUME ServerOK, NEW c \in Changes, NEW a \in Actors, NEW stored \in Outcomes,
         NEW created \in Outcomes, NEW written \in Outcomes,
         ApproveChange(c, a, stored, created, written)
  PROVE  ServerOK'
<1> DEFINE record == Approved(c, mem[c], a)
           b == [Slice(c) EXCEPT !.mem = record]
           e == UpdateChange(b, stored)
           q == IF e.ok THEN EnqueueIfApproved(e, created, written) ELSE e
<1>1. /\ server = "up" /\ mem[c].state = "pending_approval" /\ Commit(c, q)
      /\ RepeatedApprovals \/ a \notin mem[c].approvals
      /\ UNCHANGED <<server, todo, memRev, observed, durRev>>
  BY DEF ApproveChange
<1>2. /\ SliceOK(c, Slice(c)) /\ Slice(c) \in SliceRecord
      /\ Slice(c).mem = mem[c] /\ Slice(c).dur = dur[c] /\ Slice(c).job = jobs[c]
      /\ Slice(c).ok
      /\ PartsOK(c, mem[c], dur[c], jobs[c])
      /\ RecordOK(c, mem[c]) /\ mem[c] \in ChangeRecord /\ dur[c] \in ChangeRecord
  BY SliceOfState DEF SliceOK, SliceRecord, PartsOK, RecordOK
<1> DEFINE A == mem[c].approvals \cup {a}
<1>3. /\ A \in SUBSET Actors /\ mem[c].approvals \in SUBSET Actors
      /\ mem[c].version \in Nat
  BY <1>2 DEF ChangeRecord
<1>4. Decided(c, A) \in Undecided /\ Undecided \subseteq ChangeStates
  BY <1>3, DecisionNames, StateNames
<1>5. /\ record.state = Decided(c, A) /\ record.version = mem[c].version + 1
      /\ record.approvals = A /\ record.job = mem[c].job
      /\ record \in ChangeRecord
  <2>1. record = [mem[c] EXCEPT !.approvals = A, !.version = mem[c].version + 1,
                                !.state = Decided(c, A)]
    BY <1>2 DEF Approved, ChangeRecord
  <2>2. mem[c].version + 1 \in Nat /\ Decided(c, A) \in ChangeStates
    BY <1>3, <1>4
  <2> HIDE DEF A, record
  <2> QED
    BY <1>2, <1>3, <2>1, <2>2 DEF ChangeRecord
<1>6. jobs[c].status = "absent"
  <2>1. Decided(c, mem[c].approvals) = "pending_approval"
    BY <1>1, <1>2 DEF RecordOK, Undecided
  <2>2. c \in Denied \/ ~Satisfied(c, mem[c].approvals)
    BY <1>3, <2>1, DecisionNames
  <2>3. dur[c].approvals \subseteq mem[c].approvals /\ dur[c].approvals \in SUBSET Actors
    BY <1>1, <1>2 DEF PartsOK, Covers, ChangeRecord
  <2>4. ~Admissible(c, dur[c])
    BY <1>3, <2>2, <2>3, SatisfiedGrows DEF Admissible
  <2> QED
    BY <1>2, <2>4 DEF PartsOK
<1> HIDE DEF record
<1>7. RecordOK(c, record)
  <2>1. ASSUME ~RepeatedApprovals
        PROVE  VersionOK(record)
    <3>1. a \notin mem[c].approvals
      BY <1>1, <2>1
    <3>2. Cardinality(A) = Cardinality(mem[c].approvals) + 1
          /\ Cardinality(mem[c].approvals) \in Nat
      BY <1>3, <3>1, ApprovalsCounted
    <3>3. mem[c].version = 1 + Cardinality(mem[c].approvals)
      BY <1>1, <1>2, <2>1 DEF RecordOK, VersionOK, Undecided
    <3>4. record.version = 1 + Cardinality(A) /\ record.state \in Undecided
      BY <1>3, <1>4, <1>5, <3>2, <3>3
    <3> HIDE DEF A
    <3> QED
      BY <1>5, <3>4 DEF VersionOK, Undecided
  <2>2. ~mem[c].job
    BY <1>1, <1>2 DEF RecordOK, Undecided
  <2> HIDE DEF A
  <2> QED
    BY <1>4, <1>5, <2>1, <2>2 DEF RecordOK, Undecided
<1>8. /\ SliceOK(c, b) /\ b.mem = record /\ b.job = jobs[c]
  <2>1. b \in SliceRecord /\ b.mem = record /\ b.dur = dur[c] /\ b.job = jobs[c]
    BY <1>2, <1>5 DEF SliceRecord
  <2>2. /\ dur[c].state # "absent" /\ dur[c].version <= mem[c].version
        /\ dur[c].approvals \subseteq mem[c].approvals /\ dur[c].version \in Nat
    BY <1>1, <1>2 DEF PartsOK, Covers, ChangeRecord
  <2>3. Covers(record, dur[c])
    BY <1>3, <1>5, <2>2 DEF Covers
  <2>4. OutcomeIsOf(record, jobs[c])
    BY <1>4, <1>5, StateNames DEF OutcomeIsOf
  <2> HIDE DEF b
  <2> QED
    BY <1>2, <1>7, <2>1, <2>3, <2>4 DEF SliceOK, PartsOK
<1> HIDE DEF b
<1>9. /\ SliceOK(c, e) /\ e.mem = record /\ e.job = jobs[c]
      /\ e.ok => e.dur.approvals = record.approvals
  <2>1. record.state # "absent"
    BY <1>4, <1>5 DEF Undecided
  <2> QED
    BY <1>8, <2>1, UpdateOK
<1> HIDE DEF e
<1>10. CASE e.ok
  <2>1. e.mem.state = "approved" => Satisfied(c, e.dur.approvals)
    <3>1. record.state = "approved" => Satisfied(c, A)
      BY <1>3, <1>5, DecisionNames
    <3> QED
      BY <1>5, <1>9, <1>10, <3>1
  <2>2. /\ SliceOK(c, q) /\ q.mem.state # "approved"
        /\ q.job = jobs[c] \/ jobs[c].status = "absent"
    BY <1>9, <1>10, <2>1, EnqueueIfApprovedOK
  <2> HIDE DEF q
  <2> QED
    BY <1>1, <2>2, CommitOK DEF PhaseOK, ServerOK
<1>11. CASE ~e.ok
  <2>1. q = e
    BY <1>11
  <2> HIDE DEF q
  <2> QED
    BY <1>1, <1>6, <1>9, <2>1, CommitOK DEF PhaseOK, ServerOK
<1> QED
  BY <1>10, <1>11

(* A job that reached its end takes no further legal step.                 *)
LEMMA FinalJobsStay ==
  ASSUME NEW j, NEW k, Lifecycle!LegalStep(j, k), k # j
  PROVE  j.status \notin JobTerminal
<1>1. PICK row \in Lifecycle!TimelineRows : j.status \in row.from
  BY DEF Lifecycle!LegalStep, Lifecycle!TimelineEvents
<1>2. \A s \in row.from : s \in {"absent", "queued", "retry_wait", "running",
                                 "cancel_requested"}
  BY <1>1 DEF Lifecycle!TimelineRows, Lifecycle!Row, Lifecycle!Startable
<1> QED
  BY <1>1, <1>2 DEF JobTerminal

(* A step of the job: results that were read stay true of it.              *)
LEMMA JobStepOK ==
  ASSUME ServerOK, NEW c \in Changes, JobStep(c)
  PROVE  ServerOK'
<1>1. PICK status \in JobStatuses : \E attempt \in 0 .. MaxAttempts :
        LET after == [jobs[c] EXCEPT !.status = status, !.attempt = attempt]
        IN  /\ after # jobs[c]
            /\ Lifecycle!LegalStep(jobs[c], after)
            /\ jobs' = [jobs EXCEPT ![c] = after]
  BY DEF JobStep
<1>2. PICK attempt \in 0 .. MaxAttempts :
        LET after == [jobs[c] EXCEPT !.status = status, !.attempt = attempt]
        IN  /\ after # jobs[c]
            /\ Lifecycle!LegalStep(jobs[c], after)
            /\ jobs' = [jobs EXCEPT ![c] = after]
  BY <1>1
<1> DEFINE k == [jobs[c] EXCEPT !.status = status, !.attempt = attempt]
<1>3. /\ k # jobs[c] /\ Lifecycle!LegalStep(jobs[c], k)
      /\ jobs' = [jobs EXCEPT ![c] = k]
      /\ server = "up" /\ jobs[c].status # "absent"
      /\ UNCHANGED <<server, todo, mem, cand, memRev, observed, dur, durRev, faults>>
  BY <1>2 DEF JobStep, memory
<1>4. PartsOK(c, mem[c], dur[c], jobs[c]) /\ jobs[c] \in JobRecord
  BY DEF ServerOK, PartsOK
<1>5. k \in JobRecord /\ k.status = status
  <2>1. attempt \in Nat
    BY ChangeServerAssumption DEF ChangeServerAssumption
  <2> QED
    BY <1>4, <2>1 DEF JobRecord
<1> HIDE DEF k
<1>6. jobs[c].status \notin JobTerminal
  BY <1>3, FinalJobsStay
<1>7. PartsOK(c, mem[c], dur[c], k)
  BY <1>3, <1>4, <1>5, <1>6 DEF PartsOK, OutcomeIsOf
<1>8. jobs = [x \in Changes |-> jobs[x]]
  BY DEF ServerOK
<1>9. ASSUME NEW x \in Changes
      PROVE  /\ PartsOK(x, mem'[x], dur'[x], jobs'[x])
             /\ PhaseOK(x, server', mem'[x], dur'[x], jobs'[x])
             /\ \A s \in JobStatuses : <<x, s>> \in observed' => ResultOK(s, jobs'[x])
  <2>1. /\ PartsOK(x, mem[x], dur[x], jobs[x])
        /\ PhaseOK(x, server, mem[x], dur[x], jobs[x])
        /\ \A s \in JobStatuses : <<x, s>> \in observed => ResultOK(s, jobs[x])
    BY DEF ServerOK
  <2>2. CASE x = c
    <3>1. jobs'[x] = k
      BY <1>3, <1>8, <2>2
    <3>2. k.status # "absent"
      BY <1>5, StateNames
    <3>3. mem[x].state # "approved"
      BY <1>3, <2>1, <2>2 DEF PhaseOK
    <3>4. \A s \in JobStatuses : <<x, s>> \in observed => s \notin JobTerminal
      BY <1>6, <2>1, <2>2 DEF ResultOK
    <3> QED
      BY <1>3, <1>7, <2>1, <2>2, <3>1, <3>2, <3>3, <3>4 DEF PhaseOK, ResultOK
  <2>3. CASE x # c
    <3>1. jobs'[x] = jobs[x]
      BY <1>3, <1>8, <2>3
    <3> QED
      BY <1>3, <2>1, <3>1
  <2> QED
    BY <2>2, <2>3
<1>10. jobs' = [x \in Changes |-> jobs'[x]]
  BY <1>3, <1>8
<1> QED
  BY <1>3, <1>9, <1>10 DEF ServerOK

(* What the worker loop reads is the status of the job.                    *)
LEMMA ObserveOK ==
  ASSUME ServerOK, NEW c \in Changes, Observe(c)
  PROVE  ServerOK'
<1>1. /\ jobs[c].status # "absent"
      /\ observed' = observed \cup {<<c, jobs[c].status>>}
      /\ UNCHANGED <<server, todo, mem, cand, memRev, dur, durRev, jobs, faults>>
  BY DEF Observe
<1>2. \A x \in Changes, s \in JobStatuses :
        <<x, s>> \in observed' => ResultOK(s, jobs[x])
  BY <1>1 DEF ServerOK, ResultOK
<1> QED
  BY <1>1, <1>2 DEF ServerOK

(* Reconciliation of a result that was read, however old it is.            *)
LEMMA ReconcileStepOK ==
  ASSUME ServerOK, NEW c \in Changes, NEW status \in JobStatuses,
         NEW outcome \in Outcomes, Reconcile(c, status, outcome)
  PROVE  ServerOK'
<1> DEFINE k == ReconcileJob(Slice(c), status, outcome)
<1>1. /\ server = "up" /\ <<c, status>> \in observed /\ observed' \subseteq observed
      /\ Commit(c, k)
      /\ UNCHANGED <<server, todo, memRev, durRev>>
  BY DEF Reconcile
<1>2. ResultOK(status, jobs[c])
  BY <1>1 DEF ServerOK
<1>3. mem[c].state # "approved"
  BY <1>1, <1>2 DEF ServerOK, PhaseOK, ResultOK
<1>4. SliceOK(c, k) /\ k.job = jobs[c] /\ k.mem.state # "approved"
  BY <1>2, <1>3, SliceOfState, ReconcileOK
<1> HIDE DEF k
<1> QED
  BY <1>1, <1>4, CommitOK DEF PhaseOK, ServerOK

(* A process that stops keeps its rows and the jobs, and no memory.        *)
LEMMA ForgetOK ==
  ASSUME Forget, durRev' \in Nat, faults' \in Nat,
         dur' = [c \in Changes |-> dur'[c]], jobs' = [c \in Changes |-> jobs'[c]],
         \A c \in Changes : \E m : PartsOK(c, m, dur'[c], jobs'[c])
  PROVE  ServerOK'
<1>1. /\ server' = "down" /\ todo' = {} /\ memRev' = 0 /\ observed' = {}
      /\ mem' = [c \in Changes |-> Absent]
  BY DEF Forget
<1>2. ASSUME NEW c \in Changes
      PROVE  /\ PartsOK(c, mem'[c], dur'[c], jobs'[c])
             /\ PhaseOK(c, server', mem'[c], dur'[c], jobs'[c])
             /\ \A status \in JobStatuses :
                  <<c, status>> \in observed' => ResultOK(status, jobs'[c])
  <2>1. mem'[c] = Absent
    BY <1>1
  <2>2. RecordOK(c, Absent) /\ Absent.state = "absent"
    <3>1. Absent \in ChangeRecord /\ Absent.state = "absent"
      BY DEF Absent, ChangeRecord, Texts
    <3> QED
      BY <3>1 DEF RecordOK, VersionOK, Undecided
  <2>3. PartsOK(c, Absent, dur'[c], jobs'[c])
    BY <2>2, StateNames DEF PartsOK, Covers, OutcomeIsOf
  <2>4. PhaseOK(c, server', Absent, dur'[c], jobs'[c])
    BY <2>2 DEF PhaseOK
  <2> QED
    BY <1>1, <2>1, <2>3, <2>4
<1> QED
  BY <1>1, <1>2 DEF ServerOK

(* The start: every row becomes a record in memory, backed by itself.      *)
LEMMA LoadOK ==
  ASSUME ServerOK, Load
  PROVE  ServerOK'
<1>1. /\ server' = "enqueueing" /\ memRev' = durRev
      /\ mem' = [c \in Changes |-> IF dur[c].state = "absent" THEN Absent
                                   ELSE Restored(dur[c])]
      /\ UNCHANGED <<todo, observed, dur, durRev, jobs, faults>>
  BY DEF Load
<1>2. memRev \in Nat /\ durRev \in Nat
  BY DEF ServerOK
<1>3. ASSUME NEW c \in Changes
      PROVE  /\ PartsOK(c, mem'[c], dur[c], jobs[c])
             /\ PhaseOK(c, "enqueueing", mem'[c], dur[c], jobs[c])
  <2>1. PartsOK(c, mem[c], dur[c], jobs[c])
    BY DEF ServerOK
  <2>2. CASE dur[c].state = "absent"
    <3>1. mem'[c] = Absent
      BY <1>1, <2>2
    <3>2. RecordOK(c, Absent) /\ Absent.state = "absent"
      BY <1>2, FirstRecords
    <3>3. PartsOK(c, Absent, dur[c], jobs[c])
      BY <2>1, <3>2, StateNames DEF PartsOK, Covers, OutcomeIsOf
    <3> QED
      BY <3>1, <3>2, <3>3 DEF PhaseOK
  <2>3. CASE dur[c].state # "absent"
    <3> DEFINE record == Restored(dur[c])
    <3>1. mem'[c] = record
      BY <1>1, <2>3
    <3>2. /\ RecordOK(c, record) /\ record.state = dur[c].state
          /\ record.version = dur[c].version /\ record.approvals = dur[c].approvals
      BY <2>1, RestoredOK DEF PartsOK
    <3> HIDE DEF record
    <3>3. Covers(record, dur[c]) /\ OutcomeIsOf(record, jobs[c])
      BY <2>1, <2>3, <3>2 DEF PartsOK, RecordOK, ChangeRecord, Covers, OutcomeIsOf
    <3>4. PartsOK(c, record, dur[c], jobs[c])
      BY <2>1, <3>2, <3>3 DEF PartsOK
    <3>5. record.state = "approved" => Satisfied(c, dur[c].approvals)
      BY <3>2, DecisionNames DEF RecordOK, ChangeRecord, Undecided
    <3> QED
      BY <3>1, <3>4, <3>5 DEF PhaseOK
  <2> QED
    BY <2>2, <2>3
<1>4. mem' = [c \in Changes |-> mem'[c]]
  BY <1>1
<1> QED
  BY <1>1, <1>2, <1>3, <1>4 DEF ServerOK

(* Admission at the start; when it fails the process ends.                 *)
LEMMA StartupEnqueueOK ==
  ASSUME ServerOK, NEW c \in Changes, NEW created \in Outcomes,
         NEW written \in Outcomes, StartupEnqueue(c, created, written)
  PROVE  ServerOK'
<1> DEFINE e == Enqueue(Slice(c), created, written)
<1>1. server = "enqueueing" /\ mem[c].state = "approved"
  BY DEF StartupEnqueue, Unqueued
<1>2. Satisfied(c, dur[c].approvals)
  BY <1>1 DEF ServerOK, PhaseOK
<1>3. /\ SliceOK(c, e) /\ e.mem.state = "queued"
      /\ e.job = jobs[c] \/ jobs[c].status = "absent"
  BY <1>1, <1>2, SliceOfState, EnqueueOK
<1>4. \/ Commit(c, e) /\ UNCHANGED <<server, todo, memRev, observed, durRev>>
      \/ /\ faults' = e.faults
         /\ dur' = [dur EXCEPT ![c] = e.dur]
         /\ jobs' = [jobs EXCEPT ![c] = e.job]
         /\ Forget /\ UNCHANGED durRev
  BY DEF StartupEnqueue
<1> HIDE DEF e
<1>5. CASE Commit(c, e) /\ UNCHANGED <<server, todo, memRev, observed, durRev>>
  BY <1>3, <1>5, CommitOK DEF PhaseOK, ServerOK
<1>6. CASE /\ faults' = e.faults
           /\ dur' = [dur EXCEPT ![c] = e.dur]
           /\ jobs' = [jobs EXCEPT ![c] = e.job]
           /\ Forget /\ UNCHANGED durRev
  <2>1. dur = [x \in Changes |-> dur[x]] /\ jobs = [x \in Changes |-> jobs[x]]
    BY DEF ServerOK
  <2>2. dur' = [x \in Changes |-> dur'[x]] /\ jobs' = [x \in Changes |-> jobs'[x]]
    BY <1>6, <2>1
  <2>3. ASSUME NEW x \in Changes
        PROVE  \E m : PartsOK(x, m, dur'[x], jobs'[x])
    <3>1. CASE x = c
      <4>1. dur'[x] = e.dur /\ jobs'[x] = e.job
        BY <1>6, <2>1, <3>1
      <4> QED
        BY <1>3, <3>1, <4>1 DEF SliceOK
    <3>2. CASE x # c
      <4>1. dur'[x] = dur[x] /\ jobs'[x] = jobs[x]
        BY <1>6, <2>1, <3>2
      <4> QED
        BY <4>1 DEF ServerOK
    <3> QED
      BY <3>1, <3>2
  <2>4. faults' \in Nat /\ durRev' \in Nat
    BY <1>3, <1>6 DEF ServerOK, SliceOK, SliceRecord
  <2> QED
    BY <1>6, <2>2, <2>3, <2>4, ForgetOK
<1> QED
  BY <1>4, <1>5, <1>6

(* When nothing approved is left without a job, the sweep may begin: every *)
(* change that has a job has left approved.                                *)
LEMMA BeginSweepOK ==
  ASSUME ServerOK, BeginSweep
  PROVE  ServerOK'
<1>1. /\ server' = "sweeping" /\ todo' = cand /\ Unqueued = {}
      /\ UNCHANGED <<mem, cand, memRev, observed, dur, durRev, jobs, faults>>
  BY DEF BeginSweep, memory
<1>2. \A c \in Changes : mem[c].state # "approved"
  BY <1>1 DEF Unqueued, ServerOK, PartsOK, RecordOK, Undecided
<1> QED
  BY <1>1, <1>2 DEF ServerOK, PhaseOK

(* A step of the startup sweep reconciles the job as it is.                *)
LEMMA StartupSweepOK ==
  ASSUME ServerOK, NEW c \in Changes, NEW outcome \in Outcomes,
         StartupSweep(c, outcome)
  PROVE  ServerOK'
<1> DEFINE k == ReconcileJob(Slice(c), jobs[c].status, outcome)
<1>1. /\ server \in {"sweeping", "sweep_failed"}
      /\ UNCHANGED <<memRev, observed, durRev>>
  BY DEF StartupSweep
<1>2. CASE jobs[c].status \in JobTerminal
  <2>1. Commit(c, k) /\ server' = IF k.ok THEN server ELSE "sweep_failed"
    BY <1>2 DEF StartupSweep
  <2>2. ResultOK(jobs[c].status, jobs[c]) /\ jobs[c].status \in JobStatuses
    BY <1>2, StateNames DEF ResultOK
  <2>3. mem[c].state # "approved"
    BY <1>1, <2>2 DEF ServerOK, PhaseOK, ResultOK
  <2>4. SliceOK(c, k) /\ k.job = jobs[c] /\ k.mem.state # "approved"
    BY <2>2, <2>3, SliceOfState, ReconcileOK
  <2> HIDE DEF k
  <2>5. server' = server \/ (server = "sweeping" /\ server' = "sweep_failed")
    BY <1>1, <2>1
  <2> QED
    BY <1>1, <2>1, <2>4, <2>5, CommitOK DEF PhaseOK, ServerOK
<1>3. CASE jobs[c].status \notin JobTerminal
  <2>1. UNCHANGED <<server, mem, cand, dur, jobs, faults>>
    BY <1>3 DEF StartupSweep
  <2> QED
    BY <1>1, <2>1 DEF ServerOK
<1> QED
  BY <1>2, <1>3

-----------------------------------------------------------------------------
(* The invariant.                                                          *)

(* A process that was never started has no rows.                           *)
LEMMA ServerInitOK == ChangeServerInit => ServerOK
<1> SUFFICES ASSUME ChangeServerInit
             PROVE  ServerOK
  OBVIOUS
<1>1. /\ server = "down" /\ todo = {} /\ memRev = 0 /\ durRev = 0 /\ faults = 0
      /\ observed = {}
      /\ mem = [c \in Changes |-> Absent] /\ dur = [c \in Changes |-> Absent]
      /\ jobs = [c \in Changes |-> NoJob]
  BY DEF ChangeServerInit
<1>2. ASSUME NEW c \in Changes
      PROVE  /\ PartsOK(c, mem[c], dur[c], jobs[c])
             /\ PhaseOK(c, server, mem[c], dur[c], jobs[c])
  <2>1. mem[c] = Absent /\ dur[c] = Absent /\ jobs[c] = NoJob
    BY <1>1
  <2>2. RecordOK(c, Absent) /\ Absent.state = "absent"
    BY <1>1, FirstRecords
  <2>3. NoJob \in JobRecord /\ NoJob.status = "absent"
    BY DEF NoJob, JobRecord, Texts
  <2>4. PartsOK(c, Absent, Absent, NoJob)
    BY <2>2, <2>3, StateNames DEF PartsOK, Covers, OutcomeIsOf
  <2> QED
    BY <2>1, <2>2, <2>4 DEF PhaseOK
<1> QED
  BY <1>1, <1>2 DEF ServerOK

(* Every step keeps the invariant.                                         *)
LEMMA ServerNextOK ==
  ASSUME ServerOK, [ChangeServerNext]_vars
  PROVE  ServerOK'
<1>1. ASSUME NEW c \in Changes, Handle(c)
      PROVE  ServerOK'
  BY <1>1, CreateChangeOK, ApproveChangeOK, JobStepOK, ObserveOK, ReconcileStepOK
     DEF Handle, ReconcileNext
<1>2. Forget /\ UNCHANGED <<dur, durRev, jobs, faults>> => ServerOK'
  <2> SUFFICES ASSUME Forget, UNCHANGED <<dur, durRev, jobs, faults>>
               PROVE  ServerOK'
    OBVIOUS
  <2>1. \A c \in Changes : PartsOK(c, mem[c], dur'[c], jobs'[c])
    BY DEF ServerOK
  <2>2. /\ durRev' \in Nat /\ faults' \in Nat
        /\ dur' = [c \in Changes |-> dur'[c]] /\ jobs' = [c \in Changes |-> jobs'[c]]
    BY DEF ServerOK
  <2> QED
    BY <2>1, <2>2, ForgetOK
<1>3. CASE Crash
  BY <1>2, <1>3 DEF Crash
<1>4. CASE Start
  <2>1. CASE EndSweep
    <3>1. CASE Forget
      BY <1>2, <2>1, <3>1 DEF EndSweep
    <3>2. CASE /\ server = "sweeping" /\ server' = "up"
               /\ UNCHANGED <<todo, memory, dur, durRev, jobs, faults>>
      BY <3>2 DEF ServerOK, PhaseOK, memory
    <3> QED
      BY <2>1, <3>1, <3>2 DEF EndSweep
  <2> QED
    BY <1>4, <2>1, LoadOK, BeginSweepOK, StartupEnqueueOK, StartupSweepOK DEF Start
<1>5. CASE \E o \in Outcomes : CreateRevision(o)
  <2>1. PICK o \in Outcomes : CreateRevision(o)
    BY <1>5
  <2>2. /\ durRev' = durRev + 1 /\ faults' = faults + Cost(o)
        /\ memRev' = durRev' \/ memRev' = memRev
        /\ UNCHANGED <<server, todo, mem, cand, observed, dur, jobs>>
    BY <2>1 DEF CreateRevision
  <2>3. Cost(o) \in Nat
    BY DEF Cost
  <2>4. durRev' \in Nat /\ faults' \in Nat /\ memRev' \in Nat
    BY <2>2, <2>3 DEF ServerOK
  <2> QED
    BY <2>2, <2>4 DEF ServerOK
<1>6. CASE RepeatRevision
  <2>1. /\ memRev' \in memRev + 1 .. durRev
        /\ UNCHANGED <<server, todo, mem, cand, observed, dur, durRev, jobs, faults>>
    BY <1>6 DEF RepeatRevision
  <2>2. memRev' \in Nat
    BY <2>1 DEF ServerOK
  <2> QED
    BY <2>1, <2>2 DEF ServerOK
<1>7. CASE UNCHANGED vars
  BY <1>7 DEF ServerOK, vars, memory
<1> QED
  BY <1>1, <1>3, <1>4, <1>5, <1>6, <1>7 DEF ChangeServerNext

(* So it always holds.                                                     *)
LEMMA ServerInvariance == ChangeServerSpec => []ServerOK
<1>1. ServerOK /\ [ChangeServerNext]_vars => ServerOK'
  BY ServerNextOK
<1> QED
  BY <1>1, ServerInitOK, PTL DEF ChangeServerSpec

(***************************************************************************)
(* MemoryCoversDurable always holds: UpdateChange never meets a version    *)
(* conflict (orchestration.go compares the versions).                      *)
(***************************************************************************)
THEOREM MemoryAlwaysCoversDurable == ChangeServerSpec => []MemoryCoversDurable
<1>1. ServerOK => MemoryCoversDurable
  BY DEF ServerOK, PartsOK, Covers, MemoryCoversDurable
<1> QED
  BY <1>1, ServerInvariance, PTL

(***************************************************************************)
(* JobNeedsApproval always holds: the server creates a job only when the   *)
(* approvals in the database are sufficient.                               *)
(***************************************************************************)
THEOREM JobsAreApproved == ChangeServerSpec => []JobNeedsApproval
<1>1. ServerOK => JobNeedsApproval
  BY DEF ServerOK, PartsOK, Admissible, Satisfied, JobNeedsApproval
<1> QED
  BY <1>1, ServerInvariance, PTL

(***************************************************************************)
(* OutcomeIsTheJobs always holds: reconcileJob records no outcome but the  *)
(* final one of the job.                                                   *)
(***************************************************************************)
THEOREM OutcomesAreTheJobs == ChangeServerSpec => []OutcomeIsTheJobs
<1>1. ServerOK => OutcomeIsTheJobs
  BY DEF ServerOK, PartsOK, OutcomeIsOf, OutcomeIsTheJobs
<1> QED
  BY <1>1, ServerInvariance, PTL

(* A row that obeys the version rule replays to its own version.           *)
LEMMA RowReplays ==
  ASSUME NEW c \in Changes, NEW d, RecordOK(c, d), VersionOK(d),
         d.state # "absent", d.state \in JobTerminal => d.job
  PROVE  ReplayedVersion(c, d) = d.version
<1>1. d \in ChangeRecord /\ d.approvals \in SUBSET Actors /\ d.version \in Nat
  BY DEF RecordOK, ChangeRecord
<1>2. Cardinality(d.approvals) \in Nat
  BY <1>1, ApprovalsCounted
<1> DEFINE base == 1 + Cardinality(d.approvals)
<1>3. CASE d.state \in Undecided
  <2>1. d.state = Decided(c, d.approvals) /\ d.version = base
    BY <1>3 DEF RecordOK, VersionOK
  <2> QED
    BY <2>1 DEF ReplayedVersion
<1>4. CASE d.state \notin Undecided
  <2>1. Decided(c, d.approvals) = "approved"
    BY <1>4 DEF RecordOK
  <2>2. d.state \in {"queued", "executing", "failed", "succeeded", "cancelled"}
    BY <1>1, <1>4 DEF RecordOK, ChangeRecord, ChangeStates, ChangeTerminal, Undecided
  <2>3. CASE d.state = "queued"
    BY <2>1, <2>3 DEF VersionOK, ReplayedVersion
  <2>4. CASE d.state = "executing"
    BY <2>1, <2>4 DEF VersionOK, ReplayedVersion
  <2>5. CASE d.state = "succeeded"
    BY <2>1, <2>5 DEF VersionOK, ReplayedVersion
  <2>6. CASE d.state = "failed"
    BY <1>1, <1>2, <2>1, <2>6 DEF VersionOK, ReplayedVersion
  <2>7. CASE d.state = "cancelled"
    <3>1. d.job
      BY <2>7 DEF JobTerminal
    <3> QED
      BY <1>1, <1>2, <2>1, <2>7, <3>1 DEF VersionOK, ReplayedVersion
  <2> QED
    BY <2>2, <2>3, <2>4, <2>5, <2>6, <2>7
<1> QED
  BY <1>3, <1>4

(***************************************************************************)
(* RowsReplay always holds when no actor approves a change twice:          *)
(* restoreChange reaches the version of every row whose outcome came       *)
(* through its job, so a restart does not refuse it.                       *)
(***************************************************************************)
THEOREM RowsAlwaysReplay ==
  ASSUME ~RepeatedApprovals
  PROVE  ChangeServerSpec => []RowsReplay
<1>1. ServerOK => RowsReplay
  <2> SUFFICES ASSUME ServerOK, NEW c \in Changes, dur[c].state # "absent",
                      dur[c].state \in JobTerminal => dur[c].job
               PROVE  Restorable(c)
    BY DEF RowsReplay
  <2>1. RecordOK(c, dur[c]) /\ VersionOK(dur[c])
    BY DEF ServerOK, PartsOK, RecordOK
  <2> QED
    BY <2>1, RowReplays DEF Restorable
<1> QED
  BY <1>1, ServerInvariance, PTL

-----------------------------------------------------------------------------
(***************************************************************************)
(* Second part: placement advice and its reuse.                            *)
(***************************************************************************)
(* A set of numbers that is not empty has a least one.                     *)
LEMMA LeastNumber ==
  ASSUME NEW S \in SUBSET Nat, S # {}
  PROVE  \E x \in S : \A y \in S : x <= y
<1>1. \E x \in S : \A y \in S : ~ (<<y, x>> \in OpToRel(<, Nat))
  BY NatLessThanWellFounded, WFMin
<1>2. ASSUME NEW x \in Nat, NEW y \in Nat, y < x
      PROVE  <<y, x>> \in OpToRel(<, Nat)
  BY <1>2 DEF OpToRel
<1>3. \E x \in S : \A y \in S : ~(y < x)
  BY <1>1, <1>2, Zenon
<1> QED BY <1>3

-----------------------------------------------------------------------------
(* R ranks S: whoever comes first in R is preferred.                       *)
Ranks(R, S) ==
  /\ \A x \in S : <<x, x>> \notin R
  /\ \A x, y \in S : x # y => <<x, y>> \in R \/ <<y, x>> \in R
  /\ \A x, y, z \in S : <<x, y>> \in R /\ <<y, z>> \in R => <<x, z>> \in R

(* Of finitely many, one is ranked before all the others.                  *)
LEMMA OneIsFirst ==
  ASSUME NEW S, IsFiniteSet(S), S # {}, NEW R, Ranks(R, S)
  PROVE  \E m \in S : \A n \in S \ {m} : <<m, n>> \in R
<1> DEFINE before(x) == {y \in S : <<y, x>> \in R}
           sizes == {Cardinality(before(x)) : x \in S}
<1>1. ASSUME NEW x \in S PROVE IsFiniteSet(before(x)) /\ Cardinality(before(x)) \in Nat
  <2>1. before(x) \subseteq S
    OBVIOUS
  <2> QED BY <2>1, FS_Subset, FS_CardinalityType
<1>2. sizes \in SUBSET Nat /\ sizes # {}
  BY <1>1
<1>3. PICK k \in sizes : \A j \in sizes : k <= j
  BY <1>2, LeastNumber
<1>4. PICK m \in S : k = Cardinality(before(m))
  OBVIOUS
<1>5. ASSUME NEW y \in before(m) PROVE FALSE
  <2>1. y \in S /\ <<y, m>> \in R
    OBVIOUS
  <2>2. before(y) \subseteq before(m) /\ y \notin before(y)
    BY <2>1 DEF Ranks
  <2>3. before(y) # before(m)
    BY <2>2
  <2>4. Cardinality(before(y)) < Cardinality(before(m))
    <3>1. IsFiniteSet(before(m)) /\ IsFiniteSet(before(y))
      BY <1>1, <2>1
    <3> HIDE DEF before
    <3>2. Cardinality(before(y)) <= Cardinality(before(m))
      BY <2>2, <3>1, FS_Subset
    <3>3. Cardinality(before(y)) # Cardinality(before(m))
      BY <2>2, <2>3, <3>1, FS_Subset
    <3> QED BY <1>1, <2>1, <3>2, <3>3
  <2>5. Cardinality(before(y)) \in sizes
    BY <2>1
  <2> HIDE DEF before, sizes
  <2> QED BY <1>1, <1>3, <1>4, <2>1, <2>4, <2>5
<1> QED BY <1>5 DEF Ranks

(* A finite set of whole numbers has a minimum.                            *)
LEMMA MinIsLeast ==
  ASSUME NEW S \in SUBSET Int, IsFiniteSet(S), S # {}
  PROVE  Min(S) \in S /\ \A y \in S : Min(S) <= y
<1> DEFINE R == {e \in S \X S : e[1] < e[2]}
<1>1. \A x, y \in S : <<x, y>> \in R <=> x < y
  OBVIOUS
<1> HIDE DEF R
<1>2. Ranks(R, S)
  BY <1>1 DEF Ranks
<1>3. \E m \in S : \A n \in S \ {m} : <<m, n>> \in R
  BY <1>2, OneIsFirst
<1>4. PICK m \in S : \A n \in S \ {m} : <<m, n>> \in R
  BY <1>3
<1>5. \A y \in S : m <= y
  <2> SUFFICES ASSUME NEW y \in S, y # m PROVE m <= y
    OBVIOUS
  <2>1. <<m, y>> \in R
    BY <1>4
  <2>2. m < y
    BY <1>1, <2>1
  <2> QED BY <2>2
<1> QED BY <1>5 DEF Min

(* Reserve is negative exactly when the value is beyond the limit.         *)
LEMMA PercentSign ==
  ASSUME NEW part \in Int, NEW whole \in Nat \ {0}
  PROVE  Percent(part, whole) \in Int /\ (Percent(part, whole) < 0 <=> part < 0)
<1>1. part * 100 \in Int /\ (part * 100 < 0 <=> part < 0)
  OBVIOUS
<1>2. ASSUME NEW x \in Int PROVE x \div whole \in Int /\ (x \div whole < 0 <=> x < 0)
  OBVIOUS
<1> QED BY <1>1, <1>2 DEF Percent

(* ceilDurationSeconds: an age rounded up is within the limit only if the  *)
(* age is.                                                                 *)
LEMMA CeilBounds ==
  ASSUME NEW age \in Int, NEW m \in Nat, ceilDurationSeconds(age) <= m
  PROVE  age <= m * TicksPerSecond
<1> DEFINE T == TicksPerSecond
           q == (age + T - 1) \div T
<1>1. T \in Nat /\ T > 0
  BY PlacementAssumption
<1>2. q \in Int /\ q <= m
  BY <1>1 DEF ceilDurationSeconds
<1>3. ASSUME NEW x \in Int PROVE x < T * (x \div T) + T
  BY <1>1
<1>4. age + T - 1 < T * q + T
  BY <1>1, <1>3
<1> HIDE DEF q, T
<1>5. T * q \in Int /\ age <= T * q
  BY <1>1, <1>2, <1>4
<1>6. T * q <= T * m
  BY <1>1, <1>2
<1>7. T * m = m * T /\ T * m \in Int
  BY <1>1
<1> QED BY <1>5, <1>6, <1>7 DEF T

-----------------------------------------------------------------------------
(***************************************************************************)
(* Sums over a finite set, as SumFunctionOnSet computes them.              *)
(***************************************************************************)
Drawn(s) == CHOOSE x \in s : TRUE
Added(w, g, s) == IF s = {} THEN 0 ELSE w[Drawn(s)] + g[s \ {Drawn(s)}]
IsTally(g, w, S) == g = [s \in SUBSET S |-> Added(w, g, s)]

LEMMA SumIsTallied ==
  ASSUME NEW w, NEW S, NEW f, IsTally(f, w, S)
  PROVE  \E g : IsTally(g, w, S) /\ SumFunctionOnSet(w, S) = g[S]
<1>1. SumFunctionOnSet(w, S) = (CHOOSE g : IsTally(g, w, S))[S]
  BY DEF SumFunctionOnSet, FoldFunctionOnSet, MapThenFoldSet, IsTally, Added, Drawn
<1>2. IsTally(CHOOSE g : IsTally(g, w, S), w, S)
  OBVIOUS
<1> QED BY <1>1, <1>2

(* A set without the element drawn from it is one smaller.                 *)
LEMMA DrawOne ==
  ASSUME NEW S, IsFiniteSet(S), S # {}
  PROVE  /\ Drawn(S) \in S /\ IsFiniteSet(S \ {Drawn(S)})
         /\ Cardinality(S) \in Nat \ {0}
         /\ Cardinality(S \ {Drawn(S)}) = Cardinality(S) - 1
<1>1. Drawn(S) \in S
  BY DEF Drawn
<1> QED BY <1>1, FS_RemoveElement, FS_CardinalityType, FS_EmptySet

(* The recursion of the sum has a solution.                                *)
LEMMA TallyExists ==
  ASSUME NEW w, NEW S, IsFiniteSet(S)
  PROVE  \E g : IsTally(g, w, S)
<1> DEFINE upTo(n) == {s \in SUBSET S : Cardinality(s) <= n}
           partly(g, n) == g = [s \in upTo(n) |-> Added(w, g, s)]
           bad == {n \in Nat : ~ \E g : partly(g, n)}
<1>1. \A s \in SUBSET S :
        IsFiniteSet(s) /\ Cardinality(s) \in Nat /\ Cardinality(s) <= Cardinality(S)
  BY FS_Subset, FS_CardinalityType
<1>2. ASSUME bad # {} PROVE FALSE
  <2>1. PICK n \in bad : \A m \in bad : n <= m
    BY <1>2, LeastNumber
  <2>2. CASE n = 0
    <3>1. \A s \in upTo(0) : s = {}
      BY <1>1, FS_EmptySet
    <3> DEFINE g == [s \in upTo(0) |-> 0]
    <3>2. \A s \in upTo(0) : Added(w, g, s) = 0
      BY <3>1 DEF Added
    <3>3. g = [s \in upTo(0) |-> Added(w, g, s)]
      BY <3>2
    <3> QED BY <2>2, <3>3
  <2>3. CASE n # 0
    <3>0. n \in Nat /\ n - 1 \in Nat
      BY <2>3
    <3>1. n - 1 \in Nat /\ n - 1 \notin bad
      <4> HIDE DEF bad
      <4> QED BY <2>1, <3>0
    <3>2. PICK g : partly(g, n - 1)
      BY <3>1
    <3> DEFINE h == [s \in upTo(n) |-> IF s \in upTo(n - 1) THEN g[s] ELSE Added(w, g, s)]
    <3>3. \A s \in upTo(n - 1) : g[s] = Added(w, g, s)
      BY <3>2
    <3>4. upTo(n - 1) \subseteq upTo(n)
      BY <1>1
    <3>5. ASSUME NEW s \in upTo(n) PROVE h[s] = Added(w, g, s) /\ Added(w, h, s) = Added(w, g, s)
      <4>1. h[s] = Added(w, g, s)
        BY <3>3
      <4>2. CASE s = {}
        BY <4>1, <4>2 DEF Added
      <4>3. CASE s # {}
        <5>1. s \ {Drawn(s)} \in upTo(n - 1)
          BY <1>1, <4>3, DrawOne
        <5>2. h[s \ {Drawn(s)}] = g[s \ {Drawn(s)}]
          BY <3>4, <5>1
        <5> QED BY <4>1, <4>3, <5>2 DEF Added
      <4> QED BY <4>2, <4>3
    <3>6. h = [s \in upTo(n) |-> h[s]]
      OBVIOUS
    <3> HIDE DEF h, upTo
    <3>7. h = [s \in upTo(n) |-> Added(w, h, s)]
      BY <3>5, <3>6
    <3> QED BY <3>7
  <2> QED BY <2>2, <2>3
<1>3. Cardinality(S) \notin bad /\ Cardinality(S) \in Nat
  BY <1>2, FS_CardinalityType
<1>4. PICK g : partly(g, Cardinality(S))
  BY <1>3
<1>5. upTo(Cardinality(S)) = SUBSET S
  BY <1>1
<1> QED BY <1>4, <1>5 DEF IsTally

(* It is the same for a set and for a part of it.                          *)
LEMMA TalliesAgree ==
  ASSUME NEW w, NEW S, IsFiniteSet(S), NEW T \in SUBSET S,
         NEW g, IsTally(g, w, S), NEW h, IsTally(h, w, T)
  PROVE  g[T] = h[T]
<1> DEFINE bad == {s \in SUBSET T : g[s] # h[s]}
           sizes == {Cardinality(s) : s \in bad}
<1>1. ASSUME NEW s \in SUBSET T
      PROVE  IsFiniteSet(s) /\ g[s] = Added(w, g, s) /\ h[s] = Added(w, h, s)
  <2>1. IsFiniteSet(s) /\ s \in SUBSET S
    BY FS_Subset
  <2> QED BY <2>1 DEF IsTally
<1>2. ASSUME bad # {} PROVE FALSE
  <2>1. sizes \in SUBSET Nat /\ sizes # {}
    BY <1>1, <1>2, FS_CardinalityType
  <2>2. PICK k \in sizes : \A j \in sizes : k <= j
    BY <2>1, LeastNumber
  <2>3. PICK s \in bad : k = Cardinality(s)
    OBVIOUS
  <2>4. s # {}
    BY <1>1, <2>3 DEF Added
  <2> DEFINE r == s \ {Drawn(s)}
  <2>5. r \in SUBSET T /\ Cardinality(r) < k
    <3>1. IsFiniteSet(s) /\ s \in SUBSET T
      BY <1>1
    <3>2. Cardinality(s) \in Nat /\ Cardinality(r) = Cardinality(s) - 1
      BY <2>4, <3>1, DrawOne
    <3>3. Cardinality(r) < k
      BY <2>3, <3>2
    <3> QED BY <3>1, <3>3
  <2>6. r \notin bad
    BY <2>1, <2>2, <2>5
  <2>7. g[r] = h[r]
    BY <2>5, <2>6
  <2> QED BY <1>1, <2>3, <2>4, <2>7 DEF Added
<1> QED BY <1>2

LEMMA SumOfNone ==
  ASSUME NEW w PROVE SumFunctionOnSet(w, {}) = 0
<1>1. PICK f : IsTally(f, w, {})
  BY TallyExists, FS_EmptySet
<1>2. PICK g : IsTally(g, w, {}) /\ SumFunctionOnSet(w, {}) = g[{}]
  BY <1>1, SumIsTallied
<1> QED BY <1>2 DEF IsTally, Added

LEMMA SumDrawn ==
  ASSUME NEW w, NEW S, IsFiniteSet(S), S # {}
  PROVE  SumFunctionOnSet(w, S) = w[Drawn(S)] + SumFunctionOnSet(w, S \ {Drawn(S)})
<1> DEFINE T == S \ {Drawn(S)}
<1>0. IsFiniteSet(T) /\ T \in SUBSET S
  BY DrawOne
<1> HIDE DEF T
<1>1. PICK f : IsTally(f, w, S)
  BY TallyExists
<1>2. PICK g : IsTally(g, w, S) /\ SumFunctionOnSet(w, S) = g[S]
  BY <1>1, SumIsTallied
<1>3. PICK e : IsTally(e, w, T)
  BY <1>0, TallyExists
<1>4. PICK h : IsTally(h, w, T) /\ SumFunctionOnSet(w, T) = h[T]
  BY <1>3, SumIsTallied
<1>5. g[T] = h[T]
  BY <1>0, <1>2, <1>4, TalliesAgree
<1>6. g[S] = w[Drawn(S)] + g[T]
  BY <1>2 DEF IsTally, Added, T
<1> QED BY <1>2, <1>4, <1>5, <1>6 DEF T

(* Sums of natural numbers are natural numbers, and any element may be     *)
(* taken out first.                                                        *)
LEMMA SumType ==
  ASSUME NEW D, NEW w \in [D -> Nat], NEW S \in SUBSET D, IsFiniteSet(S)
  PROVE  SumFunctionOnSet(w, S) \in Nat
<1> DEFINE bad == {s \in SUBSET S : SumFunctionOnSet(w, s) \notin Nat}
           sizes == {Cardinality(s) : s \in bad}
<1>1. \A s \in SUBSET S : IsFiniteSet(s) /\ Cardinality(s) \in Nat
  BY FS_Subset, FS_CardinalityType
<1>2. ASSUME bad # {} PROVE FALSE
  <2>1. sizes \in SUBSET Nat /\ sizes # {}
    BY <1>1, <1>2
  <2>2. PICK k \in sizes : \A j \in sizes : k <= j
    BY <2>1, LeastNumber
  <2>3. PICK s \in bad : k = Cardinality(s)
    OBVIOUS
  <2> DEFINE r == s \ {Drawn(s)}
  <2>4. IsFiniteSet(s) /\ s \in SUBSET S /\ s # {}
    BY <1>1, <2>3, SumOfNone
  <2>5. Drawn(s) \in D /\ Cardinality(r) = k - 1 /\ k \in Nat
    BY <1>1, <2>3, <2>4, DrawOne
  <2>6. r \in SUBSET S /\ r \notin bad
    BY <2>1, <2>2, <2>4, <2>5
  <2>7. SumFunctionOnSet(w, r) \in Nat /\ w[Drawn(s)] \in Nat
    BY <2>5, <2>6
  <2>8. SumFunctionOnSet(w, s) = w[Drawn(s)] + SumFunctionOnSet(w, r)
    BY <2>4, SumDrawn
  <2>9. SumFunctionOnSet(w, s) \in Nat
    <3> HIDE DEF r
    <3> QED BY <2>7, <2>8
  <2> QED BY <2>3, <2>9
<1> QED BY <1>2

LEMMA SumRemove ==
  ASSUME NEW D, NEW w \in [D -> Nat], NEW S \in SUBSET D, IsFiniteSet(S), NEW x \in S
  PROVE  SumFunctionOnSet(w, S) = w[x] + SumFunctionOnSet(w, S \ {x})
<1> DEFINE sum(s) == SumFunctionOnSet(w, s)
           bad == {s \in SUBSET S : \E y \in s : sum(s) # w[y] + sum(s \ {y})}
           sizes == {Cardinality(s) : s \in bad}
<1>1. ASSUME NEW s \in SUBSET S PROVE IsFiniteSet(s) /\ Cardinality(s) \in Nat /\ sum(s) \in Nat
  <2>1. IsFiniteSet(s) /\ s \in SUBSET D
    BY FS_Subset
  <2> QED BY <2>1, FS_CardinalityType, SumType
<1>2. ASSUME NEW s \in SUBSET S, s # {}
      PROVE  /\ Drawn(s) \in s /\ sum(s) = w[Drawn(s)] + sum(s \ {Drawn(s)})
             /\ Cardinality(s \ {Drawn(s)}) < Cardinality(s)
  <2>1. IsFiniteSet(s) /\ Cardinality(s) \in Nat
    BY <1>1
  <2>2. Drawn(s) \in s /\ Cardinality(s \ {Drawn(s)}) = Cardinality(s) - 1
    BY <1>2, <2>1, DrawOne
  <2>3. Cardinality(s \ {Drawn(s)}) < Cardinality(s)
    BY <2>1, <2>2
  <2> QED BY <1>2, <2>1, <2>2, <2>3, SumDrawn
<1>3. ASSUME bad # {} PROVE FALSE
  <2>1. sizes \in SUBSET Nat /\ sizes # {}
    BY <1>1, <1>3
  <2>2. PICK k \in sizes : \A j \in sizes : k <= j
    BY <2>1, LeastNumber
  <2>3. PICK s \in bad : k = Cardinality(s)
    OBVIOUS
  <2>4. PICK y \in s : sum(s) # w[y] + sum(s \ {y})
    BY <2>3
  <2> DEFINE d == Drawn(s)
             r == s \ {d}
             t == s \ {y}
             rest == s \ {d, y}
  <2>5. s \in SUBSET S /\ s # {} /\ IsFiniteSet(s) /\ k \in Nat
    BY <1>1, <2>1, <2>3, <2>4
  <2>6. d \in s /\ sum(s) = w[d] + sum(r) /\ Cardinality(r) < k
    BY <1>2, <2>3, <2>5
  <2>7. d # y
    BY <2>4, <2>6
  <2>8. Cardinality(t) < k
    <3>1. Cardinality(t) = Cardinality(s) - 1
      BY <2>5, FS_RemoveElement
    <3> HIDE DEF t
    <3> QED BY <2>3, <2>5, <3>1
  <2>9. r \in SUBSET S /\ t \in SUBSET S /\ rest \in SUBSET S /\ y \in r /\ d \in t
    BY <2>5, <2>6, <2>7
  <2>10. Cardinality(r) \in Nat /\ Cardinality(t) \in Nat
    BY <1>1, <2>9
  <2>11. r \notin bad /\ t \notin bad
    <3> HIDE DEF bad, r, t
    <3>1. ASSUME r \in bad PROVE FALSE
      BY <2>2, <2>5, <2>6, <2>10, <3>1
    <3>2. ASSUME t \in bad PROVE FALSE
      BY <2>2, <2>5, <2>8, <2>10, <3>2
    <3> QED BY <3>1, <3>2
  <2>12. sum(r) = w[y] + sum(r \ {y}) /\ sum(t) = w[d] + sum(t \ {d})
    BY <2>9, <2>11
  <2>13. sum(r) = w[y] + sum(rest) /\ sum(t) = w[d] + sum(rest)
    <3>1. r \ {y} = rest /\ t \ {d} = rest
      OBVIOUS
    <3> HIDE DEF r, t, rest
    <3> QED BY <2>12, <3>1
  <2>14. w[y] \in Nat /\ w[d] \in Nat /\ sum(rest) \in Nat
    BY <1>1, <2>5, <2>6, <2>9
  <2> HIDE DEF sum, r, t, rest, d
  <2>15. sum(s) = w[y] + sum(t)
    BY <2>6, <2>13, <2>14
  <2> QED BY <2>4, <2>15 DEF t
<1> QED BY <1>3

(* The sum over a set is the sum over a part and over the rest.            *)
LEMMA SumSplit ==
  ASSUME NEW D, NEW w \in [D -> Nat], NEW S \in SUBSET D, IsFiniteSet(S), NEW T \in SUBSET S
  PROVE  SumFunctionOnSet(w, S) = SumFunctionOnSet(w, T) + SumFunctionOnSet(w, S \ T)
<1> DEFINE sum(s) == SumFunctionOnSet(w, s)
           bad == {s \in SUBSET T : sum(S) # sum(s) + sum(S \ s)}
           sizes == {Cardinality(s) : s \in bad}
<1>1. ASSUME NEW s \in SUBSET S
      PROVE  s \in SUBSET D /\ IsFiniteSet(s) /\ Cardinality(s) \in Nat /\ sum(s) \in Nat
  <2>1. IsFiniteSet(s) /\ s \in SUBSET D
    BY FS_Subset
  <2> QED BY <2>1, FS_CardinalityType, SumType
<1>2. ASSUME bad # {} PROVE FALSE
  <2>1. sizes \in SUBSET Nat /\ sizes # {}
    BY <1>1, <1>2
  <2>2. PICK k \in sizes : \A j \in sizes : k <= j
    BY <2>1, LeastNumber
  <2>3. PICK s \in bad : k = Cardinality(s)
    OBVIOUS
  <2>4. s \in SUBSET S /\ IsFiniteSet(s) /\ k \in Nat
    BY <2>1, <1>1
  <2>5. s # {}
    <3>1. S \ {} = S /\ sum({}) = 0 /\ sum(S) \in Nat
      BY <1>1, SumOfNone
    <3>2. sum(S) = sum({}) + sum(S \ {})
      BY <3>1
    <3> QED BY <2>3, <3>2
  <2>6. PICK x \in s : TRUE
    BY <2>5
  <2> DEFINE r == s \ {x}
             more == S \ r
             less == S \ s
  <2>7. Cardinality(r) = k - 1
    BY <2>3, <2>4, FS_RemoveElement
  <2>8. r \in SUBSET S /\ r \in SUBSET T /\ more \in SUBSET S /\ less \in SUBSET S /\ x \in more
    BY <2>4
  <2>9. r \notin bad
    <3>1. ASSUME r \in bad PROVE k <= Cardinality(r)
      BY <2>2, <3>1
    <3> HIDE DEF r, bad
    <3> QED BY <2>4, <2>7, <3>1
  <2>10. sum(S) = sum(r) + sum(more)
    BY <2>8, <2>9
  <2>11. more \ {x} = less
    BY <2>4
  <2>12. sum(more) = w[x] + sum(less)
    <3>1. more \in SUBSET D /\ IsFiniteSet(more)
      BY <1>1, <2>8
    <3> HIDE DEF more, less
    <3> QED BY <2>8, <2>11, <3>1, SumRemove
  <2>13. sum(s) = w[x] + sum(r)
    BY <1>1, <2>4, SumRemove
  <2>14. w[x] \in Nat /\ sum(r) \in Nat /\ sum(less) \in Nat
    BY <1>1, <2>4, <2>8
  <2> HIDE DEF sum, r, more
  <2>15. sum(S) = sum(s) + sum(less)
    BY <2>10, <2>12, <2>13, <2>14
  <2> QED BY <2>3, <2>15
<1> QED BY <1>2

(* At least as many, and each at least as large: at least as much.         *)
LEMMA SumDominates ==
  ASSUME NEW D, NEW w \in [D -> Nat], NEW A \in SUBSET D, NEW B \in SUBSET D,
         IsFiniteSet(A), IsFiniteSet(B), Cardinality(B) <= Cardinality(A),
         \A a \in A, b \in B : w[b] <= w[a]
  PROVE  SumFunctionOnSet(w, B) <= SumFunctionOnSet(w, A)
<1> DEFINE sum(s) == SumFunctionOnSet(w, s)
           bad == {s \in SUBSET B : \E r \in SUBSET A :
                     Cardinality(s) <= Cardinality(r) /\ ~(sum(s) <= sum(r))}
           sizes == {Cardinality(s) : s \in bad}
<1>1. ASSUME NEW s, s \in SUBSET A \/ s \in SUBSET B
      PROVE  s \in SUBSET D /\ IsFiniteSet(s) /\ Cardinality(s) \in Nat /\ sum(s) \in Nat
  <2>1. IsFiniteSet(s) /\ s \in SUBSET D
    BY <1>1, FS_Subset
  <2> QED BY <2>1, FS_CardinalityType, SumType
<1>2. ASSUME bad # {} PROVE FALSE
  <2>1. sizes \in SUBSET Nat /\ sizes # {}
    BY <1>1, <1>2
  <2>2. PICK k \in sizes : \A j \in sizes : k <= j
    BY <2>1, LeastNumber
  <2>3. PICK s \in bad : k = Cardinality(s)
    OBVIOUS
  <2>4. PICK r \in SUBSET A : Cardinality(s) <= Cardinality(r) /\ ~(sum(s) <= sum(r))
    BY <2>3
  <2>5. /\ s \in SUBSET B /\ s \in SUBSET D /\ IsFiniteSet(s) /\ k \in Nat /\ sum(s) \in Nat
        /\ r \in SUBSET D /\ IsFiniteSet(r) /\ Cardinality(r) \in Nat /\ sum(r) \in Nat
    BY <2>1, <2>3, <1>1
  <2>6. s # {}
    <3>1. sum({}) = 0
      BY SumOfNone
    <3> HIDE DEF sum
    <3> QED BY <2>4, <2>5, <3>1
  <2>7. PICK b \in s : TRUE
    BY <2>6
  <2>8. Cardinality(s \ {b}) = k - 1 /\ Cardinality(s \ {b}) \in Nat
    BY <1>1, <2>3, <2>5, FS_RemoveElement
  <2>9. Cardinality(r) # 0
    BY <2>3, <2>4, <2>5, <2>8
  <2>10. PICK a \in r : TRUE
    BY <2>9, FS_EmptySet
  <2>11. Cardinality(r \ {a}) = Cardinality(r) - 1
    BY <2>5, FS_RemoveElement
  <2>12. s \ {b} \in SUBSET B /\ r \ {a} \in SUBSET A
    BY <2>5
  <2>13. s \ {b} \notin bad
    <3>1. ASSUME s \ {b} \in bad PROVE k <= Cardinality(s \ {b})
      BY <2>2, <3>1
    <3> HIDE DEF bad
    <3> QED BY <2>5, <2>8, <3>1
  <2>14. Cardinality(s \ {b}) <= Cardinality(r \ {a})
    BY <2>3, <2>4, <2>5, <2>8, <2>11
  <2>15. sum(s \ {b}) <= sum(r \ {a})
    BY <2>12, <2>13, <2>14
  <2>16. sum(s) = w[b] + sum(s \ {b}) /\ sum(r) = w[a] + sum(r \ {a})
    BY <2>5, SumRemove
  <2>17. w[a] \in Nat /\ w[b] \in Nat /\ w[b] <= w[a]
    BY <2>5
  <2>18. sum(s \ {b}) \in Nat /\ sum(r \ {a}) \in Nat
    BY <1>1, <2>12
  <2> HIDE DEF sum
  <2>19. sum(s) <= sum(r)
    <3>1. \A x, y, p, q \in Nat : x <= y /\ p <= q => x + p <= y + q
      OBVIOUS
    <3>2. w[b] + sum(s \ {b}) <= w[a] + sum(r \ {a})
      BY <2>15, <2>17, <2>18, <3>1
    <3> QED BY <2>16, <3>2, Zenon
  <2> QED BY <2>4, <2>19
<1>3. B \notin bad
  BY <1>2
<1> QED BY <1>3

(* Whatever set F of no more elements than L is lost, no less remains than *)
(* without L, when no element outside L is larger than one in it.          *)
LEMMA WorstLoss ==
  ASSUME NEW D, NEW w \in [D -> Nat], NEW S \in SUBSET D, IsFiniteSet(S),
         NEW L \in SUBSET S, NEW F \in SUBSET S, Cardinality(F) <= Cardinality(L),
         \A a \in L, b \in S \ L : w[b] <= w[a]
  PROVE  SumFunctionOnSet(w, S \ L) <= SumFunctionOnSet(w, S \ F)
<1> DEFINE sum(s) == SumFunctionOnSet(w, s)
           A == L \ F
           B == F \ L
           rest == S \ (L \cup F)
<1>1. ASSUME NEW s \in SUBSET S
      PROVE  s \in SUBSET D /\ IsFiniteSet(s) /\ Cardinality(s) \in Nat /\ sum(s) \in Nat
  <2>1. IsFiniteSet(s) /\ s \in SUBSET D
    BY FS_Subset
  <2> QED BY <2>1, FS_CardinalityType, SumType
<1>2. /\ A \in SUBSET S /\ B \in SUBSET S /\ rest \in SUBSET S /\ L \cap F \in SUBSET S
      /\ S \ L \in SUBSET S /\ S \ F \in SUBSET S
      /\ A \in SUBSET (S \ F) /\ B \in SUBSET (S \ L)
      /\ (S \ F) \ A = rest /\ (S \ L) \ B = rest
  OBVIOUS
<1>3. Cardinality(B) <= Cardinality(A)
  <2> DEFINE common == L \cap F
  <2>1. IsFiniteSet(L) /\ IsFiniteSet(F) /\ Cardinality(L) \in Nat /\ Cardinality(F) \in Nat
        /\ Cardinality(common) \in Nat
    BY <1>1, <1>2
  <2>2. F \cap L = common
    OBVIOUS
  <2>3. /\ Cardinality(A) = Cardinality(L) - Cardinality(common)
        /\ Cardinality(B) = Cardinality(F) - Cardinality(common)
    <3>1. Cardinality(A) = Cardinality(L) - Cardinality(L \cap F)
      BY <2>1, FS_Difference
    <3>2. Cardinality(B) = Cardinality(F) - Cardinality(F \cap L)
      BY <2>1, FS_Difference
    <3> QED BY <2>2, <3>1, <3>2, Zenon
  <2> HIDE DEF A, B, common
  <2> QED BY <2>1, <2>2, <2>3
<1>4. \A a \in A, b \in B : w[b] <= w[a]
  OBVIOUS
<1>5. /\ sum(S \ F) = sum(A) + sum(rest)
      /\ sum(S \ L) = sum(B) + sum(rest)
  <2> HIDE DEF A, B, rest
  <2>1. IsFiniteSet(S \ F) /\ IsFiniteSet(S \ L) /\ S \ F \in SUBSET D /\ S \ L \in SUBSET D
    BY <1>1, <1>2
  <2>2. sum(S \ F) = sum(A) + sum((S \ F) \ A)
    BY <1>2, <2>1, SumSplit
  <2>3. sum(S \ L) = sum(B) + sum((S \ L) \ B)
    BY <1>2, <2>1, SumSplit
  <2> QED BY <1>2, <2>2, <2>3
<1> HIDE DEF A, B, rest
<1>6. sum(B) <= sum(A)
  <2>1. A \in SUBSET D /\ B \in SUBSET D /\ IsFiniteSet(A) /\ IsFiniteSet(B)
    BY <1>1, <1>2
  <2> QED BY <1>3, <1>4, <2>1, SumDominates
<1>7. sum(A) \in Nat /\ sum(B) \in Nat /\ sum(rest) \in Nat
  BY <1>1, <1>2
<1> HIDE DEF sum
<1>8. sum(S \ L) <= sum(S \ F)
  BY <1>5, <1>6, <1>7
<1> QED BY <1>8 DEF sum

-----------------------------------------------------------------------------
(***************************************************************************)
(* The fleet: whichever nodes fail, no less capacity remains than without  *)
(* the largest, and the recommended node is an eligible one.               *)
(***************************************************************************)
NodesOK(nodes) ==
  /\ DOMAIN nodes \in SUBSET Nat /\ IsFiniteSet(DOMAIN nodes)
  /\ \A n \in DOMAIN nodes :
       /\ nodes[n].safe \in Nat \ {0} /\ nodes[n].load \in Nat
       /\ nodes[n].confidence \in Nat /\ nodes[n].reserve \in Int

LEMMA ServingIsFinite ==
  ASSUME NEW nodes, NodesOK(nodes)
  PROVE  /\ Serving(nodes) \in SUBSET DOMAIN nodes /\ Serving(nodes) \in SUBSET Nat
         /\ IsFiniteSet(Serving(nodes))
<1>1. Serving(nodes) \in SUBSET DOMAIN nodes
  BY DEF Serving
<1> QED BY <1>1, FS_Subset DEF NodesOK

LEMMA LargerRanks ==
  ASSUME NEW nodes, NodesOK(nodes), NEW S \in SUBSET DOMAIN nodes
  PROVE  \E R : /\ Ranks(R, S)
                /\ \A m, n \in S : <<m, n>> \in R <=> Larger(nodes, m, n)
<1> DEFINE R == {e \in S \X S : Larger(nodes, e[1], e[2])}
<1>1. \A m, n \in S : <<m, n>> \in R <=> Larger(nodes, m, n)
  OBVIOUS
<1> HIDE DEF R
<1>2. \A n \in S : n \in Nat /\ nodes[n].safe \in Nat
  BY DEF NodesOK
<1>3. \A m \in S : ~ Larger(nodes, m, m)
  BY <1>2 DEF Larger
<1>4. \A m, n \in S : m # n => Larger(nodes, m, n) \/ Larger(nodes, n, m)
  BY <1>2 DEF Larger
<1>5. \A x, y, z \in S : Larger(nodes, x, y) /\ Larger(nodes, y, z) => Larger(nodes, x, z)
  BY <1>2 DEF Larger
<1>6. Ranks(R, S)
  BY <1>1, <1>3, <1>4, <1>5 DEF Ranks
<1> QED BY <1>1, <1>6

(* Largest(nodes, k) really holds k nodes, when there are that many.       *)
LEMMA EnoughLargest ==
  ASSUME NEW nodes, NodesOK(nodes), NEW k \in Nat, k <= Cardinality(Serving(nodes))
  PROVE  k <= Cardinality(Largest(nodes, k))
<1> DEFINE S == Serving(nodes)
           above(n) == {m \in S : Larger(nodes, m, n)}
           L(j) == Largest(nodes, j)
           bad == {j \in 0 .. k : ~(j <= Cardinality(L(j)))}
<1>1. S \in SUBSET DOMAIN nodes /\ IsFiniteSet(S) /\ Cardinality(S) \in Nat
  BY ServingIsFinite, FS_CardinalityType
<1>2. \A n \in S : IsFiniteSet(above(n)) /\ Cardinality(above(n)) \in Nat
  <2>1. \A n \in S : above(n) \in SUBSET S
    OBVIOUS
  <2> QED BY <1>1, <2>1, FS_Subset, FS_CardinalityType
<1>3. ASSUME NEW j \in Nat
      PROVE  /\ L(j) \in SUBSET S /\ IsFiniteSet(L(j)) /\ Cardinality(L(j)) \in Nat
             /\ \A n \in S : n \in L(j) <=> Cardinality(above(n)) < j
  <2>1. L(j) \in SUBSET S /\ \A n \in S : n \in L(j) <=> Cardinality(above(n)) < j
    BY DEF Largest
  <2> HIDE DEF L, S
  <2> QED BY <1>1, <2>1, FS_Subset, FS_CardinalityType
<1>4. PICK R : Ranks(R, S) /\ \A m, n \in S : <<m, n>> \in R <=> Larger(nodes, m, n)
  BY <1>1, LargerRanks
<1> HIDE DEF L, S
<1>5. ASSUME bad # {} PROVE FALSE
  <2>0. bad \in SUBSET Nat
    OBVIOUS
  <2>1. PICK j \in bad : \A i \in bad : j <= i
    <3> HIDE DEF bad
    <3> QED BY <1>5, <2>0, LeastNumber
  <2>2. j \in Nat /\ j <= k /\ ~(j <= Cardinality(L(j)))
    OBVIOUS
  <2>3. j # 0 /\ j - 1 \in 0 .. k
    BY <1>3, <2>2
  <2> DEFINE i == j - 1
  <2>4. i \in Nat /\ i <= Cardinality(L(i))
    <3>1. i \notin bad
      BY <2>1, <2>2, <2>3
    <3> QED BY <2>3, <3>1
  <2>a. i \in Nat /\ \A c \in Nat : c < i => c < j
    BY <2>2, <2>4
  <2>b. \A c \in Nat : c <= i => c < j
    BY <2>2, <2>4
  <2>5. L(i) \in SUBSET L(j)
    <3> SUFFICES ASSUME NEW n \in L(i) PROVE n \in L(j)
      OBVIOUS
    <3>1. n \in S /\ Cardinality(above(n)) < i
      BY <1>3, <2>a
    <3> HIDE DEF above, i
    <3> QED BY <1>2, <1>3, <2>2, <2>a, <3>1
  <2>6. Cardinality(L(i)) <= Cardinality(L(j))
    BY <1>3, <2>2, <2>5, FS_Subset
  <2>7. Cardinality(L(i)) = i /\ Cardinality(L(j)) = i
    BY <1>3, <2>2, <2>4, <2>6
  <2>8. L(i) # S
    <3> SUFFICES ASSUME L(i) = S PROVE FALSE
      OBVIOUS
    <3>1. k <= Cardinality(S)
      BY DEF S
    <3> HIDE DEF i
    <3>2. Cardinality(S) = i
      BY <2>7
    <3> QED BY <1>1, <2>2, <2>b, <3>1, <3>2
  <2>9. S \ L(i) # {} /\ IsFiniteSet(S \ L(i)) /\ S \ L(i) \in SUBSET S
    BY <1>1, <1>3, <2>4, <2>8, FS_Difference
  <2>10. Ranks(R, S \ L(i))
    BY <1>4 DEF Ranks
  <2>11. PICK x \in S \ L(i) : \A y \in (S \ L(i)) \ {x} : <<x, y>> \in R
    BY <2>9, <2>10, OneIsFirst
  <2>12. above(x) \in SUBSET L(i)
    <3> SUFFICES ASSUME NEW y \in S, <<y, x>> \in R, y \notin L(i) PROVE FALSE
      BY <1>4
    <3>1. y # x /\ <<x, y>> \in R
      BY <1>4, <2>11 DEF Ranks
    <3> QED BY <1>4, <3>1 DEF Ranks
  <2>13. Cardinality(above(x)) <= i
    BY <1>3, <2>4, <2>7, <2>12, FS_Subset
  <2>14. x \in L(j)
    <3> HIDE DEF above, i
    <3>1. Cardinality(above(x)) < j
      BY <1>2, <2>b, <2>11, <2>13
    <3> QED BY <1>3, <2>2, <2>11, <3>1
  <2>15. L(i) = L(j)
    BY <1>3, <2>2, <2>5, <2>7, FS_Subset
  <2> QED BY <2>11, <2>14, <2>15
<1>6. k \notin bad
  BY <1>5
<1> QED BY <1>6 DEF L

LEMMA FailuresAreCovered ==
  ASSUME NEW nodes, NodesOK(nodes), NEW k \in Nat, k <= Cardinality(Serving(nodes)),
         NEW failed \in SUBSET Serving(nodes), Cardinality(failed) = k
  PROVE  SafeCapacity(nodes, Serving(nodes) \ Largest(nodes, k))
           <= SafeCapacity(nodes, Serving(nodes) \ failed)
<1> DEFINE S == Serving(nodes)
           L == Largest(nodes, k)
           D == DOMAIN nodes
           w == [n \in D |-> nodes[n].safe]
           above(n) == {m \in S : Larger(nodes, m, n)}
<1>1. S \in SUBSET D /\ IsFiniteSet(S)
  BY ServingIsFinite
<1>2. w \in [D -> Nat]
  BY DEF NodesOK
<1>3. L \in SUBSET S /\ Cardinality(failed) <= Cardinality(L)
  BY EnoughLargest DEF Largest
<1>4. \A n \in S : IsFiniteSet(above(n)) /\ Cardinality(above(n)) \in Nat
  <2>1. \A n \in S : above(n) \in SUBSET S
    OBVIOUS
  <2> QED BY <1>1, <2>1, FS_Subset, FS_CardinalityType
<1>5. ASSUME NEW a \in L, NEW b \in S \ L PROVE w[b] <= w[a]
  <2>1. a \in S /\ b \in S /\ Cardinality(above(a)) < k /\ ~(Cardinality(above(b)) < k)
    BY DEF Largest
  <2>2. \A n \in S : n \in Nat /\ nodes[n].safe \in Nat
    BY <1>1 DEF NodesOK
  <2>3. ~ Larger(nodes, b, a)
    <3> SUFFICES ASSUME Larger(nodes, b, a) PROVE FALSE
      OBVIOUS
    <3>1. above(b) \in SUBSET above(a)
      BY <2>1, <2>2 DEF Larger
    <3>2. Cardinality(above(b)) <= Cardinality(above(a))
      BY <1>4, <2>1, <3>1, FS_Subset
    <3> HIDE DEF above, S, L
    <3> QED BY <1>4, <2>1, <3>2
  <2> QED BY <1>1, <2>1, <2>2, <2>3 DEF Larger
<1> HIDE DEF S, L, w
<1>6. SumFunctionOnSet(w, S \ L) <= SumFunctionOnSet(w, S \ failed)
  <2>1. failed \in SUBSET S
    BY DEF S
  <2> QED BY <1>1, <1>2, <1>3, <1>5, <2>1, WorstLoss
<1> QED BY <1>6 DEF S, L, w, SafeCapacity

LEMMA PercentOfReserve ==
  ASSUME NEW nodes, NodesOK(nodes), NEW q, ValidRequest(q), NEW n \in DOMAIN nodes
  PROVE  SafeReserve(q, nodes[n]) \in Int /\ SafeReservePercent(q, nodes[n]) \in Int
<1>1. SafeReserve(q, nodes[n]) \in Int /\ nodes[n].safe \in Nat \ {0}
  BY DEF NodesOK, ValidRequest, SafeReserve
<1> QED BY <1>1, PercentSign DEF SafeReservePercent

(* The ranking of candidates, written out.                                 *)
Outranks(q, nodes, m, n) ==
  LET sm == SafeReservePercent(q, nodes[m])
      sn == SafeReservePercent(q, nodes[n])
  IN  \/ sm > sn
      \/ /\ sm = sn
         /\ \/ nodes[m].confidence > nodes[n].confidence
            \/ /\ nodes[m].confidence = nodes[n].confidence
               /\ \/ nodes[m].reserve > nodes[n].reserve
                  \/ nodes[m].reserve = nodes[n].reserve /\ m < n

LEMMA BetterOutranks ==
  ASSUME NEW nodes, NodesOK(nodes), NEW q, ValidRequest(q),
         NEW m \in DOMAIN nodes, NEW n \in DOMAIN nodes
  PROVE  Better(q, nodes, m, n) <=> Outranks(q, nodes, m, n)
<1> DEFINE rank(x) == <<SafeReservePercent(q, nodes[x]), nodes[x].confidence, nodes[x].reserve>>
           first == {i \in 1 .. 3 : rank(m)[i] # rank(n)[i]}
<1>1. /\ rank(m)[1] \in Int /\ rank(m)[2] \in Int /\ rank(m)[3] \in Int
      /\ rank(n)[1] \in Int /\ rank(n)[2] \in Int /\ rank(n)[3] \in Int
  BY PercentOfReserve DEF NodesOK
<1>2. Better(q, nodes, m, n) <=>
        IF first = {} THEN m < n ELSE rank(m)[Min(first)] > rank(n)[Min(first)]
  BY DEF Better
<1>3. Outranks(q, nodes, m, n) <=>
        \/ rank(m)[1] > rank(n)[1]
        \/ /\ rank(m)[1] = rank(n)[1]
           /\ \/ rank(m)[2] > rank(n)[2]
              \/ /\ rank(m)[2] = rank(n)[2]
                 /\ \/ rank(m)[3] > rank(n)[3]
                    \/ rank(m)[3] = rank(n)[3] /\ m < n
  BY DEF Outranks
<1> HIDE DEF rank
<1>4. first # {} => Min(first) \in first /\ \A i \in first : Min(first) <= i
  <2>1. first \in SUBSET (1 .. 3) /\ first \in SUBSET Int
    OBVIOUS
  <2>2. IsFiniteSet(first)
    <3>1. IsFiniteSet(1 .. 3)
      <4>1. \A a, b \in Int : IsFiniteSet(a .. b)
        BY FS_Interval
      <4>2. 1 \in Int /\ 3 \in Int
        OBVIOUS
      <4> QED BY <4>1, <4>2, Zenon
    <3> HIDE DEF first
    <3> QED BY <2>1, <3>1, FS_Subset
  <2> HIDE DEF first
  <2> QED BY <2>1, <2>2, MinIsLeast
<1>5. CASE rank(m)[1] # rank(n)[1]
  <2>1. 1 \in first
    BY <1>5
  <2>2. Min(first) = 1
    BY <1>4, <2>1
  <2> QED BY <1>1, <1>2, <1>3, <1>5, <2>1, <2>2
<1>6. CASE rank(m)[1] = rank(n)[1] /\ rank(m)[2] # rank(n)[2]
  <2>1. 2 \in first /\ 1 \notin first
    BY <1>6
  <2>2. Min(first) = 2
    BY <1>4, <2>1
  <2> QED BY <1>1, <1>2, <1>3, <1>6, <2>1, <2>2
<1>7. CASE rank(m)[1] = rank(n)[1] /\ rank(m)[2] = rank(n)[2] /\ rank(m)[3] # rank(n)[3]
  <2>1. 3 \in first /\ 1 \notin first /\ 2 \notin first
    BY <1>7
  <2>2. Min(first) = 3
    BY <1>4, <2>1
  <2> QED BY <1>1, <1>2, <1>3, <1>7, <2>1, <2>2
<1>8. CASE rank(m)[1] = rank(n)[1] /\ rank(m)[2] = rank(n)[2] /\ rank(m)[3] = rank(n)[3]
  <2>1. first = {}
    <3> SUFFICES ASSUME NEW i \in 1 .. 3 PROVE rank(m)[i] = rank(n)[i]
      OBVIOUS
    <3>1. i = 1 \/ i = 2 \/ i = 3
      OBVIOUS
    <3> QED BY <1>8, <3>1
  <2> QED BY <1>1, <1>2, <1>3, <1>8, <2>1
<1> QED BY <1>5, <1>6, <1>7, <1>8

LEMMA RecommendedIsEligible ==
  ASSUME NEW nodes, NodesOK(nodes), NEW q, ValidRequest(q), Recommended(q, nodes) # None
  PROVE  Recommended(q, nodes) \in Eligible(q, nodes) /\ FleetSafe(q, nodes)
<1> DEFINE E == Eligible(q, nodes)
           R == {e \in E \X E : Better(q, nodes, e[1], e[2])}
<1>1. E # {} /\ FleetSafe(q, nodes)
  BY DEF Recommended
<1>2. /\ Recommended(q, nodes)
           = CHOOSE m \in E : \A n \in E \ {m} : Better(q, nodes, m, n)
  BY <1>1 DEF Recommended
<1>3. E \in SUBSET DOMAIN nodes /\ IsFiniteSet(E)
  <2>1. E \in SUBSET Serving(nodes)
    BY DEF Eligible
  <2> QED BY <2>1, ServingIsFinite, FS_Subset
<1> HIDE DEF E
<1>4. ASSUME NEW m \in E, NEW n \in E
      PROVE  /\ m \in Nat /\ n \in Nat
             /\ nodes[m].confidence \in Nat /\ nodes[m].reserve \in Int
             /\ SafeReservePercent(q, nodes[m]) \in Int
             /\ <<m, n>> \in R <=> Outranks(q, nodes, m, n)
  BY <1>3, BetterOutranks, PercentOfReserve DEF NodesOK
<1>5. Ranks(R, E)
  <2> HIDE DEF R
  <2>0. \A m \in E : /\ m \in Nat
                      /\ nodes[m].confidence \in Nat /\ nodes[m].reserve \in Int
                      /\ SafeReservePercent(q, nodes[m]) \in Int
    BY <1>4
  <2>1. ASSUME NEW m \in E PROVE ~ Outranks(q, nodes, m, m)
    BY <2>0 DEF Outranks
  <2>2. ASSUME NEW m \in E, NEW n \in E, m # n
        PROVE  Outranks(q, nodes, m, n) \/ Outranks(q, nodes, n, m)
    BY <2>0, <2>2 DEF Outranks
  <2>3. ASSUME NEW x \in E, NEW y \in E, NEW z \in E,
               Outranks(q, nodes, x, y), Outranks(q, nodes, y, z)
        PROVE  Outranks(q, nodes, x, z)
    BY <2>0, <2>3 DEF Outranks
  <2> QED BY <1>4, <2>1, <2>2, <2>3 DEF Ranks
<1>6. PICK m \in E : \A n \in E \ {m} : <<m, n>> \in R
  BY <1>1, <1>3, <1>5, OneIsFirst
<1>7. \A n \in E \ {m} : Better(q, nodes, m, n)
  BY <1>6
<1>8. Recommended(q, nodes) \in E
  BY <1>2, <1>7
<1> QED BY <1>1, <1>8 DEF E

-----------------------------------------------------------------------------
(***************************************************************************)
(* The world: profiles and snapshots are ones that may occur.              *)
(***************************************************************************)
ProfileRevisions == {Revised(p, g) : p \in Profiles, g \in Nat}
Snapshots == {Snapshot(r, at) : r \in Reports, at \in Nat}

WorldOK ==
  /\ now \in Nat /\ request \in Requests
  /\ profile \in [Nodes -> ProfileRevisions] /\ telemetry \in [Nodes -> Snapshots]

LEMMA RevisionFacts ==
  ASSUME NEW p \in ProfileRevisions
  PROVE  ValidProfile(p) /\ p.generation \in Nat
<1>1. PICK q \in Profiles, g \in Nat : p = Revised(q, g)
  BY DEF ProfileRevisions
<1>2. ValidProfile(q)
  BY PlacementReuseAssumption
<1> QED BY <1>1, <1>2 DEF ValidProfile, ValidConstraints, Revised

LEMMA SnapshotFacts ==
  ASSUME NEW t \in Snapshots
  PROVE  /\ t.load \in Nat
         /\ \A c \in DOMAIN t.value : t.value[c] \in Nat /\ t.obsAt[c] \in Int
<1>1. PICK r \in Reports, at \in Nat : t = Snapshot(r, at)
  BY DEF Snapshots
<1>2. ValidReport(r)
  BY PlacementReuseAssumption
<1>3. t.load = r.load /\ t.value = r.value /\ t.obsAt = [c \in DOMAIN r.lag |-> at - r.lag[c]]
  BY <1>1 DEF Snapshot
<1> QED BY <1>2, <1>3 DEF ValidReport

LEMMA WorldInit == PlacementInit => WorldOK
<1> SUFFICES ASSUME PlacementInit PROVE WorldOK
  OBVIOUS
<1>1. PICK w \in Worlds :
       /\ request = w.request
       /\ profile = [n \in Nodes |-> Revised(w.profile[n], 1)]
       /\ telemetry = [n \in Nodes |-> Snapshot(w.report[n], 0)]
  BY DEF PlacementInit
<1>2. /\ w.request \in Requests /\ w.profile \in [Nodes -> Profiles]
      /\ w.report \in [Nodes -> Reports]
  BY PlacementReuseAssumption
<1>3. \A n \in Nodes : Revised(w.profile[n], 1) \in ProfileRevisions
  BY <1>2 DEF ProfileRevisions
<1>4. \A n \in Nodes : Snapshot(w.report[n], 0) \in Snapshots
  BY <1>2 DEF Snapshots
<1> QED BY <1>1, <1>2, <1>3, <1>4 DEF PlacementInit, WorldOK

LEMMA WorldStep == WorldOK /\ [PlacementNext]_placementVars => WorldOK'
<1> SUFFICES ASSUME WorldOK, [PlacementNext]_placementVars PROVE WorldOK'
  OBVIOUS
<1>1. CASE UNCHANGED world
  BY <1>1 DEF world, WorldOK
<1>2. CASE Tick
  BY <1>2 DEF Tick, WorldOK
<1>3. ASSUME NEW n \in Nodes, Report(n) PROVE WorldOK'
  <2>1. PICK r \in Reports : telemetry' = [telemetry EXCEPT ![n] = Snapshot(r, now)]
    BY <1>3 DEF Report
  <2>2. Snapshot(r, now) \in Snapshots
    BY DEF Snapshots, WorldOK
  <2> QED BY <1>3, <2>1, <2>2 DEF Report, WorldOK
<1>4. ASSUME NEW n \in Nodes, Reprofile(n) PROVE WorldOK'
  <2>1. PICK p \in Profiles :
          profile' = [profile EXCEPT ![n] = Revised(p, profile[n].generation + 1)]
    BY <1>4 DEF Reprofile
  <2>2. profile[n].generation \in Nat
    BY RevisionFacts DEF WorldOK
  <2>3. profile[n].generation + 1 \in Nat
    BY <2>2
  <2>4. Revised(p, profile[n].generation + 1) \in ProfileRevisions
    BY <2>3 DEF ProfileRevisions
  <2> QED BY <1>4, <2>1, <2>4 DEF Reprofile, WorldOK
<1>5. CASE ChangeRequest
  BY <1>5 DEF ChangeRequest, WorldOK
<1>6. CASE \/ Derive \/ CapturePlacementAdviceFromDerivations \/ Decide
           \/ BuildHeadroom \/ CheckFreshness \/ EvaluateGate
  <2>1. UNCHANGED world
    BY <1>6 DEF Derive, CapturePlacementAdviceFromDerivations, Decide, BuildHeadroom,
                CheckFreshness, EvaluateGate
  <2> QED BY <1>1, <2>1
<1>7. CASE UNCHANGED placementVars
  BY <1>1, <1>7 DEF placementVars
<1> QED BY <1>1, <1>2, <1>3, <1>4, <1>5, <1>6, <1>7 DEF PlacementNext

(* Bottleneck names a constraint with the least reserve of all.            *)
LEMMA BottleneckIsLeast ==
  ASSUME NEW p \in ProfileRevisions, NEW t \in Snapshots, DOMAIN t.value = Constraints
  PROVE  /\ Bottleneck(p, t) \in Constraints
         /\ \A c \in Constraints :
              /\ Reserve(p, t, c) \in Int
              /\ Reserve(p, t, c) < 0 <=> p.limit[c] < t.value[c]
              /\ Reserve(p, t, Bottleneck(p, t)) <= Reserve(p, t, c)
<1> DEFINE r(c) == Reserve(p, t, c)
           R == {e \in Constraints \X Constraints :
                   r(e[1]) < r(e[2]) \/ (r(e[1]) = r(e[2]) /\ e[1] < e[2])}
<1>0. Constraints # {} /\ IsFiniteSet(Constraints) /\ Constraints \subseteq Nat
  BY PlacementAssumption
<1>1. ASSUME NEW c \in Constraints PROVE r(c) \in Int /\ (r(c) < 0 <=> p.limit[c] < t.value[c])
  <2>1. p.limit[c] \in Nat \ {0} /\ t.value[c] \in Nat
    BY RevisionFacts, SnapshotFacts DEF ValidProfile, ValidConstraints
  <2>2. p.limit[c] - t.value[c] \in Int /\ (p.limit[c] - t.value[c] < 0 <=> p.limit[c] < t.value[c])
    BY <2>1
  <2> QED BY <2>1, <2>2, PercentSign DEF Reserve
<1> HIDE DEF r
<1>2. \A c, d \in Constraints : <<c, d>> \in R <=> (r(c) < r(d) \/ (r(c) = r(d) /\ c < d))
  OBVIOUS
<1> HIDE DEF R
<1>3. Ranks(R, Constraints)
  <2>1. \A c \in Constraints : <<c, c>> \notin R
    BY <1>0, <1>1, <1>2
  <2>2. \A c, d \in Constraints : c # d => <<c, d>> \in R \/ <<d, c>> \in R
    BY <1>0, <1>1, <1>2
  <2>3. \A x, y, z \in Constraints : <<x, y>> \in R /\ <<y, z>> \in R => <<x, z>> \in R
    BY <1>0, <1>1, <1>2
  <2> QED BY <2>1, <2>2, <2>3 DEF Ranks
<1>4. PICK m \in Constraints : \A n \in Constraints \ {m} : <<m, n>> \in R
  BY <1>0, <1>3, OneIsFirst
<1> DEFINE b == Bottleneck(p, t)
<1>5. \A d \in Constraints \ {m} : r(m) < r(d) \/ (r(m) = r(d) /\ m < d)
  BY <1>2, <1>4
<1>6. b \in Constraints /\ \A d \in Constraints \ {b} : r(b) < r(d) \/ (r(b) = r(d) /\ b < d)
  BY <1>5 DEF Bottleneck, r
<1> HIDE DEF b
<1>7. ASSUME NEW c \in Constraints PROVE r(b) <= r(c)
  <2>1. r(b) \in Int /\ r(c) \in Int
    BY <1>1, <1>6
  <2>2. CASE c = b
    BY <2>1, <2>2
  <2>3. CASE c # b
    BY <1>6, <2>1, <2>3
  <2> QED BY <2>2, <2>3
<1> QED BY <1>1, <1>6, <1>7 DEF r, b

(* The projections of derivations that validate are those of the profiles  *)
(* and telemetry at hand.                                                  *)
LEMMA ValidatedNodes ==
  ASSUME WorldOK, NEW at, validatePlacementNodeDerivations(at)
  PROVE  /\ DOMAIN Projections = Inputs /\ NodesOK(Projections)
         /\ \A n \in Inputs :
              /\ profile[n] \in ProfileRevisions /\ telemetry[n] \in Snapshots
              /\ DOMAIN telemetry[n].value = Constraints
              /\ Projections[n] = Projection(profile[n], telemetry[n])
<1>1. DOMAIN Projections = Inputs /\ Inputs \in SUBSET Nodes
  BY DEF Projections, Inputs
<1>2. ASSUME NEW n \in Inputs
      PROVE  /\ profile[n] \in ProfileRevisions /\ telemetry[n] \in Snapshots
             /\ DOMAIN telemetry[n].value = Constraints
             /\ Projections[n] = Projection(profile[n], telemetry[n])
  <2>1. profile[n] \in ProfileRevisions /\ telemetry[n] \in Snapshots
    BY <1>1 DEF WorldOK
  <2>2. ValidateNodeProjectionDerivation(n)
    BY DEF validatePlacementNodeDerivations
  <2>3. DOMAIN telemetry[n].value = Constraints
    BY <2>2 DEF ValidateNodeProjectionDerivation, CanDerive, normalizeNodeProjectionTelemetry
  <2>4. evidence[n] = DeriveNodeProjection(profile[n], telemetry[n], evidence[n].evaluatedAt)
    BY <2>2 DEF ValidateNodeProjectionDerivation
  <2>5. evidence[n].projection = Projection(profile[n], telemetry[n])
    BY <2>4 DEF DeriveNodeProjection
  <2> QED BY <2>1, <2>3, <2>5 DEF Projections
<1>3. ASSUME NEW n \in Inputs
      PROVE  /\ Projections[n].safe \in Nat \ {0} /\ Projections[n].load \in Nat
             /\ Projections[n].confidence \in Nat /\ Projections[n].reserve \in Int
  <2> DEFINE p == profile[n]
             t == telemetry[n]
  <2>1. p \in ProfileRevisions /\ t \in Snapshots /\ DOMAIN t.value = Constraints
    BY <1>2
  <2>2. Projections[n] = Projection(p, t)
    BY <1>2
  <2> HIDE DEF p, t
  <2>3. Reserve(p, t, Bottleneck(p, t)) \in Int
    BY <2>1, BottleneckIsLeast
  <2>4. p.safe \in Nat \ {0} /\ p.confidence \in Nat /\ t.load \in Nat
    BY <2>1, RevisionFacts, SnapshotFacts DEF ValidProfile
  <2>5. /\ Projections[n].safe = p.safe /\ Projections[n].load = t.load
        /\ Projections[n].confidence = p.confidence
        /\ Projections[n].reserve = Reserve(p, t, Bottleneck(p, t))
    BY <2>2 DEF Projection
  <2> QED BY <2>3, <2>4, <2>5
<1>4. DOMAIN Projections \in SUBSET Nat /\ IsFiniteSet(DOMAIN Projections)
  BY <1>1, PlacementReuseAssumption, FS_Subset
<1> QED BY <1>1, <1>2, <1>3, <1>4 DEF NodesOK

(* What the reason "eligible" means for a node.                            *)
LEMMA EligibleNode ==
  ASSUME WorldOK, NEW at, validatePlacementNodeDerivations(at),
         NEW n \in Eligible(request, Projections)
  PROVE  /\ n \in Serving(Projections)
         /\ telemetry[n].load + request.increment <= profile[n].safe
         /\ request.minimumReserve <= SafeReservePercent(request, Projections[n])
         /\ \A c \in Constraints : ~(Reserve(profile[n], telemetry[n], c) < 0)
<1>1. n \in Serving(Projections) /\ CandidateReason(request, Projections[n]) = "eligible"
  BY DEF Eligible
<1>2. NodesOK(Projections) /\ n \in DOMAIN Projections /\ n \in Inputs
  BY <1>1, ValidatedNodes DEF Serving
<1>3. ValidRequest(request)
  BY PlacementReuseAssumption DEF WorldOK
<1>4. /\ SafeReserve(request, Projections[n]) \in Int
      /\ SafeReservePercent(request, Projections[n]) \in Int
  BY <1>2, <1>3, PercentOfReserve
<1>5. /\ ~(SafeReserve(request, Projections[n]) < 0)
      /\ ~(Projections[n].reserve < 0)
      /\ ~(SafeReservePercent(request, Projections[n]) < request.minimumReserve)
  BY <1>1 DEF CandidateReason
<1> DEFINE p == profile[n]
           t == telemetry[n]
<1>6. /\ p \in ProfileRevisions /\ t \in Snapshots /\ DOMAIN t.value = Constraints
      /\ Projections[n] = Projection(p, t)
  BY <1>2, ValidatedNodes
<1>7. request.minimumReserve <= SafeReservePercent(request, Projections[n])
  BY <1>3, <1>4, <1>5 DEF ValidRequest
<1> HIDE DEF p, t
<1>8. /\ Projections[n].safe = p.safe /\ Projections[n].load = t.load
      /\ Projections[n].reserve = Reserve(p, t, Bottleneck(p, t))
  BY <1>6 DEF Projection
<1>9. t.load + request.increment <= p.safe
  <2>1. p.safe \in Nat /\ t.load \in Nat /\ request.increment \in Nat
    BY <1>3, <1>6, RevisionFacts, SnapshotFacts DEF ValidProfile, ValidRequest
  <2>2. ~(p.safe - (t.load + request.increment) < 0)
    BY <1>5, <1>8 DEF SafeReserve
  <2> QED BY <2>1, <2>2
<1>10. ASSUME NEW c \in Constraints PROVE ~(Reserve(p, t, c) < 0)
  <2>1. /\ Reserve(p, t, c) \in Int /\ Reserve(p, t, Bottleneck(p, t)) \in Int
        /\ Reserve(p, t, Bottleneck(p, t)) <= Reserve(p, t, c)
    BY <1>6, BottleneckIsLeast
  <2> QED BY <1>5, <1>8, <2>1
<1> QED BY <1>1, <1>7, <1>9, <1>10 DEF p, t

-----------------------------------------------------------------------------
(***************************************************************************)
(* The headroom envelope.                                                  *)
(***************************************************************************)
Explains(env) ==
  /\ \A n \in DOMAIN env.candidates :
       (env.candidates[n].band = "blocked") <=> ~env.candidates[n].eligible
  /\ LET best == env.derived.placement.advice.recommended
     IN  best # None => \A c \in Constraints :
           env.candidates[best].resources[c].band # "blocked"

LEMMA HeadroomExplains ==
  ASSUME WorldOK, NEW at, NEW saved, CanHeadroom(saved, at)
  PROVE  Explains(Headroom(saved, at))
<1> DEFINE env == Headroom(saved, at)
           nodes == Projections
           entry(n, c) == Reserve(profile[n], telemetry[n], c)
<1>1. validatePlacementNodeDerivations(at) /\ saved = CurrentEvidence(at)
  BY DEF CanHeadroom, CanCapture, CanCompare
<1>2. /\ saved.placement.request = request /\ saved.placement.nodes = nodes
      /\ saved.placement.advice = BuildPlacementAdvice(request, nodes)
  BY <1>1 DEF CurrentEvidence, CapturePlacementAdviceSnapshot
<1>3. NodesOK(nodes) /\ ValidRequest(request)
  BY <1>1, ValidatedNodes, PlacementReuseAssumption DEF WorldOK
<1>4. /\ env.derived = saved
      /\ env.candidates = [n \in Serving(nodes) |-> HeadroomCandidate(saved, n)]
  BY <1>2 DEF Headroom
<1> HIDE DEF env, nodes
<1>5. ASSUME NEW n \in Serving(nodes)
      PROVE  /\ (HeadroomCandidate(saved, n).band = "blocked")
                  <=> ~HeadroomCandidate(saved, n).eligible
             /\ HeadroomCandidate(saved, n).eligible <=> n \in Eligible(request, nodes)
             /\ n \in Eligible(request, nodes) => \A c \in Constraints :
                  HeadroomCandidate(saved, n).resources[c].band # "blocked"
  <2> DEFINE H == HeadroomCandidate(saved, n)
             E == n \in Eligible(request, nodes)
             work == SafeReservePercent(request, nodes[n]) - request.minimumReserve
             least == Min({entry(n, c) : c \in Constraints})
             margin == IF least < work THEN least ELSE work
  <2>1. /\ H.eligible = E /\ H.resources = placementResourceHeadroomEntries(n)
        /\ H.band = Band(E, margin)
    <3>1. \A c \in Constraints : placementResourceHeadroomEntries(n)[c].reserve = entry(n, c)
      BY DEF placementResourceHeadroomEntries
    <3>2. {placementResourceHeadroomEntries(n)[c].reserve : c \in Constraints}
            = {entry(n, c) : c \in Constraints}
      BY <3>1
    <3> QED BY <1>2, <3>2 DEF HeadroomCandidate
  <2>2. \A c \in Constraints : H.resources[c].band = Band(TRUE, entry(n, c))
    <3>1. \A c \in Constraints :
            placementResourceHeadroomEntries(n)[c].band = Band(TRUE, entry(n, c))
      BY DEF placementResourceHeadroomEntries
    <3> HIDE DEF H, entry
    <3> QED BY <2>1, <3>1
  <2>3. n \in Inputs /\ n \in DOMAIN nodes
    BY <1>1, ValidatedNodes DEF Serving, nodes
  <2>4. \A c \in Constraints : entry(n, c) \in Int
    BY <1>1, <2>3, ValidatedNodes, BottleneckIsLeast
  <2>5. least \in {entry(n, c) : c \in Constraints}
    <3> DEFINE S == {entry(n, c) : c \in Constraints}
    <3>1. S \in SUBSET Int /\ S # {}
      BY <2>4, PlacementAssumption
    <3>2. IsFiniteSet(S)
      <4> DEFINE f == [c \in Constraints |-> entry(n, c)]
      <4>1. f \in Surjection(Constraints, S)
        BY DEF Surjection
      <4> HIDE DEF S, f
      <4> QED BY <4>1, PlacementAssumption, FS_Surjection
    <3> HIDE DEF S
    <3> QED BY <3>1, <3>2, MinIsLeast DEF S
  <2>6. work \in Int /\ least \in Int
    BY <1>3, <2>3, <2>4, <2>5, PercentOfReserve DEF ValidRequest
  <2>7. ASSUME E PROVE ~(margin < 0) /\ \A c \in Constraints : ~(entry(n, c) < 0)
    <3>1. \A c \in Constraints : ~(entry(n, c) < 0)
      BY <1>1, <2>7, EligibleNode DEF nodes
    <3>2. ~(least < 0)
      BY <2>5, <3>1
    <3>3. ~(work < 0)
      <4>1. request.minimumReserve <= SafeReservePercent(request, nodes[n])
        BY <1>1, <2>7, EligibleNode DEF nodes
      <4>2. request.minimumReserve \in Int /\ SafeReservePercent(request, nodes[n]) \in Int
        BY <1>3, <2>3, PercentOfReserve DEF ValidRequest
      <4> QED BY <4>1, <4>2
    <3> HIDE DEF least, work
    <3> QED BY <3>1, <3>2, <3>3
  <2> HIDE DEF margin, H, entry, E
  <2>8. H.band = "blocked" <=> ~E
    BY <2>1, <2>7 DEF Band, E
  <2>9. E => \A c \in Constraints : H.resources[c].band # "blocked"
    BY <2>2, <2>7 DEF Band
  <2> QED BY <2>1, <2>8, <2>9 DEF H, E
<1>6. ASSUME env.derived.placement.advice.recommended # None
      PROVE  env.derived.placement.advice.recommended \in Eligible(request, nodes)
  <2>1. env.derived.placement.advice.recommended = Recommended(request, nodes)
    BY <1>2, <1>4 DEF BuildPlacementAdvice
  <2> QED BY <1>3, <1>6, <2>1, RecommendedIsEligible
<1>7. Eligible(request, nodes) \in SUBSET Serving(nodes)
  BY DEF Eligible
<1>8. \A n \in DOMAIN env.candidates :
        (env.candidates[n].band = "blocked") <=> ~env.candidates[n].eligible
  BY <1>4, <1>5
<1>9. ASSUME env.derived.placement.advice.recommended # None, NEW c \in Constraints
      PROVE  env.candidates[env.derived.placement.advice.recommended].resources[c].band # "blocked"
  <2> DEFINE best == env.derived.placement.advice.recommended
  <2>1. best \in Eligible(request, nodes) /\ best \in Serving(nodes)
    BY <1>6, <1>7, <1>9
  <2> HIDE DEF best
  <2>2. env.candidates[best] = HeadroomCandidate(saved, best)
    BY <1>4, <2>1
  <2>3. env.candidates[best].resources[c].band # "blocked"
    BY <1>5, <2>1, <2>2
  <2> QED BY <2>3 DEF best
<1>10. Explains(env)
  BY <1>8, <1>9 DEF Explains
<1> QED BY <1>10 DEF env

LEMMA HeadroomStep ==
  WorldOK /\ HeadroomExplainsAdvice /\ [PlacementNext]_placementVars => HeadroomExplainsAdvice'
<1> SUFFICES ASSUME WorldOK, HeadroomExplainsAdvice, [PlacementNext]_placementVars
             PROVE  HeadroomExplainsAdvice'
  OBVIOUS
<1>1. CASE envelope' = envelope
  BY <1>1 DEF HeadroomExplainsAdvice
<1>2. CASE envelope' = None
  BY <1>2 DEF HeadroomExplainsAdvice
<1>3. CASE BuildHeadroom
  <2>1. /\ CanHeadroom(derived, derived.evaluatedAt)
        /\ envelope' = Headroom(derived, derived.evaluatedAt)
    BY <1>3 DEF BuildHeadroom
  <2>2. Explains(Headroom(derived, derived.evaluatedAt))
    BY <2>1, HeadroomExplains
  <2>3. Explains(envelope')
    BY <2>1, <2>2
  <2> QED BY <2>3 DEF HeadroomExplainsAdvice, Explains
<1>4. \/ envelope' = envelope \/ envelope' = None \/ BuildHeadroom
  BY DEF PlacementNext, placementVars, documents, Tick, Report, Reprofile, ChangeRequest,
         Derive, CapturePlacementAdviceFromDerivations, Decide, CheckFreshness, EvaluateGate
<1> QED BY <1>1, <1>2, <1>3, <1>4

(* Whatever telemetry, profiles and request the headroom envelope is built *)
(* from, it blocks exactly the candidates the advice rejects, and shows no *)
(* resource of a recommended node beyond its limit: the single bottleneck  *)
(* that the projection keeps decides as the vector of all resources does.  *)
THEOREM HeadroomAlwaysExplains == PlacementSpec => []HeadroomExplainsAdvice
<1>1. PlacementInit => WorldOK /\ HeadroomExplainsAdvice
  BY WorldInit DEF PlacementInit, HeadroomExplainsAdvice
<1>2. /\ WorldOK /\ HeadroomExplainsAdvice /\ [PlacementNext]_placementVars
      => (WorldOK /\ HeadroomExplainsAdvice)'
  BY WorldStep, HeadroomStep
<1> QED BY <1>1, <1>2, PTL DEF PlacementSpec

-----------------------------------------------------------------------------
(***************************************************************************)
(* The reuse gate.                                                         *)
(***************************************************************************)
(* What a gate that blocks nothing has established.                        *)
LEMMA GateFacts ==
  ASSUME CanCheckFreshness(envelope, derived, now), freshness = FreshnessGate(envelope, now),
         BlockedBy(decision, freshness, derived) = "none"
  PROVE  /\ validatePlacementNodeDerivations(envelope.evaluatedAt)
         /\ CanAssess(request, Projections)
         /\ derived.placement.advice.recommended = Recommended(request, Projections)
         /\ Recommended(request, Projections) # None
         /\ \A n \in Serving(Projections), c \in Constraints :
              /\ ~(ceilDurationSeconds(now - telemetry[n].obsAt[c]) > profile[n].maxAge[c])
              /\ telemetry[n].kind[c] = "measured"
<1> DEFINE at == envelope.evaluatedAt
<1>1. CanHeadroom(derived, at) /\ envelope = Headroom(derived, at)
  BY DEF CanCheckFreshness
<1>2. /\ validatePlacementNodeDerivations(at) /\ CanAssess(request, Projections)
      /\ derived = CurrentEvidence(at)
  BY <1>1 DEF CanHeadroom, CanCapture, CanCompare
<1>3. AllCurrent(freshness) /\ Consumable(decision, Revalidation(derived, derived.evaluatedAt))
  BY DEF BlockedBy
<1>4. /\ derived.placement.nodes = Projections
      /\ derived.placement.advice.recommended = Recommended(request, Projections)
  BY <1>2 DEF CurrentEvidence, CapturePlacementAdviceSnapshot, BuildPlacementAdvice
<1>5. derived.placement.advice.recommended # None
  BY <1>3 DEF Consumable, Revalidation, reusablePlacementRecommendation
<1>6. ASSUME NEW n \in Serving(Projections), NEW c \in Constraints
      PROVE  /\ ~(ceilDurationSeconds(now - telemetry[n].obsAt[c]) > profile[n].maxAge[c])
             /\ telemetry[n].kind[c] = "measured"
  <2> DEFINE H == HeadroomCandidate(derived, n)
  <2>1. envelope.candidates = [m \in Serving(Projections) |-> HeadroomCandidate(derived, m)]
    BY <1>1, <1>4 DEF Headroom
  <2>2. freshness.status = [m \in Serving(Projections) |->
          classifyPlacementResourceHeadroomCandidate(HeadroomCandidate(derived, m), profile[m], now)]
    BY <2>1 DEF FreshnessGate
  <2>3. classifyPlacementResourceHeadroomCandidate(H, profile[n], now) = "current"
    BY <1>3, <2>2 DEF AllCurrent
  <2>4. H.resources = placementResourceHeadroomEntries(n)
    BY DEF HeadroomCandidate
  <2>5. H.resources[c].obsAt = telemetry[n].obsAt[c] /\ H.resources[c].kind = telemetry[n].kind[c]
    BY <2>4 DEF placementResourceHeadroomEntries
  <2> HIDE DEF H
  <2>6. /\ ~(ceilDurationSeconds(now - H.resources[c].obsAt) > profile[n].maxAge[c])
        /\ H.resources[c].kind = "measured"
    BY <2>3 DEF classifyPlacementResourceHeadroomCandidate
  <2> QED BY <2>5, <2>6
<1> QED BY <1>2, <1>4, <1>5, <1>6

LEMMA GateIsSafe ==
  ASSUME WorldOK,
         CanCheckFreshness(envelope, derived, now), freshness = FreshnessGate(envelope, now),
         BlockedBy(decision, freshness, derived) = "none"
  PROVE  SafeToReuse(derived.placement.advice.recommended)
<1> DEFINE at == envelope.evaluatedAt
           nodes == Projections
           serving == {m \in Inputs : telemetry[m].healthy}
           load == [m \in Inputs |-> telemetry[m].load]
           safe == [m \in Inputs |-> profile[m].safe]
           best == Recommended(request, nodes)
<1>1. /\ validatePlacementNodeDerivations(at) /\ CanAssess(request, nodes)
      /\ derived.placement.advice.recommended = best /\ best # None
  BY GateFacts
<1>2. NodesOK(nodes) /\ ValidRequest(request) /\ DOMAIN nodes = Inputs
  BY <1>1, ValidatedNodes, PlacementReuseAssumption DEF WorldOK
<1>3. ASSUME NEW n \in Inputs
      PROVE  /\ nodes[n].healthy = telemetry[n].healthy /\ nodes[n].load = telemetry[n].load
             /\ nodes[n].safe = profile[n].safe
             /\ nodes[n].reserve = Reserve(profile[n], telemetry[n],
                                           Bottleneck(profile[n], telemetry[n]))
  <2>1. nodes[n] = Projection(profile[n], telemetry[n])
    BY <1>1, ValidatedNodes
  <2> HIDE DEF nodes
  <2> QED BY <2>1 DEF Projection
<1>4. Serving(nodes) = serving
  BY <1>2, <1>3 DEF Serving
<1>5. [n \in DOMAIN nodes |-> nodes[n].load] = load /\ [n \in DOMAIN nodes |-> nodes[n].safe] = safe
  BY <1>2, <1>3
<1>6. best \in Eligible(request, nodes) /\ FleetSafe(request, nodes)
  BY <1>1, <1>2, RecommendedIsEligible
<1>7. best \in serving /\ telemetry[best].load + request.increment <= profile[best].safe
  <2>1. best \in Serving(nodes) /\ telemetry[best].load + request.increment <= profile[best].safe
    <3> HIDE DEF best
    <3> QED BY <1>1, <1>6, EligibleNode
  <2> QED BY <1>4, <2>1
<1>8. ASSUME NEW failed \in SUBSET serving, Cardinality(failed) = request.failureReserve
      PROVE  SumFunctionOnSet(load, serving) + request.increment
               <= SumFunctionOnSet(safe, serving \ failed)
  <2> DEFINE k == request.failureReserve
             all == SumFunctionOnSet(load, serving)
             left == SumFunctionOnSet(safe, serving \ Largest(nodes, k))
             kept == SumFunctionOnSet(safe, serving \ failed)
  <2>1. k \in Nat /\ request.increment \in Nat
    BY <1>2 DEF ValidRequest
  <2>2. IsFiniteSet(serving) /\ serving \in SUBSET Inputs
    BY <1>2, <1>4, ServingIsFinite
  <2>3. k <= Cardinality(serving)
    <3>1. Cardinality(serving) \in Nat /\ Cardinality(serving) > k
      BY <1>1, <1>4, <2>2, FS_CardinalityType DEF CanAssess
    <3> QED BY <2>1, <3>1
  <2>4. left >= all + request.increment
    <3>1. SafeCapacity(nodes, Serving(nodes) \ Largest(nodes, k))
            >= TotalLoad(nodes) + request.increment
      BY <1>6 DEF FleetSafe
    <3> QED BY <1>4, <1>5, <3>1 DEF SafeCapacity, TotalLoad
  <2>5. left <= kept
    <3> HIDE DEF nodes, serving, k
    <3>1. SafeCapacity(nodes, serving \ Largest(nodes, k)) <= SafeCapacity(nodes, serving \ failed)
      BY <1>2, <1>4, <1>8, <2>1, <2>3, FailuresAreCovered DEF k
    <3> QED BY <1>5, <3>1 DEF SafeCapacity
  <2>6. all \in Nat /\ left \in Nat /\ kept \in Nat
    <3>1. load \in [Inputs -> Nat] /\ safe \in [Inputs -> Nat]
      BY <1>2, <1>3 DEF NodesOK
    <3>2. /\ serving \ failed \in SUBSET Inputs /\ IsFiniteSet(serving \ failed)
          /\ serving \ Largest(nodes, k) \in SUBSET Inputs
          /\ IsFiniteSet(serving \ Largest(nodes, k))
      BY <2>2, FS_Difference
    <3> HIDE DEF serving, load, safe, nodes, k
    <3> QED BY <2>2, <3>1, <3>2, SumType
  <2> HIDE DEF all, left, kept
  <2>7. all + request.increment <= kept
    BY <2>1, <2>4, <2>5, <2>6
  <2> QED BY <2>7 DEF all, kept
<1>9. ASSUME NEW m \in serving, NEW c \in Constraints
      PROVE  /\ telemetry[m].value[c] <= profile[m].limit[c]
             /\ telemetry[m].kind[c] = "measured"
             /\ now - telemetry[m].obsAt[c] <= profile[m].maxAge[c] * TicksPerSecond
  <2> DEFINE p == profile[m]
             t == telemetry[m]
  <2>1. /\ p \in ProfileRevisions /\ t \in Snapshots /\ DOMAIN t.value = Constraints
        /\ m \in Inputs /\ m \in Serving(nodes)
    BY <1>1, <1>4, ValidatedNodes
  <2>2. ~(ceilDurationSeconds(now - t.obsAt[c]) > p.maxAge[c]) /\ t.kind[c] = "measured"
    BY <2>1, GateFacts
  <2>3. ~(Reserve(p, t, Bottleneck(p, t)) < 0)
    <3>1. nodes[m].reserve >= 0 /\ nodes[m].reserve \in Int
      BY <1>2, <1>6, <2>1 DEF FleetSafe, NodesOK
    <3>2. nodes[m].reserve = Reserve(p, t, Bottleneck(p, t))
      BY <1>3, <2>1
    <3> HIDE DEF p, t, nodes
    <3> QED BY <3>1, <3>2
  <2> HIDE DEF p, t
  <2>4. /\ p.limit[c] \in Nat /\ p.maxAge[c] \in Nat /\ t.value[c] \in Nat /\ t.obsAt[c] \in Int
    BY <2>1, RevisionFacts, SnapshotFacts DEF ValidProfile, ValidConstraints
  <2>5. t.value[c] <= p.limit[c]
    <3>1. /\ Reserve(p, t, c) \in Int /\ Reserve(p, t, Bottleneck(p, t)) \in Int
          /\ Reserve(p, t, c) < 0 <=> p.limit[c] < t.value[c]
          /\ Reserve(p, t, Bottleneck(p, t)) <= Reserve(p, t, c)
      BY <2>1, BottleneckIsLeast
    <3>2. ~(Reserve(p, t, c) < 0)
      BY <2>3, <3>1
    <3> QED BY <2>4, <3>1, <3>2
  <2>6. now - t.obsAt[c] <= p.maxAge[c] * TicksPerSecond
    <3> DEFINE age == now - t.obsAt[c]
    <3>1. age \in Int
      BY <2>4 DEF WorldOK
    <3> HIDE DEF age
    <3>2. ceilDurationSeconds(age) \in Int
      BY <3>1, PlacementAssumption DEF ceilDurationSeconds
    <3>3. ceilDurationSeconds(age) <= p.maxAge[c]
      BY <2>2, <2>4, <3>2 DEF age
    <3>4. age <= p.maxAge[c] * TicksPerSecond
      BY <2>4, <3>1, <3>3, CeilBounds
    <3> QED BY <3>4 DEF age
  <2> QED BY <2>2, <2>5, <2>6 DEF p, t
<1>10. SafeToReuse(best)
  <2> HIDE DEF best
  <2> QED BY <1>7, <1>8, <1>9 DEF SafeToReuse
<1> QED BY <1>1, <1>10

LEMMA GateStep ==
  WorldOK /\ PermittedReuseIsSafe /\ [PlacementNext]_placementVars => PermittedReuseIsSafe'
<1> SUFFICES ASSUME WorldOK, PermittedReuseIsSafe, [PlacementNext]_placementVars
             PROVE  PermittedReuseIsSafe'
  OBVIOUS
<1>1. CASE gate' = None
  BY <1>1 DEF PermittedReuseIsSafe
<1>2. CASE UNCHANGED placementVars
  BY <1>2 DEF PermittedReuseIsSafe, SafeToReuse, placementVars, world, Inputs
<1>3. CASE EvaluateGate
  <2>1. /\ CanCheckFreshness(envelope, derived, now) /\ freshness = FreshnessGate(envelope, now)
        /\ gate'.recommended = derived.placement.advice.recommended
        /\ gate'.blockedBy = BlockedBy(decision, freshness, derived)
        /\ UNCHANGED <<world, evidence>>
    BY <1>3 DEF EvaluateGate
  <2>2. CASE gate'.blockedBy = "none"
    <3>1. SafeToReuse(derived.placement.advice.recommended)
      BY <2>1, <2>2, GateIsSafe
    <3>2. PICK n : n = derived.placement.advice.recommended
      OBVIOUS
    <3>3. SafeToReuse(n) /\ gate'.recommended = n
      BY <2>1, <3>1, <3>2
    <3>4. SafeToReuse(n)'
      BY <2>1, <3>3 DEF SafeToReuse, world, Inputs
    <3> QED BY <3>3, <3>4 DEF PermittedReuseIsSafe
  <2>3. CASE gate'.blockedBy # "none"
    BY <2>3 DEF PermittedReuseIsSafe
  <2> QED BY <2>2, <2>3
<1>4. gate' = None \/ UNCHANGED placementVars \/ EvaluateGate
  BY DEF PlacementNext, Tick, Report, Reprofile, ChangeRequest, Derive,
         CapturePlacementAdviceFromDerivations, Decide, BuildHeadroom, CheckFreshness
<1> QED BY <1>1, <1>2, <1>3, <1>4

(* Whatever documents of whatever moments a consumer combines, a           *)
(* recommendation passes EvaluatePlacementResourceReuseGate only when it   *)
(* is safe at that moment: by measured observations of admissible age no   *)
(* resource is beyond its limit, the node carries the workload, and the    *)
(* fleet carries it whichever of its nodes, as many as the failure reserve *)
(* counts, are lost.  For every fleet, every profile and every history.    *)
THEOREM ReuseIsAlwaysSafe == PlacementSpec => []PermittedReuseIsSafe
<1>1. PlacementInit => WorldOK /\ PermittedReuseIsSafe
  BY WorldInit DEF PlacementInit, PermittedReuseIsSafe
<1>2. /\ WorldOK /\ PermittedReuseIsSafe /\ [PlacementNext]_placementVars
      => (WorldOK /\ PermittedReuseIsSafe)'
  BY WorldStep, GateStep
<1> QED BY <1>1, <1>2, PTL DEF PlacementSpec
=============================================================================
