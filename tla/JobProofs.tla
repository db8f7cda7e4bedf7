------------------------------ MODULE JobProofs -----------------------------
(***************************************************************************)
(* Proofs about the job repository, about the workers and operators on it  *)
(* and about manual retries, for any number of jobs, workers, operators,   *)
(* keys and attempts, for any clock lag and for both implementations of    *)
(* the repository.                                                         *)
(*                                                                         *)
(* Every repository call acts on each job record by itself, so the proofs  *)
(* go through one relation on records: NextIsPointwise shows that a step   *)
(* of the repository takes every record through a RecordStep, and          *)
(* everything else is shown of RecordStep.  In the second part every step  *)
(* of a worker or an operator is shown to be a step of the repository or   *)
(* none, and a run of a worker is tied to the record of its job by         *)
(* RunHolds.  The third part orders the entries of a retry chain by the    *)
(* history they were admitted after (ChainOK) and shows that the walk of   *)
(* the history builder follows that order.                                 *)
(***************************************************************************)
EXTENDS JobWorkers, ManualRetry, FiniteSetTheorems, WellFoundedInduction, TLAPS

(* What any call may do to one record, with the guard the record gives it. *)
RecordStep(r, s) ==
  \/ s = r
  \/ /\ r.status = "absent"
     /\ \E key \in Keys, request \in Requests, limit \in AttemptLimits, at \in Nat :
          s = Queued(key, request, limit, at)
  \/ \E w \in Workers, lag \in Lags :
       Claimable(r, lag) /\ s = Granted(r, w, lag)
  \/ \E lag \in Lags : ExpiredCancel(r, lag) /\ s = Released(r, "cancelled")
  \/ \E lag \in Lags :
       /\ MemoryExhausted(r, lag) \/ PostgresExhausted(r, lag)
       /\ s = Released(r, "failed")
  \/ /\ r.status \in Leased
     /\ \E lag \in Lags :
          s = Renewed(r, lag) \/ s = Completed(r) \/ s = AttemptFailed(r, lag)
  \/ r.status # "absent" /\ s = CancelRequested(r)
  \/ /\ r.status \in Leased \cup {"retry_wait"}
     /\ s = [r EXCEPT !.timer = @ - 1]

(***************************************************************************)
(* The inductive invariant of one record: its type, the three properties,  *)
(* that an existing job has one of the limits it can be created with       *)
(* (which is what makes its retry delay a duration), and that a job exists *)
(* exactly when it has a version (so that no version matches a job that    *)
(* does not exist).                                                        *)
(***************************************************************************)
RecordOK(r) ==
  /\ r \in JobRecord
  /\ LeaseOK(r)
  /\ AttemptsOK(r)
  /\ OutputOK(r)
  /\ r.status # "absent" => r.max \in AttemptLimits
  /\ r.status = "absent" <=> r.version = 0

-----------------------------------------------------------------------------
(* A set of numbers that is not empty has a least one.                     *)
LEMMA LeastNumber ==
  ASSUME NEW S \in SUBSET Nat, S # {}
  PROVE  \E x \in S : \A y \in S : x <= y
<1>1. \E x \in S : \A y \in S : ~ (<<y, x>> \in OpToRel(<, Nat))
  BY NatLessThanWellFounded, WFMin
<1>2. ASSUME NEW x \in Nat, NEW y \in Nat, y < x
      PROVE  <<y, x>> \in OpToRel(<, Nat)
  BY <1>2 DEF OpToRel
<1>3. \E x \in S : \A y \in S : ~(y < x)
  BY <1>1, <1>2, Zenon
<1> QED BY <1>3

-----------------------------------------------------------------------------
(***************************************************************************)
(* retryDelay is a number of ticks, however often it was doubled.          *)
(***************************************************************************)
Doubles(f, n) == f = [i \in 1 .. n |-> IF i = 1 THEN BaseDelay ELSE 2 * f[i - 1]]

LEMMA DoublingExists ==
  ASSUME NEW n \in Nat PROVE \E f : Doubles(f, n)
<1> DEFINE bad == {k \in Nat : ~ \E f : Doubles(f, k)}
<1>1. ASSUME bad # {} PROVE FALSE
  <2>1. PICK k \in bad : \A m \in bad : k <= m
    BY <1>1, LeastNumber
  <2>2. k \in Nat /\ ~ \E f : Doubles(f, k)
    OBVIOUS
  <2>3. CASE k = 0
    <3> DEFINE f == [i \in 1 .. 0 |-> 0]
    <3>1. Doubles(f, 0)
      BY DEF Doubles
    <3> QED BY <2>2, <2>3, <3>1
  <2>4. CASE k # 0
    <3>1. k - 1 \in Nat /\ k - 1 \notin bad
      <4> HIDE DEF bad
      <4> QED BY <2>1, <2>2, <2>4
    <3>2. PICK g : Doubles(g, k - 1)
      BY <3>1
    <3> DEFINE value(i) == IF i = 1 THEN BaseDelay ELSE 2 * g[i - 1]
               f == [i \in 1 .. k |-> IF i \in 1 .. k - 1 THEN g[i] ELSE value(i)]
    <3>3. \A i \in 1 .. k - 1 : g[i] = value(i)
      BY <3>2 DEF Doubles
    <3>4. \A i \in 1 .. k : f[i] = value(i)
      BY <3>3
    <3>5. ASSUME NEW i \in 1 .. k, i # 1 PROVE f[i - 1] = g[i - 1]
      <4>1. i - 1 \in 1 .. k - 1 /\ i - 1 \in 1 .. k
        BY <2>2, <3>5
      <4> QED BY <4>1
    <3>6. f = [i \in 1 .. k |-> f[i]]
      OBVIOUS
    <3> HIDE DEF f
    <3>7. \A i \in 1 .. k : f[i] = IF i = 1 THEN BaseDelay ELSE 2 * f[i - 1]
      BY <3>4, <3>5
    <3>8. Doubles(f, k)
      BY <3>6, <3>7 DEF Doubles
    <3> QED BY <2>2, <3>8
  <2> QED BY <2>3, <2>4
<1> QED BY <1>1

LEMMA DoublingCounts ==
  ASSUME NEW n \in Nat, NEW f, Doubles(f, n)
  PROVE  \A i \in 1 .. n : f[i] \in Nat
<1> DEFINE bad == {i \in 1 .. n : f[i] \notin Nat}
<1>1. \A i \in 1 .. n : f[i] = IF i = 1 THEN BaseDelay ELSE 2 * f[i - 1]
  BY DEF Doubles
<1>2. ASSUME bad # {} PROVE FALSE
  <2>0. bad \in SUBSET Nat
    OBVIOUS
  <2>1. PICK k \in bad : \A m \in bad : k <= m
    <3> HIDE DEF bad
    <3> QED BY <1>2, <2>0, LeastNumber
  <2>2. k \in 1 .. n /\ f[k] \notin Nat
    OBVIOUS
  <2>3. k # 1
    BY <1>1, <2>2, JobQueueAssumption
  <2>4. k - 1 \in 1 .. n
    BY <2>2, <2>3
  <2>5. k - 1 \notin bad
    <3> HIDE DEF bad
    <3> QED BY <2>1, <2>2, <2>4
  <2>6. f[k - 1] \in Nat
    BY <2>4, <2>5
  <2>7. f[k] = 2 * f[k - 1]
    BY <1>1, <2>2, <2>3
  <2> QED BY <2>2, <2>6, <2>7
<1> QED BY <1>2

LEMMA DelayIsNumber ==
  ASSUME NEW a \in Nat \ {0} PROVE retryDelay(a) \in Nat
<1> DEFINE delay == CHOOSE f : Doubles(f, a)
<1>1. Doubles(delay, a)
  BY DoublingExists
<1>2. retryDelay(a) = IF MaxDelay > 0 /\ delay[a] > MaxDelay THEN MaxDelay ELSE delay[a]
  BY DEF retryDelay, Doubles
<1> HIDE DEF delay
<1>3. delay[a] \in Nat
  BY <1>1, DoublingCounts
<1> QED BY <1>2, <1>3, JobQueueAssumption

-----------------------------------------------------------------------------
(* A record stays a record when fields are overwritten with values of      *)
(* their types.                                                            *)
LEMMA SetStatus ==
  ASSUME NEW r \in JobRecord, NEW s \in Statuses, NEW v \in Nat
  PROVE  [r EXCEPT !.status = s, !.version = v] \in JobRecord
BY DEF JobRecord

(* The same for the fields that a claim sets besides the lease.            *)
LEMMA SetAttempt ==
  ASSUME NEW r \in JobRecord, NEW s \in Statuses, NEW a \in Nat, NEW v \in Nat
  PROVE  [r EXCEPT !.status = s, !.attempt = a, !.version = v] \in JobRecord
BY DEF JobRecord

(* The same for the fields that a renewal sets.                            *)
LEMMA SetTimer ==
  ASSUME NEW r \in JobRecord, NEW t \in Int, NEW v \in Nat
  PROVE  /\ [r EXCEPT !.timer = t] \in JobRecord
         /\ [r EXCEPT !.timer = t, !.version = v] \in JobRecord
BY DEF JobRecord

(* The same for the output.                                                *)
LEMMA SetOutput ==
  ASSUME NEW r \in JobRecord, NEW kind \in {"none", "success", "failure"}
  PROVE  /\ WithOutput(r, kind) \in JobRecord
         /\ WithOutput(r, kind).output = kind
         /\ WithOutput(r, kind).outputOf = r.attempt
         /\ WithOutput(r, kind).status = r.status
         /\ WithOutput(r, kind).token = r.token
         /\ WithOutput(r, kind).holder = r.holder
         /\ WithOutput(r, kind).version = r.version
         /\ WithOutput(r, kind).attempt = r.attempt
         /\ WithOutput(r, kind).max = r.max
         /\ WithOutput(r, kind).key = r.key
         /\ WithOutput(r, kind).request = r.request
BY DEF JobRecord, WithOutput

(* The same for the lease.                                                 *)
LEMMA SetLease ==
  ASSUME NEW r \in JobRecord, NEW token \in Nat,
         NEW holder \in Workers \cup {NoWorker}, NEW timer \in Int
  PROVE  WithLease(r, token, holder, timer) \in JobRecord
BY DEF JobRecord, WithLease

(* The statuses that the code stores are statuses.                         *)
LEMMA StatusNames ==
  /\ {"running", "cancel_requested", "retry_wait"} \subseteq Statuses
  /\ {"cancelled", "failed", "succeeded"} \subseteq Statuses
BY DEF Statuses, Leased, Terminal

-----------------------------------------------------------------------------
(* What each operation leaves in the fields of a record.                   *)
LEMMA ReleasedFields ==
  ASSUME NEW r \in JobRecord, NEW s \in Statuses
  PROVE  /\ Released(r, s) \in JobRecord
         /\ Released(r, s).status = s
         /\ Released(r, s).token = 0
         /\ Released(r, s).holder = NoWorker
         /\ Released(r, s).version = r.version + 1
         /\ Released(r, s).attempt = r.attempt
         /\ Released(r, s).max = r.max
         /\ Released(r, s).output = r.output
         /\ Released(r, s).outputOf = r.outputOf
         /\ Released(r, s).key = r.key
         /\ Released(r, s).request = r.request
<1>1. WithLease(r, 0, NoWorker, 0) \in JobRecord
  BY SetLease
<1>2. WithLease(r, 0, NoWorker, 0).version + 1 \in Nat
  BY <1>1 DEF JobRecord
<1>3. Released(r, s) \in JobRecord
  BY <1>1, <1>2, SetStatus DEF Released
<1> QED
  BY <1>3 DEF Released, WithLease, JobRecord

(* Granted starts the next attempt under a token that is new.              *)
LEMMA GrantedFields ==
  ASSUME NEW r \in JobRecord, NEW w \in Workers, NEW lag \in Lags
  PROVE  /\ Granted(r, w, lag) \in JobRecord
         /\ Granted(r, w, lag).status = "running"
         /\ Granted(r, w, lag).token = r.version + 1
         /\ Granted(r, w, lag).holder = w
         /\ Granted(r, w, lag).version = r.version + 1
         /\ Granted(r, w, lag).attempt = r.attempt + 1
         /\ Granted(r, w, lag).max = r.max
         /\ Granted(r, w, lag).output = r.output
         /\ Granted(r, w, lag).outputOf = r.outputOf
         /\ Granted(r, w, lag).key = r.key
         /\ Granted(r, w, lag).request = r.request
<1> DEFINE q == WithLease(r, r.version + 1, w, LeaseTTL - lag)
<1>1. r.version + 1 \in Nat /\ LeaseTTL - lag \in Int
  BY JobQueueAssumption DEF JobQueueAssumption, JobRecord, Lags
<1>2. q \in JobRecord
  BY <1>1, SetLease
<1>3. q.version + 1 \in Nat /\ q.attempt + 1 \in Nat
  BY <1>2 DEF JobRecord
<1>4. Granted(r, w, lag) \in JobRecord
  BY <1>2, <1>3, SetAttempt, StatusNames DEF Granted
<1> QED
  BY <1>4 DEF Granted, WithLease, JobRecord

(* Renewed sets the timer and the version only.                            *)
LEMMA RenewedFields ==
  ASSUME NEW r \in JobRecord, NEW lag \in Lags
  PROVE  /\ Renewed(r, lag) \in JobRecord
         /\ Renewed(r, lag).status = r.status
         /\ Renewed(r, lag).token = r.token
         /\ Renewed(r, lag).holder = r.holder
         /\ Renewed(r, lag).version = r.version + 1
         /\ Renewed(r, lag).attempt = r.attempt
         /\ Renewed(r, lag).max = r.max
         /\ Renewed(r, lag).output = r.output
         /\ Renewed(r, lag).outputOf = r.outputOf
         /\ Renewed(r, lag).key = r.key
         /\ Renewed(r, lag).request = r.request
<1>1. r.version + 1 \in Nat /\ LeaseTTL - lag \in Int
  BY JobQueueAssumption DEF JobQueueAssumption, JobRecord, Lags
<1>2. Renewed(r, lag) \in JobRecord
  BY <1>1, SetTimer DEF Renewed
<1> QED
  BY <1>2 DEF Renewed, JobRecord

(* Completed releases; a success stores the output of its attempt.         *)
LEMMA CompletedFields ==
  ASSUME NEW r \in JobRecord, r.status \in Leased
  PROVE  /\ Completed(r) \in JobRecord
         /\ Completed(r).status = IF r.status = "cancel_requested"
                                  THEN "cancelled" ELSE "succeeded"
         /\ Completed(r).token = 0
         /\ Completed(r).holder = NoWorker
         /\ Completed(r).version = r.version + 1
         /\ Completed(r).attempt = r.attempt
         /\ Completed(r).max = r.max
         /\ Completed(r).key = r.key
         /\ Completed(r).request = r.request
         /\ IF r.status = "cancel_requested"
            THEN Completed(r).output = r.output /\ Completed(r).outputOf = r.outputOf
            ELSE Completed(r).output = "success" /\ Completed(r).outputOf = r.attempt
<1>1. CASE r.status = "cancel_requested"
  BY <1>1, ReleasedFields, StatusNames DEF Completed
<1>2. CASE r.status # "cancel_requested"
  <2>1. Completed(r) = WithOutput(Released(r, "succeeded"), "success")
    BY <1>2 DEF Completed
  <2>2. /\ Released(r, "succeeded") \in JobRecord
        /\ Released(r, "succeeded").status = "succeeded"
        /\ Released(r, "succeeded").token = 0
        /\ Released(r, "succeeded").holder = NoWorker
        /\ Released(r, "succeeded").version = r.version + 1
        /\ Released(r, "succeeded").attempt = r.attempt
        /\ Released(r, "succeeded").max = r.max
        /\ Released(r, "succeeded").key = r.key
        /\ Released(r, "succeeded").request = r.request
    BY ReleasedFields, StatusNames
  <2> QED
    BY <1>2, <2>1, <2>2, SetOutput
<1> QED
  BY <1>1, <1>2

FailStatus(r) ==
  IF r.status = "cancel_requested" THEN "cancelled"
  ELSE IF r.attempt < r.max THEN "retry_wait" ELSE "failed"

(* AttemptFailed releases and stores the failure of its attempt.           *)
LEMMA AttemptFailedFields ==
  ASSUME NEW r \in JobRecord, NEW lag \in Lags, retryDelay(r.attempt) \in Nat
  PROVE  /\ AttemptFailed(r, lag) \in JobRecord
         /\ AttemptFailed(r, lag).status = FailStatus(r)
         /\ AttemptFailed(r, lag).token = 0
         /\ AttemptFailed(r, lag).holder = NoWorker
         /\ AttemptFailed(r, lag).version = r.version + 1
         /\ AttemptFailed(r, lag).attempt = r.attempt
         /\ AttemptFailed(r, lag).max = r.max
         /\ AttemptFailed(r, lag).key = r.key
         /\ AttemptFailed(r, lag).request = r.request
         /\ AttemptFailed(r, lag).output = "failure"
         /\ AttemptFailed(r, lag).outputOf = r.attempt
<1> DEFINE q == Released(r, FailStatus(r))
           t == IF FailStatus(r) = "retry_wait" THEN retryDelay(r.attempt) - lag ELSE 0
           p == [q EXCEPT !.timer = t]
<1>1. FailStatus(r) \in Statuses
  BY StatusNames DEF FailStatus
<1>2. /\ q \in JobRecord /\ q.status = FailStatus(r) /\ q.token = 0
      /\ q.holder = NoWorker /\ q.version = r.version + 1 /\ q.attempt = r.attempt
      /\ q.max = r.max /\ q.key = r.key /\ q.request = r.request
  BY <1>1, ReleasedFields
<1>3. AttemptFailed(r, lag) = WithOutput(p, "failure")
  BY DEF AttemptFailed, FailStatus
<1>4. t \in Int
  BY JobQueueAssumption DEF JobQueueAssumption, JobRecord, Lags
<1> HIDE DEF q, t
<1>5. /\ p \in JobRecord /\ p.status = q.status /\ p.token = q.token
      /\ p.holder = q.holder /\ p.version = q.version /\ p.attempt = q.attempt
      /\ p.max = q.max /\ p.key = q.key /\ p.request = q.request
  BY <1>2, <1>4 DEF JobRecord
<1> HIDE DEF p
<1> QED
  BY <1>2, <1>3, <1>5, SetOutput

(* The mark that a cancellation leaves on a running job.                   *)
LEMMA MarkedFields ==
  ASSUME NEW r \in JobRecord, r.status = "running"
  PROVE  /\ CancelRequested(r) \in JobRecord
         /\ CancelRequested(r).status = "cancel_requested"
         /\ CancelRequested(r).token = r.token
         /\ CancelRequested(r).holder = r.holder
         /\ CancelRequested(r).version = r.version + 1
         /\ CancelRequested(r).attempt = r.attempt
         /\ CancelRequested(r).max = r.max
         /\ CancelRequested(r).key = r.key
         /\ CancelRequested(r).request = r.request
         /\ CancelRequested(r).output = r.output
         /\ CancelRequested(r).outputOf = r.outputOf
<1>1. CancelRequested(r) = [r EXCEPT !.status = "cancel_requested", !.version = @ + 1]
  BY DEF CancelRequested, Terminal
<1>2. r.version + 1 \in Nat
  BY DEF JobRecord
<1>3. [r EXCEPT !.status = "cancel_requested", !.version = @ + 1] \in JobRecord
  BY <1>2, SetStatus, StatusNames
<1> QED
  BY <1>1, <1>3 DEF JobRecord

(* A cancellation request ignores a finished job, marks a running one and  *)
(* cancels any other at once.                                              *)
LEMMA CancelRequestedCases ==
  ASSUME NEW r
  PROVE  /\ r.status \in Terminal => CancelRequested(r) = r
         /\ r.status \notin Terminal /\ r.status # "running" =>
              CancelRequested(r) = Released(r, "cancelled")
BY DEF CancelRequested, Terminal

-----------------------------------------------------------------------------
(* Every operation keeps a record well formed.                             *)
LEMMA RecordStepOK ==
  ASSUME NEW r, NEW s, RecordOK(r), RecordStep(r, s)
  PROVE  RecordOK(s)
<1> USE DEF RecordOK
<1>1. ASSUME s = r PROVE RecordOK(s)
  BY <1>1
<1>2. ASSUME NEW key \in Keys, NEW request \in Requests, NEW limit \in AttemptLimits,
             NEW at \in Nat, s = Queued(key, request, limit, at)
      PROVE  RecordOK(s)
  BY <1>2, JobQueueAssumption DEF JobQueueAssumption, Queued, JobRecord, Statuses,
    Leased, Terminal, LeaseOK, AttemptsOK, OutputOK
<1>3. ASSUME NEW w \in Workers, NEW lag \in Lags, Claimable(r, lag),
             s = Granted(r, w, lag)
      PROVE  RecordOK(s)
  <2>1. r.status \in {"queued", "retry_wait", "running"} /\ r.attempt < r.max
    BY <1>3 DEF Claimable, Eligible
  <2> QED
    BY <1>3, <2>1, GrantedFields, JobQueueAssumption DEF JobQueueAssumption, JobRecord,
      Leased, Terminal, LeaseOK, AttemptsOK, OutputOK
<1>4. ASSUME r.status \notin Terminal \cup {"absent"}, s = Released(r, "cancelled")
      PROVE  RecordOK(s)
  BY <1>4, ReleasedFields, StatusNames DEF JobRecord, Leased, Terminal, LeaseOK,
    AttemptsOK, OutputOK
<1>5. ASSUME NEW lag \in Lags, MemoryExhausted(r, lag) \/ PostgresExhausted(r, lag),
             s = Released(r, "failed")
      PROVE  RecordOK(s)
  <2>1. r.status \in {"queued", "retry_wait", "running"} /\ r.attempt >= r.max
    BY <1>5 DEF MemoryExhausted, PostgresExhausted, Eligible
  <2> QED
    BY <1>5, <2>1, ReleasedFields, StatusNames, JobQueueAssumption
      DEF JobQueueAssumption, JobRecord, Leased, Terminal, LeaseOK, AttemptsOK, OutputOK
<1>6. ASSUME r.status \in Leased, NEW lag \in Lags, s = Renewed(r, lag)
      PROVE  RecordOK(s)
  BY <1>6, RenewedFields DEF JobRecord, Leased, LeaseOK, AttemptsOK, OutputOK
<1>7. ASSUME r.status \in Leased, s = Completed(r)
      PROVE  RecordOK(s)
  BY <1>7, CompletedFields DEF JobRecord, Leased, Terminal, LeaseOK, AttemptsOK, OutputOK
<1>8. ASSUME r.status \in Leased, NEW lag \in Lags, s = AttemptFailed(r, lag)
      PROVE  RecordOK(s)
  <2>1. r.attempt \in 1 .. r.max /\ r.max \in AttemptLimits
    BY <1>8, JobQueueAssumption DEF JobQueueAssumption, JobRecord, AttemptsOK, Leased
  <2>2. retryDelay(r.attempt) \in Nat
    BY <2>1, JobQueueAssumption, DelayIsNumber
  <2> QED
    BY <1>8, <2>1, <2>2, AttemptFailedFields DEF FailStatus, JobRecord, Leased,
      LeaseOK, AttemptsOK, OutputOK
<1>9. ASSUME r.status # "absent", s = CancelRequested(r)
      PROVE  RecordOK(s)
  <2>1. CASE r.status \in Terminal
    BY <1>9, <2>1, CancelRequestedCases
  <2>2. CASE r.status = "running"
    BY <1>9, <2>2, MarkedFields DEF JobRecord, Leased, LeaseOK, AttemptsOK, OutputOK
  <2>3. CASE r.status \notin Terminal /\ r.status # "running"
    BY <1>4, <1>9, <2>3, CancelRequestedCases
  <2> QED
    BY <2>1, <2>2, <2>3
<1>10. ASSUME r.status \in Leased \cup {"retry_wait"}, s = [r EXCEPT !.timer = @ - 1]
       PROVE  RecordOK(s)
  <2>1. r.timer - 1 \in Int
    BY DEF JobRecord
  <2>2. s \in JobRecord
    BY <1>10, <2>1, SetTimer
  <2> QED
    BY <1>10, <2>2 DEF JobRecord, Leased, LeaseOK, AttemptsOK, OutputOK
<1>11. ASSUME NEW lag \in Lags, ExpiredCancel(r, lag)
       PROVE  r.status \notin Terminal \cup {"absent"}
  BY <1>11 DEF ExpiredCancel, Terminal
<1> QED
  BY <1>1, <1>2, <1>3, <1>4, <1>5, <1>6, <1>7, <1>8, <1>9, <1>10, <1>11 DEF RecordStep

-----------------------------------------------------------------------------
(* The inductive invariant of the repository.                              *)
JobsOK ==
  /\ TypeOK
  /\ \A j \in Jobs : RecordOK(jobs[j])

(* The repository starts in the invariant.                                 *)
LEMMA InitOK == JobQueueInit => JobsOK
<1> SUFFICES ASSUME JobQueueInit PROVE JobsOK
  OBVIOUS
<1>1. RecordOK(Absent)
  BY JobQueueAssumption DEF JobQueueAssumption, RecordOK, Absent, JobRecord, Statuses,
    Leased, Terminal, LeaseOK, AttemptsOK, OutputOK
<1>2. Absent \in JobRecord
  BY <1>1 DEF RecordOK
<1> QED
  BY <1>1, <1>2 DEF JobQueueInit, JobsOK, TypeOK

(* A call that overwrites one record takes every record through a step.    *)
LEMMA OneRecord ==
  ASSUME TypeOK, NEW j \in Jobs, NEW s, RecordStep(jobs[j], s),
         jobs' = [jobs EXCEPT ![j] = s]
  PROVE  /\ jobs' = [k \in Jobs |-> jobs'[k]]
         /\ \A k \in Jobs : RecordStep(jobs[k], jobs'[k])
<1>1. jobs' = [k \in Jobs |-> jobs'[k]]
  BY DEF TypeOK
<1>2. jobs'[j] = s
  BY DEF TypeOK
<1>3. \A k \in Jobs \ {j} : jobs'[k] = jobs[k]
  BY DEF TypeOK
<1>4. \A k \in Jobs \ {j} : RecordStep(jobs[k], jobs'[k])
  BY <1>3 DEF RecordStep
<1> QED
  BY <1>1, <1>2, <1>4

(* Every step of the repository, a claim that sweeps many jobs included,   *)
(* takes each record through one RecordStep.                               *)
LEMMA NextIsPointwise ==
  ASSUME JobsOK, [JobQueueNext]_jobs
  PROVE  /\ jobs' = [k \in Jobs |-> jobs'[k]]
         /\ \A k \in Jobs : RecordStep(jobs[k], jobs'[k])
<1> TypeOK
  BY DEF JobsOK
<1> DEFINE Goal == /\ jobs' = [k \in Jobs |-> jobs'[k]]
                   /\ \A k \in Jobs : RecordStep(jobs[k], jobs'[k])
<1>1. ASSUME UNCHANGED jobs PROVE Goal
  BY <1>1 DEF TypeOK, RecordStep
<1>2. ASSUME Tick PROVE Goal
  <2>1. jobs' = [k \in Jobs |-> jobs'[k]]
    BY <1>2 DEF Tick
  <2>2. ASSUME NEW k \in Jobs PROVE RecordStep(jobs[k], jobs'[k])
    <3>1. \/ jobs'[k] = jobs[k]
          \/ /\ jobs[k].status \in Leased \cup {"retry_wait"}
             /\ jobs'[k] = [jobs[k] EXCEPT !.timer = @ - 1]
      BY <1>2 DEF Tick
    <3> QED
      BY <3>1 DEF RecordStep
  <2> QED
    BY <2>1, <2>2
<1>3. ASSUME NEW w \in Workers, NEW lag \in Lags, MemoryClaim(w, lag) PROVE Goal
  <2>1. jobs' = [k \in Jobs |-> jobs'[k]]
    BY <1>3 DEF MemoryClaim
  <2>2. ASSUME NEW k \in Jobs PROVE RecordStep(jobs[k], jobs'[k])
    <3>1. \/ jobs'[k] = jobs[k]
          \/ Claimable(jobs[k], lag) /\ jobs'[k] = Granted(jobs[k], w, lag)
          \/ ExpiredCancel(jobs[k], lag) /\ jobs'[k] = Released(jobs[k], "cancelled")
          \/ MemoryExhausted(jobs[k], lag) /\ jobs'[k] = Released(jobs[k], "failed")
      BY <1>3 DEF MemoryClaim
    <3> QED
      BY <3>1 DEF RecordStep
  <2> QED
    BY <2>1, <2>2
<1>4. ASSUME NEW w \in Workers, NEW lag \in Lags, NEW picked \in Picks,
             PostgresClaim(w, lag, picked)
      PROVE  Goal
  <2>1. jobs' = [k \in Jobs |-> jobs'[k]]
    BY <1>4 DEF PostgresClaim
  <2>2. ASSUME NEW k \in Jobs PROVE RecordStep(jobs[k], jobs'[k])
    <3>1. \/ jobs'[k] = jobs[k]
          \/ Claimable(jobs[k], lag) /\ jobs'[k] = Granted(jobs[k], w, lag)
          \/ ExpiredCancel(jobs[k], lag) /\ jobs'[k] = Released(jobs[k], "cancelled")
          \/ PostgresExhausted(jobs[k], lag) /\ jobs'[k] = Released(jobs[k], "failed")
      BY <1>4 DEF PostgresClaim
    <3> QED
      BY <3>1 DEF RecordStep
  <2> QED
    BY <2>1, <2>2
<1>5. ASSUME NEW j \in Jobs, NEW key \in Keys, NEW request \in Requests,
             NEW limit \in AttemptLimits, NEW at \in CreationTimes,
             Create(j, key, request, limit, at)
      PROVE  Goal
  <2>1. at \in Nat
    BY DEF CreationTimes, TypeOK, JobRecord
  <2>2. RecordStep(jobs[j], Queued(key, request, limit, at))
    BY <1>5, <2>1 DEF Create, RecordStep
  <2> QED
    BY <1>5, <2>2, OneRecord DEF Create
<1>6. ASSUME NEW j \in Jobs, NEW token \in Tokens(j), NEW lag \in Lags,
             \/ RenewLease(j, token, lag)
             \/ Succeed(j, token, lag)
             \/ Fail(j, token, lag)
      PROVE  Goal
  <2>1. PICK s : /\ jobs' = [jobs EXCEPT ![j] = s]
                 /\ jobs[j].status \in Leased
                 /\ \/ s = Renewed(jobs[j], lag)
                    \/ s = Completed(jobs[j])
                    \/ s = AttemptFailed(jobs[j], lag)
    BY <1>6 DEF RenewLease, Succeed, Fail, Holds
  <2>2. RecordStep(jobs[j], s)
    BY <2>1 DEF RecordStep
  <2> QED
    BY <2>1, <2>2, OneRecord
<1>7. ASSUME NEW j \in Jobs, RequestCancel(j) PROVE Goal
  <2>1. RecordStep(jobs[j], CancelRequested(jobs[j]))
    BY <1>7 DEF RequestCancel, RecordStep
  <2> QED
    BY <1>7, <2>1, OneRecord DEF RequestCancel
<1>8. ASSUME NEW j \in Jobs, NEW v \in 1 .. jobs[j].version, RequestCancelIfVersion(j, v)
      PROVE  Goal
  <2>1. CASE jobs[j].status # "absent"
    <3>1. RecordStep(jobs[j], CancelRequested(jobs[j]))
      BY <2>1 DEF RecordStep
    <3> QED
      BY <1>8, <3>1, OneRecord DEF RequestCancelIfVersion
  <2>2. jobs[j].status # "absent"
    BY DEF JobsOK, RecordOK
  <2> QED
    BY <2>1, <2>2
<1> QED
  BY <1>1, <1>2, <1>3, <1>4, <1>5, <1>6, <1>7, <1>8 DEF JobQueueNext, Claim

-----------------------------------------------------------------------------
(* The invariant is inductive.                                             *)
LEMMA NextOK == JobsOK /\ [JobQueueNext]_jobs => JobsOK'
<1> SUFFICES ASSUME JobsOK, [JobQueueNext]_jobs PROVE JobsOK'
  OBVIOUS
<1>1. /\ jobs' = [k \in Jobs |-> jobs'[k]]
      /\ \A k \in Jobs : RecordStep(jobs[k], jobs'[k])
  BY NextIsPointwise
<1>2. \A k \in Jobs : RecordOK(jobs'[k])
  BY <1>1, RecordStepOK DEF JobsOK
<1>3. \A k \in Jobs : jobs'[k] \in JobRecord
  BY <1>2 DEF RecordOK
<1>4. jobs' \in [Jobs -> JobRecord]
  BY <1>1, <1>3
<1> QED
  BY <1>2, <1>4 DEF JobsOK, TypeOK

(* The repository always satisfies its inductive invariant.                *)
LEMMA Invariance == JobQueueSpec => []JobsOK
BY InitOK, NextOK, PTL DEF JobQueueSpec

(* Type correctness: in every reachable state every job is a job record,   *)
(* whatever sequence of repository calls led there.                        *)
THEOREM TypeCorrect == JobQueueSpec => []TypeOK
<1>1. JobsOK => TypeOK
  BY DEF JobsOK
<1> QED
  BY <1>1, Invariance, PTL

(* A job carries a lease exactly while it is leased: neither the report    *)
(* methods, nor a cancellation, nor the sweeps of Claim leave a token that *)
(* a late worker could present.                                            *)
THEOREM LeasesMatch == JobQueueSpec => []LeaseMatchesStatus
<1>1. JobsOK => LeaseMatchesStatus
  BY DEF JobsOK, RecordOK, LeaseMatchesStatus
<1> QED
  BY <1>1, Invariance, PTL

(* Attempts are never lost and never exceed the limit of the job, for any  *)
(* limit and both implementations of Claim.                                *)
THEOREM AttemptsCounted == JobQueueSpec => []AttemptAccounting
<1>1. JobsOK => AttemptAccounting
  BY DEF JobsOK, RecordOK, AttemptAccounting
<1> QED
  BY <1>1, Invariance, PTL

(* A stored success is the output of the attempt that succeeded; a         *)
(* cancelled job publishes none.                                           *)
THEOREM OutputsOwned == JobQueueSpec => []OutputProvenance
<1>1. JobsOK => OutputProvenance
  BY DEF JobsOK, RecordOK, OutputProvenance
<1> QED
  BY <1>1, Invariance, PTL

-----------------------------------------------------------------------------
(* A step of a record is a version step, a final step and a lease step.    *)
LEMMA RecordStepIs ==
  ASSUME NEW r, NEW s, RecordOK(r), RecordStep(r, s)
  PROVE  VersionStep(r, s) /\ FinalStep(r, s) /\ LeaseStep(r, s)
<1> USE DEF RecordOK
<1> DEFINE Goal == VersionStep(r, s) /\ FinalStep(r, s) /\ LeaseStep(r, s)
<1>1. ASSUME s = r PROVE Goal
  BY <1>1 DEF VersionStep, FinalStep, LeaseStep, JobRecord, Terminal
<1>2. ASSUME r.status = "absent", NEW key \in Keys, NEW request \in Requests,
             NEW limit \in AttemptLimits, NEW at \in Nat,
             s = Queued(key, request, limit, at)
      PROVE  Goal
  <2>1. s.version = 1 /\ s.attempt = 0 /\ s.token = 0
    BY <1>2 DEF Queued
  <2> QED
    BY <1>2, <2>1 DEF VersionStep, FinalStep, LeaseStep, JobRecord, Terminal, AttemptsOK
<1>3. ASSUME NEW w \in Workers, NEW lag \in Lags, Claimable(r, lag),
             s = Granted(r, w, lag)
      PROVE  Goal
  <2>1. /\ r.status \in {"queued", "retry_wait", "running"}
        /\ r.status = "running" => ~After(r, lag)
    BY <1>3 DEF Claimable, Eligible
  <2>2. r.token # 0 => r.timer <= 0
    BY <2>1, JobQueueAssumption DEF JobQueueAssumption, After, Lags, LeaseOK, Leased,
      JobRecord
  <2> QED
    BY <1>3, <2>1, <2>2, GrantedFields DEF VersionStep, FinalStep, LeaseStep, JobRecord,
      Terminal, LeaseOK
<1>4. ASSUME r.status \notin Terminal, s = Released(r, "cancelled")
      PROVE  Goal
  BY <1>4, ReleasedFields, StatusNames DEF VersionStep, FinalStep, LeaseStep, JobRecord
<1>5. ASSUME NEW lag \in Lags, MemoryExhausted(r, lag) \/ PostgresExhausted(r, lag),
             s = Released(r, "failed")
      PROVE  Goal
  <2>1. r.status \in {"queued", "retry_wait", "running"}
    BY <1>5 DEF MemoryExhausted, PostgresExhausted, Eligible
  <2> QED
    BY <1>5, <2>1, ReleasedFields, StatusNames
      DEF VersionStep, FinalStep, LeaseStep, JobRecord, Terminal
<1>6. ASSUME r.status \in Leased, NEW lag \in Lags, s = Renewed(r, lag)
      PROVE  Goal
  BY <1>6, RenewedFields DEF VersionStep, FinalStep, LeaseStep, JobRecord, Leased, Terminal
<1>7. ASSUME r.status \in Leased, s = Completed(r)
      PROVE  Goal
  BY <1>7, CompletedFields DEF VersionStep, FinalStep, LeaseStep, JobRecord, Leased, Terminal
<1>8. ASSUME r.status \in Leased, NEW lag \in Lags, s = AttemptFailed(r, lag)
      PROVE  Goal
  <2>1. r.attempt \in 1 .. r.max /\ r.max \in AttemptLimits
    BY <1>8, JobQueueAssumption DEF JobQueueAssumption, JobRecord, AttemptsOK, Leased
  <2>2. retryDelay(r.attempt) \in Nat
    BY <2>1, JobQueueAssumption, DelayIsNumber
  <2> QED
    BY <1>8, <2>2, AttemptFailedFields DEF FailStatus, VersionStep, FinalStep, LeaseStep,
      JobRecord, Leased, Terminal
<1>9. ASSUME r.status # "absent", s = CancelRequested(r)
      PROVE  Goal
  <2>1. CASE r.status \in Terminal
    BY <1>1, <1>9, <2>1, CancelRequestedCases
  <2>2. CASE r.status = "running"
    BY <1>9, <2>2, MarkedFields DEF VersionStep, FinalStep, LeaseStep, JobRecord, Terminal
  <2>3. CASE r.status \notin Terminal /\ r.status # "running"
    BY <1>4, <1>9, <2>3, CancelRequestedCases
  <2> QED
    BY <2>1, <2>2, <2>3
<1>10. ASSUME r.status \in Leased \cup {"retry_wait"}, s = [r EXCEPT !.timer = @ - 1]
       PROVE  Goal
  <2>1. /\ s.status = r.status /\ s.attempt = r.attempt /\ s.token = r.token
        /\ s.timer = r.timer - 1
    BY <1>10 DEF JobRecord
  <2>2. s = [r EXCEPT !.timer = s.timer]
    BY <1>10, <2>1
  <2> QED
    BY <1>10, <2>1, <2>2 DEF VersionStep, FinalStep, LeaseStep, JobRecord, Leased, Terminal
<1>11. ASSUME NEW lag \in Lags, ExpiredCancel(r, lag)
       PROVE  r.status \notin Terminal
  BY <1>11 DEF ExpiredCancel, Terminal
<1> QED
  BY <1>1, <1>2, <1>3, <1>4, <1>5, <1>6, <1>7, <1>8, <1>9, <1>10, <1>11
    DEF RecordStep

(* What a step of the repository may do to a job, by its three aspects.    *)
LEMMA StepsOK ==
  ASSUME JobsOK, [JobQueueNext]_jobs, NEW j \in Jobs
  PROVE  /\ VersionStep(jobs[j], jobs'[j])
         /\ FinalStep(jobs[j], jobs'[j])
         /\ LeaseStep(jobs[j], jobs'[j])
BY NextIsPointwise, RecordStepIs DEF JobsOK

(* Every stored change of a job carries the next version: what makes a     *)
(* cancellation bound to a version safe.                                   *)
THEOREM VersionsAdvanceAlways == JobQueueSpec => VersionsAdvance
<1>1. JobsOK /\ [JobQueueNext]_jobs =>
        [\A j \in Jobs : VersionStep(jobs[j], jobs'[j])]_jobs
  BY StepsOK
<1> QED
  BY <1>1, Invariance, PTL DEF JobQueueSpec, VersionsAdvance

(* A finished job never changes again, and a requested cancellation can    *)
(* only end in a cancelled job.                                            *)
THEOREM FinalStatesStayAlways == JobQueueSpec => FinalStatesStay
<1>1. JobsOK /\ [JobQueueNext]_jobs =>
        [\A j \in Jobs : FinalStep(jobs[j], jobs'[j])]_jobs
  BY StepsOK
<1> QED
  BY <1>1, Invariance, PTL DEF JobQueueSpec, FinalStatesStay

(* A lease that is live at the true time is never handed to another        *)
(* claimer, however far the clocks of the callers lag behind.              *)
THEOREM LeaseIsExclusive == JobQueueSpec => LiveLeaseIsExclusive
<1>1. JobsOK /\ [JobQueueNext]_jobs =>
        [\A j \in Jobs : LeaseStep(jobs[j], jobs'[j])]_jobs
  BY StepsOK
<1> QED
  BY <1>1, Invariance, PTL DEF JobQueueSpec, LiveLeaseIsExclusive

-----------------------------------------------------------------------------
(* A record that exists goes on existing and keeps its key and request.    *)
LEMMA KeepsKey ==
  ASSUME NEW r, NEW s, RecordOK(r), RecordStep(r, s), r.status # "absent"
  PROVE  s.status # "absent" /\ s.key = r.key /\ s.request = r.request
<1> USE DEF RecordOK
<1> DEFINE Goal == s.status # "absent" /\ s.key = r.key /\ s.request = r.request
<1>1. ASSUME s = r PROVE Goal
  BY <1>1
<1>3. ASSUME NEW w \in Workers, NEW lag \in Lags, s = Granted(r, w, lag) PROVE Goal
  BY <1>3, GrantedFields
<1>4. ASSUME s = Released(r, "cancelled") PROVE Goal
  BY <1>4, ReleasedFields, StatusNames
<1>5. ASSUME s = Released(r, "failed") PROVE Goal
  BY <1>5, ReleasedFields, StatusNames
<1>6. ASSUME NEW lag \in Lags, s = Renewed(r, lag) PROVE Goal
  BY <1>6, RenewedFields
<1>7. ASSUME r.status \in Leased, s = Completed(r) PROVE Goal
  BY <1>7, CompletedFields
<1>8. ASSUME r.status \in Leased, NEW lag \in Lags, s = AttemptFailed(r, lag) PROVE Goal
  <2>1. r.attempt \in 1 .. r.max /\ r.max \in AttemptLimits
    BY <1>8, JobQueueAssumption DEF JobQueueAssumption, JobRecord, AttemptsOK, Leased
  <2>2. retryDelay(r.attempt) \in Nat
    BY <2>1, JobQueueAssumption, DelayIsNumber
  <2> QED
    BY <1>8, <2>2, AttemptFailedFields DEF FailStatus
<1>9. ASSUME s = CancelRequested(r) PROVE Goal
  <2>1. CASE r.status \in Terminal
    BY <1>9, <2>1, CancelRequestedCases
  <2>2. CASE r.status = "running"
    BY <1>9, <2>2, MarkedFields
  <2>3. CASE r.status \notin Terminal /\ r.status # "running"
    BY <1>4, <1>9, <2>3, CancelRequestedCases
  <2> QED
    BY <2>1, <2>2, <2>3
<1>10. ASSUME s = [r EXCEPT !.timer = @ - 1] PROVE Goal
  BY <1>10 DEF JobRecord
<1> QED
  BY <1>1, <1>3, <1>4, <1>5, <1>6, <1>7, <1>8, <1>9, <1>10 DEF RecordStep

(* Only Create brings a job into being, and only under a key that no job   *)
(* has; no other job changes with it.                                      *)
LEMMA OnlyCreateCreates ==
  ASSUME JobsOK, [JobQueueNext]_jobs, NEW k \in Jobs,
         jobs[k].status = "absent", jobs'[k] # jobs[k]
  PROVE  /\ \A i \in Jobs : jobs[i].key # jobs'[k].key
         /\ \A i \in Jobs \ {k} : jobs'[i] = jobs[i]
<1> TypeOK
  BY DEF JobsOK
<1> DEFINE Goal == /\ \A i \in Jobs : jobs[i].key # jobs'[k].key
                   /\ \A i \in Jobs \ {k} : jobs'[i] = jobs[i]
<1>1. ASSUME UNCHANGED jobs \/ Tick PROVE Goal
  BY <1>1 DEF Tick, Leased
<1>2. ASSUME NEW w \in Workers, NEW lag \in Lags, MemoryClaim(w, lag) PROVE Goal
  <2>1. /\ ~Claimable(jobs[k], lag) /\ ~ExpiredCancel(jobs[k], lag)
        /\ ~MemoryExhausted(jobs[k], lag)
    BY DEF Claimable, Eligible, ExpiredCancel, MemoryExhausted
  <2> QED
    BY <1>2, <2>1 DEF MemoryClaim
<1>3. ASSUME NEW w \in Workers, NEW lag \in Lags, NEW picked \in Picks,
             PostgresClaim(w, lag, picked)
      PROVE  Goal
  <2>1. /\ ~Claimable(jobs[k], lag) /\ ~ExpiredCancel(jobs[k], lag)
        /\ ~PostgresExhausted(jobs[k], lag)
    BY DEF Claimable, Eligible, ExpiredCancel, PostgresExhausted
  <2> QED
    BY <1>3, <2>1 DEF PostgresClaim
<1>4. ASSUME NEW j \in Jobs, NEW key, NEW request, NEW limit, NEW at,
             Create(j, key, request, limit, at)
      PROVE  Goal
  <2>1. j = k /\ jobs'[k] = Queued(key, request, limit, at)
    BY <1>4 DEF Create, TypeOK
  <2>2. jobs'[k].key = key
    BY <2>1 DEF Queued
  <2> QED
    BY <1>4, <2>1, <2>2 DEF Create, TypeOK
<1>5. ASSUME NEW j \in Jobs, NEW token, NEW lag \in Lags,
             \/ RenewLease(j, token, lag)
             \/ Succeed(j, token, lag)
             \/ Fail(j, token, lag)
      PROVE  Goal
  <2>1. j # k
    BY <1>5 DEF RenewLease, Succeed, Fail, Holds, Leased
  <2> QED
    BY <1>5, <2>1 DEF RenewLease, Succeed, Fail, TypeOK
<1>6. ASSUME NEW j \in Jobs, RequestCancel(j) PROVE Goal
  BY <1>6 DEF RequestCancel, TypeOK
<1>7. ASSUME NEW j \in Jobs, NEW v \in 1 .. jobs[j].version, RequestCancelIfVersion(j, v)
      PROVE  Goal
  <2>1. j # k
    BY <1>7 DEF JobsOK, RecordOK
  <2> QED
    BY <1>7, <2>1 DEF RequestCancelIfVersion, TypeOK
<1> QED
  BY <1>1, <1>2, <1>3, <1>4, <1>5, <1>6, <1>7 DEF JobQueueNext, Claim

(* An idempotency key names at most one job, whatever is created, retried  *)
(* or cancelled: the memory index and the unique column of PostgreSQL.     *)
THEOREM KeysNameOneJob == JobQueueSpec => []KeyNamesOneJob
<1>1. JobQueueInit => KeyNamesOneJob
  BY DEF JobQueueInit, KeyNamesOneJob, Absent
<1>2. JobsOK /\ KeyNamesOneJob /\ [JobQueueNext]_jobs => KeyNamesOneJob'
  <2> SUFFICES ASSUME JobsOK, KeyNamesOneJob, [JobQueueNext]_jobs,
                      NEW j \in Jobs, NEW k \in Jobs, j # k,
                      jobs'[j].status # "absent", jobs'[k].status # "absent"
               PROVE  jobs'[j].key # jobs'[k].key
    BY DEF KeyNamesOneJob
  <2>1. CASE jobs[j].status = "absent"
    BY <2>1, OnlyCreateCreates
  <2>2. CASE jobs[k].status = "absent"
    BY <2>2, OnlyCreateCreates
  <2>3. CASE jobs[j].status # "absent" /\ jobs[k].status # "absent"
    BY <2>3, NextIsPointwise, KeepsKey DEF JobsOK, KeyNamesOneJob
  <2> QED
    BY <2>1, <2>2, <2>3
<1> QED
  BY <1>1, <1>2, Invariance, PTL DEF JobQueueSpec

-----------------------------------------------------------------------------
(* The part of a record that the lifecycle of a job is about.              *)
LifeOf(r) == [status |-> r.status, attempt |-> r.attempt, max |-> r.max]

(* A row of the transition table that matches makes a step legal.          *)
LEMMA LegalRow ==
  ASSUME NEW r, NEW s, NEW row \in Lifecycle!TimelineRows, row.event # "none",
         r.status \in row.from, s.status = row.to,
         s.attempt - r.attempt \in row.started, s.attempt <= s.max,
         s.max = r.max \/ r.status = "absent"
  PROVE  Lifecycle!LegalStep(LifeOf(r), LifeOf(s))
BY DEF Lifecycle!LegalStep, Lifecycle!TimelineEvents, LifeOf

(* The rows of the table, one for each kind of stored change.              *)
LEMMA LegalChange ==
  ASSUME NEW r, NEW s, r.attempt \in Nat, s.attempt <= s.max,
         s.max = r.max \/ r.status = "absent",
         \/ r.status = "absent" /\ s.status = "queued" /\ s.attempt = r.attempt
         \/ /\ r.status \in {"queued", "retry_wait", "running"}
            /\ s.status = "running" /\ s.attempt = r.attempt + 1
         \/ r.status = "running" /\ s.attempt = r.attempt
            /\ s.status \in {"retry_wait", "cancel_requested", "succeeded"}
         \/ /\ r.status \in {"queued", "retry_wait", "running", "cancel_requested"}
            /\ s.status = "cancelled" /\ s.attempt = r.attempt
         \/ /\ r.status \in {"queued", "retry_wait", "running"}
            /\ s.status = "failed" /\ s.attempt = r.attempt
  PROVE  Lifecycle!LegalStep(LifeOf(r), LifeOf(s))
<1>1. ASSUME s.attempt = r.attempt PROVE s.attempt - r.attempt = 0
  BY <1>1
<1>2. ASSUME s.attempt = r.attempt + 1 PROVE s.attempt - r.attempt = 1
  BY <1>2
<1>3. CASE r.status = "absent" /\ s.status = "queued" /\ s.attempt = r.attempt
  BY <1>1, <1>3, LegalRow DEF Lifecycle!Row, Lifecycle!TimelineRows
<1>4. CASE /\ r.status \in {"queued", "retry_wait", "running"}
           /\ s.status = "running" /\ s.attempt = r.attempt + 1
  BY <1>2, <1>4, LegalRow DEF Lifecycle!Row, Lifecycle!TimelineRows, Lifecycle!Startable
<1>5. CASE r.status = "running" /\ s.attempt = r.attempt /\ s.status = "retry_wait"
  BY <1>1, <1>5, LegalRow DEF Lifecycle!Row, Lifecycle!TimelineRows
<1>6. CASE r.status = "running" /\ s.attempt = r.attempt /\ s.status = "cancel_requested"
  BY <1>1, <1>6, LegalRow DEF Lifecycle!Row, Lifecycle!TimelineRows
<1>7. CASE r.status = "running" /\ s.attempt = r.attempt /\ s.status = "succeeded"
  BY <1>1, <1>7, LegalRow DEF Lifecycle!Row, Lifecycle!TimelineRows
<1>8. CASE /\ r.status \in {"queued", "retry_wait", "running", "cancel_requested"}
           /\ s.status = "cancelled" /\ s.attempt = r.attempt
  BY <1>1, <1>8, LegalRow DEF Lifecycle!Row, Lifecycle!TimelineRows, Lifecycle!Startable
<1>9. CASE /\ r.status \in {"queued", "retry_wait", "running"}
           /\ s.status = "failed" /\ s.attempt = r.attempt
  BY <1>1, <1>9, LegalRow DEF Lifecycle!Row, Lifecycle!TimelineRows, Lifecycle!Startable
<1> QED
  BY <1>3, <1>4, <1>5, <1>6, <1>7, <1>8, <1>9

(* Every step of a record is a legal step of its lifecycle, or none.       *)
LEMMA RecordStepLegal ==
  ASSUME NEW r, NEW s, RecordOK(r), RecordStep(r, s)
  PROVE  Lifecycle!LegalStep(LifeOf(r), LifeOf(s))
<1> USE DEF RecordOK
<1> DEFINE Goal == Lifecycle!LegalStep(LifeOf(r), LifeOf(s))
<1>0. /\ r.attempt \in Nat /\ r.max \in Nat /\ r.attempt <= r.max
      /\ r.status \in {"absent", "queued", "retry_wait", "running", "cancel_requested"}
                        \cup Terminal
  BY DEF JobRecord, AttemptsOK, Statuses, Leased
<1>1. ASSUME s.status = r.status, s.attempt = r.attempt, s.max = r.max PROVE Goal
  BY <1>1 DEF LifeOf, Lifecycle!LegalStep
<1>2. ASSUME r.status = "absent", NEW key \in Keys, NEW request \in Requests,
             NEW limit \in AttemptLimits, NEW at \in Nat,
             s = Queued(key, request, limit, at)
      PROVE  Goal
  <2>1. s.status = "queued" /\ s.attempt = 0 /\ s.max = limit
    BY <1>2 DEF Queued
  <2>2. limit \in Nat /\ r.attempt = 0
    BY <1>2, JobQueueAssumption DEF JobQueueAssumption, AttemptsOK
  <2> QED
    BY <1>0, <1>2, <2>1, <2>2, LegalChange
<1>3. ASSUME NEW w \in Workers, NEW lag \in Lags, Claimable(r, lag),
             s = Granted(r, w, lag)
      PROVE  Goal
  <2>1. r.status \in {"queued", "retry_wait", "running"} /\ r.attempt < r.max
    BY <1>3 DEF Claimable, Eligible
  <2>2. s.status = "running" /\ s.attempt = r.attempt + 1 /\ s.max = r.max
    BY <1>3, GrantedFields
  <2> QED
    BY <1>0, <2>1, <2>2, LegalChange
<1>4. ASSUME r.status \notin Terminal \cup {"absent"}, s = Released(r, "cancelled")
      PROVE  Goal
  <2>1. s.status = "cancelled" /\ s.attempt = r.attempt /\ s.max = r.max
    BY <1>4, ReleasedFields, StatusNames
  <2> QED
    BY <1>0, <1>4, <2>1, LegalChange
<1>5. ASSUME NEW lag \in Lags, MemoryExhausted(r, lag) \/ PostgresExhausted(r, lag),
             s = Released(r, "failed")
      PROVE  Goal
  <2>1. r.status \in {"queued", "retry_wait", "running"}
    BY <1>5 DEF MemoryExhausted, PostgresExhausted, Eligible
  <2>2. s.status = "failed" /\ s.attempt = r.attempt /\ s.max = r.max
    BY <1>5, ReleasedFields, StatusNames
  <2> QED
    BY <1>0, <2>1, <2>2, LegalChange
<1>6. ASSUME NEW lag \in Lags, s = Renewed(r, lag) PROVE Goal
  BY <1>1, <1>6, RenewedFields
<1>7. ASSUME r.status \in Leased, s = Completed(r) PROVE Goal
  <2>1. /\ s.status = IF r.status = "cancel_requested" THEN "cancelled" ELSE "succeeded"
        /\ s.attempt = r.attempt /\ s.max = r.max
    BY <1>7, CompletedFields
  <2> QED
    BY <1>0, <1>7, <2>1, LegalChange DEF Leased
<1>8. ASSUME r.status \in Leased, NEW lag \in Lags, s = AttemptFailed(r, lag) PROVE Goal
  <2>1. r.attempt \in 1 .. r.max /\ r.max \in AttemptLimits
    BY <1>8, JobQueueAssumption DEF JobQueueAssumption, JobRecord, AttemptsOK, Leased
  <2>2. retryDelay(r.attempt) \in Nat
    BY <2>1, JobQueueAssumption, DelayIsNumber
  <2>3. s.status = FailStatus(r) /\ s.attempt = r.attempt /\ s.max = r.max
    BY <1>8, <2>2, AttemptFailedFields
  <2> QED
    BY <1>0, <1>8, <2>3, LegalChange DEF FailStatus, Leased
<1>9. ASSUME r.status # "absent", s = CancelRequested(r) PROVE Goal
  <2>1. CASE r.status \in Terminal
    BY <1>1, <1>9, <2>1, CancelRequestedCases
  <2>2. CASE r.status = "running"
    <3>1. s.status = "cancel_requested" /\ s.attempt = r.attempt /\ s.max = r.max
      BY <1>9, <2>2, MarkedFields
    <3> QED
      BY <1>0, <2>2, <3>1, LegalChange
  <2>3. CASE r.status \notin Terminal /\ r.status # "running"
    BY <1>4, <1>9, <2>3, CancelRequestedCases
  <2> QED
    BY <2>1, <2>2, <2>3
<1>10. ASSUME s = [r EXCEPT !.timer = @ - 1] PROVE Goal
  BY <1>1, <1>10 DEF JobRecord
<1>11. ASSUME NEW lag \in Lags, ExpiredCancel(r, lag)
       PROVE  r.status \notin Terminal \cup {"absent"}
  BY <1>11 DEF ExpiredCancel, Terminal
<1>12. ASSUME s = r PROVE Goal
  BY <1>1, <1>12
<1> QED
  BY <1>2, <1>3, <1>4, <1>5, <1>6, <1>7, <1>8, <1>9, <1>10, <1>11, <1>12 DEF RecordStep

(* The repository, in either implementation, implements the job lifecycle  *)
(* that TimelineEntryFromTransition accepts: every call takes each job     *)
(* through at most one legal transition.                                   *)
THEOREM LifecycleImplemented == JobQueueSpec => ImplementsLifecycle
<1>1. JobQueueInit => Lifecycle!LifeInit
  BY DEF JobQueueInit, Absent, Lifecycle!LifeInit
<1>2. JobsOK /\ [JobQueueNext]_jobs => Lifecycle!LifeNext
  <2> SUFFICES ASSUME JobsOK, [JobQueueNext]_jobs, NEW j \in Jobs
               PROVE  Lifecycle!LegalStep(LifeOf(jobs[j]), LifeOf(jobs'[j]))
    BY DEF Lifecycle!LifeNext, LifeOf
  <2> QED
    BY NextIsPointwise, RecordStepLegal DEF JobsOK
<1> QED
  BY <1>1, <1>2, Invariance, PTL DEF JobQueueSpec, ImplementsLifecycle, Lifecycle!LifeSpec

-----------------------------------------------------------------------------
(* Workers and operators (JobWorkers).                                     *)


RunRecord ==
  [step: Steps, job: Jobs \cup {NoJob}, token: Nat, attempt: Nat,
   renewal: {"off", "on", "failed"}]

ReviewRecord ==
  [job: Jobs \cup {NoJob}, status: Statuses, attempt: Nat, token: Nat,
   output: {"none", "success", "failure"}, version: Nat]

(* What the worker learned at its claim, against the record of the job: it *)
(* is of the past or of the present, and its token is current exactly when *)
(* its attempt is and the job is still leased.                             *)
RunHolds(run, r) ==
  /\ run.token \in 1 .. r.version
  /\ run.attempt \in 1 .. r.attempt
  /\ r.token = run.token <=> r.status \in Leased /\ run.attempt = r.attempt

(* A run that is past a step has left the trace of that step.              *)
RunLeftTraces(run, ran, passed) ==
  /\ run.step \in {"executing", "executed", "verifying", "verified", "succeeding"} =>
       <<run.job, run.attempt>> \in ran
  /\ run.step \in {"verified", "succeeding"} => <<run.job, run.attempt>> \in passed

RunOK(run) ==
  /\ run.step = "idle" => run = Idle
  /\ run.step # "idle" => run.job \in Jobs /\ RunHolds(run, jobs[run.job])
  /\ RunLeftTraces(run, executed, verified)

RunsDiffer ==
  \A v, w \in Workers :
    v # w /\ worker[v].job # NoJob /\ worker[v].job = worker[w].job =>
      /\ worker[v].token # worker[w].token
      /\ worker[v].attempt # worker[w].attempt

(* A review shows a version that existed, and what it shows is what the    *)
(* job still is unless the version has moved on.                           *)
ReviewMatches(seen, r) ==
  /\ seen.version \in 1 .. r.version
  /\ r.version = seen.version =>
       /\ r.status = seen.status
       /\ r.attempt = seen.attempt
       /\ r.token = seen.token
       /\ r.output = seen.output

ReviewOK(seen) == seen.job # NoJob => ReviewMatches(seen, jobs[seen.job])

WorkersTyped ==
  /\ worker \in [Workers -> RunRecord]
  /\ review \in [Operators -> ReviewRecord]

(* The inductive invariant.                                                *)
WorkersOK ==
  /\ JobsOK
  /\ WorkersTyped
  /\ \A w \in Workers : RunOK(worker[w])
  /\ RunsDiffer
  /\ SuccessWasVerified
  /\ \A o \in Operators : ReviewOK(review[o])

-----------------------------------------------------------------------------
(* What a step of a record means for a token: a new attempt comes with a   *)
(* token above every version before it, and without one a lease can only   *)
(* be kept or lost.                                                        *)
LEMMA RecordStepFences ==
  ASSUME NEW r, NEW s, RecordOK(r), RecordStep(r, s)
  PROVE  /\ s.version \in {r.version, r.version + 1}
         /\ s.attempt # r.attempt =>
              /\ s.attempt = r.attempt + 1
              /\ s.status = "running"
              /\ s.token = r.version + 1
              /\ s.version = r.version + 1
         /\ s.attempt = r.attempt /\ s.status \in Leased =>
              r.status \in Leased /\ s.token = r.token
<1> USE DEF RecordOK
<1> DEFINE Goal ==
      /\ s.version \in {r.version, r.version + 1}
      /\ s.attempt # r.attempt =>
           /\ s.attempt = r.attempt + 1
           /\ s.status = "running"
           /\ s.token = r.version + 1
           /\ s.version = r.version + 1
      /\ s.attempt = r.attempt /\ s.status \in Leased =>
           r.status \in Leased /\ s.token = r.token
<1>1. ASSUME s = r PROVE Goal
  BY <1>1
<1>2. ASSUME r.status = "absent", NEW key \in Keys, NEW request \in Requests,
             NEW limit \in AttemptLimits, NEW at \in Nat,
             s = Queued(key, request, limit, at)
      PROVE  Goal
  BY <1>2 DEF Queued, AttemptsOK, JobRecord, Leased
<1>3. ASSUME NEW w \in Workers, NEW lag \in Lags, s = Granted(r, w, lag)
      PROVE  Goal
  BY <1>3, GrantedFields DEF JobRecord
<1>4. ASSUME s = Released(r, "cancelled") PROVE Goal
  BY <1>4, ReleasedFields, StatusNames DEF Leased
<1>5. ASSUME s = Released(r, "failed") PROVE Goal
  BY <1>5, ReleasedFields, StatusNames DEF Leased
<1>6. ASSUME NEW lag \in Lags, s = Renewed(r, lag) PROVE Goal
  BY <1>6, RenewedFields
<1>7. ASSUME r.status \in Leased, s = Completed(r) PROVE Goal
  BY <1>7, CompletedFields DEF Leased
<1>8. ASSUME r.status \in Leased, NEW lag \in Lags, s = AttemptFailed(r, lag) PROVE Goal
  <2>1. r.attempt \in 1 .. r.max /\ r.max \in AttemptLimits
    BY <1>8, JobQueueAssumption DEF JobQueueAssumption, JobRecord, AttemptsOK, Leased
  <2>2. retryDelay(r.attempt) \in Nat
    BY <2>1, JobQueueAssumption, DelayIsNumber
  <2> QED
    BY <1>8, <2>2, AttemptFailedFields DEF FailStatus, Leased
<1>9. ASSUME s = CancelRequested(r) PROVE Goal
  <2>1. CASE r.status \in Terminal
    BY <1>1, <1>9, <2>1, CancelRequestedCases
  <2>2. CASE r.status = "running"
    BY <1>9, <2>2, MarkedFields DEF Leased
  <2>3. CASE r.status \notin Terminal /\ r.status # "running"
    BY <1>4, <1>9, <2>3, CancelRequestedCases
  <2> QED
    BY <2>1, <2>2, <2>3
<1>10. ASSUME s = [r EXCEPT !.timer = @ - 1] PROVE Goal
  BY <1>10 DEF JobRecord
<1> QED
  BY <1>1, <1>2, <1>3, <1>4, <1>5, <1>6, <1>7, <1>8, <1>9, <1>10 DEF RecordStep

(* Whatever happens to its job, what a run learned stays true of it.       *)
LEMMA RunSurvives ==
  ASSUME NEW run \in RunRecord, NEW r, NEW s, RecordOK(r), RecordOK(s),
         RecordStep(r, s), RunHolds(run, r)
  PROVE  RunHolds(run, s)
<1>1. /\ r.version \in Nat /\ r.attempt \in Nat /\ r.token \in Nat
      /\ s.version \in Nat /\ s.attempt \in Nat /\ s.token \in Nat
      /\ run.token \in Nat /\ run.attempt \in Nat
  BY DEF RecordOK, JobRecord, RunRecord
<1>2. s.status \in Leased <=> s.token # 0
  BY DEF RecordOK, LeaseOK
<1> QED
  BY <1>1, <1>2, RecordStepFences DEF RunHolds, Leased

(* Whatever happens to its job, a review stays a true review of it.        *)
LEMMA ReviewSurvives ==
  ASSUME NEW seen \in ReviewRecord, NEW r, NEW s, RecordOK(r), RecordStep(r, s),
         ReviewMatches(seen, r)
  PROVE  ReviewMatches(seen, s)
<1>1. r \in JobRecord /\ r.version \in Nat /\ seen.version \in Nat
  BY DEF RecordOK, JobRecord, ReviewRecord
<1>2. \/ s = r
      \/ s.version = r.version + 1
      \/ s = [r EXCEPT !.timer = s.timer]
  BY RecordStepIs DEF VersionStep
<1>3. CASE s = [r EXCEPT !.timer = s.timer]
  <2>1. /\ s.version = r.version /\ s.status = r.status /\ s.attempt = r.attempt
        /\ s.token = r.token /\ s.output = r.output
    BY <1>1, <1>3 DEF JobRecord
  <2> QED
    BY <2>1 DEF ReviewMatches
<1> QED
  BY <1>1, <1>2, <1>3 DEF ReviewMatches

-----------------------------------------------------------------------------
(* Every step of a worker, an operator or the server is a step of the      *)
(* repository or leaves it alone: a worker presents only tokens that were  *)
(* issued, an operator only versions that existed.                         *)
LEMMA StepIsQueueStep ==
  ASSUME WorkersOK, [JobWorkersNext]_wvars
  PROVE  [JobQueueNext]_jobs
<1> USE DEF WorkersOK, WorkersTyped
<1>1. ASSUME UNCHANGED wvars PROVE UNCHANGED jobs
  BY <1>1 DEF wvars
<1>2. ASSUME Pass PROVE JobQueueNext
  BY <1>2 DEF Pass, JobQueueNext
<1>3. ASSUME Admit PROVE JobQueueNext
  BY <1>3 DEF Admit, JobQueueNext
<1>4. ASSUME NEW w \in Workers, WorkerClaim(w) PROVE JobQueueNext
  BY <1>4 DEF WorkerClaim, JobQueueNext
<1>5. ASSUME NEW w \in Workers, ~At(w, "idle")
      PROVE  worker[w].job \in Jobs /\ worker[w].token \in Tokens(worker[w].job)
  BY <1>5 DEF At, RunOK, RunHolds, Tokens
<1>6. ASSUME NEW w \in Workers, Renew(w) PROVE JobQueueNext
  <2>1. ~At(w, "idle")
    BY <1>6 DEF Renew, Renewing, At, RunOK, Idle
  <2> QED
    BY <1>5, <1>6, <2>1 DEF Renew, JobQueueNext
<1>7. ASSUME NEW w \in Workers, Report(w) PROVE [JobQueueNext]_jobs
  <2>1. ~At(w, "idle")
    BY <1>7 DEF Report, At
  <2> QED
    BY <1>5, <1>7, <2>1 DEF Report, JobQueueNext
<1>8. ASSUME NEW w \in Workers,
             \/ Refuse(w) \/ BeginExecute(w) \/ EndExecute(w) \/ CheckCancellation(w)
             \/ EndVerify(w) \/ StopRenewal(w) \/ RenewalFails(w) \/ Crash(w)
      PROVE  UNCHANGED jobs
  BY <1>8 DEF Refuse, BeginExecute, EndExecute, CheckCancellation, EndVerify,
    StopRenewal, RenewalFails, Crash
<1>9. ASSUME NEW o \in Operators, CancelReviewed(o) PROVE [JobQueueNext]_jobs
  <2> DEFINE j == review[o].job
  <2>1. j \in Jobs /\ review[o].version \in 1 .. jobs[j].version
    BY <1>9 DEF CancelReviewed, ReviewRecord, ReviewOK, ReviewMatches
  <2> QED
    BY <1>9, <2>1 DEF CancelReviewed, JobQueueNext
<1>10. ASSUME NEW o \in Operators, NEW j \in Jobs, Review(o, j) PROVE UNCHANGED jobs
  BY <1>10 DEF Review
<1> QED
  BY <1>1, <1>2, <1>3, <1>4, <1>6, <1>7, <1>8, <1>9, <1>10 DEF JobWorkersNext, WorkerRun

(* What a step means for each record, restated for the workers.            *)
LEMMA RecordsStep ==
  ASSUME WorkersOK, [JobWorkersNext]_wvars
  PROVE  /\ JobsOK'
         /\ \A j \in Jobs : /\ RecordOK(jobs[j]) /\ RecordOK(jobs'[j])
                            /\ RecordStep(jobs[j], jobs'[j])
<1>1. JobsOK /\ [JobQueueNext]_jobs
  BY StepIsQueueStep DEF WorkersOK
<1>2. JobsOK'
  BY <1>1, NextOK
<1> QED
  BY <1>1, <1>2, NextIsPointwise DEF JobsOK

(* A run that goes on, or waits while others act, keeps what it learned.   *)
LEMMA RunKeeps ==
  ASSUME WorkersOK, [JobWorkersNext]_wvars, NEW w \in Workers, ~At(w, "idle")
  PROVE  worker[w].job \in Jobs /\ RunHolds(worker[w], jobs'[worker[w].job])
<1>1. /\ worker[w].job \in Jobs /\ RunHolds(worker[w], jobs[worker[w].job])
      /\ worker[w] \in RunRecord
  BY DEF WorkersOK, WorkersTyped, RunOK, At
<1> QED
  BY <1>1, RecordsStep, RunSurvives

(* A review that is not replaced stays true.                               *)
LEMMA ReviewKeeps ==
  ASSUME WorkersOK, [JobWorkersNext]_wvars, NEW o \in Operators,
         review[o].job # NoJob
  PROVE  ReviewMatches(review[o], jobs'[review[o].job])
<1>1. /\ review[o] \in ReviewRecord /\ review[o].job \in Jobs
      /\ ReviewMatches(review[o], jobs[review[o].job])
  BY DEF WorkersOK, WorkersTyped, ReviewRecord, ReviewOK
<1> QED
  BY <1>1, RecordsStep, ReviewSurvives

-----------------------------------------------------------------------------
(* Traces are never erased.                                                *)
LEMMA TracesGrow ==
  ASSUME [JobWorkersNext]_wvars
  PROVE  executed \subseteq executed' /\ verified \subseteq verified'
BY DEF wvars, JobWorkersNext, WorkerRun, Pass, Admit, WorkerClaim, Refuse, BeginExecute,
  EndExecute, CheckCancellation, EndVerify, StopRenewal, Report, Renew, RenewalFails,
  Crash, CancelReviewed, Review

(* The runs of workers that do not act stay as they are.                   *)
LEMMA OtherRunsOK ==
  ASSUME WorkersOK, [JobWorkersNext]_wvars, NEW v \in Workers, worker'[v] = worker[v]
  PROVE  RunOK(worker[v])'
<1>1. RunOK(worker[v])
  BY DEF WorkersOK
<1>2. worker[v].step # "idle" =>
        worker[v].job \in Jobs /\ RunHolds(worker[v], jobs'[worker[v].job])
  BY RunKeeps DEF At
<1> QED
  BY <1>1, <1>2, TracesGrow DEF RunOK, RunLeftTraces

RunsOK ==
  /\ worker \in [Workers -> RunRecord]
  /\ \A w \in Workers : RunOK(worker[w])
  /\ RunsDiffer

(* A worker that moves on within its run, or drops it, disturbs nobody.    *)
LEMMA RunMovesOn ==
  ASSUME WorkersOK, [JobWorkersNext]_wvars, NEW w \in Workers, NEW run \in RunRecord,
         ~At(w, "idle"), worker' = [worker EXCEPT ![w] = run],
         \/ run = Idle
         \/ /\ run.step # "idle" /\ run.job = worker[w].job
            /\ run.token = worker[w].token /\ run.attempt = worker[w].attempt
            /\ RunLeftTraces(run, executed', verified')
  PROVE  RunsOK'
<1>1. /\ worker \in [Workers -> RunRecord] /\ RunsDiffer
  BY DEF WorkersOK, WorkersTyped
<1>2. worker' \in [Workers -> RunRecord] /\ worker'[w] = run
  BY <1>1
<1>3. \A v \in Workers \ {w} : worker'[v] = worker[v]
  BY <1>1
<1>4. RunOK(worker[w])'
  <2>1. CASE run = Idle
    BY <1>2, <2>1 DEF RunOK, RunLeftTraces, Idle
  <2>2. CASE run # Idle
    <3>1. worker[w].job \in Jobs /\ RunHolds(worker[w], jobs'[worker[w].job])
      BY RunKeeps
    <3> QED
      BY <1>2, <2>2, <3>1 DEF RunOK, RunHolds, RunLeftTraces
  <2> QED
    BY <2>1, <2>2
<1>5. \A v \in Workers : RunOK(worker[v])'
  BY <1>3, <1>4, OtherRunsOK
<1>6. RunsDiffer'
  BY <1>1, <1>2, <1>3 DEF RunsDiffer, Idle
<1> QED
  BY <1>2, <1>5, <1>6 DEF RunsOK

(* A claim starts a run under a token and an attempt no other run has.     *)
LEMMA ClaimKeepsRuns ==
  ASSUME WorkersOK, [JobWorkersNext]_wvars, NEW w \in Workers, WorkerClaim(w)
  PROVE  RunsOK'
<1>1. /\ worker \in [Workers -> RunRecord] /\ RunsDiffer
      /\ \A v \in Workers : RunOK(worker[v])
  BY DEF WorkersOK, WorkersTyped
<1>2. CASE UNCHANGED worker
  BY <1>1, <1>2, OtherRunsOK DEF RunsOK, RunsDiffer
<1>3. ASSUME NEW j \in Jobs, jobs'[j].attempt > jobs[j].attempt,
             worker' = [worker EXCEPT ![w] =
               [step |-> "claimed", job |-> j, token |-> jobs'[j].token,
                attempt |-> jobs'[j].attempt, renewal |-> "on"]]
      PROVE  RunsOK'
  <2> DEFINE run == [step |-> "claimed", job |-> j, token |-> jobs'[j].token,
                     attempt |-> jobs'[j].attempt, renewal |-> "on"]
  <2>1. /\ RecordOK(jobs[j]) /\ RecordOK(jobs'[j]) /\ RecordStep(jobs[j], jobs'[j])
    BY RecordsStep
  <2>2. /\ jobs[j].version \in Nat /\ jobs[j].attempt \in Nat
        /\ jobs'[j].attempt \in Nat /\ jobs'[j].token \in Nat
    BY <2>1 DEF RecordOK, JobRecord
  <2>3. /\ jobs'[j].attempt = jobs[j].attempt + 1 /\ jobs'[j].status = "running"
        /\ jobs'[j].token = jobs[j].version + 1 /\ jobs'[j].version = jobs[j].version + 1
    BY <1>3, <2>1, <2>2, RecordStepFences
  <2>4. run \in RunRecord
    BY <2>2 DEF RunRecord, Steps
  <2>5. worker' \in [Workers -> RunRecord] /\ worker'[w] = run
    BY <1>1, <1>3, <2>4
  <2>6. \A v \in Workers \ {w} : worker'[v] = worker[v]
    BY <1>1, <1>3
  <2>7. RunHolds(run, jobs'[j])
    BY <2>2, <2>3 DEF RunHolds, Leased
  <2>8. RunOK(worker[w])'
    BY <2>5, <2>7 DEF RunOK, RunLeftTraces
  <2>9. \A v \in Workers : RunOK(worker[v])'
    BY <2>6, <2>8, OtherRunsOK
  <2>10. ASSUME NEW v \in Workers \ {w}, worker[v].job = j
         PROVE  worker[v].token # run.token /\ worker[v].attempt # run.attempt
    <3>1. worker[v].step # "idle"
      BY <1>1, <2>10, JobWorkersAssumption DEF JobWorkersAssumption, RunOK, Idle
    <3>2. RunHolds(worker[v], jobs[j])
      BY <1>1, <2>10, <3>1 DEF RunOK
    <3> QED
      BY <2>2, <2>3, <3>2 DEF RunHolds
  <2>11. RunsDiffer'
    BY <1>1, <2>5, <2>6, <2>10 DEF RunsDiffer
  <2> QED
    BY <2>5, <2>9, <2>11 DEF RunsOK
<1> QED
  BY <1>2, <1>3 DEF WorkerClaim

(* Every step keeps the runs in order.                                     *)
LEMMA RunsStayOK ==
  ASSUME WorkersOK, [JobWorkersNext]_wvars
  PROVE  RunsOK'
<1>1. /\ worker \in [Workers -> RunRecord] /\ RunsDiffer
      /\ \A w \in Workers : RunOK(worker[w]) /\ worker[w] \in RunRecord
  BY DEF WorkersOK, WorkersTyped
<1>2. ASSUME UNCHANGED worker PROVE RunsOK'
  BY <1>1, <1>2, OtherRunsOK DEF RunsOK, RunsDiffer
<1>3. ASSUME NEW w \in Workers, NEW step \in Steps \ {"idle"}, ~At(w, "idle"),
             GoTo(w, step),
             RunLeftTraces([worker[w] EXCEPT !.step = step], executed', verified')
      PROVE  RunsOK'
  <2> DEFINE run == [worker[w] EXCEPT !.step = step]
  <2>1. /\ run \in RunRecord /\ run.step = step /\ run.job = worker[w].job
        /\ run.token = worker[w].token /\ run.attempt = worker[w].attempt
    BY <1>1 DEF RunRecord
  <2>2. worker' = [worker EXCEPT ![w] = run]
    BY <1>3 DEF GoTo
  <2>3. RunLeftTraces(run, executed', verified')
    BY <1>3
  <2>4. step # "idle"
    OBVIOUS
  <2> HIDE DEF run
  <2> QED
    BY <1>3, <2>1, <2>2, <2>3, <2>4, RunMovesOn
<1>4. ASSUME NEW w \in Workers, ~At(w, "idle"), worker' = [worker EXCEPT ![w] = Idle]
      PROVE  RunsOK'
  <2>1. Idle \in RunRecord
    BY DEF Idle, RunRecord, Steps
  <2> QED
    BY <1>4, <2>1, RunMovesOn
<1>5. ASSUME NEW w \in Workers, NEW step
      PROVE  /\ [worker[w] EXCEPT !.step = step].step = step
             /\ [worker[w] EXCEPT !.step = step].job = worker[w].job
             /\ [worker[w] EXCEPT !.step = step].attempt = worker[w].attempt
  BY <1>1 DEF RunRecord
<1>6. ASSUME NEW w \in Workers, Refuse(w) PROVE RunsOK'
  BY <1>3, <1>5, <1>6 DEF Refuse, At, Steps, RunLeftTraces
<1>7. ASSUME NEW w \in Workers, BeginExecute(w) PROVE RunsOK'
  <2>1. <<worker[w].job, worker[w].attempt>> \in executed'
    BY <1>7 DEF BeginExecute, Attempt
  <2>2. RunLeftTraces([worker[w] EXCEPT !.step = "executing"], executed', verified')
    BY <1>5, <2>1 DEF RunLeftTraces
  <2> QED
    BY <1>3, <1>7, <2>2 DEF BeginExecute, At, Steps
<1>8. ASSUME NEW w \in Workers, EndExecute(w) PROVE RunsOK'
  <2>1. <<worker[w].job, worker[w].attempt>> \in executed'
    BY <1>1, <1>8 DEF EndExecute, At, RunOK, RunLeftTraces
  <2>2. /\ RunLeftTraces([worker[w] EXCEPT !.step = "executed"], executed', verified')
        /\ RunLeftTraces([worker[w] EXCEPT !.step = "failing"], executed', verified')
    BY <1>5, <2>1 DEF RunLeftTraces
  <2> QED
    BY <1>3, <1>8, <2>2 DEF EndExecute, At, Steps
<1>9. ASSUME NEW w \in Workers, CheckCancellation(w) PROVE RunsOK'
  <2>1. <<worker[w].job, worker[w].attempt>> \in executed'
    BY <1>1, <1>9 DEF CheckCancellation, At, RunOK, RunLeftTraces
  <2>2. /\ RunLeftTraces([worker[w] EXCEPT !.step = "verifying"], executed', verified')
        /\ RunLeftTraces([worker[w] EXCEPT !.step = "failing"], executed', verified')
    BY <1>5, <2>1 DEF RunLeftTraces
  <2> QED
    BY <1>3, <1>9, <2>2 DEF CheckCancellation, At, Steps
<1>10. ASSUME NEW w \in Workers, EndVerify(w) PROVE RunsOK'
  <2>1. <<worker[w].job, worker[w].attempt>> \in executed'
    BY <1>1, <1>10 DEF EndVerify, At, RunOK, RunLeftTraces
  <2>2. RunLeftTraces([worker[w] EXCEPT !.step = "failing"], executed', verified')
    BY <1>5 DEF RunLeftTraces
  <2>3. CASE GoTo(w, "verified") /\ verified' = verified \cup {Attempt(w)}
    <3>1. <<worker[w].job, worker[w].attempt>> \in verified'
      BY <2>3 DEF Attempt
    <3>2. RunLeftTraces([worker[w] EXCEPT !.step = "verified"], executed', verified')
      BY <1>5, <2>1, <3>1 DEF RunLeftTraces
    <3> QED
      BY <1>3, <1>10, <2>3, <3>2 DEF EndVerify, At, Steps
  <2> QED
    BY <1>3, <1>10, <2>2, <2>3 DEF EndVerify, At, Steps
<1>11. ASSUME NEW w \in Workers, StopRenewal(w) PROVE RunsOK'
  <2>1. ~At(w, "idle")
    BY <1>11 DEF StopRenewal, At
  <2>2. CASE worker[w].renewal = "failed"
    BY <1>1, <1>4, <1>11, <2>1, <2>2 DEF StopRenewal
  <2>3. CASE worker[w].renewal # "failed"
    <3> DEFINE step == IF At(w, "verified") THEN "succeeding" ELSE "recording"
               run == [worker[w] EXCEPT !.renewal = "off", !.step = step]
    <3>1. worker' = [worker EXCEPT ![w] = run]
      BY <1>1, <1>11, <2>3 DEF StopRenewal
    <3>2. /\ run \in RunRecord /\ run.step = step /\ run.job = worker[w].job
          /\ run.token = worker[w].token /\ run.attempt = worker[w].attempt
      BY <1>1 DEF RunRecord, Steps
    <3>3. RunLeftTraces(run, executed', verified')
      BY <1>1, <1>11, <3>2 DEF StopRenewal, At, RunOK, RunLeftTraces
    <3>4. step # "idle"
      OBVIOUS
    <3> HIDE DEF run, step
    <3> QED
      BY <2>1, <3>1, <3>2, <3>3, <3>4, RunMovesOn
  <2> QED
    BY <2>2, <2>3
<1>12. ASSUME NEW w \in Workers, RenewalFails(w) PROVE RunsOK'
  <2> DEFINE run == [worker[w] EXCEPT !.renewal = "failed"]
  <2>1. ~At(w, "idle")
    BY <1>1, <1>12 DEF RenewalFails, Renewing, At, RunOK, Idle
  <2>2. worker' = [worker EXCEPT ![w] = run]
    BY <1>12 DEF RenewalFails
  <2>3. /\ run \in RunRecord /\ run.step = worker[w].step /\ run.job = worker[w].job
        /\ run.token = worker[w].token /\ run.attempt = worker[w].attempt
    BY <1>1 DEF RunRecord
  <2>4. RunLeftTraces(run, executed', verified')
    BY <1>1, <1>12, <2>3 DEF RenewalFails, RunOK, RunLeftTraces
  <2>5. run.step # "idle"
    BY <2>1, <2>3 DEF At
  <2> HIDE DEF run
  <2> QED
    BY <2>1, <2>2, <2>3, <2>4, <2>5, RunMovesOn
<1>13. ASSUME NEW w \in Workers, Report(w) \/ Crash(w) PROVE RunsOK'
  BY <1>4, <1>13 DEF Report, Crash, At
<1>14. CASE UNCHANGED wvars
  BY <1>2, <1>14 DEF wvars
<1>15. CASE Pass
  BY <1>2, <1>15 DEF Pass
<1>16. CASE Admit
  BY <1>2, <1>16 DEF Admit
<1>17. ASSUME NEW w \in Workers, Renew(w) PROVE RunsOK'
  BY <1>2, <1>17 DEF Renew
<1>18. ASSUME NEW o \in Operators, CancelReviewed(o) \/ \E j \in Jobs : Review(o, j)
       PROVE  RunsOK'
  BY <1>2, <1>18 DEF CancelReviewed, Review
<1> QED
  BY <1>6, <1>7, <1>8, <1>9, <1>10, <1>11, <1>12, <1>13, <1>14, <1>15, <1>16, <1>17,
    <1>18, ClaimKeepsRuns DEF JobWorkersNext, WorkerRun

-----------------------------------------------------------------------------
(* A job that is marked succeeded by a step was reported by the run of its *)
(* current attempt, which had verified it.                                 *)
LEMMA SuccessStaysVerified ==
  ASSUME WorkersOK, [JobWorkersNext]_wvars
  PROVE  SuccessWasVerified'
<1> USE DEF WorkersOK
<1> DEFINE Untouched(j) == jobs'[j].status = "succeeded" => jobs[j].status = "succeeded"
<1>1. ASSUME NEW j \in Jobs, jobs[j].status = "succeeded"
      PROVE  jobs'[j] = jobs[j]
  BY <1>1, RecordsStep, RecordStepIs DEF FinalStep, Terminal
<1>2. ASSUME \A j \in Jobs : Untouched(j) PROVE SuccessWasVerified'
  BY <1>1, <1>2, TracesGrow DEF SuccessWasVerified
<1>3. \A j \in Jobs : jobs[j] \in JobRecord /\ RecordOK(jobs[j])
  BY DEF JobsOK, RecordOK
<1>4. jobs \in [Jobs -> JobRecord]
  BY DEF JobsOK, TypeOK
<1>5. ASSUME UNCHANGED jobs PROVE SuccessWasVerified'
  BY <1>2, <1>5
<1>6. ASSUME Tick PROVE SuccessWasVerified'
  <2>1. ASSUME NEW j \in Jobs PROVE jobs'[j].status = jobs[j].status
    BY <1>3, <1>6 DEF Tick, JobRecord
  <2> QED
    BY <1>2, <2>1
<1>7. ASSUME Admit PROVE SuccessWasVerified'
  <2>1. PICK j \in Jobs : \E key \in Keys, request \in Requests, limit \in AttemptLimits,
                             at \in CreationTimes : Create(j, key, request, limit, at)
    BY <1>7 DEF Admit
  <2>2. \E key \in Keys, request \in Requests, limit \in AttemptLimits, at \in CreationTimes :
          jobs' = [jobs EXCEPT ![j] = Queued(key, request, limit, at)]
    BY <2>1 DEF Create
  <2>3. jobs'[j].status = "queued" /\ \A k \in Jobs \ {j} : jobs'[k] = jobs[k]
    BY <1>4, <2>2 DEF Queued
  <2> QED
    BY <1>2, <2>3
<1>8. ASSUME NEW w \in Workers, Claim(w) PROVE SuccessWasVerified'
  <2>1. ASSUME NEW j \in Jobs, jobs'[j] # jobs[j]
        PROVE  \E lag \in Lags : \/ jobs'[j] = Granted(jobs[j], w, lag)
                                 \/ jobs'[j] = Released(jobs[j], "cancelled")
                                 \/ jobs'[j] = Released(jobs[j], "failed")
    <3>1. ASSUME NEW lag \in Lags, MemoryClaim(w, lag)
          PROVE  \/ jobs'[j] = Granted(jobs[j], w, lag)
                 \/ jobs'[j] = Released(jobs[j], "cancelled")
                 \/ jobs'[j] = Released(jobs[j], "failed")
      BY <2>1, <3>1 DEF MemoryClaim
    <3>2. ASSUME NEW lag \in Lags, NEW picked \in Picks, PostgresClaim(w, lag, picked)
          PROVE  \/ jobs'[j] = Granted(jobs[j], w, lag)
                 \/ jobs'[j] = Released(jobs[j], "cancelled")
                 \/ jobs'[j] = Released(jobs[j], "failed")
      BY <2>1, <3>2 DEF PostgresClaim
    <3> QED
      BY <1>8, <3>1, <3>2 DEF Claim
  <2>2. ASSUME NEW j \in Jobs, jobs'[j].status = "succeeded"
        PROVE  jobs[j].status = "succeeded"
    <3>1. CASE jobs'[j] = jobs[j]
      BY <2>2, <3>1
    <3>2. CASE jobs'[j] # jobs[j]
      <4>1. PICK lag \in Lags : \/ jobs'[j] = Granted(jobs[j], w, lag)
                               \/ jobs'[j] = Released(jobs[j], "cancelled")
                               \/ jobs'[j] = Released(jobs[j], "failed")
        BY <2>1, <3>2
      <4>2. jobs[j] \in JobRecord
        BY <1>3
      <4>3. Granted(jobs[j], w, lag).status = "running"
        BY <4>2, GrantedFields
      <4>4. /\ Released(jobs[j], "cancelled").status = "cancelled"
            /\ Released(jobs[j], "failed").status = "failed"
        BY <4>2, ReleasedFields, StatusNames
      <4> QED
        BY <2>2, <4>1, <4>3, <4>4
    <3> QED
      BY <3>1, <3>2
  <2> QED
    BY <1>2, <2>2
<1>9. ASSUME NEW w \in Workers, Renew(w) PROVE SuccessWasVerified'
  <2>1. ~At(w, "idle")
    BY <1>9 DEF Renew, Renewing, At, RunOK, Idle
  <2>2. worker[w].job \in Jobs
    BY <2>1 DEF RunOK, At
  <2>3. PICK lag \in Lags : /\ Holds(worker[w].job, worker[w].token, lag)
                            /\ jobs' = [jobs EXCEPT ![worker[w].job] = Renewed(@, lag)]
    BY <1>9 DEF Renew, RenewLease
  <2>4. jobs'[worker[w].job].status = jobs[worker[w].job].status
    BY <1>3, <1>4, <2>2, <2>3, RenewedFields
  <2> QED
    BY <1>2, <1>4, <2>2, <2>3, <2>4
<1>10. ASSUME NEW w \in Workers, Report(w) PROVE SuccessWasVerified'
  <2> DEFINE j == worker[w].job
  <2>1. /\ j \in Jobs /\ RunHolds(worker[w], jobs[j])
    BY <1>10 DEF Report, At, RunOK
  <2>2. ASSUME NEW lag \in Lags, At(w, "succeeding"), Succeed(j, worker[w].token, lag)
        PROVE  SuccessWasVerified'
    <3>1. /\ jobs[j].status \in Leased /\ jobs[j].token = worker[w].token
          /\ jobs' = [jobs EXCEPT ![j] = Completed(jobs[j])]
      BY <2>2 DEF Succeed, Holds
    <3>2. worker[w].attempt = jobs[j].attempt
      BY <2>1, <3>1 DEF RunHolds
    <3>3. <<j, jobs[j].attempt>> \in executed /\ <<j, jobs[j].attempt>> \in verified
      BY <2>2, <3>2 DEF At, RunOK, RunLeftTraces
    <3>4. jobs'[j].attempt = jobs[j].attempt
      BY <1>3, <1>4, <2>1, <3>1, CompletedFields
    <3>5. \A k \in Jobs \ {j} : jobs'[k] = jobs[k]
      BY <1>4, <3>1
    <3> QED
      BY <3>3, <3>4, <3>5, TracesGrow DEF SuccessWasVerified
  <2>3. ASSUME NEW lag \in Lags, Fail(j, worker[w].token, lag)
        PROVE  SuccessWasVerified'
    <3>1. jobs[j].status \in Leased /\ jobs' = [jobs EXCEPT ![j] = AttemptFailed(jobs[j], lag)]
      BY <2>3 DEF Fail, Holds
    <3>2. jobs[j].attempt \in 1 .. jobs[j].max /\ jobs[j].max \in AttemptLimits
      BY <1>3, <2>1, <3>1, JobQueueAssumption DEF JobQueueAssumption, JobRecord, RecordOK,
        AttemptsOK, Leased
    <3>3. retryDelay(jobs[j].attempt) \in Nat
      BY <3>2, JobQueueAssumption, DelayIsNumber
    <3>4. jobs'[j].status = FailStatus(jobs[j])
      BY <1>3, <1>4, <2>1, <3>1, <3>3, AttemptFailedFields
    <3> QED
      BY <1>2, <1>4, <3>1, <3>4 DEF FailStatus
  <2> QED
    BY <1>5, <1>10, <2>2, <2>3 DEF Report
<1>11. ASSUME NEW o \in Operators, CancelReviewed(o) PROVE SuccessWasVerified'
  <2> DEFINE j == review[o].job
  <2>1. j \in Jobs
    BY <1>11 DEF CancelReviewed, WorkersTyped, ReviewRecord
  <2>2. ASSUME jobs' = [jobs EXCEPT ![j] = CancelRequested(jobs[j])]
        PROVE  SuccessWasVerified'
    <3>1. jobs'[j] = CancelRequested(jobs[j])
      BY <1>4, <2>1, <2>2
    <3>2. jobs'[j].status = "succeeded" => jobs[j].status = "succeeded"
      <4>1. CASE jobs[j].status \in Terminal
        BY <3>1, <4>1, CancelRequestedCases
      <4>2. CASE jobs[j].status = "running"
        BY <1>3, <2>1, <3>1, <4>2, MarkedFields
      <4>3. CASE jobs[j].status \notin Terminal /\ jobs[j].status # "running"
        <5>1. jobs[j] \in JobRecord
          BY <1>3, <2>1
        <5>2. Released(jobs[j], "cancelled").status = "cancelled"
          BY <5>1, ReleasedFields, StatusNames
        <5> QED
          BY <3>1, <4>3, <5>2, CancelRequestedCases
      <4> QED
        BY <4>1, <4>2, <4>3
    <3> QED
      BY <1>2, <1>4, <2>2, <3>2
  <2> QED
    BY <1>5, <1>11, <2>2 DEF CancelReviewed, RequestCancelIfVersion
<1> QED
  BY <1>5, <1>6, <1>7, <1>8, <1>9, <1>10, <1>11 DEF JobWorkersNext, WorkerRun, wvars, Pass,
    WorkerClaim, Refuse, BeginExecute, EndExecute, CheckCancellation, EndVerify,
    StopRenewal, RenewalFails, Crash, Review

(* Every step keeps the reviews true.                                      *)
LEMMA ReviewsStayOK ==
  ASSUME WorkersOK, [JobWorkersNext]_wvars
  PROVE  /\ review' \in [Operators -> ReviewRecord]
         /\ \A o \in Operators : ReviewOK(review[o])'
<1> DEFINE Goal == /\ review' \in [Operators -> ReviewRecord]
                   /\ \A o \in Operators : ReviewOK(review[o])'
<1>1. review \in [Operators -> ReviewRecord]
  BY DEF WorkersOK, WorkersTyped
<1>2. ASSUME NEW o \in Operators, review'[o] = review[o] PROVE ReviewOK(review[o])'
  BY <1>2, ReviewKeeps DEF ReviewOK
<1>3. ASSUME UNCHANGED review PROVE Goal
  BY <1>1, <1>2, <1>3
<1>4. ASSUME NEW o \in Operators, CancelReviewed(o) PROVE Goal
  <2>1. review' = [review EXCEPT ![o] = NoReview]
    BY <1>4 DEF CancelReviewed
  <2>2. NoReview \in ReviewRecord
    BY DEF NoReview, ReviewRecord, Statuses
  <2>3. ReviewOK(review[o])'
    BY <1>1, <2>1 DEF ReviewOK, NoReview
  <2> QED
    BY <1>1, <1>2, <2>1, <2>2, <2>3
<1>5. ASSUME NEW o \in Operators, NEW j \in Jobs, Review(o, j) PROVE Goal
  <2> DEFINE seen == [job |-> j, status |-> jobs[j].status, attempt |-> jobs[j].attempt,
                      token |-> jobs[j].token, output |-> jobs[j].output,
                      version |-> jobs[j].version]
  <2>1. review' = [review EXCEPT ![o] = seen] /\ jobs' = jobs /\ jobs[j].status # "absent"
    BY <1>5 DEF Review
  <2>2. RecordOK(jobs[j])
    BY RecordsStep
  <2>3. seen \in ReviewRecord
    BY <2>2 DEF RecordOK, JobRecord, ReviewRecord
  <2>4. ReviewMatches(seen, jobs[j])
    BY <2>1, <2>2 DEF RecordOK, JobRecord, ReviewMatches
  <2>5. review'[o] = seen /\ seen.job = j
    BY <1>1, <2>1
  <2> HIDE DEF seen
  <2>6. ReviewOK(review[o])'
    BY <2>1, <2>4, <2>5 DEF ReviewOK
  <2> QED
    BY <1>1, <1>2, <2>1, <2>3, <2>6
<1> QED
  BY <1>3, <1>4, <1>5 DEF JobWorkersNext, WorkerRun, wvars, Pass, Admit, WorkerClaim,
    Refuse, BeginExecute, EndExecute, CheckCancellation, EndVerify, StopRenewal, Report,
    Renew, RenewalFails, Crash

-----------------------------------------------------------------------------
(* Workers and operators start in the invariant.                           *)
LEMMA WorkersInitOK == JobWorkersInit => WorkersOK
<1> SUFFICES ASSUME JobWorkersInit PROVE WorkersOK
  OBVIOUS
<1>1. JobsOK
  BY InitOK DEF JobWorkersInit
<1>2. WorkersTyped
  BY DEF JobWorkersInit, WorkersTyped, RunRecord, ReviewRecord, Idle, NoReview, Steps,
    Statuses
<1>3. (\A w \in Workers : RunOK(worker[w])) /\ RunsDiffer
  BY DEF JobWorkersInit, RunOK, RunLeftTraces, RunsDiffer, Idle
<1>4. SuccessWasVerified
  BY DEF JobWorkersInit, JobQueueInit, SuccessWasVerified, Absent
<1>5. \A o \in Operators : ReviewOK(review[o])
  BY DEF JobWorkersInit, ReviewOK, NoReview
<1> QED
  BY <1>1, <1>2, <1>3, <1>4, <1>5 DEF WorkersOK

(* Every step keeps the invariant.                                         *)
LEMMA WorkersNextOK == WorkersOK /\ [JobWorkersNext]_wvars => WorkersOK'
<1> SUFFICES ASSUME WorkersOK, [JobWorkersNext]_wvars PROVE WorkersOK'
  OBVIOUS
<1>1. JobsOK'
  BY RecordsStep
<1> QED
  BY <1>1, RunsStayOK, SuccessStaysVerified, ReviewsStayOK
    DEF WorkersOK, WorkersTyped, RunsOK

(* The invariant holds in every reachable state.                           *)
LEMMA WorkersInvariance == JobWorkersSpec => []WorkersOK
BY WorkersInitOK, WorkersNextOK, PTL DEF JobWorkersSpec

(***************************************************************************)
(* A job is recorded as succeeded only on the strength of its own attempt: *)
(* RunOne reports success after Execute and Verify of the attempt that the *)
(* job still counts, however many workers stall, restart or are superseded *)
(* in between.                                                             *)
(***************************************************************************)
THEOREM SuccessIsVerified == JobWorkersSpec => []SuccessWasVerified
<1>1. WorkersOK => SuccessWasVerified
  BY DEF WorkersOK
<1> QED
  BY <1>1, WorkersInvariance, PTL

(***************************************************************************)
(* The lease token fences: no two runs of one job share a token or an      *)
(* attempt, and only the run of the newest attempt can still report.       *)
(***************************************************************************)
THEOREM TokensFence == JobWorkersSpec => []NewestRunHolds
<1>1. WorkersOK => NewestRunHolds
  <2> SUFFICES ASSUME WorkersOK, NEW w \in Workers, worker[w].job # NoJob
               PROVE  /\ worker[w].attempt <= jobs[worker[w].job].attempt
                      /\ jobs[worker[w].job].token = worker[w].token <=>
                           /\ jobs[worker[w].job].status \in Leased
                           /\ worker[w].attempt = jobs[worker[w].job].attempt
    BY DEF NewestRunHolds, WorkersOK, RunsDiffer
  <2>1. RunOK(worker[w]) /\ worker[w].step # "idle"
    BY DEF WorkersOK, RunOK, Idle
  <2>2. worker[w].job \in Jobs /\ RunHolds(worker[w], jobs[worker[w].job])
    BY <2>1 DEF RunOK
  <2>3. jobs[worker[w].job].attempt \in Nat
    BY <2>2 DEF WorkersOK, JobsOK, RecordOK, JobRecord
  <2> QED
    BY <2>2, <2>3 DEF RunHolds
<1> QED
  BY <1>1, WorkersInvariance, PTL

(***************************************************************************)
(* The version in If-Match identifies what the operator reviewed: while it *)
(* is the version of the job, status, attempt, lease and output are those  *)
(* that were shown, so an accepted cancellation acts on the reviewed job.  *)
(***************************************************************************)
THEOREM ReviewsAreIdentified == JobWorkersSpec => []VersionIdentifiesReview
<1>1. WorkersOK => VersionIdentifiesReview
  BY DEF WorkersOK, VersionIdentifiesReview, ReviewOK, ReviewMatches
<1> QED
  BY <1>1, WorkersInvariance, PTL

(***************************************************************************)
(* Workers and operators use the repository as it is specified: every      *)
(* behaviour of theirs is, on the jobs, a behaviour of JobQueue.  All that *)
(* the first part shows of the repository therefore holds under them.      *)
(***************************************************************************)
THEOREM WorkersImplementQueue == JobWorkersSpec => JobQueueSpec
<1>1. JobWorkersInit => JobQueueInit
  BY DEF JobWorkersInit
<1>2. WorkersOK /\ [JobWorkersNext]_wvars => [JobQueueNext]_jobs
  BY StepIsQueueStep
<1> QED
  BY <1>1, <1>2, WorkersInvariance, PTL DEF JobWorkersSpec, JobQueueSpec

-----------------------------------------------------------------------------
(***************************************************************************)
(* Manual retry.  The place of an entry in its chain is the number of      *)
(* retries it was admitted after.  The places of the entries of a root run *)
(* from 0 without a gap or a duplicate, and each entry starts where the    *)
(* one before it ends, so the walk that the history builder makes visits   *)
(* them in this order.                                                     *)
(***************************************************************************)
Place(l) == Cardinality(l.history)
Children(root) == {l.retry : l \in Entries(root)}
EarlierChildren(l) == {m.retry : m \in {m \in Entries(l.root) : Place(m) < Place(l)}}

ChainOK(root) ==
  LET size == Cardinality(Entries(root))
  IN  /\ IsFiniteSet(Entries(root)) /\ IsFiniteSet(Children(root))
      /\ Cardinality(Children(root)) = size
      /\ \A l \in Entries(root) :
           /\ Place(l) \in 0 .. size - 1
           /\ Place(l) = 0 => l.source = root
           /\ l.history = EarlierChildren(l)
      /\ \A n \in 0 .. size - 1 : \E l \in Entries(root) : Place(l) = n
      /\ \A k, l \in Entries(root) :
           /\ Place(k) = Place(l) => k = l
           /\ Place(l) = Place(k) + 1 => l.source = k.retry
      /\ size <= MaxHistory + 1
      /\ size > MaxHistory => \E l \in Entries(root) : l.rules.max > MaxHistory

(* An entry, the job it is about, the child and the budget.                *)
EntryOK(l) ==
  /\ {l.source, l.retry, l.root} \subseteq Jobs
  /\ jobs[l.source].status = "failed" /\ jobs[l.source].version = l.version
  /\ jobs[l.retry].status # "absent" /\ jobs[l.root].status # "absent"
  /\ jobs[l.retry].key = l.key /\ l.key # jobs[l.source].key
  /\ jobs[l.retry].request = jobs[l.source].request
  /\ l.rules = l.admission.rules /\ l.rules \in Rules /\ l.rules.allows
  /\ Cardinality(l.history) < l.rules.max

(* No fork, one child per admission, and a root is never a child.          *)
EntriesApart(k, l) ==
  /\ k.source = l.source => k = l
  /\ k.retry = l.retry => k = l
  /\ k.admission = l.admission => k = l
  /\ k.retry # l.root

(* The review an operator holds: its job is failed for good, and as long   *)
(* as nobody retried it its history is the one reviewed.                   *)
AdmissionOK(doc) ==
  /\ doc.job \in Jobs
  /\ jobs[doc.job].status = "failed" /\ jobs[doc.job].version = doc.version
  /\ doc.rules \in Rules /\ doc.rules.allows
  /\ Cardinality(doc.history) < doc.rules.max /\ Cardinality(doc.history) <= MaxHistory
  /\ (\A l \in lineage : l.source # doc.job) => History(doc.job) = doc.history

ReviewerOK(o) ==
  /\ DOMAIN op[o] = {"pc", "doc", "child", "key", "rules", "used"}
  /\ op[o].pc \in {"idle", "reviewed", "policy", "create", "answered"}
  /\ op[o].pc \in {"reviewed", "policy", "create"} => AdmissionOK(op[o].doc)
  /\ op[o].pc \in {"policy", "create"} => op[o].child \in Jobs /\ op[o].key \in Keys
  /\ op[o].pc = "create" => op[o].rules = op[o].doc.rules
  /\ op[o].pc = "answered" =>
       \E l \in lineage : l.admission = op[o].doc /\ l.retry = op[o].child

(* The inductive invariant of manual retry.                                *)
RequestsOK == \A j \in Jobs : jobs[j].status # "absent" => jobs[j].request \in Requests
LineageOK ==
  /\ \A l \in lineage : EntryOK(l)
  /\ \A k, l \in lineage : EntriesApart(k, l)
ReviewersOK == DOMAIN op = Reviewers /\ \A o \in Reviewers : ReviewerOK(o)

RetryOK ==
  /\ JobsOK /\ RequestsOK /\ rules \in Rules
  /\ LineageOK
  /\ \A root \in Jobs : ChainOK(root)
  /\ ReviewersOK

(* One step of the walk along the entries, as Cursor makes it.             *)
NextStop(entries, at) ==
  IF \E l \in entries : l.source = at
  THEN (CHOOSE l \in entries : l.source = at).retry
  ELSE 0

IsWalk(root, f) ==
  f = [n \in 0 .. Cardinality(Entries(root)) |->
         IF n = 0 THEN root ELSE NextStop(Entries(root), f[n - 1])]

(* Where a walk that takes these steps exists, Cursor is one.              *)
LEMMA CursorWalks ==
  ASSUME NEW root, NEW f, IsWalk(root, f)
  PROVE  IsWalk(root, Cursor(root))
<1>1. Cursor(root) = CHOOSE g : IsWalk(root, g)
  BY DEF Cursor, NextStop, IsWalk
<1> QED BY <1>1

(* The walk of the history builder visits the entries of a chain in order. *)
LEMMA WalkVisits ==
  ASSUME NEW root, ChainOK(root),
         \A k, l \in Entries(root) : k.source = l.source => k = l
  PROVE  /\ Cursor(root)[0] = root
         /\ \A l \in Entries(root) :
              Cursor(root)[Place(l)] = l.source /\ Cursor(root)[Place(l) + 1] = l.retry
<1> DEFINE E == Entries(root)
           N == Cardinality(E)
           at(n) == CHOOSE l \in E : Place(l) = n
           W == [n \in 0 .. N |-> IF n = 0 THEN root ELSE at(n - 1).retry]
<1>0. /\ N \in Nat
      /\ \A l \in E : Place(l) \in 0 .. N - 1 /\ (Place(l) = 0 => l.source = root)
      /\ \A n \in 0 .. N - 1 : \E l \in E : Place(l) = n
      /\ \A k, l \in E : /\ Place(k) = Place(l) => k = l
                         /\ Place(l) = Place(k) + 1 => l.source = k.retry
  BY FS_CardinalityType DEF ChainOK
<1> HIDE DEF E, N
<1>1. \A n \in 0 .. N - 1 : at(n) \in E /\ Place(at(n)) = n
  BY <1>0
<1>a. \A l \in E : at(Place(l)) = l
  BY <1>0
<1> HIDE DEF at
<1>2. ASSUME NEW n \in 0 .. N - 1 PROVE W[n] = at(n).source
  <2>1. CASE n = 0
    BY <1>0, <1>1, <2>1
  <2>2. CASE n # 0
    <3>1. n - 1 \in 0 .. N - 1 /\ Place(at(n)) = Place(at(n - 1)) + 1
      BY <1>0, <1>1, <2>2
    <3>2. at(n).source = at(n - 1).retry
      BY <1>0, <1>1, <3>1
    <3> QED BY <1>0, <2>2, <3>2
  <2> QED BY <2>1, <2>2
<1>3. ASSUME NEW l \in E PROVE NextStop(E, l.source) = l.retry
  BY DEF NextStop, E
<1>4. \A n \in 0 .. N : W[n] = IF n = 0 THEN root ELSE NextStop(E, W[n - 1])
  <2> SUFFICES ASSUME NEW n \in 0 .. N, n # 0 PROVE W[n] = NextStop(E, W[n - 1])
    BY <1>0
  <2>1. n - 1 \in 0 .. N - 1
    BY <1>0
  <2> QED BY <2>1, <1>0, <1>1, <1>2, <1>3
<1>5. W = [n \in 0 .. N |-> IF n = 0 THEN root ELSE NextStop(E, W[n - 1])]
  <2>1. W = [n \in 0 .. N |-> W[n]]
    OBVIOUS
  <2> HIDE DEF W
  <2> QED BY <1>4, <2>1
<1> HIDE DEF W
<1>6. Cursor(root) = [n \in 0 .. N |->
                        IF n = 0 THEN root ELSE NextStop(E, Cursor(root)[n - 1])]
  <2>1. IsWalk(root, W)
    BY <1>5 DEF E, N, IsWalk
  <2>2. IsWalk(root, Cursor(root))
    BY <2>1, CursorWalks
  <2> QED BY <2>2 DEF E, N, IsWalk
<1>7. \A n \in 0 .. N : Cursor(root)[n] = W[n]
  <2> DEFINE bad == {n \in 0 .. N : Cursor(root)[n] # W[n]}
  <2> SUFFICES ASSUME bad # {} PROVE FALSE
    OBVIOUS
  <2>0. bad \in SUBSET Nat
    BY <1>0
  <2>1. PICK m \in bad : \A n \in bad : m <= n
    BY <2>0, LeastNumber
  <2>2. m # 0
    BY <1>0, <1>4, <1>6
  <2>3. m - 1 \in 0 .. N /\ m - 1 \notin bad
    BY <1>0, <2>1, <2>2
  <2> QED BY <1>4, <1>6, <2>2, <2>3
<1>8. Cursor(root)[0] = root
  BY <1>0, <1>6
<1>9. ASSUME NEW l \in E
      PROVE  Cursor(root)[Place(l)] = l.source /\ Cursor(root)[Place(l) + 1] = l.retry
  <2>1. Place(l) \in 0 .. N - 1 /\ Place(l) \in 0 .. N /\ Place(l) + 1 \in 0 .. N
    BY <1>0
  <2>2. W[Place(l) + 1] = at(Place(l)).retry
    BY <2>1 DEF W
  <2> QED BY <1>2, <1>7, <1>a, <2>1, <2>2
<1> QED BY <1>8, <1>9 DEF E

(* The root of a job is the root of the entry that created it, if any.     *)
LEMMA RootIs ==
  ASSUME LineageOK, NEW j \in Jobs
  PROVE  /\ Root(j) \in Jobs
         /\ \A l \in lineage : l.retry = j => Root(j) = l.root
         /\ (\A l \in lineage : l.retry # j) => Root(j) = j
<1>1. CASE \E l \in lineage : l.retry = j
  <2>1. PICK l \in lineage : l.retry = j
    BY <1>1
  <2>2. \A k \in lineage : k.retry = j => k = l
    BY <2>1 DEF LineageOK, EntriesApart
  <2>3. Root(j) = l.root
    BY <2>1, <2>2 DEF Root
  <2> QED BY <2>1, <2>2, <2>3 DEF LineageOK, EntryOK
<1>2. CASE \A l \in lineage : l.retry # j
  BY <1>2 DEF Root
<1> QED BY <1>1, <1>2

(* A chain whose entries keep apart passes the checks of the builder.      *)
LEMMA ChainIsChained ==
  ASSUME LineageOK, NEW root \in Jobs, ChainOK(root)
  PROVE  Chained(root)
<1> DEFINE E == Entries(root)
           N == Cardinality(E)
           c == Cursor(root)
<1>0. /\ N \in Nat
      /\ \A l \in E : Place(l) \in 0 .. N - 1
      /\ \A n \in 0 .. N - 1 : \E l \in E : Place(l) = n
  BY FS_CardinalityType DEF ChainOK
<1>1. \A k, l \in E : /\ k.source = l.source => k = l
                      /\ k.retry = l.retry => k = l
                      /\ k.retry # root
  BY DEF LineageOK, EntriesApart, Entries
<1>2. \A l \in E : l.source \in Jobs /\ l.source # 0
  BY ManualRetryAssumption DEF LineageOK, EntryOK, Entries, ManualRetryAssumption
<1>3. /\ c[0] = root
      /\ \A l \in E : c[Place(l)] = l.source /\ c[Place(l) + 1] = l.retry
  BY <1>1, WalkVisits
<1> HIDE DEF E, N, c
<1>4. ASSUME NEW n \in 1 .. N PROVE \E l \in E : Place(l) = n - 1 /\ c[n] = l.retry
  <2>1. n - 1 \in 0 .. N - 1
    BY <1>0
  <2>2. PICK l \in E : Place(l) = n - 1
    BY <1>0, <2>1
  <2>3. Place(l) + 1 = n
    BY <2>1, <2>2
  <2> QED BY <1>3, <2>2, <2>3
<1>5. ASSUME NEW m \in 0 .. N, NEW n \in 0 .. N, c[m] = c[n] PROVE m = n
  <2>1. CASE m # 0 /\ n # 0
    <3>1. m \in 1 .. N /\ n \in 1 .. N
      BY <1>0, <2>1
    <3>2. PICK k \in E : Place(k) = m - 1 /\ c[m] = k.retry
      BY <1>4, <3>1
    <3>3. PICK l \in E : Place(l) = n - 1 /\ c[n] = l.retry
      BY <1>4, <3>1
    <3>4. k = l
      BY <1>1, <1>5, <3>2, <3>3
    <3> QED BY <3>1, <3>2, <3>3, <3>4
  <2>2. ASSUME NEW i \in 0 .. N, i # 0, c[i] = root PROVE FALSE
    <3>1. i \in 1 .. N
      BY <1>0, <2>2
    <3> QED BY <1>1, <1>4, <2>2, <3>1
  <2> QED BY <1>3, <1>5, <2>1, <2>2
<1>6. {l.source : l \in E} = {c[n] : n \in 0 .. N - 1} \ {0}
  <2>1. ASSUME NEW l \in E PROVE l.source \in {c[n] : n \in 0 .. N - 1} \ {0}
    BY <1>0, <1>2, <1>3
  <2>2. ASSUME NEW n \in 0 .. N - 1 PROVE c[n] \in {l.source : l \in E}
    BY <1>0, <1>3
  <2> QED BY <2>1, <2>2
<1> QED
  BY <1>1, <1>5, <1>6 DEF Chained, E, N, c

(* The invariant gives the first property.                                 *)
LEMMA RetryOKReadable == RetryOK => ChainsAreReadable
<1> SUFFICES ASSUME RetryOK PROVE ChainsAreReadable
  OBVIOUS
<1> USE DEF RetryOK
<1>1. ASSUME NEW j \in Jobs
      PROVE  /\ Chained(Root(j))
             /\ \/ HistoryValid(j)
                \/ /\ Cardinality(Entries(Root(j))) = MaxHistory + 1
                   /\ \E l \in Entries(Root(j)) : l.rules.max > MaxHistory
  <2>1. Root(j) \in Jobs
    BY RootIs
  <2>2. Chained(Root(j))
    BY <2>1, ChainIsChained
  <2> DEFINE E == Entries(Root(j))
             N == Cardinality(E)
  <2>3. /\ N \in Nat /\ N <= MaxHistory + 1
        /\ N > MaxHistory => \E l \in E : l.rules.max > MaxHistory
    BY <2>1, FS_CardinalityType DEF ChainOK
  <2> HIDE DEF N, E
  <2>4. N <= MaxHistory \/ N = MaxHistory + 1
    BY <2>3, ManualRetryAssumption DEF ManualRetryAssumption
  <2>5. N = MaxHistory + 1 => N > MaxHistory
    BY ManualRetryAssumption DEF ManualRetryAssumption
  <2> QED BY <2>2, <2>3, <2>4, <2>5 DEF HistoryValid, N, E
<1>2. ASSUME NEW l \in lineage
      PROVE  /\ jobs[l.source].status = "failed" /\ jobs[l.source].version = l.version
             /\ jobs[l.retry].status # "absent"
             /\ jobs[l.retry].key = l.key /\ l.key # jobs[l.source].key
             /\ jobs[l.retry].request = jobs[l.source].request
  BY DEF LineageOK, EntryOK
<1> QED BY <1>1, <1>2 DEF ChainsAreReadable

(* And the second.                                                         *)
LEMMA RetryOKAdmitted == RetryOK => RetriesWereAdmitted
<1> SUFFICES ASSUME RetryOK PROVE RetriesWereAdmitted
  OBVIOUS
<1> USE DEF RetryOK
<1>1. ASSUME NEW l \in lineage
      PROVE  /\ l.rules = l.admission.rules /\ l.rules.allows
             /\ Cardinality(l.history) < l.rules.max
  BY DEF LineageOK, EntryOK
<1>2. ASSUME NEW l \in lineage
      PROVE  \E n \in 0 .. Cardinality(l.history) :
               /\ l.history = {Cursor(l.root)[i] : i \in 1 .. n}
               /\ Cursor(l.root)[n] = l.source /\ Cursor(l.root)[n + 1] = l.retry
  <2> DEFINE root == l.root
             E == Entries(root)
             N == Cardinality(E)
             c == Cursor(root)
  <2>1. l \in E /\ root \in Jobs
    BY DEF LineageOK, EntryOK, Entries
  <2>2. /\ N \in Nat
        /\ \A m \in E : Place(m) \in 0 .. N - 1
        /\ \A n \in 0 .. N - 1 : \E m \in E : Place(m) = n
        /\ l.history = {m.retry : m \in {m \in E : Place(m) < Place(l)}}
    BY <2>1, FS_CardinalityType DEF ChainOK, EarlierChildren
  <2>3. \A m \in E : c[Place(m)] = m.source /\ c[Place(m) + 1] = m.retry
    <3>1. \A k, m \in E : k.source = m.source => k = m
      BY DEF LineageOK, EntriesApart, Entries
    <3> QED BY <2>1, <3>1, WalkVisits
  <2> HIDE DEF E, N, c
  <2>4. Place(l) \in 0 .. N - 1
    BY <2>1, <2>2
  <2>5. ASSUME NEW m \in E, Place(m) < Place(l)
        PROVE  m.retry \in {c[i] : i \in 1 .. Place(l)}
    <3>1. Place(m) + 1 \in 1 .. Place(l)
      BY <2>2, <2>4, <2>5
    <3> QED BY <2>3, <3>1
  <2>6. ASSUME NEW i \in 1 .. Place(l)
        PROVE  \E m \in E : Place(m) < Place(l) /\ c[i] = m.retry
    <3>1. i - 1 \in 0 .. N - 1
      BY <2>2, <2>4
    <3>2. PICK m \in E : Place(m) = i - 1
      BY <2>2, <3>1
    <3>3. Place(m) + 1 = i /\ Place(m) < Place(l)
      BY <2>2, <2>4, <3>1, <3>2
    <3> QED BY <2>3, <3>3
  <2>7. l.history = {c[i] : i \in 1 .. Place(l)}
    BY <2>2, <2>5, <2>6
  <2>8. Place(l) \in 0 .. Cardinality(l.history)
    BY <2>2, <2>4 DEF Place
  <2> QED BY <2>1, <2>3, <2>7, <2>8 DEF c
<1>3. \A k, l \in lineage : k.admission = l.admission => k = l
  BY DEF LineageOK, EntriesApart
<1>4. \A o \in Reviewers : op[o].pc = "answered" =>
        \E l \in lineage : l.admission = op[o].doc /\ l.retry = op[o].child
  BY DEF ReviewersOK, ReviewerOK
<1> QED BY <1>1, <1>2, <1>3, <1>4 DEF RetriesWereAdmitted

-----------------------------------------------------------------------------
(* What no step of manual retry or of a worker takes from a job.           *)
JobsKept ==
  \A j \in Jobs :
    /\ jobs[j].status # "absent" => /\ jobs'[j].status # "absent"
                                    /\ jobs'[j].key = jobs[j].key
                                    /\ jobs'[j].request = jobs[j].request
    /\ jobs[j].status = "failed" => jobs'[j] = jobs[j]

(* A job that does not exist stays so or is created with a request.        *)
LEMMA AbsentStep ==
  ASSUME NEW r, NEW s, RecordStep(r, s), r.status = "absent"
  PROVE  s = r \/ s.request \in Requests
BY DEF RecordStep, Queued, Claimable, Eligible, ExpiredCancel, MemoryExhausted,
  PostgresExhausted, Leased

(* Steps of the records keep the invariant of the repository.              *)
LEMMA PointwiseKept ==
  ASSUME JobsOK, RequestsOK, jobs' = [k \in Jobs |-> jobs'[k]],
         \A k \in Jobs : RecordStep(jobs[k], jobs'[k])
  PROVE  JobsOK' /\ RequestsOK' /\ JobsKept
<1>1. \A k \in Jobs : RecordOK(jobs'[k])
  BY RecordStepOK DEF JobsOK
<1>2. \A k \in Jobs : jobs'[k] \in JobRecord
  BY <1>1 DEF RecordOK
<1>3. jobs' \in [Jobs -> JobRecord]
  BY <1>2
<1>4. JobsOK'
  BY <1>1, <1>3 DEF JobsOK, TypeOK
<1>5. JobsKept
  <2>1. ASSUME NEW j \in Jobs, jobs[j].status # "absent"
        PROVE  /\ jobs'[j].status # "absent" /\ jobs'[j].key = jobs[j].key
               /\ jobs'[j].request = jobs[j].request
    BY <2>1, KeepsKey DEF JobsOK
  <2>2. ASSUME NEW j \in Jobs, jobs[j].status = "failed" PROVE jobs'[j] = jobs[j]
    BY <2>2, RecordStepIs DEF JobsOK, FinalStep, Terminal
  <2> QED BY <2>1, <2>2 DEF JobsKept
<1>6. RequestsOK'
  <2> SUFFICES ASSUME NEW j \in Jobs, jobs'[j].status # "absent"
               PROVE  jobs'[j].request \in Requests
    BY DEF RequestsOK
  <2>1. CASE jobs[j].status = "absent"
    BY <2>1, AbsentStep
  <2>2. CASE jobs[j].status # "absent"
    BY <1>5, <2>2 DEF JobsKept, RequestsOK
  <2> QED BY <2>1, <2>2
<1> QED BY <1>4, <1>5, <1>6

(* A step of the workers and other clients is made of steps of records.    *)
LEMMA QueueStepKept ==
  ASSUME JobsOK, RequestsOK, QueueStep
  PROVE  JobsOK' /\ RequestsOK' /\ JobsKept
<1> DEFINE Goal == /\ jobs' = [k \in Jobs |-> jobs'[k]]
                   /\ \A k \in Jobs : RecordStep(jobs[k], jobs'[k])
<1> TypeOK
  BY DEF JobsOK
<1>1. ASSUME NEW w \in Workers, Claim(w) PROVE Goal
  <2>1. [JobQueueNext]_jobs
    BY <1>1 DEF JobQueueNext
  <2> QED BY <2>1, NextIsPointwise
<1>2. ASSUME NEW j \in Jobs, NEW key \in Keys, NEW request \in Requests,
             NEW limit \in AttemptLimits, Create(j, key, request, limit, 1)
      PROVE  Goal
  <2>1. RecordStep(jobs[j], Queued(key, request, limit, 1))
    BY <1>2 DEF Create, RecordStep
  <2> QED BY <1>2, <2>1, OneRecord DEF Create
<1>3. ASSUME NEW j \in Jobs, NEW token, Succeed(j, token, 0) \/ Fail(j, token, 0)
      PROVE  Goal
  <2>1. 0 \in Lags
    BY JobQueueAssumption DEF JobQueueAssumption, Lags
  <2>2. PICK s : /\ jobs' = [jobs EXCEPT ![j] = s]
                 /\ jobs[j].status \in Leased
                 /\ s = Completed(jobs[j]) \/ s = AttemptFailed(jobs[j], 0)
    BY <1>3 DEF Succeed, Fail, Holds
  <2>3. RecordStep(jobs[j], s)
    BY <2>1, <2>2 DEF RecordStep
  <2> QED BY <2>2, <2>3, OneRecord
<1>4. Goal
  BY <1>1, <1>2, <1>3 DEF QueueStep
<1> QED BY <1>4, PointwiseKept

(* What the entries say of their jobs stays true.                          *)
LEMMA EntryKept ==
  ASSUME JobsKept, NEW l, EntryOK(l)
  PROVE  EntryOK(l)'
BY DEF EntryOK, JobsKept

(* Chains are made of entries only.                                        *)
LEMMA ChainKept ==
  ASSUME lineage' = lineage, NEW root, ChainOK(root)
  PROVE  ChainOK(root)'
BY DEF ChainOK, Entries, Children, EarlierChildren, Place

(* What a review says of its job stays true while the lineage does.        *)
LEMMA AdmissionKept ==
  ASSUME JobsKept, lineage' = lineage, NEW doc, AdmissionOK(doc)
  PROVE  AdmissionOK(doc)'
BY DEF AdmissionOK, JobsKept, History, Root, Entries

(* A reviewer who does not move.                                           *)
LEMMA ReviewerKept ==
  ASSUME JobsKept, lineage' = lineage, NEW o, ReviewerOK(o), op'[o] = op[o]
  PROVE  ReviewerOK(o)'
<1> DEFINE r == op[o]
<1>1. ASSUME AdmissionOK(r.doc) PROVE AdmissionOK(op[o].doc)'
  <2>1. ASSUME NEW d, d = r.doc PROVE AdmissionOK(d)'
    BY <1>1, <2>1, AdmissionKept
  <2>2. ASSUME NEW d, d = r.doc PROVE AdmissionOK(op[o].doc)'
    BY <2>1, <2>2 DEF AdmissionOK, History, Root, Entries
  <2> QED BY <2>2
<1> QED BY <1>1 DEF ReviewerOK

(* A step that leaves the lineage alone and moves at most one reviewer.    *)
LEMMA LineageStays ==
  ASSUME RetryOK, JobsOK', RequestsOK', JobsKept, lineage' = lineage, rules' \in Rules,
         DOMAIN op' = Reviewers, NEW S,
         \A o \in Reviewers \ S : op'[o] = op[o],
         \A o \in Reviewers \cap S : ReviewerOK(o)'
  PROVE  RetryOK'
<1>1. LineageOK'
  BY EntryKept DEF RetryOK, LineageOK, EntriesApart
<1>2. \A root \in Jobs : ChainOK(root)'
  BY ChainKept DEF RetryOK
<1>3. \A o \in Reviewers : ReviewerOK(o)'
  BY ReviewerKept DEF RetryOK, ReviewersOK
<1> QED BY <1>1, <1>2, <1>3 DEF RetryOK, ReviewersOK

(* Initially there is nothing to be wrong about.                           *)
LEMMA RetryInitOK == ManualRetryInit => RetryOK
<1> SUFFICES ASSUME ManualRetryInit PROVE RetryOK
  OBVIOUS
<1> USE DEF ManualRetryInit
<1>1. JobsOK /\ RequestsOK
  BY InitOK DEF JobQueueInit, RequestsOK, Absent
<1>2. LineageOK
  BY DEF LineageOK
<1>3. ASSUME NEW root \in Jobs PROVE ChainOK(root)
  <2>1. Entries(root) = {} /\ Children(root) = {}
    BY DEF Entries, Children
  <2> QED
    BY <2>1, FS_EmptySet, ManualRetryAssumption DEF ChainOK, ManualRetryAssumption
<1>4. ReviewersOK
  BY DEF ReviewersOK, ReviewerOK, NoRetry
<1> QED BY <1>1, <1>2, <1>3, <1>4 DEF RetryOK

(* The history of a job counts the entries of its chain.                   *)
LEMMA HistoryCounts ==
  ASSUME RetryOK, NEW j \in Jobs
  PROVE  /\ Root(j) \in Jobs
         /\ History(j) = Children(Root(j))
         /\ Cardinality(History(j)) = Cardinality(Entries(Root(j)))
         /\ Cardinality(Entries(Root(j))) \in Nat
<1>1. Root(j) \in Jobs
  BY RootIs DEF RetryOK
<1> QED BY <1>1, FS_CardinalityType DEF RetryOK, ChainOK, History, Children

(* The steps of a reviewer that change nothing but the reviewer.           *)
LEMMA ReviewerMoves ==
  ASSUME RetryOK, UNCHANGED <<jobs, lineage, rules>>, NEW o \in Reviewers, NEW r,
         op' = [op EXCEPT ![o] = r], ReviewerOK(o)'
  PROVE  RetryOK'
<1>1. JobsOK' /\ RequestsOK' /\ JobsKept
  BY DEF RetryOK, JobsOK, TypeOK, RequestsOK, JobsKept
<1>2. DOMAIN op' = Reviewers /\ \A p \in Reviewers \ {o} : op'[p] = op[p]
  BY DEF RetryOK, ReviewersOK
<1>3. \A p \in Reviewers \cap {o} : ReviewerOK(p)'
  OBVIOUS
<1>4. rules' \in Rules
  BY DEF RetryOK
<1> QED BY <1>1, <1>2, <1>3, <1>4, LineageStays

(* A review that is made has just been read.                               *)
LEMMA ReviewRetryOK ==
  ASSUME RetryOK, NEW o \in Reviewers, NEW j \in Jobs, NEW seen, ReviewRetry(o, j, seen)
  PROVE  RetryOK'
<1> DEFINE d == [job |-> j, version |-> jobs[j].version, rules |-> rules,
                 history |-> History(j), observedAt |-> seen]
           r == [NoRetry EXCEPT !.pc = "reviewed", !.doc = d]
<1>1. op' = [op EXCEPT ![o] = r] /\ UNCHANGED <<jobs, lineage, rules>>
  BY DEF ReviewRetry
<1>2. /\ jobs[j].status = "failed" /\ rules.allows /\ rules.max \in Nat
      /\ Cardinality(History(j)) < rules.max /\ Cardinality(History(j)) <= MaxHistory
  BY HistoryCounts, ManualRetryAssumption
    DEF ReviewRetry, Unblocked, Used, HistoryValid, ManualRetryAssumption, RetryOK
<1>3. AdmissionOK(d)
  BY <1>2 DEF AdmissionOK, RetryOK
<1>4. JobsKept
  BY <1>1 DEF JobsKept
<1>5. op'[o] = r
  BY <1>1 DEF RetryOK, ReviewersOK
<1>6. r.pc = "reviewed" /\ r.doc = d /\ DOMAIN r = {"pc", "doc", "child", "key", "rules", "used"}
  BY DEF NoRetry
<1> HIDE DEF d, r
<1>7. ASSUME NEW u, u = d PROVE ReviewerOK(o)'
  <2>1. AdmissionOK(u)'
    BY <1>1, <1>3, <1>7 DEF AdmissionOK, History, Root, Entries
  <2>2. op'[o].doc = u /\ op'[o].pc = "reviewed"
    BY <1>5, <1>6, <1>7
  <2>3. AdmissionOK(op[o].doc)'
    BY <2>1, <2>2 DEF AdmissionOK, History, Root, Entries
  <2> QED BY <1>5, <1>6, <2>2, <2>3 DEF ReviewerOK
<1>8. ReviewerOK(o)'
  BY <1>7
<1> QED BY <1>1, <1>8, ReviewerMoves

(* A refusal leaves a reviewer with nothing to keep true.                  *)
LEMMA RefuseOK ==
  ASSUME RetryOK, NEW o \in Reviewers, op' = [op EXCEPT ![o] = NoRetry]
  PROVE  ReviewerOK(o)'
<1>1. op'[o] = NoRetry
  BY DEF RetryOK, ReviewersOK
<1> QED BY <1>1 DEF ReviewerOK, NoRetry

(* An answer names the child of an entry under the admission.              *)
LEMMA AnswerOK ==
  ASSUME RetryOK, NEW o \in Reviewers, NEW child, Answer(o, child),
         \E l \in lineage' : l.admission = op[o].doc /\ l.retry = child
  PROVE  ReviewerOK(o)'
<1>1. op'[o] = [NoRetry EXCEPT !.pc = "answered", !.doc = op[o].doc, !.child = child]
  BY DEF RetryOK, ReviewersOK, Answer
<1>2. /\ op'[o].pc = "answered" /\ op'[o].doc = op[o].doc /\ op'[o].child = child
      /\ DOMAIN op'[o] = {"pc", "doc", "child", "key", "rules", "used"}
  BY <1>1 DEF NoRetry
<1> QED BY <1>2 DEF ReviewerOK

(* A reviewer whose review is unchanged moves on.                          *)
LEMMA MoveOnOK ==
  ASSUME RetryOK, UNCHANGED <<jobs, lineage>>, NEW o \in Reviewers,
         op[o].pc \in {"reviewed", "policy", "create"},
         op'[o].doc = op[o].doc, op'[o].pc \in {"reviewed", "policy", "create"},
         DOMAIN op'[o] = DOMAIN op[o],
         op'[o].pc # "reviewed" => op'[o].child \in Jobs /\ op'[o].key \in Keys,
         op'[o].pc = "create" => op'[o].rules = op[o].doc.rules
  PROVE  ReviewerOK(o)'
<1>1. ReviewerOK(o) /\ AdmissionOK(op[o].doc)
  BY DEF RetryOK, ReviewersOK, ReviewerOK
<1>2. AdmissionOK(op[o].doc)'
  BY <1>1 DEF AdmissionOK, History, Root, Entries
<1> QED BY <1>1, <1>2 DEF ReviewerOK

-----------------------------------------------------------------------------
(* A job that was not retried is the end of its chain: the root of an      *)
(* empty one or the child of the last entry.                               *)
LEMMA TailIs ==
  ASSUME LineageOK, NEW j \in Jobs, ChainOK(Root(j)), \A l \in lineage : l.source # j
  PROVE  LET size == Cardinality(Entries(Root(j)))
         IN  /\ size = 0 => j = Root(j)
             /\ size > 0 => \E k \in Entries(Root(j)) : Place(k) = size - 1 /\ k.retry = j
<1> DEFINE E == Entries(Root(j))
           N == Cardinality(E)
<1>0. /\ N \in Nat
      /\ \A l \in E : Place(l) \in 0 .. N - 1 /\ (Place(l) = 0 => l.source = Root(j))
      /\ \A n \in 0 .. N - 1 : \E l \in E : Place(l) = n
      /\ \A k, l \in E : Place(l) = Place(k) + 1 => l.source = k.retry
  BY FS_CardinalityType DEF ChainOK
<1>1. E \subseteq lineage
  BY DEF Entries
<1>2. CASE \A l \in lineage : l.retry # j
  <2>1. Root(j) = j
    BY <1>2, RootIs
  <2>2. N = 0
    <3> SUFFICES ASSUME N # 0 PROVE FALSE
      OBVIOUS
    <3> HIDE DEF E, N
    <3>1. 0 \in 0 .. N - 1
      BY <1>0
    <3> QED BY <1>0, <1>1, <2>1, <3>1
  <2> QED BY <2>1, <2>2
<1>3. ASSUME NEW k \in lineage, k.retry = j PROVE k \in E /\ Place(k) = N - 1 /\ N > 0
  <2>1. k \in E
    BY <1>3, RootIs DEF Entries
  <2> HIDE DEF E, N
  <2>2. ASSUME Place(k) # N - 1 PROVE FALSE
    <3>1. Place(k) + 1 \in 0 .. N - 1
      BY <1>0, <2>1, <2>2
    <3>2. PICK l \in E : Place(l) = Place(k) + 1
      BY <1>0, <3>1
    <3> QED BY <1>0, <1>1, <1>3, <2>1, <3>2
  <2>3. N > 0
    BY <1>0, <2>1
  <2> QED BY <2>1, <2>2, <2>3
<1>4. CASE \E k \in lineage : k.retry = j
  <2>1. PICK k \in lineage : k.retry = j
    BY <1>4
  <2>2. k \in E /\ Place(k) = N - 1 /\ N > 0
    BY <1>3, <2>1
  <2> QED BY <2>1, <2>2
<1> QED BY <1>2, <1>4

(* What holds of a new entry when its transaction commits.                 *)
NewEntry(e) ==
  /\ lineage' = lineage \cup {e}
  /\ \A l \in lineage : /\ e.source # l.source /\ e.admission # l.admission
                        /\ e.retry \notin {l.source, l.retry, l.root}
  /\ e.retry # e.root /\ \A l \in lineage : l.retry # e.root
  /\ jobs[e.retry].status = "absent"
  /\ e.root = Root(e.source)
  /\ e.history = History(e.source)
  /\ EntryOK(e)'
  /\ e.rules.max \in Nat
  /\ Place(e) < e.rules.max /\ Place(e) <= MaxHistory

(* The other chains do not change.                                         *)
LEMMA OtherChains ==
  ASSUME NEW e, NewEntry(e), NEW root, root # e.root, ChainOK(root)
  PROVE  ChainOK(root)' /\ Entries(root)' = Entries(root)
<1>1. Entries(root)' = Entries(root)
  BY DEF NewEntry, Entries
<1>2. Children(root)' = Children(root)
  BY <1>1 DEF Children
<1>3. ASSUME NEW l \in Entries(root) PROVE EarlierChildren(l)' = EarlierChildren(l)
  <2>1. l.root = root
    BY DEF Entries
  <2> QED BY <1>1, <2>1 DEF EarlierChildren, Place
<1> QED BY <1>1, <1>2, <1>3 DEF ChainOK, Place

(* The chain of the new entry grows by it at the end.                      *)
LEMMA ChainGrows ==
  ASSUME RetryOK, NEW e, NewEntry(e), e.source \in Jobs
  PROVE  ChainOK(e.root)'
<1> DEFINE root == e.root
           E == Entries(root)
           F == E \cup {e}
           N == Cardinality(E)
<1>1. root \in Jobs /\ root = Root(e.source) /\ ChainOK(root)
  BY RootIs DEF NewEntry, RetryOK
<1>2. /\ IsFiniteSet(E) /\ IsFiniteSet(Children(root)) /\ Cardinality(Children(root)) = N
      /\ \A l \in E : /\ Place(l) \in 0 .. N - 1 /\ (Place(l) = 0 => l.source = root)
                      /\ l.history = EarlierChildren(l) /\ l.root = root
      /\ \A n \in 0 .. N - 1 : \E l \in E : Place(l) = n
      /\ \A k, l \in E : /\ Place(k) = Place(l) => k = l
                         /\ Place(l) = Place(k) + 1 => l.source = k.retry
  BY <1>1 DEF ChainOK, Entries
<1>3. N \in Nat
  BY <1>2, FS_CardinalityType
<1>4. Place(e) = N /\ e.history = Children(root)
  BY <1>1, <1>2, HistoryCounts DEF NewEntry, Place
<1>5. /\ N = 0 => e.source = root
      /\ N > 0 => \E k \in E : Place(k) = N - 1 /\ k.retry = e.source
  <2>1. \A l \in lineage : l.source # e.source
    BY DEF NewEntry
  <2> QED BY <1>1, <2>1, TailIs DEF RetryOK
<1>6. Entries(root)' = F
  BY DEF NewEntry, Entries
<1>7. e \notin E /\ e.retry \notin Children(root)
  BY DEF NewEntry, Entries, Children
<1>8. Children(root)' = Children(root) \cup {e.retry}
  BY <1>6 DEF Children
<1> HIDE DEF N, E
<1>9. IsFiniteSet(F) /\ Cardinality(F) = N + 1
  BY <1>2, <1>7, FS_AddElement DEF N
<1>10. IsFiniteSet(Children(root)') /\ Cardinality(Children(root)') = N + 1
  <2> DEFINE C == Children(root)
             D == C \cup {e.retry}
  <2>1. IsFiniteSet(C) /\ e.retry \notin C /\ Cardinality(C) = N /\ Children(root)' = D
    BY <1>2, <1>7, <1>8
  <2> HIDE DEF C
  <2>2. IsFiniteSet(D) /\ Cardinality(D) = Cardinality(C) + 1
    BY <2>1, FS_AddElement
  <2> HIDE DEF D
  <2> QED BY <2>1, <2>2
<1>11. \A l \in F : /\ Place(l) \in 0 .. N /\ (Place(l) = 0 => l.source = root)
  BY <1>2, <1>3, <1>4, <1>5
<1>12. ASSUME NEW l \in E PROVE l.history = EarlierChildren(l)'
  <2>1. {m \in F : Place(m) < Place(l)} = {m \in E : Place(m) < Place(l)}
    BY <1>2, <1>3, <1>4
  <2>2. EarlierChildren(l)' = {m.retry : m \in {m \in F : Place(m) < Place(l)}}
    BY <1>2, <1>6 DEF EarlierChildren, Place
  <2>3. EarlierChildren(l) = {m.retry : m \in {m \in E : Place(m) < Place(l)}}
    BY <1>2 DEF EarlierChildren, E
  <2> QED BY <1>2, <2>1, <2>2, <2>3
<1>13. e.history = EarlierChildren(e)'
  <2>1. {m \in F : Place(m) < Place(e)} = E
    BY <1>2, <1>3, <1>4
  <2>2. EarlierChildren(e)' = {m.retry : m \in {m \in F : Place(m) < Place(e)}}
    BY <1>6 DEF EarlierChildren, Place
  <2> QED BY <1>4, <2>1, <2>2 DEF Children, E
<1>14. \A n \in 0 .. N : \E l \in F : Place(l) = n
  <2> SUFFICES ASSUME NEW n \in 0 .. N PROVE \E l \in F : Place(l) = n
    OBVIOUS
  <2>1. n = N \/ n \in 0 .. N - 1
    BY <1>3
  <2> QED BY <1>2, <1>4, <2>1
<1>15. \A k, l \in F : Place(k) = Place(l) => k = l
  BY <1>2, <1>3, <1>4
<1>16. ASSUME NEW k \in F, NEW l \in F, Place(l) = Place(k) + 1 PROVE l.source = k.retry
  <2>1. k \in E
    BY <1>3, <1>4, <1>11, <1>16
  <2>2. CASE l \in E
    BY <1>2, <1>16, <2>1, <2>2
  <2>3. CASE l = e
    <3>1. N > 0 /\ Place(k) = N - 1
      BY <1>2, <1>3, <1>4, <1>16, <2>1, <2>3
    <3>2. PICK m \in E : Place(m) = N - 1 /\ m.retry = e.source
      BY <1>5, <3>1
    <3> QED BY <1>2, <2>1, <2>3, <3>1, <3>2
  <2> QED BY <2>2, <2>3
<1>17. /\ N + 1 <= MaxHistory + 1
       /\ N + 1 > MaxHistory => e.rules.max > MaxHistory
  BY <1>3, <1>4, ManualRetryAssumption DEF NewEntry, ManualRetryAssumption
<1>18. N + 1 - 1 = N
  BY <1>3
<1>19. \A l \in F : l.history = EarlierChildren(l)'
  BY <1>12, <1>13
<1> DEFINE G == Entries(e.root)'
           C == Children(e.root)'
<1>20. G = F /\ Cardinality(G) = N + 1 /\ Cardinality(G) - 1 = N /\ IsFiniteSet(G)
  <2>1. G = F
    BY <1>6
  <2> HIDE DEF G, F
  <2> QED BY <1>3, <1>9, <2>1
<1>21. IsFiniteSet(C) /\ Cardinality(C) = Cardinality(G)
  BY <1>10, <1>20
<1>22. /\ Cardinality(G) <= MaxHistory + 1
       /\ Cardinality(G) > MaxHistory => \E l \in G : l.rules.max > MaxHistory
  BY <1>17, <1>20
<1>23. /\ \A l \in G : /\ Place(l) \in 0 .. Cardinality(G) - 1
                       /\ Place(l) = 0 => l.source = e.root
                       /\ l.history = EarlierChildren(l)'
       /\ \A n \in 0 .. Cardinality(G) - 1 : \E l \in G : Place(l) = n
       /\ \A k, l \in G : /\ Place(k) = Place(l) => k = l
                          /\ Place(l) = Place(k) + 1 => l.source = k.retry
  BY <1>11, <1>14, <1>15, <1>16, <1>19, <1>20
<1> QED
  BY <1>20, <1>21, <1>22, <1>23 DEF ChainOK

(* The lineage with the new entry has no fork either.                      *)
LEMMA LineageGrows ==
  ASSUME LineageOK, JobsKept, NEW e, NewEntry(e)
  PROVE  LineageOK'
<1>1. \A l \in lineage' : EntryOK(l)'
  BY EntryKept DEF LineageOK, NewEntry
<1>2. \A k, l \in lineage' : EntriesApart(k, l)
  BY DEF LineageOK, NewEntry, EntriesApart
<1> QED BY <1>1, <1>2 DEF LineageOK, EntriesApart

(* A review of another job still has the history of that job: two jobs     *)
(* that were not retried end different chains.                             *)
LEMMA ReviewOutlives ==
  ASSUME RetryOK, JobsKept, NEW e, NewEntry(e), e.source \in Jobs, LineageOK',
         NEW doc, AdmissionOK(doc)
  PROVE  AdmissionOK(doc)'
<1> DEFINE j == doc.job
<1>1. j \in Jobs /\ jobs'[j] = jobs[j] /\ jobs[j].status = "failed"
  BY DEF AdmissionOK, JobsKept
<1>2. ASSUME \A l \in lineage' : l.source # j PROVE History(j)' = doc.history
  <2>1. \A l \in lineage : l.source # j
    BY <1>2 DEF NewEntry
  <2>2. History(j) = doc.history
    BY <2>1 DEF AdmissionOK
  <2>3. e.source # j
    BY <1>2 DEF NewEntry
  <2>4. e.retry # j
    BY <1>1 DEF NewEntry
  <2>5. Root(j)' = Root(j)
    <3>1. CASE \A l \in lineage : l.retry # j
      BY <2>4, <3>1 DEF Root, NewEntry
    <3>2. ASSUME NEW k \in lineage, k.retry = j PROVE Root(j)' = Root(j)
      <4>1. \A l \in lineage' : l.retry = j => l = k
        BY <2>4, <3>2 DEF NewEntry, RetryOK, LineageOK, EntriesApart
      <4>2. k \in lineage'
        BY DEF NewEntry
      <4>3. Root(j)' = k.root
        BY <3>2, <4>1, <4>2 DEF Root
      <4> QED BY <1>1, <3>2, <4>3, RootIs DEF RetryOK
    <3> QED BY <3>1, <3>2
  <2>6. Root(j) # e.root
    <3> SUFFICES ASSUME Root(j) = Root(e.source) PROVE FALSE
      BY DEF NewEntry
    <3>1. \A l \in lineage : l.source # e.source
      BY DEF NewEntry
    <3>2. Root(j) \in Jobs /\ ChainOK(Root(j)) /\ ChainOK(Root(e.source))
      BY <1>1, RootIs DEF RetryOK
    <3> DEFINE E == Entries(Root(j))
               N == Cardinality(E)
    <3>3. /\ N = 0 => j = Root(j) /\ e.source = Root(j)
          /\ N > 0 => /\ \E k \in E : Place(k) = N - 1 /\ k.retry = j
                      /\ \E k \in E : Place(k) = N - 1 /\ k.retry = e.source
      BY <1>1, <2>1, <3>1, <3>2, TailIs DEF RetryOK
    <3>4. /\ N \in Nat
          /\ \A k, l \in E : Place(k) = Place(l) => k = l
      BY <3>2, FS_CardinalityType DEF ChainOK
    <3> HIDE DEF E, N
    <3>5. N = 0 \/ N > 0
      BY <3>4
    <3> QED BY <2>3, <3>3, <3>4, <3>5
  <2>7. {l \in lineage' : l.root = Root(j)} = {l \in lineage : l.root = Root(j)}
    BY <2>6 DEF NewEntry
  <2>8. History(j)' = History(j)
    BY <2>5, <2>7 DEF History, Entries
  <2> QED BY <2>2, <2>8
<1> QED BY <1>1, <1>2 DEF AdmissionOK

(* The transaction of CreateManualRetry when it creates a child.           *)
LEMMA CreationIsNew ==
  ASSUME RetryOK, NEW o \in Reviewers, op[o].pc = "create",
         Retryable(op[o].doc, op[o].child, op[o].key),
         \A l \in lineage : l.admission # op[o].doc,
         jobs' = Child(op[o].doc, op[o].child, op[o].key),
         NEW e,
         e = [admission |-> op[o].doc, source |-> op[o].doc.job,
              version |-> op[o].doc.version, retry |-> op[o].child, key |-> op[o].key,
              root |-> Root(op[o].doc.job), rules |-> op[o].rules,
              history |-> op[o].doc.history],
         lineage' = lineage \cup {e}
  PROVE  JobsOK' /\ RequestsOK' /\ JobsKept /\ e.source \in Jobs /\ NewEntry(e)
<1> DEFINE doc == op[o].doc
           j == doc.job
           child == op[o].child
           key == op[o].key
           q == Queued(key, jobs[j].request, jobs[j].max, 1)
<1>1. /\ AdmissionOK(doc) /\ child \in Jobs /\ key \in Keys /\ op[o].rules = doc.rules
  BY DEF RetryOK, ReviewersOK, ReviewerOK
<1>2. /\ j \in Jobs /\ jobs[j].status = "failed" /\ jobs[j].version = doc.version
      /\ jobs[child].status = "absent" /\ child # j
      /\ \A i \in Jobs : jobs[i].key # key
  BY <1>1 DEF AdmissionOK, Retryable
<1>3. jobs[j].request \in Requests /\ jobs[j].max \in AttemptLimits
  BY <1>2 DEF RetryOK, RequestsOK, JobsOK, RecordOK
<1>4. jobs' = [jobs EXCEPT ![child] = q]
  BY DEF Child
<1>5. RecordStep(jobs[child], q)
  BY <1>1, <1>2, <1>3 DEF RecordStep
<1>6. TypeOK
  BY DEF RetryOK, JobsOK
<1>7. JobsOK' /\ RequestsOK' /\ JobsKept
  <2>1. /\ jobs' = [k \in Jobs |-> jobs'[k]]
        /\ \A k \in Jobs : RecordStep(jobs[k], jobs'[k])
    <3> HIDE DEF q, child
    <3> QED BY <1>1, <1>4, <1>5, <1>6, OneRecord
  <2> QED BY <2>1, PointwiseKept DEF RetryOK
<1>8. /\ jobs'[child] = q /\ jobs'[j] = jobs[j]
      /\ q.status = "queued" /\ q.key = key /\ q.request = jobs[j].request
  BY <1>1, <1>2, <1>4, <1>6 DEF TypeOK, Queued
<1>9. \A l \in lineage : l.source # j
  BY <1>2 DEF Retryable, RetryOK, LineageOK, EntryOK
<1>10. History(j) = doc.history
  BY <1>1, <1>9 DEF AdmissionOK
<1>11. /\ e.admission = doc /\ e.source = j /\ e.version = doc.version
       /\ e.retry = child /\ e.key = key /\ e.root = Root(j) /\ e.rules = op[o].rules
       /\ e.history = doc.history
  OBVIOUS
<1>12. ASSUME NEW l \in lineage
       PROVE  child \notin {l.source, l.retry, l.root}
  BY <1>2 DEF RetryOK, LineageOK, EntryOK
<1>13. /\ Root(j) \in Jobs /\ jobs[Root(j)].status # "absent"
       /\ \A l \in lineage : l.retry # Root(j)
  <2>1. CASE \A l \in lineage : l.retry # j
    BY <1>2, <2>1, RootIs DEF RetryOK
  <2>2. ASSUME NEW k \in lineage, k.retry = j
        PROVE  /\ Root(j) \in Jobs /\ jobs[Root(j)].status # "absent"
               /\ \A l \in lineage : l.retry # Root(j)
    BY <1>2, <2>2, RootIs DEF RetryOK, LineageOK, EntryOK, EntriesApart
  <2> QED BY <2>1, <2>2
<1> HIDE DEF q, child, key, j, doc
<1>14. EntryOK(e)'
  <2>1. {e.source, e.retry, e.root} \subseteq Jobs
    BY <1>1, <1>2, <1>11, <1>13
  <2>2. /\ jobs'[e.source].status = "failed" /\ jobs'[e.source].version = e.version
        /\ jobs'[e.retry].status # "absent"
        /\ jobs'[e.retry].key = e.key /\ e.key # jobs'[e.source].key
        /\ jobs'[e.retry].request = jobs'[e.source].request
    BY <1>2, <1>8, <1>11
  <2>3. jobs'[e.root].status # "absent"
    BY <1>7, <1>11, <1>13 DEF JobsKept
  <2>4. /\ e.rules = e.admission.rules /\ e.rules \in Rules /\ e.rules.allows
        /\ Cardinality(e.history) < e.rules.max
    BY <1>1, <1>11 DEF AdmissionOK
  <2> QED BY <2>1, <2>2, <2>3, <2>4 DEF EntryOK
<1>15. /\ e.rules.max \in Nat
       /\ Place(e) < e.rules.max /\ Place(e) <= MaxHistory
  BY <1>1, <1>11, ManualRetryAssumption DEF AdmissionOK, Place, ManualRetryAssumption
<1>16. child # Root(j)
  BY <1>2, <1>13
<1>17. \A l \in lineage : /\ e.source # l.source /\ e.admission # l.admission
                          /\ e.retry \notin {l.source, l.retry, l.root}
  BY <1>9, <1>11, <1>12 DEF doc
<1> QED
  BY <1>2, <1>7, <1>10, <1>11, <1>13, <1>14, <1>15, <1>16, <1>17 DEF NewEntry

(* CreateManualRetry keeps the invariant, whether it creates or answers.   *)
LEMMA CreateManualRetryOK ==
  ASSUME RetryOK, NEW o \in Reviewers, CreateManualRetry(o)
  PROVE  RetryOK'
<1> DEFINE doc == op[o].doc
           child == op[o].child
           key == op[o].key
           known == {l \in lineage : l.admission = doc}
           new == [admission |-> doc, source |-> doc.job, version |-> doc.version,
                   retry |-> child, key |-> key, root |-> Root(doc.job),
                   rules |-> op[o].rules, history |-> doc.history]
           kept == [NoRetry EXCEPT !.pc = "reviewed", !.doc = doc]
<1>0. /\ op[o].pc = "create" /\ rules' = rules
      /\ ReviewerOK(o) /\ AdmissionOK(doc) /\ DOMAIN op = Reviewers
  BY DEF CreateManualRetry, RetryOK, ReviewersOK, ReviewerOK
<1>1. CASE known = {} /\ Retryable(doc, child, key)
  <2>1. /\ jobs' = Child(doc, child, key) /\ lineage' = lineage \cup {new}
        /\ Answer(o, child) \/ op' = [op EXCEPT ![o] = kept]
    BY <1>1 DEF CreateManualRetry
  <2>2. \A l \in lineage : l.admission # doc
    BY <1>1
  <2> SUFFICES ASSUME NEW e, e = new PROVE RetryOK'
    OBVIOUS
  <2>3. JobsOK' /\ RequestsOK' /\ JobsKept /\ e.source \in Jobs /\ NewEntry(e)
    BY <1>0, <1>1, <2>1, <2>2, CreationIsNew
  <2>4. LineageOK'
    BY <2>3, LineageGrows DEF RetryOK
  <2>5. \A root \in Jobs : ChainOK(root)'
    BY <2>3, OtherChains, ChainGrows DEF RetryOK
  <2>6. ASSUME NEW d, AdmissionOK(d) PROVE AdmissionOK(d)'
    BY <2>3, <2>4, <2>6, ReviewOutlives
  <2>7. e \in lineage' /\ lineage \subseteq lineage' /\ e.admission = doc /\ e.retry = child
    BY <2>1
  <2>8. DOMAIN op' = Reviewers /\ \A p \in Reviewers \ {o} : op'[p] = op[p]
    BY <1>0, <2>1 DEF Answer
  <2> HIDE DEF new, kept, known
  <2>9. ASSUME NEW p \in Reviewers, NEW r, AdmissionOK(r), op'[p].doc = r
        PROVE  AdmissionOK(op[p].doc)'
    <3>1. AdmissionOK(r)'
      BY <2>6, <2>9
    <3> QED BY <2>9, <3>1 DEF AdmissionOK, History, Root, Entries
  <2>10. ASSUME NEW p \in Reviewers, p # o PROVE ReviewerOK(p)'
    <3>1. ReviewerOK(p) /\ op'[p] = op[p]
      BY <2>8, <2>10 DEF RetryOK, ReviewersOK
    <3>2. AdmissionOK(op[p].doc) => AdmissionOK(op[p].doc)'
      <4> SUFFICES ASSUME AdmissionOK(op[p].doc), NEW r, r = op[p].doc
                   PROVE  AdmissionOK(op[p].doc)'
        OBVIOUS
      <4>1. op'[p].doc = r
        BY <3>1
      <4>2. AdmissionOK(r)
        BY DEF AdmissionOK
      <4> QED BY <2>9, <4>1, <4>2
    <3> QED BY <2>7, <3>1, <3>2 DEF ReviewerOK
  <2>11. ReviewerOK(o)'
    <3>1. CASE Answer(o, child)
      <4>1. \E l \in lineage' : l.admission = op[o].doc /\ l.retry = child
        BY <2>7
      <4> QED BY <3>1, <4>1, AnswerOK
    <3>2. CASE op' = [op EXCEPT ![o] = kept]
      <4>1. op'[o] = kept
        BY <1>0, <3>2
      <4>2. /\ op'[o].pc = "reviewed" /\ op'[o].doc = doc
            /\ DOMAIN op'[o] = {"pc", "doc", "child", "key", "rules", "used"}
        BY <4>1 DEF kept, NoRetry
      <4> SUFFICES ASSUME NEW r, r = doc PROVE ReviewerOK(o)'
        OBVIOUS
      <4>3. AdmissionOK(r) /\ op'[o].doc = r
        BY <1>0, <4>2 DEF AdmissionOK
      <4>4. AdmissionOK(op[o].doc)'
        BY <2>9, <4>3
      <4> QED BY <4>2, <4>4 DEF ReviewerOK
    <3> QED BY <2>1, <3>1, <3>2
  <2>12. ReviewersOK'
    BY <2>8, <2>10, <2>11 DEF ReviewersOK
  <2> QED BY <1>0, <2>3, <2>4, <2>5, <2>12 DEF RetryOK
<1>2. CASE ~(known = {} /\ Retryable(doc, child, key))
  <2>1. /\ UNCHANGED <<jobs, lineage, rules>>
        /\ \/ Answer(o, child) /\ \E l \in known : l.retry = child
           \/ RefuseRetry(o)
    BY <1>2 DEF CreateManualRetry
  <2>2. CASE Answer(o, child) /\ \E l \in known : l.retry = child
    <3>1. \E l \in lineage' : l.admission = op[o].doc /\ l.retry = child
      BY <2>1, <2>2
    <3>2. ReviewerOK(o)'
      BY <2>2, <3>1, AnswerOK
    <3> QED BY <2>1, <2>2, <3>2, ReviewerMoves DEF Answer
  <2>3. CASE RefuseRetry(o)
    BY <2>1, <2>3, RefuseOK, ReviewerMoves DEF RefuseRetry
  <2> QED BY <2>1, <2>2, <2>3
<1> QED BY <1>1, <1>2

(* Every step keeps the invariant.                                         *)
LEMMA RetryNextOK == RetryOK /\ [ManualRetryNext]_retryVars => RetryOK'
<1> SUFFICES ASSUME RetryOK, [ManualRetryNext]_retryVars PROVE RetryOK'
  OBVIOUS
<1>0. DOMAIN op = Reviewers /\ \A o \in Reviewers : ReviewerOK(o)
  BY DEF RetryOK, ReviewersOK
<1>1. CASE QueueStep
  <2>1. JobsOK' /\ RequestsOK' /\ JobsKept
    BY <1>1, QueueStepKept DEF RetryOK
  <2>2. UNCHANGED <<lineage, rules, op>> /\ rules' \in Rules
    BY <1>1 DEF QueueStep, RetryOK
  <2>3. /\ \A o \in Reviewers \ {} : op'[o] = op[o]
        /\ \A o \in Reviewers \cap {} : ReviewerOK(o)'
    BY <2>2
  <2> QED BY <1>0, <2>1, <2>2, <2>3, LineageStays
<1>2. CASE ChangeRules \/ UNCHANGED retryVars
  <2>1. UNCHANGED <<jobs, lineage, op>> /\ rules' \in Rules
    BY <1>2 DEF ChangeRules, retryVars, RetryOK
  <2>2. JobsOK' /\ RequestsOK' /\ JobsKept
    BY <2>1 DEF RetryOK, JobsOK, TypeOK, RequestsOK, JobsKept
  <2>3. /\ \A o \in Reviewers \ {} : op'[o] = op[o]
        /\ \A o \in Reviewers \cap {} : ReviewerOK(o)'
    BY <2>1
  <2> QED BY <1>0, <2>1, <2>2, <2>3, LineageStays
<1>3. ASSUME NEW o \in Reviewers, NEW j \in Jobs, NEW seen \in Reviews,
             ReviewRetry(o, j, seen)
      PROVE  RetryOK'
  BY <1>3, ReviewRetryOK
<1>4. ASSUME NEW o \in Reviewers, NEW child \in Jobs, NEW key \in Keys,
             SubmitAgain(o, child, key)
      PROVE  RetryOK'
  <2>1. /\ UNCHANGED <<jobs, lineage, rules>>
        /\ \/ /\ Answer(o, child)
              /\ \E l \in lineage : l.admission = op[o].doc /\ l.retry = child
           \/ RefuseRetry(o)
    BY <1>4 DEF SubmitAgain, Replayed
  <2>2. ReviewerOK(o)'
    BY <2>1, AnswerOK, RefuseOK DEF RefuseRetry
  <2> QED BY <2>1, <2>2, ReviewerMoves DEF Answer, RefuseRetry
<1>5. ASSUME NEW o \in Reviewers, NEW child \in Jobs, NEW key \in Keys,
             Submit(o, child, key)
      PROVE  RetryOK'
  <2> DEFINE r == [op[o] EXCEPT !.pc = "policy", !.child = child, !.key = key,
                                !.rules = rules, !.used = Used(op[o].doc.job)]
  <2>1. /\ UNCHANGED <<jobs, lineage, rules>> /\ op[o].pc = "reviewed"
        /\ RefuseRetry(o) \/ op' = [op EXCEPT ![o] = r]
    BY <1>5 DEF Submit
  <2>2. CASE RefuseRetry(o)
    BY <2>1, <2>2, RefuseOK, ReviewerMoves DEF RefuseRetry
  <2>3. CASE op' = [op EXCEPT ![o] = r]
    <3>1. op'[o] = r
      BY <1>0, <2>3
    <3>2. DOMAIN op[o] = {"pc", "doc", "child", "key", "rules", "used"}
      BY <1>0 DEF ReviewerOK
    <3>3. /\ op'[o].pc = "policy" /\ op'[o].child = child /\ op'[o].key = key
          /\ op'[o].doc = op[o].doc /\ DOMAIN op'[o] = DOMAIN op[o]
      BY <3>1, <3>2
    <3>4. ReviewerOK(o)'
      BY <2>1, <3>3, MoveOnOK
    <3> QED BY <2>1, <2>3, <3>4, ReviewerMoves
  <2> QED BY <2>1, <2>2, <2>3
<1>6. ASSUME NEW o \in Reviewers, Revalidate(o) PROVE RetryOK'
  <2> DEFINE r == [op[o] EXCEPT !.pc = "create", !.used = 0]
  <2>0. DOMAIN op[o] = {"pc", "doc", "child", "key", "rules", "used"}
    BY <1>0 DEF ReviewerOK
  <2>1. /\ UNCHANGED <<jobs, lineage, rules>> /\ op[o].pc = "policy"
        /\ \/ RefuseRetry(o)
           \/ op[o].rules = op[o].doc.rules /\ op' = [op EXCEPT ![o].pc = "create", ![o].used = 0]
    BY <1>6 DEF Revalidate
  <2>2. CASE RefuseRetry(o)
    BY <2>1, <2>2, RefuseOK, ReviewerMoves DEF RefuseRetry
  <2>3. CASE /\ op[o].rules = op[o].doc.rules
             /\ op' = [op EXCEPT ![o].pc = "create", ![o].used = 0]
    <3>1. op' = [op EXCEPT ![o] = r]
      BY <1>0, <2>0, <2>3
    <3>2. op'[o] = r
      BY <1>0, <3>1
    <3>3. /\ op'[o].pc = "create" /\ op'[o].child = op[o].child /\ op'[o].key = op[o].key
          /\ op'[o].doc = op[o].doc /\ DOMAIN op'[o] = DOMAIN op[o]
          /\ op'[o].rules = op[o].rules
      BY <2>0, <3>2
    <3>4. op[o].child \in Jobs /\ op[o].key \in Keys
      BY <1>0, <2>1 DEF ReviewerOK
    <3>5. ReviewerOK(o)'
      BY <2>1, <2>3, <3>3, <3>4, MoveOnOK
    <3> QED BY <2>1, <3>1, <3>5, ReviewerMoves
  <2> QED BY <2>1, <2>2, <2>3
<1>7. ASSUME NEW o \in Reviewers, CreateManualRetry(o) PROVE RetryOK'
  BY <1>7, CreateManualRetryOK
<1>8. ASSUME NEW o \in Reviewers, Leave(o) PROVE RetryOK'
  BY <1>8, RefuseOK, ReviewerMoves DEF Leave
<1> QED
  BY <1>1, <1>2, <1>3, <1>4, <1>5, <1>6, <1>7, <1>8 DEF ManualRetryNext

(* Manual retry always satisfies its inductive invariant.                  *)
LEMMA RetryInvariance == ManualRetrySpec => []RetryOK
BY RetryInitOK, RetryNextOK, PTL DEF ManualRetrySpec

(* For any number of jobs, operators, policies and retries, and whatever   *)
(* their order: the lineage is one chain per root, readable up to the one  *)
(* retry that a budget beyond the size limit admits, and each retry leaves *)
(* its source failed as reviewed and repeats it under a key of its own.    *)
THEOREM ChainsStayReadable == ManualRetrySpec => []ChainsAreReadable
BY RetryInvariance, RetryOKReadable, PTL

(* A retry is within the budget its operator reviewed, the history counted *)
(* is the one that precedes it, and one admission creates one child,       *)
(* although everything is read before the transaction that creates it.     *)
THEOREM RetriesAreAdmitted == ManualRetrySpec => []RetriesWereAdmitted
BY RetryInvariance, RetryOKAdmitted, PTL

(* With budgets within the size limit every chain can be read again: the   *)
(* review of a failed job never fails on the history it has.               *)
THEOREM HistoriesStayValid ==
  ASSUME \A r \in Rules : r.max <= MaxHistory
  PROVE  ManualRetrySpec => [](\A j \in Jobs : HistoryValid(j))
<1>1. RetryOK => \A j \in Jobs : HistoryValid(j)
  <2> SUFFICES ASSUME RetryOK, NEW j \in Jobs PROVE HistoryValid(j)
    OBVIOUS
  <2>1. \A l \in Entries(Root(j)) : l.rules.max <= MaxHistory /\ l.rules.max \in Nat
    BY ManualRetryAssumption DEF ManualRetryAssumption, RetryOK, LineageOK, EntryOK, Entries
  <2>2. ~ \E l \in Entries(Root(j)) : l.rules.max > MaxHistory
    BY <2>1, ManualRetryAssumption DEF ManualRetryAssumption
  <2> QED BY <2>2, RetryOKReadable DEF ChainsAreReadable
<1> QED BY <1>1, RetryInvariance, PTL
=============================================================================
