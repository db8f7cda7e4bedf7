------------------------------ MODULE JobQueue ------------------------------
(***************************************************************************)
(* The durable job repository of the orchestration layer: the interface    *)
(* job.Repository with its two implementations, MemoryRepository           *)
(* (internal/orchestration/job/memory.go) and the PostgreSQL               *)
(* JobRepository (internal/persistence/postgres/jobs.go).  Every method    *)
(* runs under one mutex or in one transaction, so each is one action.      *)
(*                                                                         *)
(* Time is relative.  The timer of a job is the distance from the true     *)
(* time to Lease.ExpiresAt while the job is leased, and to NextAttemptAt   *)
(* while it waits for a retry.  A caller reads its clock before the call   *)
(* reaches the repository, so the "now" it passes may lie up to MaxLag in  *)
(* the past: an instant is After(now) when its timer exceeds the negated   *)
(* lag.                                                                    *)
(***************************************************************************)
EXTENDS Integers

CONSTANTS
  Jobs,           \* job identifiers, compared as the code compares strings
  Keys,           \* idempotency keys
  Requests,       \* fingerprints of (change id, action, input)
  Workers,        \* worker identifiers
  NoWorker,       \* the holder of a job that is not leased
  NoValue,        \* the key and the request of a job that does not exist
  AttemptLimits,  \* the MaxAttempts values a creation request may carry
  LeaseTTL,       \* Worker.LeaseTTL
  BaseDelay,      \* RetryPolicy.BaseDelay
  MaxDelay,       \* RetryPolicy.MaxDelay, 0 for none
  MaxLag,         \* how far a caller's "now" may lie in the past
  MaxVersion,     \* bound: a lease is renewed only below this version
  Backend         \* "memory" or "postgres"

VARIABLE jobs     \* job identifier -> job record

Terminal == {"cancelled", "succeeded", "failed"}
Leased == {"running", "cancel_requested"}
Statuses == {"absent", "queued", "retry_wait"} \cup Leased \cup Terminal
Lags == 0 .. MaxLag

(***************************************************************************)
(* retryDelay: the base delay doubled once per earlier attempt, capped.    *)
(***************************************************************************)
retryDelay(attempt) ==
  LET delay[i \in 1 .. attempt] == IF i = 1 THEN BaseDelay ELSE 2 * delay[i - 1]
  IN  IF MaxDelay > 0 /\ delay[attempt] > MaxDelay THEN MaxDelay ELSE delay[attempt]

ASSUME JobQueueAssumption ==
  /\ Jobs \subseteq Nat
  /\ NoWorker \notin Workers
  /\ AttemptLimits \subseteq Nat \ {0}
  /\ LeaseTTL \in Nat \ {0}
  /\ MaxLag \in Nat
  /\ MaxVersion \in Nat
  /\ BaseDelay \in Nat \ {0} /\ MaxDelay \in Nat
  /\ Backend \in {"memory", "postgres"}

(***************************************************************************)
(* A job record.  A lease is nil exactly when its token is 0; the output   *)
(* is abstracted to its kind and to the attempt that produced it.          *)
(***************************************************************************)
JobRecord ==
  [status: Statuses, attempt: Nat, max: Nat, token: Nat,
   holder: Workers \cup {NoWorker}, timer: Int,
   key: Keys \cup {NoValue}, request: Requests \cup {NoValue}, createdAt: Nat,
   output: {"none", "success", "failure"}, outputOf: Nat, version: Nat]

Absent ==
  [status |-> "absent", attempt |-> 0, max |-> 0, token |-> 0,
   holder |-> NoWorker, timer |-> 0, key |-> NoValue, request |-> NoValue,
   createdAt |-> 0, output |-> "none", outputOf |-> 0, version |-> 0]

JobQueueInit == jobs = [j \in Jobs |-> Absent]

-----------------------------------------------------------------------------
(* What the methods do to one record.                                      *)

Queued(key, request, limit, at) ==
  [status |-> "queued", attempt |-> 0, max |-> limit, token |-> 0,
   holder |-> NoWorker, timer |-> 0, key |-> key, request |-> request,
   createdAt |-> at, output |-> "none", outputOf |-> 0, version |-> 1]

(* The lease of a job set, or (token 0) cleared.                           *)
WithLease(r, token, holder, timer) ==
  [r EXCEPT !.token = token, !.holder = holder, !.timer = timer]

(* Mutants of Released: the lease survives the status it belongs to; the   *)
(* version is not advanced.                                                *)
ReleasedKeepsLease(r, s) == [r EXCEPT !.status = s, !.version = @ + 1]
ReleasedSameVersion(r, s) == [WithLease(r, 0, NoWorker, 0) EXCEPT !.status = s]

(* The lease dropped, the record stored in status s under the next version. *)
Released(r, s) ==
  [WithLease(r, 0, NoWorker, 0) EXCEPT !.status = s, !.version = @ + 1]

(* Mutants of Granted: the attempt is not counted; the token of a lease    *)
(* that ran out is handed out again.                                       *)
GrantedUncounted(r, w, lag) ==
  [WithLease(r, r.version + 1, w, LeaseTTL - lag) EXCEPT
     !.status = "running", !.version = @ + 1]
GrantedOldToken(r, w, lag) ==
  [WithLease(r, IF r.token = 0 THEN r.version + 1 ELSE r.token, w, LeaseTTL - lag)
     EXCEPT !.status = "running", !.attempt = @ + 1, !.version = @ + 1]

(***************************************************************************)
(* A claim starts the next attempt under a token nobody held before:       *)
(* leaseToken hashes the new version, PostgreSQL draws 32 random bytes.    *)
(***************************************************************************)
Granted(r, w, lag) ==
  [WithLease(r, r.version + 1, w, LeaseTTL - lag) EXCEPT
     !.status = "running", !.attempt = @ + 1, !.version = @ + 1]

Renewed(r, lag) == [r EXCEPT !.timer = LeaseTTL - lag, !.version = @ + 1]

(* The output that the current attempt leaves behind.                      *)
WithOutput(r, kind) == [r EXCEPT !.output = kind, !.outputOf = r.attempt]

(* Success of a job whose cancellation was requested is a cancellation, and *)
(* its output is not stored.                                               *)
Completed(r) ==
  IF r.status = "cancel_requested"
  THEN Released(r, "cancelled")
  ELSE WithOutput(Released(r, "succeeded"), "success")

(* Mutant of AttemptFailed: off by one, a retry is scheduled after the last *)
(* attempt.                                                                *)
AttemptFailedRetries(r, lag) ==
  LET s == IF r.status = "cancel_requested" THEN "cancelled"
           ELSE IF r.attempt <= r.max THEN "retry_wait" ELSE "failed"
  IN  WithOutput(Released(r, s), "failure")

AttemptFailed(r, lag) ==
  LET s == IF r.status = "cancel_requested" THEN "cancelled"
           ELSE IF r.attempt < r.max THEN "retry_wait" ELSE "failed"
  IN  WithOutput([Released(r, s) EXCEPT
        !.timer = IF s = "retry_wait" THEN retryDelay(r.attempt) - lag ELSE 0],
        "failure")

(* A second request finds cancel_requested and cancels at once.            *)
CancelRequested(r) ==
  CASE r.status \in Terminal -> r
    [] r.status = "running" ->
         [r EXCEPT !.status = "cancel_requested", !.version = @ + 1]
    [] OTHER -> Released(r, "cancelled")

-----------------------------------------------------------------------------
(* The conditions of Claim and of the lease-bound methods.                 *)

After(r, lag) == r.timer > -lag

ExpiredCancel(r, lag) == r.status = "cancel_requested" /\ ~After(r, lag)

(* Mutant of Eligible: a running job is taken without a look at its lease.  *)
EligibleLeased(r, lag) ==
  \/ r.status \in {"queued", "running"}
  \/ r.status = "retry_wait" /\ ~After(r, lag)

Eligible(r, lag) ==
  \/ r.status = "queued"
  \/ r.status \in {"retry_wait", "running"} /\ ~After(r, lag)

Claimable(r, lag) == Eligible(r, lag) /\ r.attempt < r.max

(* Mutant of MemoryExhausted: a job out of attempts is passed over.        *)
NeverExhausted(r, lag) == FALSE

(* The loop of MemoryRepository.Claim fails what it finds eligible but out  *)
(* of attempts.                                                            *)
MemoryExhausted(r, lag) == Eligible(r, lag) /\ r.attempt >= r.max

(* The second sweep of the PostgreSQL Claim does not look at the retry time. *)
PostgresExhausted(r, lag) ==
  /\ r.attempt >= r.max
  /\ \/ r.status \in {"queued", "retry_wait"}
     \/ r.status = "running" /\ ~After(r, lag)

(* The claim order: creation time, then identifier.                        *)
Before(j, k) ==
  \/ jobs[j].createdAt < jobs[k].createdAt
  \/ jobs[j].createdAt = jobs[k].createdAt /\ j < k

(* Mutant of Holds: any token will do.                                     *)
HoldsAnyToken(j, token, lag) ==
  jobs[j].status \in Leased /\ After(jobs[j], lag)

(* leased: the token is the current one and the lease has not expired.     *)
Holds(j, token, lag) ==
  /\ jobs[j].status \in Leased
  /\ jobs[j].token = token
  /\ After(jobs[j], lag)

-----------------------------------------------------------------------------
(* The methods.                                                            *)

(***************************************************************************)
(* Create stores a new job unless its key or its identifier is taken; a    *)
(* request that finds its key returns the stored job (same fingerprint) or *)
(* ErrIdempotencyConflict and changes nothing.                             *)
(***************************************************************************)
Create(j, key, request, limit, at) ==
  /\ jobs[j].status = "absent"
  /\ \A k \in Jobs : jobs[k].key # key
  /\ jobs' = [jobs EXCEPT ![j] = Queued(key, request, limit, at)]

(***************************************************************************)
(* The memory Claim walks the jobs in claim order, cancels and fails what  *)
(* it passes, and stops at the first job it can grant.                     *)
(***************************************************************************)
MemoryClaim(w, lag) ==
  LET grantable == {j \in Jobs : Claimable(jobs[j], lag)}
      granted(j) == /\ j \in grantable
                    /\ \A k \in grantable \ {j} : Before(j, k)
      passed(j) == \A k \in grantable : Before(j, k)
  IN  jobs' = [j \in Jobs |->
        CASE granted(j) -> Granted(jobs[j], w, lag)
          [] passed(j) /\ ExpiredCancel(jobs[j], lag) ->
               Released(jobs[j], "cancelled")
          [] passed(j) /\ MemoryExhausted(jobs[j], lag) ->
               Released(jobs[j], "failed")
          [] OTHER -> jobs[j]]

(***************************************************************************)
(* The PostgreSQL Claim sweeps every job, then grants one claimable job.   *)
(* SKIP LOCKED passes over rows a concurrent transaction holds, so any     *)
(* claimable job, or none, may be the one granted (the set "picked").      *)
(***************************************************************************)
PostgresClaim(w, lag, picked) ==
  /\ \A j \in picked : Claimable(jobs[j], lag)
  /\ \A j, k \in picked : j = k
  /\ jobs' = [j \in Jobs |->
       CASE j \in picked -> Granted(jobs[j], w, lag)
         [] ExpiredCancel(jobs[j], lag) -> Released(jobs[j], "cancelled")
         [] PostgresExhausted(jobs[j], lag) -> Released(jobs[j], "failed")
         [] OTHER -> jobs[j]]

Picks == {{}} \cup {{j} : j \in Jobs}

Claim(w) ==
  \E lag \in Lags :
    IF Backend = "memory" THEN MemoryClaim(w, lag)
    ELSE \E picked \in Picks : PostgresClaim(w, lag, picked)

RenewLease(j, token, lag) ==
  /\ Holds(j, token, lag)
  /\ jobs[j].version < MaxVersion
  /\ jobs' = [jobs EXCEPT ![j] = Renewed(@, lag)]

Succeed(j, token, lag) ==
  /\ Holds(j, token, lag)
  /\ jobs' = [jobs EXCEPT ![j] = Completed(@)]

Fail(j, token, lag) ==
  /\ Holds(j, token, lag)
  /\ jobs' = [jobs EXCEPT ![j] = AttemptFailed(@, lag)]

RequestCancel(j) ==
  /\ jobs[j].status # "absent"
  /\ jobs' = [jobs EXCEPT ![j] = CancelRequested(@)]

RequestCancelIfVersion(j, expected) ==
  /\ expected # 0
  /\ jobs[j].version = expected
  /\ jobs' = [jobs EXCEPT ![j] = CancelRequested(@)]

(* Time passes for every lease and every retry wait.                       *)
Tick ==
  jobs' = [j \in Jobs |->
    IF /\ jobs[j].status \in Leased \cup {"retry_wait"}
       /\ jobs[j].timer > -MaxLag
    THEN [jobs[j] EXCEPT !.timer = @ - 1]
    ELSE jobs[j]]

(* Two jobs created one after the other may carry the same creation time.  *)
CreationTimes ==
  LET latest == {t \in {jobs[j].createdAt : j \in Jobs} :
                   \A j \in Jobs : jobs[j].createdAt <= t}
  IN  latest \cup {t + 1 : t \in latest}

(* A token in circulation is the version under which it was issued.        *)
Tokens(j) == 1 .. jobs[j].version

JobQueueNext ==
  \/ Tick
  \/ \E w \in Workers : Claim(w)
  \/ \E j \in Jobs :
       \/ \E key \in Keys, request \in Requests, limit \in AttemptLimits,
             at \in CreationTimes : Create(j, key, request, limit, at)
       \/ \E token \in Tokens(j), lag \in Lags :
            \/ RenewLease(j, token, lag)
            \/ Succeed(j, token, lag)
            \/ Fail(j, token, lag)
       \/ RequestCancel(j)
       \/ \E v \in 1 .. jobs[j].version : RequestCancelIfVersion(j, v)

JobQueueSpec == JobQueueInit /\ [][JobQueueNext]_jobs

-----------------------------------------------------------------------------
(* The state of every job is a job record.                                 *)
TypeOK == jobs \in [Jobs -> JobRecord]

LeaseOK(r) ==
  /\ r.status \in Leased <=> r.token # 0
  /\ r.token # 0 <=> r.holder # NoWorker
  /\ r.token <= r.version

(***************************************************************************)
(* A job carries a lease exactly while it is running or waiting for its    *)
(* holder to notice a cancellation; no path that leaves those states keeps *)
(* a token that a late worker could still present.                         *)
(***************************************************************************)
LeaseMatchesStatus == \A j \in Jobs : LeaseOK(jobs[j])

AttemptsOK(r) ==
  /\ r.attempt <= r.max
  /\ r.status \in {"absent", "queued"} => r.attempt = 0
  /\ r.status \in Leased \cup {"retry_wait", "succeeded", "failed"} => r.attempt > 0
  /\ r.status = "retry_wait" => r.attempt < r.max
  /\ r.status = "failed" => r.attempt = r.max

(***************************************************************************)
(* Attempts are neither lost nor exceeded: a queued job never ran, a job   *)
(* waits for a retry only while it has attempts left (the two Claim        *)
(* implementations agree only because of this), and a job is failed only   *)
(* after its last attempt.                                                 *)
(***************************************************************************)
AttemptAccounting == \A j \in Jobs : AttemptsOK(jobs[j])

OutputOK(r) ==
  /\ r.output = "success" <=> r.status = "succeeded"
  /\ r.status = "succeeded" => r.outputOf = r.attempt
  /\ r.outputOf <= r.attempt
  /\ r.status = "retry_wait" => r.output = "failure" /\ r.outputOf = r.attempt

(***************************************************************************)
(* An output is stored as a success only for a job that succeeded, and it  *)
(* is the output of the attempt that succeeded; a cancelled job never      *)
(* publishes a success.                                                    *)
(***************************************************************************)
OutputProvenance == \A j \in Jobs : OutputOK(jobs[j])

(* An idempotency key names at most one job.                               *)
KeyNamesOneJob ==
  \A j, k \in Jobs :
    jobs[j].status # "absent" /\ jobs[k].status # "absent"
      /\ jobs[j].key = jobs[k].key => j = k

(***************************************************************************)
(* Every stored change of a job carries the next version, and nothing but  *)
(* the passing of time changes a job without one.  Version-bound           *)
(* cancellation relies on this.                                            *)
(***************************************************************************)
VersionStep(r, s) ==
  s # r => \/ s.version = r.version + 1
           \/ s = [r EXCEPT !.timer = s.timer]

(***************************************************************************)
(* A cancelled, succeeded or failed job never changes again, and a job     *)
(* whose cancellation was requested can only end up cancelled.             *)
(***************************************************************************)
FinalStep(r, s) ==
  /\ r.status \in Terminal => s = r
  /\ r.status = "cancel_requested" => s.status \in {"cancel_requested", "cancelled"}

(***************************************************************************)
(* A lease that has not expired is never handed to another claimer: a new  *)
(* attempt or token appears only on a job that held no lease or whose      *)
(* lease had run out at the true time.                                     *)
(***************************************************************************)
LeaseStep(r, s) ==
  /\ s.attempt \in {r.attempt, r.attempt + 1}
  /\ s.attempt # r.attempt =>
       /\ s.status = "running" /\ s.token > r.token
       /\ r.status \in {"queued", "retry_wait", "running"}
       /\ r.token # 0 => r.timer <= 0
  /\ s.attempt = r.attempt => s.token \in {0, r.token}

(* Every stored change of a job advances its version by one (VersionStep). *)
VersionsAdvance == [][\A j \in Jobs : VersionStep(jobs[j], jobs'[j])]_jobs

(* A final status is never left, a requested cancellation never overridden *)
(* (FinalStep).                                                            *)
FinalStatesStay == [][\A j \in Jobs : FinalStep(jobs[j], jobs'[j])]_jobs

(* A new attempt starts only where no live lease is held (LeaseStep).      *)
LiveLeaseIsExclusive == [][\A j \in Jobs : LeaseStep(jobs[j], jobs'[j])]_jobs

-----------------------------------------------------------------------------
(***************************************************************************)
(* The repository implements the lifecycle that the timeline evidence      *)
(* accepts: seen through status, attempt and limit, every call takes each  *)
(* job through at most one legal step.                                     *)
(***************************************************************************)
Lifecycle ==
  INSTANCE JobLifecycle WITH
    life <- [j \in Jobs |-> [status |-> jobs[j].status,
                             attempt |-> jobs[j].attempt,
                             max |-> jobs[j].max]]

ImplementsLifecycle == Lifecycle!LifeSpec

(***************************************************************************)
(* The contract in the comment of TimelineEntryFromTransition: a stored    *)
(* change either yields an entry or, like a lease renewal, yields none; it *)
(* is never refused as invalid.  The code does not keep it: see "Known     *)
(* disagreements" in the README.                                           *)
(***************************************************************************)
EveryVersionHasEvidence ==
  [][\A j \in Jobs :
       jobs'[j].version # jobs[j].version =>
         Lifecycle!TimelineEvents(jobs[j], jobs'[j]) # {}]_jobs
=============================================================================
