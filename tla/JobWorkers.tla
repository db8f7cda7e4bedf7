----------------------------- MODULE JobWorkers -----------------------------
(***************************************************************************)
(* Workers (internal/orchestration/worker/worker.go) and operators acting  *)
(* on the job repository at the same time.  A worker claims a job, keeps   *)
(* its lease alive from a second goroutine while it executes and verifies  *)
(* the action, and finally reports under the token of its claim.  An       *)
(* operator reviews a job and later cancels it, bound to the version       *)
(* reviewed (cmd/control-center/orchestration_cancel_version.go).  Workers *)
(* pause, lose the repository and crash at any point; the actions of       *)
(* JobQueue are the repository calls they make.                            *)
(***************************************************************************)
EXTENDS JobQueue

CONSTANTS
  Operators,    \* operators who review and cancel jobs
  NoJob         \* the review of an operator who has none, the job of an idle worker

ASSUME JobWorkersAssumption == NoJob \notin Jobs

VARIABLES
  worker,       \* worker -> its run: step, claimed job, token, attempt, renewal
  executed,     \* <<job, attempt>> whose Execute was called: the side effects
  verified,     \* <<job, attempt>> whose Verify returned without an error
  review        \* operator -> the job record reviewed and not yet acted on

wvars == <<jobs, worker, executed, verified, review>>

Steps == {"idle", "claimed", "executing", "executed", "verifying", "verified",
          "failing", "succeeding", "recording"}
Idle == [step |-> "idle", job |-> NoJob, token |-> 0, attempt |-> 0, renewal |-> "off"]
NoReview == [job |-> NoJob, status |-> "absent", attempt |-> 0, token |-> 0,
             output |-> "none", version |-> 0]

JobWorkersInit ==
  /\ JobQueueInit
  /\ worker = [w \in Workers |-> Idle]
  /\ executed = {}
  /\ verified = {}
  /\ review = [o \in Operators |-> NoReview]

At(w, step) == worker[w].step = step
GoTo(w, step) == worker' = [worker EXCEPT ![w].step = step]
Attempt(w) == <<worker[w].job, worker[w].attempt>>

-----------------------------------------------------------------------------
(***************************************************************************)
(* RunOne claims.  The worker learns the granted job, its token and its    *)
(* attempt, and startLeaseRenewal starts the renewal goroutine; a claim    *)
(* that grants nothing leaves the worker idle.                             *)
(***************************************************************************)
WorkerClaim(w) ==
  LET won(j) == jobs'[j].holder = w /\ jobs'[j].attempt > jobs[j].attempt
  IN  /\ At(w, "idle")
      /\ Claim(w)
      /\ \/ /\ \A j \in Jobs : ~won(j)
            /\ UNCHANGED worker
         \/ \E j \in Jobs :
              /\ won(j)
              /\ worker' = [worker EXCEPT ![w] =
                   [step |-> "claimed", job |-> j, token |-> jobs'[j].token,
                    attempt |-> jobs'[j].attempt, renewal |-> "on"]]
      /\ UNCHANGED <<executed, verified, review>>

(***************************************************************************)
(* The renewal goroutine: each tick renews the lease.  When the call fails,*)
(* because the lease is lost or the repository is not reachable, it stops  *)
(* and cancels the execution context.  It runs until RunOne calls stop.    *)
(***************************************************************************)
Renewing(w) ==
  /\ worker[w].renewal = "on"
  /\ ~At(w, "succeeding") /\ ~At(w, "recording")

Renew(w) ==
  /\ Renewing(w)
  /\ \E lag \in Lags : RenewLease(worker[w].job, worker[w].token, lag)
  /\ UNCHANGED <<worker, executed, verified, review>>

RenewalFails(w) ==
  /\ Renewing(w)
  /\ worker' = [worker EXCEPT ![w].renewal = "failed"]
  /\ UNCHANGED <<jobs, executed, verified, review>>

(* Resolve, the allowlist, the permission and the injection point before   *)
(* execution: any of them may refuse.                                      *)
Refuse(w) ==
  /\ At(w, "claimed")
  /\ GoTo(w, "failing")
  /\ UNCHANGED <<jobs, executed, verified, review>>

BeginExecute(w) ==
  /\ At(w, "claimed")
  /\ GoTo(w, "executing")
  /\ executed' = executed \cup {Attempt(w)}
  /\ UNCHANGED <<jobs, verified, review>>

(* Execute returns, with an error or without one.                          *)
EndExecute(w) ==
  /\ At(w, "executing")
  /\ GoTo(w, "executed") \/ GoTo(w, "failing")
  /\ UNCHANGED <<jobs, executed, verified, review>>

(* The injection point after execution and the read of the cancellation    *)
(* state: only a job read as cancel_requested stops the run.               *)
CheckCancellation(w) ==
  /\ At(w, "executed")
  /\ \/ GoTo(w, "failing")
     \/ jobs[worker[w].job].status # "cancel_requested" /\ GoTo(w, "verifying")
  /\ UNCHANGED <<jobs, executed, verified, review>>

EndVerify(w) ==
  /\ At(w, "verifying")
  /\ \/ GoTo(w, "verified") /\ verified' = verified \cup {Attempt(w)}
     \/ GoTo(w, "failing") /\ UNCHANGED verified
  /\ UNCHANGED <<jobs, executed, review>>

(***************************************************************************)
(* stop() ends the renewal goroutine and returns its error.  After a       *)
(* renewal error RunOne reports nothing: the job keeps its state until its *)
(* lease runs out.                                                         *)
(***************************************************************************)
StopRenewal(w) ==
  /\ At(w, "verified") \/ At(w, "failing")
  /\ worker' = [worker EXCEPT ![w] =
       IF worker[w].renewal = "failed" THEN Idle
       ELSE [worker[w] EXCEPT !.renewal = "off",
               !.step = IF At(w, "verified") THEN "succeeding" ELSE "recording"]]
  /\ UNCHANGED <<jobs, executed, verified, review>>

(* The final report under the token of the claim; ErrLeaseLost changes     *)
(* nothing.                                                                *)
Report(w) ==
  /\ \E lag \in Lags :
       \/ At(w, "succeeding") /\ Succeed(worker[w].job, worker[w].token, lag)
       \/ At(w, "recording") /\ Fail(worker[w].job, worker[w].token, lag)
       \/ /\ At(w, "succeeding") \/ At(w, "recording")
          /\ ~Holds(worker[w].job, worker[w].token, lag)
          /\ UNCHANGED jobs
  /\ worker' = [worker EXCEPT ![w] = Idle]
  /\ UNCHANGED <<executed, verified, review>>

(* The process stops, its context ends, or the repository rejects its      *)
(* report: the run is gone and the worker starts over.                     *)
Crash(w) ==
  /\ ~At(w, "idle")
  /\ worker' = [worker EXCEPT ![w] = Idle]
  /\ UNCHANGED <<jobs, executed, verified, review>>

-----------------------------------------------------------------------------
(* GET /jobs/{id}: the operator sees the job and its version as ETag.      *)
Review(o, j) ==
  /\ jobs[j].status # "absent"
  /\ review' = [review EXCEPT ![o] =
       [job |-> j, status |-> jobs[j].status, attempt |-> jobs[j].attempt,
        token |-> jobs[j].token, output |-> jobs[j].output,
        version |-> jobs[j].version]]
  /\ UNCHANGED <<jobs, worker, executed, verified>>

(* POST /jobs/{id}/cancel with the reviewed version in If-Match; a version *)
(* that has moved on is refused.                                           *)
CancelReviewed(o) ==
  /\ review[o].job # NoJob
  /\ \/ RequestCancelIfVersion(review[o].job, review[o].version)
     \/ /\ jobs[review[o].job].version # review[o].version
        /\ UNCHANGED jobs
  /\ review' = [review EXCEPT ![o] = NoReview]
  /\ UNCHANGED <<worker, executed, verified>>

(* The server admits a job (orchestration enqueue).                        *)
Admit ==
  /\ \E j \in Jobs, key \in Keys, request \in Requests, limit \in AttemptLimits,
        at \in CreationTimes : Create(j, key, request, limit, at)
  /\ UNCHANGED <<worker, executed, verified, review>>

Pass == Tick /\ UNCHANGED <<worker, executed, verified, review>>

WorkerRun(w) ==
  \/ WorkerClaim(w)
  \/ Refuse(w)
  \/ BeginExecute(w)
  \/ EndExecute(w)
  \/ CheckCancellation(w)
  \/ EndVerify(w)
  \/ StopRenewal(w)
  \/ Report(w)

JobWorkersNext ==
  \/ Pass
  \/ Admit
  \/ \E w \in Workers : WorkerRun(w) \/ Renew(w) \/ RenewalFails(w) \/ Crash(w)
  \/ \E o \in Operators : CancelReviewed(o) \/ \E j \in Jobs : Review(o, j)

JobWorkersSpec == JobWorkersInit /\ [][JobWorkersNext]_wvars

(***************************************************************************)
(* Fairness: the loop of runWorker runs until shutdown, so a live worker   *)
(* keeps taking the next step of its run (this includes that Execute and   *)
(* Verify return), and time passes.  Nothing forces a renewal, a           *)
(* cancellation or a crash.                                                *)
(***************************************************************************)
JobWorkersFairSpec ==
  /\ JobWorkersSpec
  /\ WF_wvars(Pass)
  /\ \A w \in Workers : WF_wvars(WorkerRun(w))

-----------------------------------------------------------------------------
(***************************************************************************)
(* A job succeeds only on the strength of its own attempt: the attempt it  *)
(* records was executed and verified, whatever stalled, restarted or       *)
(* superseded workers do in between.                                       *)
(***************************************************************************)
SuccessWasVerified ==
  \A j \in Jobs : jobs[j].status = "succeeded" =>
    /\ <<j, jobs[j].attempt>> \in executed
    /\ <<j, jobs[j].attempt>> \in verified

(***************************************************************************)
(* The lease token fences: of the runs that believe they hold a job, no two *)
(* share a token or an attempt, so no attempt executes twice, and exactly  *)
(* the run of the newest attempt holds the current token.  An older run    *)
(* that is still executing is a zombie that can no longer report.          *)
(***************************************************************************)
NewestRunHolds ==
  /\ \A v, w \in Workers :
       v # w /\ worker[v].job # NoJob /\ worker[v].job = worker[w].job =>
         /\ worker[v].token # worker[w].token
         /\ worker[v].attempt # worker[w].attempt
  /\ \A w \in Workers : LET run == worker[w] IN
       run.job # NoJob =>
         /\ run.attempt <= jobs[run.job].attempt
         /\ jobs[run.job].token = run.token <=>
              /\ jobs[run.job].status \in Leased
              /\ run.attempt = jobs[run.job].attempt

(***************************************************************************)
(* The version an operator reviewed identifies what the operator saw: as   *)
(* long as the version is unchanged, so are status, attempt, lease and     *)
(* output.  Hence a cancellation that is accepted acts on the reviewed job.*)
(***************************************************************************)
VersionIdentifiesReview ==
  \A o \in Operators : LET seen == review[o] IN
    seen.job # NoJob /\ jobs[seen.job].version = seen.version =>
      /\ jobs[seen.job].status = seen.status
      /\ jobs[seen.job].attempt = seen.attempt
      /\ jobs[seen.job].token = seen.token
      /\ jobs[seen.job].output = seen.output

(***************************************************************************)
(* Every admitted job ends: crashes, lost renewals and cancellations only  *)
(* delay it, because each attempt is counted and every lease runs out.     *)
(***************************************************************************)
EveryJobEnds ==
  \A j \in Jobs : jobs[j].status = "queued" ~> jobs[j].status \in Terminal
=============================================================================
