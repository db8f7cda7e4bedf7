----------------------------- MODULE ManualRetry ----------------------------
(***************************************************************************)
(* Manual retry of a failed job.  An operator reviews admission evidence   *)
(* (operationsview/retry_admission.go) and submits it;                     *)
(* CreateManualRetryWithRevalidation (retry_mutation.go) reads everything  *)
(* again, piece by piece, and asks the repository (job/manual_retry*.go,   *)
(* postgres/jobs_manual_retry*.go) to create one child job with its        *)
(* lineage in one transaction.  Meanwhile workers, other operators and     *)
(* policy changes go on, and answers get lost.                             *)
(***************************************************************************)
EXTENDS JobQueue, FiniteSets

CONSTANTS
  Reviewers,    \* operators: who reviews and submits
  Rules,        \* revision and retry policy that may be in force
  MaxHistory,   \* MaxManualRetryHistoryEntries
  Reviews       \* bound: observation times that tell admissions apart

VARIABLES
  lineage,      \* the manual retry lineage: a set of records
  rules,        \* the revision and policy in force
  op            \* operator -> the review held and the submission under way

retryVars == <<jobs, lineage, rules, op>>

ASSUME ManualRetryAssumption ==
  /\ 0 \notin Jobs   \* 0 stands for the empty identifier
  /\ MaxHistory \in Nat \ {0}
  /\ \A r \in Rules : r.max \in Nat /\ {r.allows, r.approved} \subseteq BOOLEAN

NoDoc == [job |-> 0]
NoRetry == [pc |-> "idle", doc |-> NoDoc, child |-> 0, key |-> NoValue,
         rules |-> NoValue, used |-> 0]

ManualRetryInit ==
  /\ JobQueueInit
  /\ lineage = {}
  /\ rules \in Rules
  /\ op = [o \in Reviewers |-> NoRetry]

-----------------------------------------------------------------------------
(* The history of a job's retries, BuildManualRetryHistoryEvidence.        *)

Root(j) ==
  IF \E l \in lineage : l.retry = j
  THEN (CHOOSE l \in lineage : l.retry = j).root
  ELSE j

(* ListManualRetryLineage.                                                 *)
Entries(root) == {l \in lineage : l.root = root}

(***************************************************************************)
(* The walk from the root along the entries: the job reached in n steps, 0 *)
(* past the end.                                                           *)
(***************************************************************************)
Cursor(root) ==
  LET entries == Entries(root)
      cursor[n \in 0 .. Cardinality(entries)] ==
        IF n = 0 THEN root
        ELSE IF \E l \in entries : l.source = cursor[n - 1]
             THEN (CHOOSE l \in entries : l.source = cursor[n - 1]).retry
             ELSE 0
  IN  cursor

(* No fork, no cycle, nothing disconnected.                                *)
Chained(root) ==
  LET entries == Entries(root)
      cursor == Cursor(root)
      size == Cardinality(entries)
  IN  /\ \A k, l \in entries : k.source = l.source => k = l
      /\ \A m, n \in 0 .. size : cursor[m] = cursor[n] /\ cursor[m] # 0 => m = n
      /\ {l.source : l \in entries} = {cursor[n] : n \in 0 .. size - 1} \ {0}

(* And within the size limit.                                              *)
HistoryValid(j) ==
  Cardinality(Entries(Root(j))) <= MaxHistory /\ Chained(Root(j))

(* The digest: entries are immutable and each has its own child, so the    *)
(* children stand for them.                                                *)
History(j) == {l.retry : l \in Entries(Root(j))}
Used(j) == Cardinality(History(j))
AlreadyRetried(j) == \E l \in Entries(Root(j)) : l.source = j

-----------------------------------------------------------------------------
(* The review, BuildJobRetryAdmissionEvidence.                             *)

(* Mutant of Unblocked: the budget is off by one.                          *)
UnblockedOneMore(j, r, used) ==
  /\ jobs[j].status = "failed" /\ ~AlreadyRetried(j)
  /\ r.allows /\ r.approved
  /\ used <= r.max

(* The job is failed for good and no blocker applies; rules that do not    *)
(* require a fresh approval count as approved.                             *)
Unblocked(j, r, used) ==
  /\ jobs[j].status = "failed" /\ jobs[j].attempt >= jobs[j].max
  /\ jobs[j].token = 0
  /\ ~AlreadyRetried(j)
  /\ r.allows /\ r.approved
  /\ used < r.max

(* Evidence that is blocked is refused on submission, so it is not kept.   *)
ReviewRetry(o, j, seen) ==
  /\ op[o].pc = "idle"
  /\ HistoryValid(j)
  /\ Unblocked(j, rules, Used(j))
  /\ op' = [op EXCEPT ![o] = [NoRetry EXCEPT
       !.pc = "reviewed",
       !.doc = [job |-> j, version |-> jobs[j].version, rules |-> rules,
                history |-> History(j), observedAt |-> seen]]]
  /\ UNCHANGED <<jobs, lineage, rules>>

-----------------------------------------------------------------------------
(* The submission, CreateManualRetryWithRevalidation.                      *)

RefuseRetry(o) == op' = [op EXCEPT ![o] = NoRetry]
Answer(o, child) ==
  op' = [op EXCEPT ![o] = [NoRetry EXCEPT !.pc = "answered", !.doc = op[o].doc,
                                       !.child = child]]

(* Mutant of Replayed: any child of the admission answers the request.     *)
ReplayedAny(l, child, key) == TRUE

Replayed(l, child, key) == l.retry = child /\ jobs[l.retry].key = key

(* A committed lineage answers before anything is read again.              *)
SubmitAgain(o, child, key) ==
  /\ op[o].pc = "reviewed"
  /\ \E l \in lineage :
       /\ l.admission = op[o].doc
       /\ IF Replayed(l, child, key) THEN Answer(o, child) ELSE RefuseRetry(o)
  /\ UNCHANGED <<jobs, lineage, rules>>

(* The source job, the revision and the policy are read.                   *)
Submit(o, child, key) ==
  LET doc == op[o].doc
  IN  /\ op[o].pc = "reviewed"
      /\ \A l \in lineage : l.admission # doc
      /\ child # doc.job
      /\ IF jobs[doc.job].version # doc.version THEN RefuseRetry(o)
         ELSE op' = [op EXCEPT ![o] =
                [@ EXCEPT !.pc = "policy", !.child = child, !.key = key,
                          !.rules = rules, !.used = Used(doc.job)]]
      /\ UNCHANGED <<jobs, lineage, rules>>

(* The history is read, the evidence built anew and compared.              *)
Revalidate(o) ==
  LET doc == op[o].doc
  IN  /\ op[o].pc = "policy"
      /\ IF /\ HistoryValid(doc.job)
            /\ op[o].used = Used(doc.job)
            /\ Unblocked(doc.job, op[o].rules, op[o].used)
            /\ op[o].rules = doc.rules
            /\ History(doc.job) = doc.history
         THEN op' = [op EXCEPT ![o].pc = "create", ![o].used = 0]
         ELSE RefuseRetry(o)
      /\ UNCHANGED <<jobs, lineage, rules>>

(* Mutant of Retryable: a second lineage of the same source is possible.   *)
RetryableTwice(doc, child, key) ==
  /\ jobs[doc.job].version = doc.version /\ jobs[doc.job].status = "failed"
  /\ jobs[child].status = "absent"
  /\ \A j \in Jobs : jobs[j].key # key

(* The conditions of CreateManualRetry.                                    *)
Retryable(doc, child, key) ==
  LET source == jobs[doc.job]
  IN  /\ source.version = doc.version
      /\ source.status = "failed" /\ source.attempt >= source.max
      /\ source.token = 0
      /\ \A l \in lineage : <<l.source, l.version>> # <<doc.job, source.version>>
      /\ jobs[child].status = "absent"
      /\ \A j \in Jobs : jobs[j].key # key

(* Mutant of Child: the child starts over under the source's own row.      *)
ChildInPlace(doc, child, key) ==
  [jobs EXCEPT ![child] = Queued(key, jobs[doc.job].request, jobs[doc.job].max, 1),
               ![doc.job].status = "queued"]

Child(doc, child, key) ==
  [jobs EXCEPT ![child] = Queued(key, jobs[doc.job].request, jobs[doc.job].max, 1)]

(***************************************************************************)
(* CreateManualRetry, one transaction.  A lineage under the admission      *)
(* answers an equal request and refuses another one; the answer of a       *)
(* creation may be lost, and the operator still holds the review.          *)
(***************************************************************************)
CreateManualRetry(o) ==
  LET doc == op[o].doc
      child == op[o].child
      key == op[o].key
      known == {l \in lineage : l.admission = doc}
  IN  /\ op[o].pc = "create"
      /\ IF known = {} /\ Retryable(doc, child, key)
         THEN /\ jobs' = Child(doc, child, key)
              /\ lineage' = lineage \cup
                   {[admission |-> doc, source |-> doc.job, version |-> doc.version,
                     retry |-> child, key |-> key, root |-> Root(doc.job),
                     rules |-> op[o].rules, history |-> doc.history]}
              /\ \/ Answer(o, child)
                 \/ op' = [op EXCEPT ![o] = [NoRetry EXCEPT !.pc = "reviewed", !.doc = doc]]
         ELSE /\ IF \E l \in known : l.retry = child /\ l.key = key
                 THEN Answer(o, child)
                 ELSE RefuseRetry(o)
              /\ UNCHANGED <<jobs, lineage>>
      /\ UNCHANGED rules

(* The operator is done.                                                   *)
Leave(o) ==
  /\ op[o].pc = "answered"
  /\ op' = [op EXCEPT ![o] = NoRetry]
  /\ UNCHANGED <<jobs, lineage, rules>>

(* The revision or the policy changes.                                     *)
ChangeRules ==
  /\ rules' \in Rules \ {rules}
  /\ UNCHANGED <<jobs, lineage, op>>

(***************************************************************************)
(* Workers and other clients of the repository: jobs come, run and end.    *)
(* JobQueue has every method; here only a job that fails for good matters. *)
(***************************************************************************)
QueueStep ==
  /\ \/ \E w \in Workers : Claim(w)
     \/ \E j \in Jobs :
          \/ \E key \in Keys, request \in Requests, limit \in AttemptLimits :
               Create(j, key, request, limit, 1)
          \/ Succeed(j, jobs[j].token, 0)
          \/ Fail(j, jobs[j].token, 0)
  /\ UNCHANGED <<lineage, rules, op>>

ManualRetryNext ==
  \/ QueueStep
  \/ ChangeRules
  \/ \E o \in Reviewers :
       \/ \E j \in Jobs, seen \in Reviews : ReviewRetry(o, j, seen)
       \/ \E child \in Jobs, key \in Keys :
            SubmitAgain(o, child, key) \/ Submit(o, child, key)
       \/ Revalidate(o)
       \/ CreateManualRetry(o)
       \/ Leave(o)

ManualRetrySpec == ManualRetryInit /\ [][ManualRetryNext]_retryVars

-----------------------------------------------------------------------------
(***************************************************************************)
(* Whatever the order of reviews and submissions, the lineage the          *)
(* repository holds is a single chain per root.  The history builder       *)
(* accepts it, except that a policy whose budget exceeds the size limit    *)
(* admits one retry more than can be read again: the policy is not held    *)
(* against the limit.  Every retry preserves its source: it stays failed   *)
(* at the version the operator reviewed, so that no second child of it can *)
(* be created, and the child repeats its request under a key of its own.   *)
(***************************************************************************)
ChainsAreReadable ==
  /\ \A j \in Jobs :
       /\ Chained(Root(j))
       /\ \/ HistoryValid(j)
          \/ /\ Cardinality(Entries(Root(j))) = MaxHistory + 1
             /\ \E l \in Entries(Root(j)) : l.rules.max > MaxHistory
  /\ \A l \in lineage :
       /\ jobs[l.source].status = "failed" /\ jobs[l.source].version = l.version
       /\ jobs[l.retry].status # "absent"
       /\ jobs[l.retry].key = l.key /\ l.key # jobs[l.source].key
       /\ jobs[l.retry].request = jobs[l.source].request

(***************************************************************************)
(* Every retry was admitted, once.  Its budget holds although it is read   *)
(* before the transaction: the policy is the one the operator reviewed, and *)
(* the history counted is the very one that precedes the retry in its      *)
(* chain.  One admission creates one child: operators that submit the same *)
(* admission, together or after a lost answer, are told that child or are  *)
(* refused.                                                                *)
(***************************************************************************)
RetriesWereAdmitted ==
  /\ \A l \in lineage :
       /\ l.rules = l.admission.rules /\ l.rules.allows
       /\ Cardinality(l.history) < l.rules.max
       /\ \E n \in 0 .. Cardinality(l.history) :
            /\ l.history = {Cursor(l.root)[i] : i \in 1 .. n}
            /\ Cursor(l.root)[n] = l.source /\ Cursor(l.root)[n + 1] = l.retry
  /\ \A k, l \in lineage : k.admission = l.admission => k = l
  /\ \A o \in Reviewers : op[o].pc = "answered" =>
       \E l \in lineage : l.admission = op[o].doc /\ l.retry = op[o].child
=============================================================================
