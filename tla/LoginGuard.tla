----------------------------- MODULE LoginGuard -----------------------------
(***************************************************************************)
(* Login behind the LoginProtector (identity/auth/login_protection.go) and *)
(* in front of the audit log, for concurrent requests.                     *)
(*                                                                         *)
(* Login reads the clock once, asks the protector, verifies the password,  *)
(* tells the protector, and appends to the audit log; between these calls  *)
(* other requests run, and every call to the protector uses the time that  *)
(* was read first.  A key of the protector is an account or a source       *)
(* address; the record of a key that is not tracked is NoBucket, the zero  *)
(* value that the map of the code returns for it.                          *)
(***************************************************************************)
EXTENDS AuditChain, Sequences, FiniteSets

CONSTANTS
  Accounts, Sources,
  FailureWindow, BlockDuration,             \* LoginProtectionPolicy
  AccountFailureLimit, SourceFailureLimit,
  MaxTrackedKeys,
  MaxLag,    \* bound: how long a request takes to reach the audit log
  MaxInstant   \* bound: the last instant

(* The order of the limits is what validate() asks; that a block is not    *)
(* shorter than the window holds for the policy the service is given.      *)
ASSUME LoginGuardAssumption ==
  /\ {FailureWindow, BlockDuration, AccountFailureLimit, SourceFailureLimit,
      MaxTrackedKeys, MaxLag, MaxInstant} \subseteq Nat
  /\ 1 < AccountFailureLimit /\ AccountFailureLimit <= SourceFailureLimit
  /\ 0 < FailureWindow /\ FailureWindow <= BlockDuration
  /\ MaxLag < FailureWindow
  /\ IsFiniteSet(Writers) /\ IsFiniteSet(Accounts) /\ IsFiniteSet(Sources)

VARIABLES
  instant,  \* the clock
  buckets,  \* key -> bucket
  logins,   \* writer -> the login it serves: [pc, account, source, now]
  tries     \* account -> the instants of wrong passwords since its bucket
            \* was last deleted by a success or an eviction

guardVars == <<instant, buckets, logins, tries>>
loginVars == <<guardVars, auditVars>>

Keys == {<<"account", u>> : u \in Accounts} \cup {<<"source", i>> : i \in Sources}

NoBucket == [start |-> 0, failures |-> 0, until |-> 0, touched |-> 0]
NoLogin == [pc |-> "idle", account |-> 0, source |-> 0, now |-> 0]

LoginInit ==
  /\ AuditInit
  /\ instant = 1
  /\ buckets = [k \in Keys |-> NoBucket]
  /\ logins = [w \in Writers |-> NoLogin]
  /\ tries = [u \in Accounts |-> <<>>]

-----------------------------------------------------------------------------
(* The protector, under its mutex.                                         *)

Tracked(map) == {k \in Keys : map[k] # NoBucket}

BlocksAt(bucket, now) == bucket.until # 0 /\ now < bucket.until

normalizeBucket(bucket, now) ==
  LET blockOver == bucket.until # 0 /\ now >= bucket.until
      windowOver == /\ bucket.until = 0 /\ bucket.start # 0
                    /\ now >= bucket.start + FailureWindow
  IN  IF blockOver \/ windowOver THEN NoBucket ELSE bucket

(* blockedLocked, the map it leaves: a bucket that is over is deleted,     *)
(* another one is touched.                                                 *)
Looked(map, key, now) ==
  LET bucket == normalizeBucket(map[key], now)
  IN  [map EXCEPT ![key] = IF bucket = NoBucket THEN NoBucket
                           ELSE [bucket EXCEPT !.touched = now]]

(* evictOldestLocked: the map is iterated in any order.                    *)
Oldest(map) ==
  {k \in Tracked(map) : \A l \in Tracked(map) : map[k].touched <= map[l].touched}

(* putBucketLocked: the maps it may leave.                                 *)
Put(map, key, bucket) ==
  IF map[key] # NoBucket \/ Cardinality(Tracked(map)) < MaxTrackedKeys
  THEN {[map EXCEPT ![key] = bucket]}
  ELSE {[map EXCEPT ![victim] = NoBucket, ![key] = bucket] : victim \in Oldest(map)}

(* Mutant of Failed: the block comes one failure late.                     *)
FailedOneMore(bucket, limit, now) ==
  LET failures == bucket.failures + 1
  IN  IF BlocksAt(bucket, now) THEN [bucket EXCEPT !.touched = now]
      ELSE [start |-> IF bucket.start = 0 THEN now ELSE bucket.start,
            failures |-> failures, touched |-> now,
            until |-> IF failures > limit THEN now + BlockDuration ELSE bucket.until]

(* The bucket after one more failure; while it blocks nothing is counted.  *)
Failed(bucket, limit, now) ==
  LET failures == bucket.failures + 1
  IN  IF BlocksAt(bucket, now) THEN [bucket EXCEPT !.touched = now]
      ELSE [start |-> IF bucket.start = 0 THEN now ELSE bucket.start,
            failures |-> failures, touched |-> now,
            until |-> IF failures >= limit THEN now + BlockDuration ELSE bucket.until]

recordFailureLocked(map, key, limit, now) ==
  Put(map, key, Failed(normalizeBucket(map[key], now), limit, now))

-----------------------------------------------------------------------------
(* Service.Login.                                                          *)

AccountKey(w) == <<"account", logins[w].account>>
SourceKey(w) == <<"source", logins[w].source>>

(* What is left to do is the audit record.                                 *)
Decide(w) == logins' = [logins EXCEPT ![w] = [NoLogin EXCEPT !.pc = "auditing"]]

LoginArrives(w, account, source) ==
  /\ logins[w].pc = "idle"
  /\ logins' = [logins EXCEPT ![w] = [pc |-> "checking", account |-> account,
                                      source |-> source, now |-> instant]]
  /\ UNCHANGED <<instant, buckets, tries, auditVars>>

Blocked(w) ==
  LET now == logins[w].now
  IN  /\ logins[w].pc = "checking"
      /\ buckets' = Looked(Looked(buckets, AccountKey(w), now), SourceKey(w), now)
      /\ IF \/ BlocksAt(buckets[AccountKey(w)], now)
            \/ BlocksAt(buckets[SourceKey(w)], now)
         THEN Decide(w)
         ELSE logins' = [logins EXCEPT ![w].pc = "verifying"]
      /\ UNCHANGED <<instant, tries, auditVars>>

(* The tries of the accounts whose bucket is still there.                  *)
StillCounted(map) ==
  [u \in Accounts |-> IF buckets[<<"account", u>>] # NoBucket
                         /\ map[<<"account", u>>] = NoBucket
                      THEN <<>> ELSE tries[u]]

RecordFailure(w) ==
  LET now == logins[w].now
      account == logins[w].account
  IN  /\ logins[w].pc = "verifying"
      /\ \E one \in recordFailureLocked(buckets, AccountKey(w),
                                        AccountFailureLimit, now) :
         \E two \in recordFailureLocked(one, SourceKey(w), SourceFailureLimit, now) :
           /\ buckets' = two
           /\ tries' = [StillCounted(two) EXCEPT ![account] =
                          IF two[AccountKey(w)] = NoBucket THEN <<>>
                          ELSE Append(@, instant)]
      /\ Decide(w)
      /\ UNCHANGED <<instant, auditVars>>

RecordSuccess(w) ==
  /\ logins[w].pc = "verifying"
  /\ buckets' = [buckets EXCEPT ![AccountKey(w)] = NoBucket]
  /\ tries' = [tries EXCEPT ![logins[w].account] = <<>>]
  /\ Decide(w)
  /\ UNCHANGED <<instant, auditVars>>

(* audit.Append; a denied login does not care whether it succeeds, and an  *)
(* admitted one that finds it failing gives its session back (see          *)
(* AuthSessions).                                                          *)
AuditStep(w) ==
  /\ logins[w].pc = "auditing"
  /\ \/ /\ Lock(w) \/ ReadHead(w) \/ Insert(w)
        /\ UNCHANGED logins
     \/ /\ CommitRow(w) \/ Rollback(w)
        /\ logins' = [logins EXCEPT ![w] = NoLogin]
  /\ UNCHANGED <<instant, buckets, tries>>

(* The log cannot be reached at all.                                       *)
AuditUnavailable(w) ==
  /\ logins[w].pc = "auditing" /\ tx[w].pc = "none"
  /\ logins' = [logins EXCEPT ![w] = NoLogin]
  /\ UNCHANGED <<instant, buckets, tries, auditVars>>

InstantPasses ==
  /\ instant < MaxInstant
  /\ \A w \in Writers :
       logins[w].pc \in {"checking", "verifying"} => instant < logins[w].now + MaxLag
  /\ instant' = instant + 1
  /\ UNCHANGED <<buckets, logins, tries, auditVars>>

LoginNext ==
  \/ InstantPasses
  \/ \E w \in Writers :
       \/ \E u \in Accounts, i \in Sources : LoginArrives(w, u, i)
       \/ Blocked(w)
       \/ RecordFailure(w)
       \/ RecordSuccess(w)
       \/ AuditStep(w)
       \/ AuditUnavailable(w)

LoginSpec == LoginInit /\ [][LoginNext]_loginVars

-----------------------------------------------------------------------------
(***************************************************************************)
(* Guessing is slow whatever the interleaving.  In a span that ends MaxLag *)
(* before a failure window does, an account that is neither let in nor     *)
(* evicted meets the end of one window and the whole of another.  The end  *)
(* of a window without a block misses its first failure and the one that   *)
(* would have been the block; the end of a window with a block is what the *)
(* requests that had passed the check when the block came add to it.  A    *)
(* whole window is the failures up to the block and those of such          *)
(* requests.  The protector tracks no more keys than it may.               *)
(***************************************************************************)
Passed == Cardinality(Writers) - 1
WindowEnd ==
  IF AccountFailureLimit - 2 >= Passed THEN AccountFailureLimit - 2 ELSE Passed
WholeWindow == AccountFailureLimit + Passed

GuessingIsSlow ==
  /\ Cardinality(Tracked(buckets)) <= MaxTrackedKeys
  /\ \A u \in Accounts : \A i, j \in DOMAIN tries[u] :
       i <= j /\ tries[u][j] - tries[u][i] < FailureWindow - MaxLag =>
         j - i + 1 <= WindowEnd + WholeWindow
=============================================================================
