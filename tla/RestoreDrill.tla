---------------------------- MODULE RestoreDrill ----------------------------
(***************************************************************************)
(* Restore drills as they run (internal/recovery/restore_drill*.go,        *)
(* adapter_registry.go): the drill state machine with its preconditions,   *)
(* the backup health and the RPO/RTO evidence recorded from drills, and    *)
(* the persisted projections (freshness snapshot, evidence binding) that   *)
(* are validated later against the records of that time. Two drills of one *)
(* recovery point run concurrently. The recorders of health, objectives    *)
(* and retention live outside the package: they write any record that      *)
(* passes its validator, also with the evidence of the other drill.        *)
(***************************************************************************)
EXTENDS RecoveryGraph

CONSTANTS Drills,     \* ids of the restore records, ordered by LowerId
          LowerId(_, _),
          Covers,     \* the backups each drill restores
          MaxNow,     \* bound on the clock
          RetentionAt, \* the time at which the retention job runs
          MaxAge,     \* age at which a verification stops counting
          PointExpiry \* expiry of the recovery point under test

(* Times are numbers, None is no time and no id, a drill restores          *)
(* something, and ids are ordered.                                         *)
ASSUME RestoreDrillAssumption ==
  /\ MaxNow \in Nat /\ RetentionAt \in Nat /\ MaxAge \in Nat
  /\ PointExpiry \in Nat \cup {None}
  /\ None \notin Nat /\ None \notin {"b0", "b1", "b2"}
  /\ \A d \in Drills : Covers[d] # {}
  /\ \A S \in SUBSET Drills :
       S # {} => \E x \in S : \A y \in S : y = x \/ LowerId(x, y)

VARIABLES now, backup, restore, adapters, objective, stored

vars == <<now, backup, restore, adapters, objective, stored>>

DB  == [kind |-> "DATABASE", id |-> "db", scope |-> "site", stateful |-> TRUE]
App == [kind |-> "APPLICATION", id |-> "app", scope |-> "site", stateful |-> TRUE]
Copy == [kind |-> "DATABASE", id |-> "copy", scope |-> "site", stateful |-> TRUE]

Caps == {"BACKUP", "RESTORE", "RESTORE_DRILL", "SNAPSHOT"}

Provider(op) ==
  [id |-> "prov", adapter |-> "adp", version |-> 1, repo |-> "repo", op |-> op, caps |-> Caps]

Descriptor == [adapter |-> "adp", version |-> 1, providers |-> {"prov"}, caps |-> Caps]

Unverified == [state |-> "UNVERIFIED", verified |-> None, restore |-> None, evidence |-> {}]

(* A completed backup of the given point.                                  *)
Captured(id, point, target, mode, parent) ==
  [id |-> id, scope |-> "site", owner |-> "site", gen |-> 1, rv |-> 0,
   created |-> 0, updated |-> 0,
   point |-> point, target |-> target, mode |-> mode, state |-> "COMPLETED",
   parent |-> parent, provider |-> Provider(id), artifact |-> [repo |-> "repo", key |-> id],
   pitr |-> None, requested |-> 0, started |-> 0, captured |-> 0, completed |-> 0,
   health |-> Unverified, failure |-> FALSE]

Point(id, objects, backups, expires) ==
  [id |-> id, scope |-> "site", owner |-> "site", gen |-> 1, rv |-> 0,
   created |-> 0, updated |-> 0,
   state |-> "READY", trigger |-> "PRE_CHANGE", objects |-> objects, backups |-> backups,
   change |-> "c", expires |-> expires, failure |-> FALSE]

NoFence == [state |-> "NOT_REQUIRED", targets |-> {}, epoch |-> 0, provider |-> None,
            confirmed |-> None, evidence |-> {}, failure |-> FALSE]

PlannedDrill(id, backups) ==
  [id |-> id, scope |-> "site", owner |-> "site", gen |-> 1, rv |-> 0,
   created |-> 0, updated |-> 0,
   point |-> "p", backups |-> backups, mode |-> "ISOLATED_DRILL", state |-> "PLANNED",
   target |-> Copy, objects |-> {}, provider |-> Provider(None), fencing |-> NoFence,
   requested |-> 0, started |-> None, completed |-> None, pitrTarget |-> None,
   verification |-> [outcome |-> "PENDING", verified |-> None, evidence |-> {}],
   failure |-> FALSE]

Init ==
  /\ now = 0
  /\ backup = [id \in {"b0", "b1", "b2"} |->
       CASE id = "b0" -> Captured(id, "p0", DB, "FULL", None)
         [] id = "b1" -> Captured(id, "p", DB, "INCREMENTAL", "b0")
         [] id = "b2" -> Captured(id, "p", App, "SNAPSHOT", None)]
  /\ restore = [d \in Drills |-> PlannedDrill(d, Covers[d])]
  /\ adapters = {}
  /\ objective = None /\ stored = None

(* The older point expires with the retention of its full backup.          *)
Points ==
  LET old == Point("p0", {DB}, {"b0"}, RetentionAt)
  IN {Point("p", {DB, App}, {"b1", "b2"}, PointExpiry),
      IF backup["b0"].state # "DELETED" THEN old
      ELSE [old EXCEPT !.state = "EXPIRED", !.updated = RetentionAt]}

Graph ==
  [points |-> Points, backups |-> {backup[b] : b \in DOMAIN backup},
   restores |-> {restore[d] : d \in Drills},
   objectives |-> IF objective = None THEN {} ELSE {objective}]

-----------------------------------------------------------------------------
(* AdapterRegistry.Register: one descriptor per adapter and version.       *)
Register(descriptor) ==
  /\ \A d \in adapters : <<d.adapter, d.version>> # <<descriptor.adapter, descriptor.version>>
  /\ adapters' = adapters \cup {descriptor}
  /\ UNCHANGED <<now, backup, restore, objective, stored>>

(* AdapterRegistry.Resolve                                                 *)
Resolves(provider, required) ==
  \E d \in adapters :
    /\ <<d.adapter, d.version>> = <<provider.adapter, provider.version>>
    /\ provider.id \in d.providers
    /\ provider.caps \subseteq d.caps
    /\ required \subseteq provider.caps

(* Mutant of DrillEdge: a finished drill may still be failed.              *)
DrillEdgeReopens(from, to) ==
  \/ from = "PLANNED"   /\ to \in {"RUNNING", "CANCELLED"}
  \/ from = "RUNNING"   /\ to \in {"VERIFYING", "FAILED", "CANCELLED"}
  \/ from = "VERIFYING" /\ to \in {"SUCCEEDED", "FAILED", "CANCELLED"}
  \/ from = "SUCCEEDED" /\ to = "SUCCEEDED"

(* validRestoreDrillEdge                                                   *)
DrillEdge(from, to) ==
  \/ from = "PLANNED"   /\ to \in {"RUNNING", "CANCELLED"}
  \/ from = "RUNNING"   /\ to \in {"VERIFYING", "FAILED", "CANCELLED"}
  \/ from = "VERIFYING" /\ to \in {"SUCCEEDED", "FAILED", "CANCELLED"}

(* canonicalDrillEvidence: recorded inside the drill's own interval.       *)
DrillEvidence(evidence, passed, started, at) ==
  /\ evidence # {} /\ ValidEvidence(evidence)
  /\ started # None
  /\ \A e \in evidence : started <= e.at /\ e.at <= at /\ e.kind # "FENCING_CONFIRMATION"
  /\ HasKind(evidence, "RESTORE_DRILL")
  /\ passed => HasKind(evidence, "FUNCTIONAL_TEST")

(* ObjectPrecondition.ValidateAgainst                                      *)
Precondition(pre, current) ==
  pre.id = current.id /\ pre.rv = current.rv /\ (pre.gen # None => pre.gen = current.gen)

(* corecontracts.ValidateSuccessor without a change of the desired state.  *)
Successor(current, next) ==
  /\ ValidMetadata(current) /\ ValidMetadata(next)
  /\ <<next.id, next.scope, next.owner, next.gen, next.created>> =
       <<current.id, current.scope, current.owner, current.gen, current.created>>
  /\ next.updated >= current.updated /\ next.rv # current.rv

(* The successor ApplyRestoreDrillTransition builds for a request.         *)
Advanced(r, to, at, op, evidence) ==
  LET moved == [r EXCEPT !.state = to, !.updated = at, !.rv = @ + 1]
      done  == [moved EXCEPT !.completed = at]
      seen(outcome) == [outcome |-> outcome, verified |-> at, evidence |-> evidence]
  IN CASE to = "RUNNING"   -> [moved EXCEPT !.provider.op = op, !.started = at]
       [] to = "VERIFYING" -> moved
       [] to = "SUCCEEDED" -> [done EXCEPT !.verification = seen("PASSED")]
       [] to = "CANCELLED" -> done
       [] to = "FAILED"    ->
            IF r.state = "VERIFYING"
            THEN [done EXCEPT !.failure = TRUE, !.verification = seen("FAILED")]
            ELSE [done EXCEPT !.failure = TRUE]

(* ApplyRestoreDrillTransition: a request names the version its job read,  *)
(* which may be an old one, and the evidence it reports, which may be the  *)
(* evidence of another drill. The storage adapter repeats the precondition *)
(* atomically with the write, so the check and the write are one step.     *)
Transition(d, to, pre, op, evidence, failure) ==
  LET r == restore[d]
  IN /\ Precondition(pre, r)
     /\ now > r.updated
     /\ DrillEdge(r.state, to)
     /\ op # None <=> to = "RUNNING"
     /\ failure <=> to = "FAILED"
     /\ r.mode = "ISOLATED_DRILL"
     /\ Resolves(r.provider, {"RESTORE", "RESTORE_DRILL"})
     /\ ValidateRestoreMetadata(r)
     /\ IF to = "SUCCEEDED" \/ (to = "FAILED" /\ r.state = "VERIFYING")
        THEN DrillEvidence(evidence, to = "SUCCEEDED", r.started, now)
        ELSE evidence = {}
     /\ LET next == Advanced(r, to, now, op, evidence)
        IN /\ ValidateRestoreMetadata(next) /\ Successor(r, next)
           /\ restore' = [restore EXCEPT ![d] = next]
     /\ UNCHANGED <<now, backup, adapters, objective, stored>>

(* The evidence a job can hold: what its own drill produced now or, in an  *)
(* earlier attempt, at time 0, or the recorded evidence of a drill.        *)
Produced(d, kinds, t) == {[id |-> <<d, k>>, kind |-> k, at |-> t] : k \in kinds}

EvidenceInHand(d) ==
  {{}} \cup {Produced(d, kinds, t) : kinds \in {{"RESTORE_DRILL"},
                                                {"RESTORE_DRILL", "FUNCTIONAL_TEST"}},
                                     t \in {0, now}}
       \cup {restore[e].verification.evidence : e \in Drills}

-----------------------------------------------------------------------------
(* Recorders outside the package: whatever they write passes its validator. *)

(* A recorder copies the result of a drill into the health of a backup.    *)
RecordHealth(b, d, state, evidence) ==
  LET next == [backup[b] EXCEPT
                 !.health = [state |-> state, verified |-> now, restore |-> d,
                             evidence |-> evidence],
                 !.updated = now, !.rv = @ + 1]
  IN /\ backup[b].health.state = "UNVERIFIED"
     /\ restore[d].completed # None
     /\ ValidateBackupMetadata(next)
     /\ backup' = [backup EXCEPT ![b] = next]
     /\ UNCHANGED <<now, restore, adapters, objective, stored>>

(* Retention deletes the artifact of the full backup.                      *)
DeleteArtifact(b) ==
  LET next == [backup[b] EXCEPT !.state = "DELETED", !.artifact = None,
                                !.updated = now, !.rv = @ + 1]
  IN /\ now = RetentionAt
     /\ backup[b].state # "DELETED"
     /\ ValidateBackupMetadata(next)
     /\ backup' = [backup EXCEPT ![b] = next]
     /\ UNCHANGED <<now, restore, adapters, objective, stored>>

(* RPO/RTO evidence is measured from a drill.                              *)
RecordObjective(d, result, rto) ==
  LET o == [id |-> "o", scope |-> "site", owner |-> "site", gen |-> 1, rv |-> 0,
            created |-> now, updated |-> now,
            target |-> DB, point |-> "p", restore |-> d, targetRPO |-> 1, targetRTO |-> 1,
            observedRPO |-> 1, observedRTO |-> rto, measured |-> now, result |-> result,
            evidence |-> restore[d].verification.evidence, reason |-> FALSE]
  IN /\ objective = None
     /\ ValidateObjective(o)
     /\ objective' = o
     /\ UNCHANGED <<now, backup, restore, adapters, stored>>

-----------------------------------------------------------------------------
(* EvaluateRestoreDrillFreshness, of a succeeded drill, at a time that     *)
(* does not precede the verification. The assessment id is a digest of the *)
(* record itself.                                                          *)
SucceededDrill(r) ==
  /\ ValidateRestoreMetadata(r)
  /\ r.mode = "ISOLATED_DRILL" /\ r.state = "SUCCEEDED"
  /\ r.verification.outcome = "PASSED" /\ r.verification.verified # None

Assessment(r, maxAge, at) ==
  [restore |-> r.id, target |-> r.target, verified |-> r.verification.verified,
   checked |-> at, validUntil |-> r.verification.verified + maxAge, maxAge |-> maxAge,
   state |-> IF at < r.verification.verified + maxAge THEN "FRESH" ELSE "STALE"]

(* Mutant of LatestSnapshot: the first matching drill is taken.            *)
FirstSnapshot(records, target, maxAge, at) ==
  LET base == [target |-> target, checked |-> at, maxAge |-> maxAge]
      usable == {r \in records : r.target = target /\ SucceededDrill(r)
                                 /\ r.verification.verified <= at}
      r == CHOOSE x \in usable : TRUE
  IN IF usable = {}
     THEN [base |-> base, state |-> "UNVERIFIABLE", assessment |-> None, rv |-> None,
           gen |-> None, digest |-> None]
     ELSE [base |-> base, state |-> Assessment(r, maxAge, at).state,
           assessment |-> Assessment(r, maxAge, at), rv |-> r.rv, gen |-> r.gen,
           digest |-> r.verification.evidence]

(* ReadLatestRestoreDrillFreshnessSnapshot: the newest usable drill of the *)
(* exact target, the smaller id among equals.                              *)
LatestSnapshot(records, target, maxAge, at) ==
  LET base == [target |-> target, checked |-> at, maxAge |-> maxAge]
      usable == {r \in records : r.target = target /\ SucceededDrill(r)
                                 /\ r.verification.verified <= at}
      newest == {r \in usable : \A q \in usable :
                   r.verification.verified >= q.verification.verified}
      r == CHOOSE x \in newest : \A q \in newest : q = x \/ LowerId(x.id, q.id)
  IN IF usable = {}
     THEN [base |-> base, state |-> "UNVERIFIABLE", assessment |-> None, rv |-> None,
           gen |-> None, digest |-> None]
     ELSE [base |-> base, state |-> Assessment(r, maxAge, at).state,
           assessment |-> Assessment(r, maxAge, at), rv |-> r.rv, gen |-> r.gen,
           digest |-> r.verification.evidence]

(* ValidateRestoreDrillFreshnessSnapshot, of a stored snapshot.            *)
ValidSnapshot(s) ==
  IF s.state = "UNVERIFIABLE"
  THEN {s.assessment, s.rv, s.gen, s.digest} = {None}
  ELSE LET a == s.assessment
       IN /\ s.state \in {"FRESH", "STALE"} /\ s.gen > 0
          /\ a.verified <= s.base.checked
          /\ a.validUntil = a.verified + s.base.maxAge
          /\ s.state = IF s.base.checked < a.validUntil THEN "FRESH" ELSE "STALE"
          /\ <<a.target, a.checked, a.maxAge, a.state>> =
               <<s.base.target, s.base.checked, s.base.maxAge, s.state>>

(* ValidateRestoreDrillFreshnessSnapshotCurrent: against one record.       *)
SnapshotCurrent(r, s) ==
  /\ ValidSnapshot(s) /\ s.state # "UNVERIFIABLE"
  /\ LatestSnapshot({r}, s.base.target, s.base.maxAge, s.base.checked) = s

(* ValidateRestoreDrillFreshnessSnapshotLatestCurrent: against all.        *)
SnapshotLatestCurrent(records, s) ==
  ValidSnapshot(s) /\ LatestSnapshot(records, s.base.target, s.base.maxAge, s.base.checked) = s

(* BuildRestoreDrillEvidenceBinding: of an assessment that equals the one  *)
(* evaluated from the record.                                              *)
CanBind(r, a) ==
  /\ SucceededDrill(r) /\ a.maxAge > 0
  /\ r.verification.verified <= a.checked
  /\ Assessment(r, a.maxAge, a.checked) = a

Bound(r, a) ==
  [assessment |-> a, restore |-> r.id, rv |-> r.rv, gen |-> r.gen,
   digest |-> r.verification.evidence, verified |-> a.verified]

(* InspectRestoreDrillEvidenceBindingCurrent and                           *)
(* ValidateRestoreDrillEvidenceBindingCurrent                              *)
BindingStatus(r, b) ==
  IF CanBind(r, b.assessment) /\ Bound(r, b.assessment) = b THEN "current" ELSE "not_current"

(* A projection is built and persisted: a snapshot over all drills, or a   *)
(* binding of one drill's assessment.                                      *)
TakeSnapshot ==
  /\ stored = None
  /\ stored' = [kind |-> "snapshot",
                value |-> LatestSnapshot({restore[d] : d \in Drills}, Copy, MaxAge, now)]
  /\ UNCHANGED <<now, backup, restore, adapters, objective>>

TakeBinding(d) ==
  /\ stored = None
  /\ SucceededDrill(restore[d]) /\ CanBind(restore[d], Assessment(restore[d], MaxAge, now))
  /\ stored' = [kind |-> "binding", value |-> Bound(restore[d], Assessment(restore[d], MaxAge, now))]
  /\ UNCHANGED <<now, backup, restore, adapters, objective>>

Tick ==
  /\ now < MaxNow
  /\ now' = now + 1
  /\ UNCHANGED <<backup, restore, adapters, objective, stored>>

(* A job asks for a transition with the version it read, now or earlier.   *)
RequestTransition ==
  \E d \in Drills, to \in RestoreStates \ {"PLANNED"} :
    \E rv \in 0 .. restore[d].rv, gen \in {None, 2}, evidence \in EvidenceInHand(d) :
      Transition(d, to, [id |-> d, rv |-> rv, gen |-> gen],
                 IF to = "RUNNING" THEN d ELSE None, evidence, to = "FAILED")

Next ==
  \/ Register(Descriptor)
  \/ RequestTransition
  \/ \E b \in {"b1", "b2"}, d \in Drills, state \in {"VERIFIED", "DEGRADED"} :
       \E e \in Drills : RecordHealth(b, d, state, restore[e].verification.evidence)
  \/ \E b \in {"b0"} : DeleteArtifact(b)
  \/ \E d \in Drills, result \in {"PASSED", "FAILED"}, rto \in 1 .. 2 :
       RecordObjective(d, result, rto)
  \/ TakeSnapshot
  \/ \E d \in Drills : TakeBinding(d)
  \/ Tick

Spec == Init /\ [][Next]_vars

-----------------------------------------------------------------------------
(* A backup and all the backups it builds on.                              *)
Lineage(id) ==
  CHOOSE L \in SUBSET DOMAIN backup :
    /\ id \in L
    /\ \A x \in L : backup[x].parent # None => backup[x].parent \in L
    /\ \A M \in SUBSET L : id \in M /\ (\A x \in M : backup[x].parent # None
                                          => backup[x].parent \in M) => M = L

(* When the operator is told that the recovery path of the change is ready, *)
(* every backup of its recovery point can really be restored: the artifact *)
(* and those of all its ancestors down to a full backup still exist, and a *)
(* drill of that very backup succeeded within the allowed age with a       *)
(* restore and a functional test observed while it ran (operationsview/    *)
(* recovery_path_graph.go, recovery/integrity.go).                         *)
ReadyIsRestorable ==
  RecoveryPath(Graph, "p", "c", MaxAge, now) = "ready" =>
    \A id \in {"b1", "b2"} :
      /\ \A x \in Lineage(id) : backup[x].artifact # None
      /\ \E x \in Lineage(id) : backup[x].parent = None
      /\ \E d \in Drills :
           LET r == restore[d]
           IN /\ r.state = "SUCCEEDED" /\ id \in r.backups
              /\ now < backup[id].health.verified + MaxAge
              /\ r.completed <= backup[id].health.verified
              /\ \A k \in {"RESTORE_DRILL", "FUNCTIONAL_TEST"} :
                   \E e \in backup[id].health.evidence :
                     e.kind = k /\ r.started <= e.at /\ e.at <= r.completed

(* In a graph the validator accepts, what one drill observed proves nothing *)
(* about another: the health of a backup and a passed RPO/RTO measurement  *)
(* rest on evidence no other drill reported, and a measured recovery time  *)
(* is never below the time the drill really took (integrity.go:            *)
(* validateEvidenceConsumers, validateObjectiveLinks).                     *)
ProofsAreTheDrillsOwn ==
  ValidateRecoveryMetadataGraph(Graph) =>
    /\ \A b \in DOMAIN backup, d \in Drills :
         backup[b].health.evidence \cap restore[d].verification.evidence # {} =>
           backup[b].health.restore = d /\ b \in restore[d].backups
    /\ objective # None /\ objective.result = "PASSED" =>
         LET r == restore[objective.restore]
         IN r.completed - r.started <= objective.targetRTO

(* What was stored about a drill is not overtaken unnoticed.  A freshness  *)
(* snapshot that still validates against all restores names the newest     *)
(* successful drill verified by the time of the check, although it may     *)
(* validate against its own restore long after a newer drill               *)
(* (restore_drill_freshness_snapshot_latest_validation.go).  An evidence   *)
(* binding stays current: its drill is finished, and no late or repeated   *)
(* transition request changes a finished drill (validRestoreDrillEdge).    *)
StoredEvidenceHolds ==
  stored # None =>
    IF stored.kind = "binding"
    THEN BindingStatus(restore[stored.value.restore], stored.value) = "current"
    ELSE LET s == stored.value IN
         SnapshotLatestCurrent({restore[d] : d \in Drills}, s) =>
           \A d \in Drills :
             restore[d].state = "SUCCEEDED" /\ restore[d].completed <= s.base.checked =>
               /\ s.state # "UNVERIFIABLE"
               /\ restore[d].verification.verified <= s.assessment.verified

(* The in-place restores of a stateful target a caller can record.         *)
FenceProvider(op) ==
  [id |-> "fp", adapter |-> "fa", version |-> 1, repo |-> None, op |-> op, caps |-> {"FENCING"}]

Fence(state, confirmed, seen) ==
  [state |-> state, targets |-> {"n"}, epoch |-> 1,
   provider |-> FenceProvider(IF state = "REQUIRED" THEN None ELSE "f"),
   confirmed |-> confirmed,
   evidence |-> IF confirmed = None THEN {}
                ELSE {[id |-> "f", kind |-> "FENCING_CONFIRMATION", at |-> seen]},
   failure |-> state = "FAILED"]

FencedRestore(state, started, fence) ==
  [PlannedDrill("r", {"b1"}) EXCEPT
     !.mode = "IN_PLACE", !.target = DB, !.state = state, !.updated = 4, !.requested = 1,
     !.started = started, !.provider.op = IF started = None THEN None ELSE "op",
     !.completed = IF state \in {"RUNNING", "PLANNED"} THEN None ELSE 4,
     !.failure = state = "FAILED", !.fencing = fence]

FencedRestores ==
  {FencedRestore(state, started, Fence(fence, confirmed, seen)) :
     state \in {"PLANNED", "RUNNING", "FAILED", "CANCELLED"}, started \in {None, 1, 2, 3},
     fence \in {"REQUIRED", "CONFIRMED", "FAILED"}, confirmed \in {None, 0, 1, 2, 3},
     seen \in 0 .. 3}

(* Of all the in-place restores of a stateful target that the validator    *)
(* accepts (looked at once, at time 0), none started before its fence was  *)
(* confirmed, on evidence observed after the restore was requested         *)
(* (validateRestoreFencingContext, validateFencing and the time rules of   *)
(* ValidateRestoreMetadata).                                               *)
FencedBeforeRestore ==
  now = 0 => \A r \in FencedRestores :
    ValidateRestoreMetadata(r) /\ r.started # None =>
      /\ r.fencing.confirmed # None
      /\ r.requested <= r.fencing.confirmed /\ r.fencing.confirmed <= r.started
      /\ \A e \in r.fencing.evidence : r.requested <= e.at /\ e.at <= r.started

=============================================================================
