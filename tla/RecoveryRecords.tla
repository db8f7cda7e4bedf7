-------------------------- MODULE RecoveryRecords --------------------------
(***************************************************************************)
(* The validators of single recovery records (internal/recovery/           *)
(* validation.go): recovery points, backups, restores and RPO/RTO          *)
(* evidence. A record is a TLA+ record, a time is a number of seconds, an  *)
(* absent pointer or string is None. Spelling rules (identifier, digest    *)
(* and version patterns, UTC, lengths) hold of every value used here; the  *)
(* closed enumerations are the sets below.                                 *)
(***************************************************************************)
EXTENDS Naturals, FiniteSets

CONSTANT None

PointStates   == {"CREATING", "READY", "PARTIAL", "FAILED", "EXPIRED"}
PointTriggers == {"MANUAL", "SCHEDULED", "PRE_CHANGE", "PRE_DESTRUCTIVE"}
BackupStates  == {"PLANNED", "RUNNING", "COMPLETED", "FAILED", "EXPIRED", "DELETED"}
BackupModes   == {"FULL", "INCREMENTAL", "DIFFERENTIAL", "SNAPSHOT", "BASE_WAL",
                  "OBJECT_VERSION"}
HealthStates  == {"UNKNOWN", "UNVERIFIED", "VERIFIED", "DEGRADED", "FAILED"}
RestoreModes  == {"IN_PLACE", "ALTERNATE_TARGET", "ISOLATED_DRILL", "OBJECT_LEVEL", "PITR"}
RestoreStates == {"PLANNED", "RUNNING", "VERIFYING", "SUCCEEDED", "FAILED", "CANCELLED"}
Outcomes      == {"PENDING", "PASSED", "FAILED"}
FencingStates == {"NOT_REQUIRED", "REQUIRED", "CONFIRMED", "FAILED"}
EvidenceKinds == {"CHECKSUM", "PROVIDER_LOG", "RESTORE_DRILL", "FUNCTIONAL_TEST",
                  "FENCING_CONFIRMATION"}

(* An absent optional time is exempt from a comparison.                    *)
NotAfter(t, u) == t # None /\ u # None => t <= u

(* ObjectMetadata.Validate: a positive generation, a version, and an       *)
(* update that does not precede the creation.                              *)
ValidMetadata(m) == m.gen > 0 /\ m.rv # None /\ m.created <= m.updated

(* validateObjectReferences: one reference per kind, scope and object.     *)
ValidObjectReferences(refs) ==
  \A a, b \in refs : <<a.kind, a.scope, a.id>> = <<b.kind, b.scope, b.id>> => a = b

SameScope(refs, scope) == \A o \in refs : o.scope = scope

(* validateEvidence: evidence ids are unique within one list.              *)
ValidEvidence(evidence) ==
  /\ \A e \in evidence : e.kind \in EvidenceKinds
  /\ \A e, f \in evidence : e.id = f.id => e = f

HasKind(evidence, kind) == \E e \in evidence : e.kind = kind

RecordedBy(evidence, t) == \A e \in evidence : e.at <= t

ProviderHas(provider, cap) == cap \in provider.caps

(* validateProvider                                                        *)
ValidProvider(provider, repositoryRequired) ==
  /\ repositoryRequired => provider.repo # None
  /\ provider.caps # {}

(* ValidateRecoveryPoint                                                   *)
ValidateRecoveryPoint(p) ==
  /\ ValidMetadata(p)
  /\ p.state \in PointStates /\ p.trigger \in PointTriggers
  /\ p.objects # {} /\ ValidObjectReferences(p.objects) /\ SameScope(p.objects, p.scope)
  /\ p.trigger \in {"PRE_CHANGE", "PRE_DESTRUCTIVE"} => p.change # None
  /\ p.expires # None => p.expires > p.created
  /\ CASE p.state = "CREATING" -> ~p.failure
       [] p.state = "READY"    -> p.backups # {} /\ ~p.failure
       [] p.state = "PARTIAL"  -> p.backups # {} /\ p.failure
       [] p.state = "FAILED"   -> p.backups = {} /\ p.failure
       [] p.state = "EXPIRED"  -> p.expires # None /\ p.expires <= p.updated
  /\ p.state # "EXPIRED" /\ p.expires # None => p.expires > p.updated

(* validateArtifact and validatePITR. An LSN is the pair of its halves;    *)
(* comparePostgresLSN orders the pairs with leading zeros ignored, that is *)
(* by value.                                                               *)
ValidArtifact(artifact, repo) == artifact.repo = repo

LsnBefore(a, b) == a[1] < b[1] \/ (a[1] = b[1] /\ a[2] < b[2])

ValidPITR(w) ==
  /\ w.timeline > 0 /\ LsnBefore(w.startLSN, w.endLSN)
  /\ w.earliest <= w.latest

(* validateBackupModeMetadata                                              *)
ValidBackupMode(b) ==
  /\ IF b.mode \in {"INCREMENTAL", "DIFFERENTIAL"}
     THEN b.parent # None /\ b.parent # b.id
     ELSE b.parent = None
  /\ IF b.mode = "BASE_WAL"
     THEN b.pitr # None /\ {"BASE_BACKUP", "WAL_ARCHIVE", "PITR"} \subseteq b.provider.caps
     ELSE b.pitr = None
  /\ b.mode \in {"SNAPSHOT", "OBJECT_VERSION"} => ProviderHas(b.provider, b.mode)

(* validateBackupHealth                                                    *)
ValidBackupHealth(h, state) ==
  LET blank == h.verified = None /\ h.restore = None /\ h.evidence = {}
      drilled == /\ state \in {"COMPLETED", "EXPIRED", "DELETED"}
                 /\ h.verified # None /\ h.restore # None
                 /\ HasKind(h.evidence, "RESTORE_DRILL")
  IN /\ h.state \in HealthStates /\ ValidEvidence(h.evidence)
     /\ CASE h.state = "UNKNOWN"    -> state \in {"PLANNED", "RUNNING"} /\ blank
          [] h.state = "UNVERIFIED" -> state \notin {"PLANNED", "RUNNING", "FAILED"} /\ blank
          [] h.state = "VERIFIED"   -> drilled /\ HasKind(h.evidence, "FUNCTIONAL_TEST")
          [] h.state = "DEGRADED"   -> drilled
          [] h.state = "FAILED"     -> state = "FAILED" /\ blank
     /\ h.verified # None => RecordedBy(h.evidence, h.verified)

(* ValidateBackupMetadata                                                  *)
ValidateBackupMetadata(b) ==
  LET captured == b.started # None /\ b.captured # None /\ b.completed # None
                  /\ b.provider.op # None /\ ~b.failure
  IN /\ ValidMetadata(b)
     /\ b.target.scope = b.scope
     /\ b.mode \in BackupModes /\ b.state \in BackupStates
     /\ ValidProvider(b.provider, TRUE) /\ ProviderHas(b.provider, "BACKUP")
     /\ ValidBackupMode(b)
     /\ b.artifact # None => ValidArtifact(b.artifact, b.provider.repo)
     /\ b.pitr # None => ValidPITR(b.pitr)
     /\ b.requested <= b.updated
     /\ NotAfter(b.requested, b.started)
     /\ b.captured # None => b.started # None /\ b.started <= b.captured
     /\ NotAfter(b.started, b.completed) /\ NotAfter(b.captured, b.completed)
     /\ b.started = None => NotAfter(b.requested, b.completed)
     /\ \A t \in {b.started, b.captured, b.completed, b.health.verified} :
          NotAfter(t, b.updated)
     /\ ValidBackupHealth(b.health, b.state)
     /\ NotAfter(b.completed, b.health.verified)
     /\ b.completed # None => \A e \in b.health.evidence : b.completed <= e.at
     /\ RecordedBy(b.health.evidence, b.updated)
     /\ CASE b.state = "PLANNED" ->
               /\ {b.started, b.captured, b.completed} = {None}
               /\ b.artifact = None /\ ~b.failure /\ b.provider.op = None
          [] b.state = "RUNNING" ->
               /\ b.started # None /\ b.completed = None /\ b.artifact = None
               /\ ~b.failure /\ b.provider.op # None
          [] b.state \in {"COMPLETED", "EXPIRED"} -> captured /\ b.artifact # None
          [] b.state = "DELETED" -> captured /\ b.artifact = None
          [] b.state = "FAILED" ->
               /\ b.completed # None /\ b.artifact = None /\ b.failure
               /\ b.provider.op # None /\ b.health.state = "FAILED"

(* validateFencing                                                         *)
ValidateFencing(f) ==
  LET planned == f.epoch > 0 /\ f.provider # None
  IN /\ f.state \in FencingStates
     /\ f.state # "NOT_REQUIRED" => f.targets # {}
     /\ ValidEvidence(f.evidence)
     /\ f.provider # None =>
          ValidProvider(f.provider, FALSE) /\ ProviderHas(f.provider, "FENCING")
     /\ CASE f.state = "NOT_REQUIRED" ->
               /\ f.targets = {} /\ f.epoch = 0 /\ f.provider = None
               /\ f.confirmed = None /\ f.evidence = {} /\ ~f.failure
          [] f.state = "REQUIRED" ->
               /\ planned /\ f.provider.op = None
               /\ f.confirmed = None /\ f.evidence = {} /\ ~f.failure
          [] f.state = "CONFIRMED" ->
               /\ planned /\ f.provider.op # None /\ f.confirmed # None
               /\ HasKind(f.evidence, "FENCING_CONFIRMATION") /\ ~f.failure
               /\ RecordedBy(f.evidence, f.confirmed)
          [] f.state = "FAILED" ->
               planned /\ f.provider.op # None /\ f.confirmed = None /\ f.failure

(* validateRestoreModeMetadata                                             *)
ValidRestoreMode(r) ==
  /\ IF r.mode = "OBJECT_LEVEL"
     THEN /\ r.objects # {} /\ ValidObjectReferences(r.objects)
          /\ ProviderHas(r.provider, "OBJECT_RESTORE")
     ELSE r.objects = {}
  /\ IF r.mode = "PITR"
     THEN r.pitrTarget # None /\ ProviderHas(r.provider, "PITR")
     ELSE r.pitrTarget = None
  /\ r.mode = "ISOLATED_DRILL" => ProviderHas(r.provider, "RESTORE_DRILL")

(* Mutant of ValidFencingContext: a fence that is only planned is enough.  *)
ValidFencingContextPlanned(r) ==
  IF r.target.stateful /\ r.mode \in {"IN_PLACE", "PITR"}
  THEN r.fencing.state \in {"REQUIRED", "CONFIRMED"}
  ELSE r.fencing.state = "NOT_REQUIRED"

(* validateRestoreFencingContext: only a stateful in-place or PITR restore *)
(* is fenced, and it does not run before the fence is confirmed.           *)
ValidFencingContext(r) ==
  IF ~(r.target.stateful /\ r.mode \in {"IN_PLACE", "PITR"})
  THEN r.fencing.state = "NOT_REQUIRED"
  ELSE IF r.state = "PLANNED" \/ (r.state = "CANCELLED" /\ r.started = None)
  THEN r.fencing.state \in {"REQUIRED", "CONFIRMED"}
  ELSE IF r.state = "FAILED" /\ r.fencing.state = "FAILED"
  THEN r.started = None /\ r.provider.op = None /\ r.verification.outcome = "PENDING"
  ELSE r.fencing.state = "CONFIRMED"

(* validateRestoreVerification                                             *)
ValidVerification(v) ==
  /\ v.outcome \in Outcomes /\ ValidEvidence(v.evidence)
  /\ IF v.outcome = "PENDING"
     THEN v.verified = None /\ v.evidence = {}
     ELSE v.verified # None /\ v.evidence # {} /\ RecordedBy(v.evidence, v.verified)

(* The per-state clauses that end ValidateRestoreMetadata.                 *)
ValidRestoreState(r) ==
  LET outcome == r.verification.outcome
      began   == r.started # None
      bound   == r.provider.op # None
      ended   == r.completed # None
  IN CASE r.state = "PLANNED" ->
            ~began /\ ~ended /\ ~bound /\ outcome = "PENDING" /\ ~r.failure
       [] r.state \in {"RUNNING", "VERIFYING"} ->
            began /\ ~ended /\ bound /\ outcome = "PENDING" /\ ~r.failure
       [] r.state = "SUCCEEDED" ->
            began /\ ended /\ bound /\ outcome = "PASSED" /\ ~r.failure
       [] r.state = "FAILED" ->
            /\ ended /\ (bound \/ r.fencing.state = "FAILED")
            /\ r.failure /\ outcome # "PASSED"
       [] r.state = "CANCELLED" ->
            ended /\ outcome = "PENDING" /\ ~r.failure /\ (began <=> bound)

(* ValidateRestoreMetadata                                                 *)
ValidateRestoreMetadata(r) ==
  LET from == IF r.started # None THEN r.started ELSE r.requested
      v    == r.verification
  IN /\ ValidMetadata(r)
     /\ r.backups # {} /\ r.mode \in RestoreModes /\ r.state \in RestoreStates
     /\ r.target.scope = r.scope /\ SameScope(r.objects, r.scope)
     /\ ValidProvider(r.provider, TRUE) /\ ProviderHas(r.provider, "RESTORE")
     /\ ValidRestoreMode(r) /\ ValidateFencing(r.fencing)
     /\ NotAfter(r.requested, r.started)
     /\ r.started # None => r.provider.op # None
     /\ NotAfter(r.pitrTarget, r.requested)
     /\ NotAfter(r.fencing.confirmed, r.started)
     /\ NotAfter(r.requested, r.fencing.confirmed)
     /\ \A e \in r.fencing.evidence : r.requested <= e.at
     /\ NotAfter(from, r.completed)
     /\ \A t \in {r.requested, r.started, r.completed, r.fencing.confirmed, v.verified} :
          NotAfter(t, r.updated)
     /\ RecordedBy(r.fencing.evidence \cup v.evidence, r.updated)
     /\ ValidVerification(v)
     /\ NotAfter(from, v.verified)
     /\ v.outcome # "PENDING" => r.started # None
     /\ ValidFencingContext(r)
     /\ ValidRestoreState(r)
     /\ NotAfter(v.verified, r.completed)
     /\ r.state = "SUCCEEDED" /\ r.mode = "ISOLATED_DRILL" =>
          HasKind(v.evidence, "RESTORE_DRILL") /\ HasKind(v.evidence, "FUNCTIONAL_TEST")

(* ValidateRecoveryObjectiveEvidence                                       *)
ValidateObjective(o) ==
  LET over == \/ o.observedRPO # None /\ o.observedRPO > o.targetRPO
              \/ o.observedRTO # None /\ o.observedRTO > o.targetRTO
  IN /\ ValidMetadata(o) /\ o.target.scope = o.scope
     /\ o.targetRPO > 0 /\ o.targetRTO > 0
     /\ o.measured <= o.updated
     /\ o.evidence # {} /\ ValidEvidence(o.evidence)
     /\ HasKind(o.evidence, "RESTORE_DRILL") /\ RecordedBy(o.evidence, o.measured)
     /\ CASE o.result = "PASSED" ->
               /\ o.observedRPO # None /\ o.observedRTO # None /\ ~over /\ ~o.reason
               /\ HasKind(o.evidence, "FUNCTIONAL_TEST")
          [] o.result = "FAILED" -> over \/ o.reason

=============================================================================
