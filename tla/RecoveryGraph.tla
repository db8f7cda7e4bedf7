--------------------------- MODULE RecoveryGraph ---------------------------
(***************************************************************************)
(* The integrity of one complete snapshot of recovery records              *)
(* (internal/recovery/integrity.go) and the recovery-path evidence an      *)
(* operator is shown for a change (operationsview/recovery_path*.go). A    *)
(* graph is a record of four sets: points, backups, restores, objectives;  *)
(* a collection that could not be read is None.                            *)
(***************************************************************************)
EXTENDS RecoveryRecords, FiniteSetsExt

Ids(records) == {x.id : x \in records}

ById(records, id) == CHOOSE x \in records : x.id = id

(* registerRecoveryObjectID: one id space for all four collections.        *)
UniqueObjectIDs(g) ==
  LET all == g.points \cup g.backups \cup g.restores \cup g.objectives
  IN \A x, y \in all : x.id = y.id => x = y

(* registerProviderOperation: a provider operation is claimed once, by a   *)
(* backup, a restore or a fence.                                           *)
ProviderClaims(g) ==
  LET claim(id, channel, p) ==
        [id |-> id, channel |-> channel, key |-> <<p.id, p.adapter, p.op>>]
      fenced == {r \in g.restores : r.fencing.provider # None}
  IN {c \in {claim(b.id, "provider", b.provider) : b \in g.backups \cup g.restores}
            \cup {claim(r.id, "fencing", r.fencing.provider) : r \in fenced} :
        c.key[3] # None}

UniqueOperations(g) ==
  \A c, d \in ProviderClaims(g) : c.key = d.key => c = d

UniqueArtifacts(g) ==
  \A b, c \in {x \in g.backups : x.artifact # None} :
    <<b.artifact.repo, b.artifact.key>> = <<c.artifact.repo, c.artifact.key>> => b = c

(* registerEvidenceOrigins: an evidence id belongs to one restore and to   *)
(* one of its two channels.                                                *)
EvidenceOrigins(g) ==
  UNION {{[restore |-> r.id, channel |-> "verification", evidence |-> e] :
            e \in r.verification.evidence}
         \cup {[restore |-> r.id, channel |-> "fencing", evidence |-> e] :
            e \in r.fencing.evidence} : r \in g.restores}

UniqueEvidence(g) ==
  \A o, p \in EvidenceOrigins(g) : o.evidence.id = p.evidence.id => o = p

(* Mutant of ConsumesEvidence: evidence is matched by content alone, not   *)
(* by the drill it came from.                                              *)
ConsumesEvidenceOfAnyRestore(g, evidence, restoreID) ==
  \A e \in evidence : \E o \in EvidenceOrigins(g) : o.evidence = e

(* validateEvidenceConsumers with channel "verification".                  *)
ConsumesEvidence(g, evidence, restoreID) ==
  \A e \in evidence : \E o \in EvidenceOrigins(g) :
    o.restore = restoreID /\ o.channel = "verification" /\ o.evidence = e

(* validateLinkedOwnership                                                 *)
SameOwner(x, y) == x.scope = y.scope /\ x.owner = y.owner

SuccessfulBackup(state) == state \in {"COMPLETED", "EXPIRED", "DELETED"}

(* validReferencedBackupState                                              *)
ReferencedState(pointState, backupState) ==
  \/ pointState \in {"CREATING", "READY", "PARTIAL"} /\ backupState = "COMPLETED"
  \/ pointState = "EXPIRED" /\ SuccessfulBackup(backupState)

(* validateRecoveryPointLinks, from the points to their backups ...        *)
PointLinks(g) ==
  \A p \in g.points :
    /\ \A id \in p.backups :
         /\ id \in Ids(g.backups)
         /\ LET b == ById(g.backups, id)
            IN /\ b.point = p.id /\ SameOwner(p, b) /\ b.target \in p.objects
               /\ ReferencedState(p.state, b.state)
               /\ b.requested >= p.created
               /\ p.state \in {"READY", "PARTIAL", "EXPIRED"} => NotAfter(b.completed, p.updated)
    /\ p.state = "READY" =>
         p.objects \subseteq {ById(g.backups, id).target : id \in p.backups}

(* ... and back.                                                           *)
BackupPointLinks(g) ==
  \A b \in g.backups :
    /\ b.point \in Ids(g.points)
    /\ LET p == ById(g.points, b.point)
       IN /\ SameOwner(b, p) /\ b.target \in p.objects
          /\ b.requested >= p.created /\ b.created >= p.created
          /\ SuccessfulBackup(b.state) <=> b.id \in p.backups
          /\ b.state \in {"PLANNED", "RUNNING"} => p.state = "CREATING"
          /\ b.state = "FAILED" => p.state \in {"CREATING", "PARTIAL", "FAILED"}

(* validateBackupParentCycles: every named parent exists, and no walk along *)
(* the parents is still under way after as many steps as there are backups. *)
NoParentCycle(g) ==
  LET parents(ids) == {ById(g.backups, id).parent : id \in ids} \ {None}
      walk[n \in 0 .. Cardinality(g.backups)] ==
        IF n = 0 THEN Ids(g.backups) ELSE parents(walk[n - 1])
  IN /\ parents(Ids(g.backups)) \subseteq Ids(g.backups)
     /\ walk[Cardinality(g.backups)] = {}

(* sameProviderStorage                                                     *)
SameStorage(p, q) ==
  <<p.id, p.adapter, p.version, p.repo>> = <<q.id, q.adapter, q.version, q.repo>>

AvailableArtifact(b) ==
  b.state \in {"COMPLETED", "EXPIRED"} /\ b.artifact # None /\ b.completed # None

(* Mutant of ParentLinks: a deleted parent is accepted.                    *)
ParentLinksAfterDelete(g) ==
  \A b \in {x \in g.backups : x.parent # None} :
    LET parent == ById(g.backups, b.parent)
    IN SameOwner(b, parent) /\ parent.target = b.target /\ SuccessfulBackup(parent.state)

(* validateBackupParentLinks                                               *)
ParentLinks(g) ==
  \A b \in {x \in g.backups : x.parent # None} :
    LET parent == ById(g.backups, b.parent)
    IN /\ SameOwner(b, parent) /\ parent.target = b.target
       /\ SameStorage(parent.provider, b.provider)
       /\ AvailableArtifact(parent)
       /\ parent.completed <= b.requested
       /\ NotAfter(parent.captured, b.captured)
       /\ b.mode = "DIFFERENTIAL" => parent.mode = "FULL"
       /\ b.mode = "INCREMENTAL" => parent.mode \in {"FULL", "INCREMENTAL"}

(* validateRestoreLinks                                                    *)
RestoreLinks(g) ==
  \A r \in g.restores :
    /\ r.point \in Ids(g.points)
    /\ LET p       == ById(g.points, r.point)
           sources == {b \in g.backups : b.id \in r.backups}
           targets == {b.target : b \in sources}
       IN /\ SameOwner(r, p) /\ p.state \notin {"CREATING", "FAILED"}
          /\ r.requested >= p.created /\ r.created >= p.created
          /\ p.expires # None => r.requested < p.expires
          /\ r.backups \subseteq Ids(g.backups)
          /\ \A b \in sources :
               /\ b.point = p.id /\ b.id \in p.backups /\ SameOwner(r, b)
               /\ AvailableArtifact(b) /\ b.completed <= r.requested
               /\ SameStorage(b.provider, r.provider)
          /\ IF r.mode \in {"IN_PLACE", "PITR", "OBJECT_LEVEL"}
             THEN r.target \in p.objects \cap targets
             ELSE \E t \in targets : t.kind = r.target.kind /\ t.stateful = r.target.stateful
          /\ r.objects \subseteq p.objects \cap targets
          /\ r.mode = "PITR" =>
               \E b \in sources : /\ b.mode = "BASE_WAL"
                                  /\ b.pitr.earliest <= r.pitrTarget
                                  /\ r.pitrTarget <= b.pitr.latest
          /\ r.started # None =>
               \A e \in r.verification.evidence : r.started <= e.at

CompletedDrill(r) ==
  r.mode = "ISOLATED_DRILL" /\ r.completed # None /\ r.verification.verified # None

(* validateBackupHealthLinks                                               *)
HealthLinks(g) ==
  \A b \in {x \in g.backups : x.health.state \in {"VERIFIED", "DEGRADED"}} :
    /\ b.health.restore \in Ids(g.restores)
    /\ LET r == ById(g.restores, b.health.restore)
       IN /\ SameOwner(b, r) /\ r.point = b.point /\ b.id \in r.backups
          /\ CompletedDrill(r)
          /\ b.health.verified >= r.completed
          /\ b.health.verified >= r.verification.verified
          /\ ConsumesEvidence(g, b.health.evidence, r.id)
          /\ IF b.health.state = "VERIFIED"
             THEN r.state = "SUCCEEDED" /\ r.verification.outcome = "PASSED"
             ELSE r.state = "FAILED" /\ r.verification.outcome = "FAILED"

(* validateObjectiveLinks, restoreCoversObjectiveTarget and                *)
(* elapsedSecondsCeiling (times are whole seconds).                        *)
ObjectiveLinks(g) ==
  \A o \in g.objectives :
    /\ o.point \in Ids(g.points) /\ o.restore \in Ids(g.restores)
    /\ LET p == ById(g.points, o.point)
           r == ById(g.restores, o.restore)
           covered == {b.target : b \in {x \in g.backups : x.id \in r.backups}} \cup r.objects
       IN /\ SameOwner(o, p) /\ SameOwner(o, r) /\ r.point = p.id
          /\ CompletedDrill(r)
          /\ o.target \in p.objects \cap covered
          /\ o.measured >= r.completed /\ o.measured >= r.verification.verified
          /\ o.created >= o.measured
          /\ ConsumesEvidence(g, o.evidence, r.id)
          /\ IF o.result = "PASSED"
             THEN r.state = "SUCCEEDED" /\ r.verification.outcome = "PASSED"
             ELSE r.state \in {"SUCCEEDED", "FAILED"}
          /\ o.observedRTO # None /\ r.started # None =>
               o.observedRTO >= r.completed - r.started

(* ValidateRecoveryMetadataGraph                                           *)
ValidateRecoveryMetadataGraph(g) ==
  /\ None \notin {g.points, g.backups, g.restores, g.objectives}
  /\ \A p \in g.points : ValidateRecoveryPoint(p)
  /\ \A b \in g.backups : ValidateBackupMetadata(b)
  /\ \A r \in g.restores : ValidateRestoreMetadata(r)
  /\ \A o \in g.objectives : ValidateObjective(o)
  /\ UniqueObjectIDs(g) /\ UniqueOperations(g) /\ UniqueArtifacts(g) /\ UniqueEvidence(g)
  /\ PointLinks(g) /\ BackupPointLinks(g)
  /\ NoParentCycle(g) /\ ParentLinks(g)
  /\ RestoreLinks(g) /\ HealthLinks(g) /\ ObjectiveLinks(g)

-----------------------------------------------------------------------------
(* BuildRecoveryPathEvidence: the verdict on one observation. "rejected"   *)
(* stands for the error returns, after which there is no evidence.         *)
BuildRecoveryPathEvidence(obs, now) ==
  IF \/ obs.verified > obs.count
     \/ obs.count = 0 /\ obs.outcome = "PASSED"
     \/ obs.observedAt # None /\ obs.observedAt > now
     \/ (obs.outcome = "PASSED") # (obs.observedAt # None)
  THEN "rejected"
  ELSE IF (obs.expires # None /\ obs.expires <= now) \/ obs.state = "EXPIRED"
  THEN "expired"
  ELSE IF \/ obs.state # "READY"
          \/ obs.count = 0
          \/ obs.verified # obs.count
          \/ obs.outcome # "PASSED"
  THEN "blocked"
  ELSE "ready"

(* BuildRecoveryPathEvidenceFromGraph: the evidence for the point that     *)
(* guards a change, at time now, with verifications valid for maxAge.      *)
RecoveryPath(g, pointID, change, maxAge, now) ==
  IF ~ValidateRecoveryMetadataGraph(g) \/ pointID \notin Ids(g.points)
  THEN "rejected"
  ELSE LET p         == ById(g.points, pointID)
           backups   == {b \in g.backups : b.id \in p.backups}
           verified  == {b \in backups : b.health.state = "VERIFIED"}
           times     == {b.health.verified : b \in verified}
           deadlines == {t + maxAge : t \in times} \cup ({p.expires} \ {None})
           complete  == p.backups # {} /\ verified = backups
       IN IF \/ p.change # change
             \/ p.trigger \notin {"PRE_CHANGE", "PRE_DESTRUCTIVE"}
             \/ p.created > now \/ p.updated > now
             \/ \E b \in backups : b.updated > now
             \/ \E t \in times : t > now
          THEN "rejected"
          ELSE BuildRecoveryPathEvidence(
                 [state |-> p.state, count |-> Cardinality(p.backups),
                  verified |-> Cardinality(verified),
                  outcome |-> IF complete THEN "PASSED" ELSE "PENDING",
                  observedAt |-> IF complete THEN Min(times) ELSE None,
                  expires |-> IF deadlines = {} THEN None ELSE Min(deadlines)], now)

=============================================================================
