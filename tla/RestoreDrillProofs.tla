------------------------- MODULE RestoreDrillProofs -------------------------
(***************************************************************************)
(* Proofs about restore drills, for any number of drills and any sets of   *)
(* backups they restore, any age limit, expiry and retention time.         *)
(*                                                                         *)
(* Three of the four properties are consequences of the validators: what   *)
(* they say of a graph that ValidateRecoveryMetadataGraph accepts needs    *)
(* only that every record keeps its identifier and its types (RecordsOK).  *)
(* The fourth is about time: evidence that was stored stays true because a *)
(* succeeded drill has no transition (StoredOK).                           *)
(***************************************************************************)
EXTENDS RestoreDrill, WellFoundedInduction, TLAPS

Times == Nat \cup {None}

Evidence == [id: Drills \X EvidenceKinds, kind: EvidenceKinds, at: Nat]

Restores ==
  [id: Drills, scope: {"site"}, owner: {"site"}, gen: {1}, rv: Nat,
   created: {0}, updated: Nat, point: {"p"}, backups: {Covers[d] : d \in Drills},
   mode: {"ISOLATED_DRILL"}, state: RestoreStates, target: {Copy},
   objects: {{}},
   provider: [id: {"prov"}, adapter: {"adp"}, version: {1}, repo: {"repo"},
              op: Drills \cup {None}, caps: {Caps}],
   fencing: {NoFence}, requested: {0}, started: Times, completed: Times,
   pitrTarget: {None},
   verification: [outcome: Outcomes, verified: Times, evidence: SUBSET Evidence],
   failure: BOOLEAN]

Healths ==
  [state: {"UNVERIFIED", "VERIFIED", "DEGRADED"}, verified: Times,
   restore: Drills \cup {None}, evidence: SUBSET Evidence]

BackupIds == {"b0", "b1", "b2"}

(* Every drill keeps its identifier, and one that succeeded is valid.      *)
DrillsOK ==
  /\ restore \in [Drills -> Restores]
  /\ \A d \in Drills :
       /\ restore[d].id = d
       /\ restore[d].state = "SUCCEEDED" => ValidateRestoreMetadata(restore[d])

(* A backup keeps everything but its health and its artifact.              *)
BackupOK(b, r) ==
  /\ DOMAIN r = DOMAIN Captured(b, "p", DB, "FULL", None)
  /\ r.id = b /\ r.updated \in Nat /\ r.rv \in Nat
  /\ r.parent = IF b = "b1" THEN "b0" ELSE None
  /\ r.health \in Healths

BackupsOK ==
  /\ DOMAIN backup = BackupIds
  /\ \A b \in BackupIds : BackupOK(b, backup[b])

ObjectiveOK ==
  objective # None =>
    /\ objective.restore \in Drills /\ objective.targetRTO \in Nat
    /\ objective.observedRTO \in Nat

RecordsOK == now \in Nat /\ DrillsOK /\ BackupsOK /\ ObjectiveOK

(* A stored binding is current, and a stored snapshot is of the drill      *)
(* target at some time.                                                    *)
StoredOK ==
  stored # None =>
    LET value == stored.value
    IN  IF stored.kind = "binding"
        THEN /\ value.restore \in Drills
             /\ CanBind(restore[value.restore], value.assessment)
             /\ Bound(restore[value.restore], value.assessment) = value
        ELSE value.base.target = Copy /\ value.base.checked \in Nat

DrillInv == RecordsOK /\ StoredOK

-----------------------------------------------------------------------------
(* The facts about one operator that several proofs use.                   *)

LEMMA AdvancedFacts ==
  ASSUME NEW r \in Restores, NEW to \in RestoreStates \ {"PLANNED"}, NEW at \in Nat,
         NEW op \in Drills \cup {None}, NEW evidence \in SUBSET Evidence
  PROVE  /\ Advanced(r, to, at, op, evidence) \in Restores
         /\ Advanced(r, to, at, op, evidence).id = r.id
<1> DEFINE moved == [r EXCEPT !.state = to, !.updated = at, !.rv = @ + 1]
           done == [moved EXCEPT !.completed = at]
           seen(outcome) == [outcome |-> outcome, verified |-> at, evidence |-> evidence]
<1>0. r.rv + 1 \in Nat
  BY DEF Restores
<1>1. moved \in Restores /\ moved.id = r.id
  <2>1. moved = [[[r EXCEPT !.state = to] EXCEPT !.updated = at] EXCEPT !.rv = r.rv + 1]
    BY DEF Restores
  <2>2. [r EXCEPT !.state = to] \in Restores /\ [r EXCEPT !.state = to].id = r.id
    BY DEF Restores
  <2>3. ASSUME NEW q \in Restores, q.id = r.id
        PROVE  [q EXCEPT !.updated = at] \in Restores /\ [q EXCEPT !.updated = at].id = r.id
    BY <2>3 DEF Restores
  <2>4. ASSUME NEW q \in Restores, q.id = r.id
        PROVE  [q EXCEPT !.rv = r.rv + 1] \in Restores /\ [q EXCEPT !.rv = r.rv + 1].id = r.id
    BY <1>0, <2>4 DEF Restores
  <2> QED BY <2>1, <2>2, <2>3, <2>4
<1>2. done \in Restores /\ done.id = r.id
  <2> HIDE DEF moved
  <2> QED BY <1>1 DEF Restores, Times
<1>3. \A o \in Outcomes : seen(o) \in [outcome: Outcomes, verified: Times, evidence: SUBSET Evidence]
  BY DEF Times
<1> HIDE DEF moved, seen
<1>4. CASE to = "RUNNING"
  <2>1. Advanced(r, to, at, op, evidence) = [moved EXCEPT !.provider.op = op, !.started = at]
    BY <1>4 DEF Advanced, moved
  <2>2. [moved EXCEPT !.provider.op = op, !.started = at] \in Restores
    BY <1>1 DEF Restores, Times
  <2> QED BY <1>1, <2>1, <2>2 DEF Restores
<1>5. CASE to = "VERIFYING"
  <2>1. Advanced(r, to, at, op, evidence) = moved
    BY <1>5 DEF Advanced, moved
  <2> QED BY <1>1, <2>1
<1> HIDE DEF done
<1>6. CASE to = "SUCCEEDED"
  <2>1. Advanced(r, to, at, op, evidence) = [done EXCEPT !.verification = seen("PASSED")]
    BY <1>6 DEF Advanced, moved, done, seen
  <2> QED BY <1>2, <1>3, <2>1 DEF Restores, Outcomes
<1>7. CASE to = "CANCELLED"
  <2>1. Advanced(r, to, at, op, evidence) = done
    BY <1>7 DEF Advanced, moved, done
  <2> QED BY <1>2, <2>1
<1>8. CASE to = "FAILED"
  <2>1. \/ Advanced(r, to, at, op, evidence) =
             [done EXCEPT !.failure = TRUE, !.verification = seen("FAILED")]
        \/ Advanced(r, to, at, op, evidence) = [done EXCEPT !.failure = TRUE]
    BY <1>8 DEF Advanced, moved, done, seen
  <2>2. /\ [done EXCEPT !.failure = TRUE] \in Restores
        /\ [done EXCEPT !.failure = TRUE].id = r.id
    BY <1>2 DEF Restores
  <2>3. /\ [done EXCEPT !.failure = TRUE, !.verification = seen("FAILED")] \in Restores
        /\ [done EXCEPT !.failure = TRUE, !.verification = seen("FAILED")].id = r.id
    BY <1>2, <1>3 DEF Restores, Outcomes
  <2> QED BY <2>1, <2>2, <2>3
<1> QED BY <1>4, <1>5, <1>6, <1>7, <1>8 DEF RestoreStates

(* What a job can hold is a set of evidence.                               *)
LEMMA EvidenceTyped ==
  ASSUME RecordsOK, NEW d \in Drills
  PROVE  /\ EvidenceInHand(d) \subseteq SUBSET Evidence
         /\ restore[d].verification.evidence \in SUBSET Evidence
<1>1. \A e \in Drills : restore[e].verification.evidence \in SUBSET Evidence
  BY DEF RecordsOK, DrillsOK, Restores
<1>2. ASSUME NEW kinds \in SUBSET EvidenceKinds, NEW t \in Nat
      PROVE  Produced(d, kinds, t) \in SUBSET Evidence
  BY DEF Produced, Evidence
<1>3. {"RESTORE_DRILL"} \in SUBSET EvidenceKinds
      /\ {"RESTORE_DRILL", "FUNCTIONAL_TEST"} \in SUBSET EvidenceKinds
  BY DEF EvidenceKinds
<1>4. \A t \in {0, now} : t \in Nat
  BY DEF RecordsOK
<1> QED BY <1>1, <1>2, <1>3, <1>4 DEF EvidenceInHand
-----------------------------------------------------------------------------
(* The invariant.                                                          *)

LEMMA InitOK == Init => DrillInv
<1> SUFFICES ASSUME Init PROVE DrillInv
  OBVIOUS
<1>1. DrillsOK
  <2>1. ASSUME NEW d \in Drills
        PROVE  PlannedDrill(d, Covers[d]) \in Restores /\ PlannedDrill(d, Covers[d]).id = d
               /\ PlannedDrill(d, Covers[d]).state = "PLANNED"
    BY DEF PlannedDrill, Restores, RestoreStates, Provider, Times, Outcomes
  <2>2. restore = [d \in Drills |-> PlannedDrill(d, Covers[d])]
    BY DEF Init
  <2> QED BY <2>1, <2>2 DEF DrillsOK
<1>2. BackupsOK
  <2>1. ASSUME NEW b \in BackupIds
        PROVE  \E point, target, mode :
                 backup[b] = Captured(b, point, target, mode, IF b = "b1" THEN "b0" ELSE None)
    BY DEF Init, BackupIds
  <2>2. ASSUME NEW b, NEW point, NEW target, NEW mode
        PROVE  BackupOK(b, Captured(b, point, target, mode, IF b = "b1" THEN "b0" ELSE None))
    BY DEF BackupOK, Captured, Unverified, Healths, Times
  <2> QED BY <2>1, <2>2 DEF BackupsOK, BackupIds, Init
<1> QED BY <1>1, <1>2 DEF Init, DrillInv, RecordsOK, ObjectiveOK, StoredOK

(* A transition moves one drill that has not succeeded, and validates what *)
(* it writes.                                                              *)
LEMMA TransitionFacts ==
  ASSUME DrillInv, RequestTransition
  PROVE  \E d \in Drills, next \in Restores :
           /\ restore[d].state # "SUCCEEDED"
           /\ next.id = d /\ ValidateRestoreMetadata(next)
           /\ restore' = [restore EXCEPT ![d] = next]
           /\ UNCHANGED <<now, backup, adapters, objective, stored>>
<1>0. PICK d \in Drills, to \in RestoreStates \ {"PLANNED"} :
        \E rv \in 0 .. restore[d].rv, gen \in {None, 2}, evidence \in EvidenceInHand(d) :
          Transition(d, to, [id |-> d, rv |-> rv, gen |-> gen],
                     IF to = "RUNNING" THEN d ELSE None, evidence, to = "FAILED")
  BY DEF RequestTransition
<1>1. PICK rv \in 0 .. restore[d].rv, gen \in {None, 2}, evidence \in EvidenceInHand(d) :
        Transition(d, to, [id |-> d, rv |-> rv, gen |-> gen],
                   IF to = "RUNNING" THEN d ELSE None, evidence, to = "FAILED")
  BY <1>0
<1> DEFINE op == IF to = "RUNNING" THEN d ELSE None
           next == Advanced(restore[d], to, now, op, evidence)
<1>2. /\ DrillEdge(restore[d].state, to)
      /\ ValidateRestoreMetadata(next)
      /\ restore' = [restore EXCEPT ![d] = next]
      /\ UNCHANGED <<now, backup, adapters, objective, stored>>
  BY <1>1 DEF Transition
<1>3. restore[d] \in Restores /\ restore[d].id = d /\ now \in Nat
  BY DEF DrillInv, RecordsOK, DrillsOK
<1>4. evidence \in SUBSET Evidence
  BY EvidenceTyped DEF DrillInv
<1>5. next \in Restores /\ next.id = d
  <2>1. op \in Drills \cup {None}
    OBVIOUS
  <2> HIDE DEF op
  <2>2. ASSUME NEW o \in Drills \cup {None}
        PROVE  /\ Advanced(restore[d], to, now, o, evidence) \in Restores
               /\ Advanced(restore[d], to, now, o, evidence).id = restore[d].id
    <3>1. ASSUME NEW r \in Restores, NEW at \in Nat, NEW ev \in SUBSET Evidence
          PROVE  /\ Advanced(r, to, at, o, ev) \in Restores
                 /\ Advanced(r, to, at, o, ev).id = r.id
      BY AdvancedFacts
    <3>2. to \in RestoreStates \ {"PLANNED"} /\ restore[d] \in Restores /\ now \in Nat
      BY <1>3
    <3> QED BY <1>4, <3>1, <3>2
  <2> QED BY <1>3, <2>1, <2>2
<1>6. restore[d].state # "SUCCEEDED"
  BY <1>2 DEF DrillEdge
<1> QED BY <1>2, <1>5, <1>6

(* A binding stays current while its drill is not touched.                 *)
LEMMA StoredStays ==
  ASSUME StoredOK, UNCHANGED stored,
         \A d \in Drills : restore[d].state = "SUCCEEDED" => restore'[d] = restore[d]
  PROVE  StoredOK'
<1> SUFFICES ASSUME stored # None
             PROVE  LET value == stored.value
                    IN  IF stored.kind = "binding"
                        THEN /\ value.restore \in Drills
                             /\ CanBind(restore'[value.restore], value.assessment)
                             /\ Bound(restore'[value.restore], value.assessment) = value
                        ELSE value.base.target = Copy /\ value.base.checked \in Nat
  BY DEF StoredOK, CanBind, Bound, SucceededDrill, Assessment
<1>1. CASE stored.kind = "binding"
  <2>1. /\ stored.value.restore \in Drills
        /\ CanBind(restore[stored.value.restore], stored.value.assessment)
        /\ Bound(restore[stored.value.restore], stored.value.assessment) = stored.value
    BY <1>1 DEF StoredOK
  <2>2. restore[stored.value.restore].state = "SUCCEEDED"
    BY <2>1 DEF CanBind, SucceededDrill
  <2>3. restore'[stored.value.restore] = restore[stored.value.restore]
    BY <2>1, <2>2
  <2> QED BY <1>1, <2>1, <2>3
<1>2. CASE stored.kind # "binding"
  BY <1>2 DEF StoredOK
<1> QED BY <1>1, <1>2

(* A backup whose health, state or artifact is written stays a backup.     *)
LEMMA BackupWritten ==
  ASSUME NEW b \in BackupIds, NEW r, BackupOK(b, r), NEW at \in Nat,
         NEW health \in Healths, NEW state, NEW artifact
  PROVE  /\ BackupOK(b, [r EXCEPT !.health = health, !.updated = at, !.rv = @ + 1])
         /\ BackupOK(b, [r EXCEPT !.state = state, !.artifact = artifact,
                                  !.updated = at, !.rv = @ + 1])
BY DEF BackupOK, Captured

LEMMA NextOK == DrillInv /\ [Next]_vars => DrillInv'
<1> SUFFICES ASSUME DrillInv, [Next]_vars PROVE DrillInv'
  OBVIOUS
<1>0. now \in Nat /\ DrillsOK /\ BackupsOK /\ ObjectiveOK /\ StoredOK
  BY DEF DrillInv, RecordsOK
<1>1. CASE Register(Descriptor)
  <2>1. UNCHANGED <<now, backup, restore, objective, stored>>
    BY <1>1 DEF Register
  <2> QED BY <1>0, <2>1, StoredStays
        DEF DrillInv, RecordsOK, DrillsOK, BackupsOK, ObjectiveOK
<1>2. CASE RequestTransition
  <2>1. PICK d \in Drills, next \in Restores :
          /\ restore[d].state # "SUCCEEDED"
          /\ next.id = d /\ ValidateRestoreMetadata(next)
          /\ restore' = [restore EXCEPT ![d] = next]
          /\ UNCHANGED <<now, backup, adapters, objective, stored>>
    BY <1>2, TransitionFacts
  <2>2. \A e \in Drills : restore'[e] = IF e = d THEN next ELSE restore[e]
    BY <1>0, <2>1 DEF DrillsOK
  <2>3. DrillsOK'
    BY <1>0, <2>1, <2>2 DEF DrillsOK
  <2>4. StoredOK'
    BY <1>0, <2>1, <2>2, StoredStays
  <2> QED BY <1>0, <2>1, <2>3, <2>4 DEF DrillInv, RecordsOK, BackupsOK, ObjectiveOK
<1>3. ASSUME NEW b \in {"b1", "b2"}, NEW d \in Drills, NEW e \in Drills,
             NEW state \in {"VERIFIED", "DEGRADED"},
             RecordHealth(b, d, state, restore[e].verification.evidence)
      PROVE  DrillInv'
  <2> DEFINE health == [state |-> state, verified |-> now, restore |-> d,
                        evidence |-> restore[e].verification.evidence]
             next == [backup[b] EXCEPT !.health = health, !.updated = now, !.rv = @ + 1]
  <2>1. /\ backup' = [backup EXCEPT ![b] = next]
        /\ UNCHANGED <<now, restore, adapters, objective, stored>>
    BY <1>3 DEF RecordHealth
  <2>2. health \in Healths
    BY <1>0, EvidenceTyped DEF Healths, Times, DrillInv
  <2>3. BackupOK(b, next)
    <3>1. b \in BackupIds /\ BackupOK(b, backup[b])
      BY <1>0 DEF BackupsOK, BackupIds
    <3> HIDE DEF health
    <3> QED BY <1>0, <2>2, <3>1, BackupWritten
  <2> HIDE DEF next
  <2>4. BackupsOK'
    BY <1>0, <2>1, <2>3 DEF BackupsOK
  <2> QED BY <1>0, <2>1, <2>4, StoredStays DEF DrillInv, RecordsOK, DrillsOK, ObjectiveOK
<1>4. ASSUME NEW b \in {"b0"}, DeleteArtifact(b)
      PROVE  DrillInv'
  <2> DEFINE next == [backup[b] EXCEPT !.state = "DELETED", !.artifact = None,
                                       !.updated = now, !.rv = @ + 1]
  <2>1. /\ backup' = [backup EXCEPT ![b] = next]
        /\ UNCHANGED <<now, restore, adapters, objective, stored>>
    BY <1>4 DEF DeleteArtifact
  <2>2. backup[b].health \in Healths
    BY <1>0 DEF BackupsOK, BackupOK, BackupIds
  <2>3. BackupOK(b, next)
    BY <1>0, <2>2, BackupWritten DEF BackupsOK, BackupIds
  <2> HIDE DEF next
  <2>4. BackupsOK'
    BY <1>0, <2>1, <2>3 DEF BackupsOK
  <2> QED BY <1>0, <2>1, <2>4, StoredStays DEF DrillInv, RecordsOK, DrillsOK, ObjectiveOK
<1>5. ASSUME NEW d \in Drills, NEW result \in {"PASSED", "FAILED"}, NEW rto \in 1 .. 2,
             RecordObjective(d, result, rto)
      PROVE  DrillInv'
  <2>1. UNCHANGED <<now, backup, restore, adapters, stored>>
    BY <1>5 DEF RecordObjective
  <2>2. ObjectiveOK'
    BY <1>5 DEF RecordObjective, ObjectiveOK
  <2> QED BY <1>0, <2>1, <2>2, StoredStays DEF DrillInv, RecordsOK, DrillsOK, BackupsOK
<1>6. CASE TakeSnapshot
  <2> DEFINE snapshot == LatestSnapshot({restore[d] : d \in Drills}, Copy, MaxAge, now)
  <2>1. /\ stored' = [kind |-> "snapshot", value |-> snapshot]
        /\ UNCHANGED <<now, backup, restore, adapters, objective>>
    BY <1>6 DEF TakeSnapshot
  <2>2. snapshot.base = [target |-> Copy, checked |-> now, maxAge |-> MaxAge]
    BY DEF LatestSnapshot
  <2> HIDE DEF snapshot
  <2>3. StoredOK'
    BY <1>0, <2>1, <2>2 DEF StoredOK
  <2> QED BY <1>0, <2>1, <2>3 DEF DrillInv, RecordsOK, DrillsOK, BackupsOK, ObjectiveOK
<1>7. ASSUME NEW d \in Drills, TakeBinding(d)
      PROVE  DrillInv'
  <2> DEFINE assessment == Assessment(restore[d], MaxAge, now)
             value == Bound(restore[d], assessment)
  <2>1. /\ CanBind(restore[d], assessment)
        /\ stored' = [kind |-> "binding", value |-> value]
        /\ UNCHANGED <<now, backup, restore, adapters, objective>>
    BY <1>7 DEF TakeBinding
  <2>2. value.restore = d /\ value.assessment = assessment
    BY <1>0 DEF Bound, DrillsOK
  <2> HIDE DEF assessment
  <2>3. StoredOK'
    <3> HIDE DEF value
    <3>1. value = Bound(restore[d], value.assessment)
      BY <2>2 DEF value
    <3> QED BY <2>1, <2>2, <3>1 DEF StoredOK, Bound, CanBind, SucceededDrill, Assessment
  <2> QED BY <1>0, <2>1, <2>3 DEF DrillInv, RecordsOK, DrillsOK, BackupsOK, ObjectiveOK
<1>8. CASE Tick
  <2>1. now' \in Nat /\ UNCHANGED <<backup, restore, adapters, objective, stored>>
    BY <1>0, <1>8 DEF Tick
  <2> QED BY <1>0, <2>1, StoredStays
        DEF DrillInv, RecordsOK, DrillsOK, BackupsOK, ObjectiveOK
<1>9. CASE UNCHANGED vars
  BY <1>0, <1>9, StoredStays
    DEF vars, DrillInv, RecordsOK, DrillsOK, BackupsOK, ObjectiveOK
<1> QED BY <1>1, <1>2, <1>3, <1>4, <1>5, <1>6, <1>7, <1>8, <1>9 DEF Next

(* The invariant in every state.                                           *)
THEOREM DrillsStayConsistent == Spec => []DrillInv
BY InitOK, NextOK, PTL DEF Spec

-----------------------------------------------------------------------------
(* The graph as the validators see it.                                     *)

LEMMA GraphRecords ==
  ASSUME RecordsOK
  PROVE  /\ \A d \in Drills : ById(Graph.restores, d) = restore[d]
         /\ Ids(Graph.restores) = Drills
         /\ \A d \in Drills : restore[d] \in Graph.restores
         /\ \A b \in BackupIds : ById(Graph.backups, b) = backup[b] /\ backup[b] \in Graph.backups
         /\ \A b \in Graph.backups : b.id \in BackupIds /\ b = backup[b.id]
<1>1. /\ Graph.restores = {restore[d] : d \in Drills}
      /\ Graph.backups = {backup[b] : b \in BackupIds}
  BY DEF Graph, RecordsOK, BackupsOK
<1>2. /\ \A d \in Drills : restore[d].id = d
      /\ \A b \in BackupIds : backup[b].id = b
  BY DEF RecordsOK, DrillsOK, BackupsOK, BackupOK
<1>3. ASSUME NEW d \in Drills PROVE ById(Graph.restores, d) = restore[d]
  <2>1. restore[d] \in Graph.restores /\ restore[d].id = d
    BY <1>1, <1>2
  <2>2. \A x \in Graph.restores : x.id = d => x = restore[d]
    BY <1>1, <1>2
  <2> QED BY <2>1, <2>2 DEF ById
<1>4. ASSUME NEW b \in BackupIds PROVE ById(Graph.backups, b) = backup[b]
  <2>1. backup[b] \in Graph.backups /\ backup[b].id = b
    BY <1>1, <1>2
  <2>2. \A x \in Graph.backups : x.id = b => x = backup[b]
    BY <1>1, <1>2
  <2> QED BY <2>1, <2>2 DEF ById
<1>5. Ids(Graph.restores) = Drills
  BY <1>1, <1>2 DEF Ids
<1> QED BY <1>1, <1>2, <1>3, <1>4, <1>5

LEMMA GraphPoint ==
  /\ "p" \in Ids(Graph.points)
  /\ ById(Graph.points, "p") = Point("p", {DB, App}, {"b1", "b2"}, PointExpiry)
<1> DEFINE old == Point("p0", {DB}, {"b0"}, RetentionAt)
           p == Point("p", {DB, App}, {"b1", "b2"}, PointExpiry)
<1>1. /\ Graph.points = Points
      /\ p \in Points /\ p.id = "p"
      /\ \A x \in Points : x = p \/ x.id = "p0"
  BY DEF Graph, Points, Point
<1> HIDE DEF p
<1>2. \A x \in Graph.points : x.id = "p" => x = p
  BY <1>1
<1>3. ById(Graph.points, "p") = p
  BY <1>1, <1>2 DEF ById
<1> QED BY <1>1, <1>3 DEF Ids, p

(* Evidence that the health of a backup or an objective rests on is the    *)
(* evidence of the drill it names.                                         *)
LEMMA ConsumedIsOwn ==
  ASSUME RecordsOK, NEW d \in Drills, NEW evidence, ConsumesEvidence(Graph, evidence, d)
  PROVE  evidence \subseteq restore[d].verification.evidence
<1> SUFFICES ASSUME NEW e \in evidence PROVE e \in restore[d].verification.evidence
  OBVIOUS
<1>1. PICK o \in EvidenceOrigins(Graph) :
        o.restore = d /\ o.channel = "verification" /\ o.evidence = e
  BY DEF ConsumesEvidence
<1>2. PICK r \in Graph.restores :
        \/ \E x \in r.verification.evidence :
             o = [restore |-> r.id, channel |-> "verification", evidence |-> x]
        \/ \E x \in r.fencing.evidence :
             o = [restore |-> r.id, channel |-> "fencing", evidence |-> x]
  BY DEF EvidenceOrigins
<1>3. r.id = d /\ e \in r.verification.evidence
  BY <1>1, <1>2
<1>4. r = restore[d]
  BY <1>3 DEF Graph, RecordsOK, DrillsOK
<1> QED BY <1>3, <1>4

(* A backup whose health is blank has no evidence.                         *)
LEMMA HealthHasDrill ==
  ASSUME RecordsOK, NEW b \in BackupIds, ValidateBackupMetadata(backup[b]),
         backup[b].health.evidence # {}
  PROVE  backup[b].health.state \in {"VERIFIED", "DEGRADED"}
<1>1. ValidBackupHealth(backup[b].health, backup[b].state)
  BY DEF ValidateBackupMetadata
<1>2. backup[b].health.state \in {"UNVERIFIED", "VERIFIED", "DEGRADED"}
  BY DEF RecordsOK, BackupsOK, BackupOK, Healths
<1>3. backup[b].health.state = "UNVERIFIED" => backup[b].health.evidence = {}
  BY <1>1 DEF ValidBackupHealth
<1> QED BY <1>2, <1>3

-----------------------------------------------------------------------------
(* Evidence belongs to one drill.                                          *)

LEMMA OwnProofs == RecordsOK => ProofsAreTheDrillsOwn
<1> SUFFICES ASSUME RecordsOK, ValidateRecoveryMetadataGraph(Graph)
             PROVE  /\ \A b \in DOMAIN backup, d \in Drills :
                         backup[b].health.evidence \cap restore[d].verification.evidence # {} =>
                           backup[b].health.restore = d /\ b \in restore[d].backups
                    /\ objective # None /\ objective.result = "PASSED" =>
                         restore[objective.restore].completed
                           - restore[objective.restore].started <= objective.targetRTO
  BY DEF ProofsAreTheDrillsOwn
<1>0. /\ \A b \in Graph.backups : ValidateBackupMetadata(b)
      /\ \A r \in Graph.restores : ValidateRestoreMetadata(r)
      /\ \A o \in Graph.objectives : ValidateObjective(o)
      /\ UniqueEvidence(Graph) /\ HealthLinks(Graph) /\ ObjectiveLinks(Graph)
  BY DEF ValidateRecoveryMetadataGraph
<1>1. ASSUME NEW b \in DOMAIN backup, NEW d \in Drills,
             backup[b].health.evidence \cap restore[d].verification.evidence # {}
      PROVE  backup[b].health.restore = d /\ b \in restore[d].backups
  <2>0. b \in BackupIds /\ backup[b].id = b
    BY DEF RecordsOK, BackupsOK, BackupOK
  <2>1. backup[b].health.state \in {"VERIFIED", "DEGRADED"}
    BY <1>0, <1>1, <2>0, GraphRecords, HealthHasDrill
  <2> DEFINE h == backup[b].health
  <2>2. /\ h.restore \in Drills
        /\ b \in restore[h.restore].backups
        /\ ConsumesEvidence(Graph, h.evidence, restore[h.restore].id)
    BY <1>0, <2>0, <2>1, GraphRecords DEF HealthLinks
  <2>3. restore[h.restore].id = h.restore
    BY <2>2 DEF RecordsOK, DrillsOK
  <2>4. h.evidence \subseteq restore[h.restore].verification.evidence
    BY <2>2, <2>3, ConsumedIsOwn
  <2>5. PICK e \in h.evidence : e \in restore[d].verification.evidence
    BY <1>1
  <2> DEFINE origin(x) == [restore |-> x, channel |-> "verification", evidence |-> e]
  <2>6. ASSUME NEW x \in Drills, e \in restore[x].verification.evidence
        PROVE  origin(x) \in EvidenceOrigins(Graph)
    <3>1. restore[x] \in Graph.restores /\ restore[x].id = x
      BY GraphRecords DEF RecordsOK, DrillsOK
    <3> QED BY <2>6, <3>1 DEF EvidenceOrigins
  <2>7. origin(d) \in EvidenceOrigins(Graph) /\ origin(h.restore) \in EvidenceOrigins(Graph)
    BY <2>2, <2>4, <2>5, <2>6
  <2>8. origin(d) = origin(h.restore)
    BY <1>0, <2>7 DEF UniqueEvidence
  <2>9. d = h.restore
    BY <2>8
  <2> QED BY <2>2, <2>9
<1>2. ASSUME objective # None, objective.result = "PASSED"
      PROVE  restore[objective.restore].completed
               - restore[objective.restore].started <= objective.targetRTO
  <2> DEFINE r == restore[objective.restore]
  <2>1. objective \in Graph.objectives
    BY <1>2 DEF Graph
  <2>2. /\ objective.restore \in Drills /\ objective.targetRTO \in Nat
        /\ objective.observedRTO \in Nat
    BY <1>2 DEF RecordsOK, ObjectiveOK
  <2>3. ~(objective.observedRTO > objective.targetRTO) /\ objective.observedRTO # None
    BY <1>0, <1>2, <2>1 DEF ValidateObjective
  <2>4. /\ r.state = "SUCCEEDED" /\ r \in Graph.restores
        /\ r.started # None => objective.observedRTO >= r.completed - r.started
    BY <1>0, <1>2, <2>1, <2>2, <2>3, GraphRecords DEF ObjectiveLinks
  <2>5. r.started # None /\ r.completed # None
    BY <1>0, <2>4 DEF ValidateRestoreMetadata, ValidRestoreState
  <2>6. r.started \in Nat /\ r.completed \in Nat
    BY <2>2, <2>5 DEF RecordsOK, DrillsOK, Restores, Times
  <2> QED BY <2>2, <2>3, <2>4, <2>5, <2>6
<1> QED BY <1>1, <1>2

(* What one drill observed proves nothing about another                    *)
(* (validateEvidenceConsumers), and a recovery time that passed is not     *)
(* below the time the drill took (validateObjectiveLinks).                 *)
THEOREM ProofsAreAlwaysOwn == Spec => []ProofsAreTheDrillsOwn
<1>1. DrillInv => ProofsAreTheDrillsOwn
  BY OwnProofs DEF DrillInv
<1> QED BY <1>1, DrillsStayConsistent, PTL

-----------------------------------------------------------------------------
(* Ready means restorable.                                                 *)

(* A set of numbers that is not empty has a least one.                     *)
LEMMA LeastNumber ==
  ASSUME NEW S \in SUBSET Nat, S # {}
  PROVE  \E x \in S : \A y \in S : x <= y
<1>1. \E x \in S : \A y \in S : ~ (<<y, x>> \in OpToRel(<, Nat))
  BY NatLessThanWellFounded, WFMin
<1>2. ASSUME NEW x \in Nat, NEW y \in Nat, y < x
      PROVE  <<y, x>> \in OpToRel(<, Nat)
  BY <1>2 DEF OpToRel
<1>3. \E x \in S : \A y \in S : ~(y < x)
  BY <1>1, <1>2, Zenon
<1> QED BY <1>3

LEMMA MinIsLeast ==
  ASSUME NEW S \in SUBSET Nat, NEW y \in S
  PROVE  Min(S) \in Nat /\ Min(S) <= y
<1>1. \E x \in S : \A z \in S : x <= z
  BY LeastNumber
<1> QED BY <1>1 DEF Min

(* The backups that are shown to be needed are the parent and its child.   *)
LEMMA LineageIs ==
  ASSUME BackupsOK
  PROVE  Lineage("b1") = {"b0", "b1"} /\ Lineage("b2") = {"b2"}
<1>0. /\ DOMAIN backup = {"b0", "b1", "b2"}
      /\ backup["b0"].parent = None /\ backup["b1"].parent = "b0" /\ backup["b2"].parent = None
  BY DEF BackupsOK, BackupOK, BackupIds
<1> DEFINE closed(L) == \A x \in L : backup[x].parent # None => backup[x].parent \in L
           least(id, L) == /\ id \in L /\ closed(L)
                           /\ \A M \in SUBSET L : id \in M /\ closed(M) => M = L
<1>1. Lineage("b1") = CHOOSE L \in SUBSET DOMAIN backup : least("b1", L)
  BY DEF Lineage
<1>2. Lineage("b2") = CHOOSE L \in SUBSET DOMAIN backup : least("b2", L)
  BY DEF Lineage
<1>3. ASSUME NEW id, NEW K \in SUBSET DOMAIN backup, id \in K, closed(K),
             \A M \in SUBSET DOMAIN backup : id \in M /\ closed(M) => K \subseteq M
      PROVE  K = CHOOSE L \in SUBSET DOMAIN backup : least(id, L)
  <2> HIDE DEF closed
  <2>1. least(id, K)
    BY <1>3
  <2>2. ASSUME NEW L \in SUBSET DOMAIN backup, least(id, L) PROVE L = K
    BY <1>3, <2>2
  <2> HIDE DEF least
  <2> QED BY <2>1, <2>2
<1>4. {"b0", "b1"} = CHOOSE L \in SUBSET DOMAIN backup : least("b1", L)
  <2>1. closed({"b0", "b1"})
    BY <1>0
  <2>2. ASSUME NEW M \in SUBSET DOMAIN backup, "b1" \in M, closed(M)
        PROVE  {"b0", "b1"} \subseteq M
    <3>1. backup["b1"].parent # None
      BY <1>0, RestoreDrillAssumption
    <3> QED BY <1>0, <2>2, <3>1
  <2> HIDE DEF closed, least
  <2> QED BY <1>0, <1>3, <2>1, <2>2
<1>5. {"b2"} = CHOOSE L \in SUBSET DOMAIN backup : least("b2", L)
  <2>1. closed({"b2"})
    BY <1>0
  <2> HIDE DEF closed, least
  <2> QED BY <1>0, <1>3, <2>1
<1> QED BY <1>1, <1>2, <1>4, <1>5

(* A verified backup of the graph: its drill succeeded while its evidence  *)
(* was collected.                                                          *)
LEMMA VerifiedByDrill ==
  ASSUME RecordsOK, ValidateRecoveryMetadataGraph(Graph),
         NEW id \in BackupIds, backup[id].health.state = "VERIFIED"
  PROVE  /\ backup[id].health.verified \in Nat
         /\ \E d \in Drills :
              /\ restore[d].state = "SUCCEEDED" /\ id \in restore[d].backups
              /\ restore[d].completed <= backup[id].health.verified
              /\ \A k \in {"RESTORE_DRILL", "FUNCTIONAL_TEST"} :
                   \E e \in backup[id].health.evidence :
                     /\ e.kind = k
                     /\ restore[d].started <= e.at /\ e.at <= restore[d].completed
<1> DEFINE h == backup[id].health
           d == h.restore
           r == restore[d]
<1>0. /\ ValidateBackupMetadata(backup[id])
      /\ \A x \in Graph.restores : ValidateRestoreMetadata(x)
      /\ HealthLinks(Graph) /\ RestoreLinks(Graph)
  BY GraphRecords DEF ValidateRecoveryMetadataGraph
<1>1. /\ h.verified # None
      /\ \A k \in {"RESTORE_DRILL", "FUNCTIONAL_TEST"} : HasKind(h.evidence, k)
  BY <1>0 DEF ValidateBackupMetadata, ValidBackupHealth
<1>2. h.verified \in Nat
  BY <1>1 DEF RecordsOK, BackupsOK, BackupOK, Healths, Times
<1>3. /\ d \in Drills /\ id \in r.backups /\ r.state = "SUCCEEDED"
      /\ r.verification.verified # None /\ r.completed # None
      /\ h.verified >= r.completed
      /\ ConsumesEvidence(Graph, h.evidence, r.id)
  <2>1. backup[id].id = id /\ backup[id] \in Graph.backups
    BY GraphRecords DEF RecordsOK, BackupsOK, BackupOK
  <2> QED BY <1>0, <2>1, GraphRecords DEF HealthLinks, CompletedDrill
<1>4. r \in Graph.restores /\ r.id = d /\ r \in Restores
  BY <1>3, GraphRecords DEF RecordsOK, DrillsOK
<1>5. h.evidence \subseteq r.verification.evidence
  BY <1>3, <1>4, ConsumedIsOwn
<1>6. /\ r.started # None
      /\ ValidVerification(r.verification) /\ r.verification.outcome = "PASSED"
      /\ NotAfter(r.verification.verified, r.completed)
  BY <1>0, <1>3, <1>4 DEF ValidateRestoreMetadata, ValidRestoreState
<1>7. \A e \in r.verification.evidence : r.started <= e.at
  BY <1>0, <1>4, <1>6 DEF RestoreLinks
<1>8. /\ r.started \in Nat /\ r.completed \in Nat /\ r.verification.verified \in Nat
      /\ r.verification.evidence \in SUBSET Evidence
  BY <1>3, <1>4, <1>6 DEF Restores, Times
<1>9. \A e \in r.verification.evidence : e.at <= r.completed
  <2>1. \A e \in r.verification.evidence : e.at <= r.verification.verified /\ e.at \in Nat
    BY <1>6, <1>8 DEF ValidVerification, RecordedBy, Evidence
  <2>2. r.verification.verified <= r.completed
    BY <1>3, <1>6 DEF NotAfter
  <2> QED BY <1>8, <2>1, <2>2
<1>10. \A k \in {"RESTORE_DRILL", "FUNCTIONAL_TEST"} :
         \E e \in h.evidence : e.kind = k /\ r.started <= e.at /\ e.at <= r.completed
  BY <1>1, <1>5, <1>7, <1>9 DEF HasKind
<1>11. r.completed <= h.verified
  BY <1>2, <1>3, <1>8
<1> QED BY <1>2, <1>3, <1>10, <1>11

LEMMA ReadyFacts ==
  ASSUME RecordsOK, RecoveryPath(Graph, "p", "c", MaxAge, now) = "ready"
  PROVE  /\ ValidateRecoveryMetadataGraph(Graph)
         /\ \A id \in {"b1", "b2"} :
              /\ backup[id].health.state = "VERIFIED"
              /\ now < backup[id].health.verified + MaxAge
<1>0. ValidateRecoveryMetadataGraph(Graph)
  BY DEF RecoveryPath
<1> DEFINE p == Point("p", {DB, App}, {"b1", "b2"}, PointExpiry)
           backups == {b \in Graph.backups : b.id \in p.backups}
           verified == {b \in backups : b.health.state = "VERIFIED"}
           times == {b.health.verified : b \in verified}
           deadlines == {t + MaxAge : t \in times} \cup ({p.expires} \ {None})
           complete == p.backups # {} /\ verified = backups
           obs == [state |-> p.state, count |-> Cardinality(p.backups),
                   verified |-> Cardinality(verified),
                   outcome |-> IF complete THEN "PASSED" ELSE "PENDING",
                   observedAt |-> IF complete THEN Min(times) ELSE None,
                   expires |-> IF deadlines = {} THEN None ELSE Min(deadlines)]
<1>1. BuildRecoveryPathEvidence(obs, now) = "ready"
  <2>1. ById(Graph.points, "p") = p /\ "p" \in Ids(Graph.points)
    BY GraphPoint
  <2> HIDE DEF p
  <2> QED BY <1>0, <2>1 DEF RecoveryPath
<1>2. complete /\ ~(obs.expires # None /\ obs.expires <= now)
  <2> HIDE DEF p, complete, deadlines, verified, times
  <2> QED BY <1>1 DEF BuildRecoveryPathEvidence
<1>3. p.backups = {"b1", "b2"} /\ p.expires = PointExpiry
  BY DEF Point
<1> HIDE DEF p
<1>4. ASSUME NEW id \in {"b1", "b2"}
      PROVE  /\ backup[id].health.state = "VERIFIED"
             /\ backup[id] \in verified
  <2>1. backup[id] \in Graph.backups /\ backup[id].id = id /\ id \in BackupIds
    BY GraphRecords DEF RecordsOK, BackupsOK, BackupOK, BackupIds
  <2> QED BY <1>2, <1>3, <2>1
<1>5. ASSUME NEW b \in verified
      PROVE  b.health.verified \in Nat
  <2>1. b = backup[b.id] /\ b.id \in BackupIds /\ b.health.state = "VERIFIED"
    BY GraphRecords
  <2> QED BY <1>0, <2>1, VerifiedByDrill
<1>6. deadlines \in SUBSET Nat
  BY <1>3, <1>5, RestoreDrillAssumption
<1>7. ASSUME NEW id \in {"b1", "b2"}
      PROVE  now < backup[id].health.verified + MaxAge
  <2>1. backup[id].health.verified + MaxAge \in deadlines
    BY <1>4
  <2> HIDE DEF deadlines
  <2>2. Min(deadlines) \in Nat /\ Min(deadlines) <= backup[id].health.verified + MaxAge
    BY <1>6, <2>1, MinIsLeast
  <2>3. obs.expires = Min(deadlines) /\ obs.expires # None
    BY <2>1, <2>2, RestoreDrillAssumption
  <2>4. ~(Min(deadlines) <= now)
    BY <1>2, <2>3
  <2>5. backup[id].health.verified + MaxAge \in Nat
    BY <1>6, <2>1
  <2> QED BY <2>2, <2>4, <2>5 DEF RecordsOK
<1> QED BY <1>0, <1>4, <1>7

LEMMA ReadyRestores == RecordsOK => ReadyIsRestorable
<1> SUFFICES ASSUME RecordsOK, RecoveryPath(Graph, "p", "c", MaxAge, now) = "ready",
                    NEW id \in {"b1", "b2"}
             PROVE  /\ \A x \in Lineage(id) : backup[x].artifact # None
                    /\ \E x \in Lineage(id) : backup[x].parent = None
                    /\ \E d \in Drills :
                         LET r == restore[d]
                         IN /\ r.state = "SUCCEEDED" /\ id \in r.backups
                            /\ now < backup[id].health.verified + MaxAge
                            /\ r.completed <= backup[id].health.verified
                            /\ \A k \in {"RESTORE_DRILL", "FUNCTIONAL_TEST"} :
                                 \E e \in backup[id].health.evidence :
                                   e.kind = k /\ r.started <= e.at /\ e.at <= r.completed
  BY DEF ReadyIsRestorable
<1>0. /\ \A b \in Graph.backups : ValidateBackupMetadata(b)
      /\ PointLinks(Graph) /\ ParentLinks(Graph)
      /\ ValidateRecoveryMetadataGraph(Graph)
  BY ReadyFacts DEF ValidateRecoveryMetadataGraph
<1>1. id \in BackupIds /\ backup[id] \in Graph.backups
  BY GraphRecords DEF BackupIds
<1>2. backup[id].artifact # None
  <2>1. PICK p \in Graph.points : id \in p.backups /\ p.state = "READY"
    <3>1. Point("p", {DB, App}, {"b1", "b2"}, PointExpiry) \in Graph.points
      BY DEF Graph, Points
    <3> QED BY <3>1 DEF Point
  <2>2. ReferencedState("READY", backup[id].state)
    BY <1>0, <1>1, <2>1, GraphRecords DEF PointLinks
  <2>3. backup[id].state = "COMPLETED"
    BY <2>2 DEF ReferencedState
  <2> QED BY <1>0, <1>1, <2>3 DEF ValidateBackupMetadata
<1>3. /\ backup["b0"].parent = None /\ backup["b1"].parent = "b0" /\ backup["b2"].parent = None
      /\ "b0" # None
  BY RestoreDrillAssumption DEF RecordsOK, BackupsOK, BackupOK, BackupIds
<1>4. id = "b1" => backup["b0"].artifact # None
  <2>1. id = "b1" => AvailableArtifact(ById(Graph.backups, "b0"))
    BY <1>0, <1>1, <1>3 DEF ParentLinks
  <2>2. ById(Graph.backups, "b0") = backup["b0"]
    BY GraphRecords DEF BackupIds
  <2> QED BY <2>1, <2>2 DEF AvailableArtifact
<1>5. Lineage("b1") = {"b0", "b1"} /\ Lineage("b2") = {"b2"}
  BY LineageIs DEF RecordsOK
<1>6. /\ \A x \in Lineage(id) : backup[x].artifact # None
      /\ \E x \in Lineage(id) : backup[x].parent = None
  BY <1>2, <1>3, <1>4, <1>5
<1>7. backup[id].health.state = "VERIFIED" /\ now < backup[id].health.verified + MaxAge
  BY ReadyFacts
<1>8. \E d \in Drills :
        /\ restore[d].state = "SUCCEEDED" /\ id \in restore[d].backups
        /\ restore[d].completed <= backup[id].health.verified
        /\ \A k \in {"RESTORE_DRILL", "FUNCTIONAL_TEST"} :
             \E e \in backup[id].health.evidence :
               /\ e.kind = k
               /\ restore[d].started <= e.at /\ e.at <= restore[d].completed
  BY <1>0, <1>1, <1>7, VerifiedByDrill
<1> QED BY <1>6, <1>7, <1>8

(* A recovery path that is shown as ready leads back: every artifact it    *)
(* needs exists and a drill of each backup succeeded within the age limit  *)
(* (BuildRecoveryPathEvidenceFromGraph, ValidateRecoveryMetadataGraph).    *)
THEOREM ReadyPathsRestore == Spec => []ReadyIsRestorable
<1>1. DrillInv => ReadyIsRestorable
  BY ReadyRestores DEF DrillInv
<1> QED BY <1>1, DrillsStayConsistent, PTL

-----------------------------------------------------------------------------
(* What was stored about a drill.                                          *)

(* Among usable drills there is a newest one with the lowest id.           *)
LEMMA NewestExists ==
  ASSUME DrillsOK, NEW at \in Nat, NEW usable \in SUBSET {restore[d] : d \in Drills},
         usable # {},
         \A r \in usable : r.verification.verified \in Nat /\ r.verification.verified <= at
  PROVE  LET newest == {r \in usable : \A q \in usable :
                          r.verification.verified >= q.verification.verified}
         IN  \E x \in newest : \A q \in newest : q = x \/ LowerId(x.id, q.id)
<1> DEFINE newest == {r \in usable : \A q \in usable :
                        r.verification.verified >= q.verification.verified}
           ages == {at - r.verification.verified : r \in usable}
           ids == {r.id : r \in newest}
<1>1. newest # {}
  <2>1. ages \in SUBSET Nat /\ ages # {}
    OBVIOUS
  <2>2. PICK least \in ages : \A y \in ages : least <= y
    <3> HIDE DEF ages
    <3> QED BY <2>1, LeastNumber
  <2>3. PICK r \in usable : least = at - r.verification.verified
    OBVIOUS
  <2>4. \A q \in usable : at - r.verification.verified <= at - q.verification.verified
    BY <2>2, <2>3
  <2>5. \A q \in usable : r.verification.verified >= q.verification.verified
    BY <2>4
  <2> QED BY <2>5
<1>2. ids \in SUBSET Drills /\ ids # {}
  BY <1>1 DEF DrillsOK
<1>3. PICK lowest \in ids : \A y \in ids : y = lowest \/ LowerId(lowest, y)
  <2> HIDE DEF ids
  <2> QED BY <1>2, RestoreDrillAssumption
<1>4. PICK x \in newest : x.id = lowest
  OBVIOUS
<1>5. \A q \in newest : q = x \/ LowerId(x.id, q.id)
  <2>1. \A q \in newest : q.id = x.id => q = x
    BY DEF DrillsOK
  <2> QED BY <1>3, <1>4, <2>1
<1> QED BY <1>5

(* A succeeded drill counts for a snapshot of its target.                  *)
LEMMA SucceededCounts ==
  ASSUME DrillsOK, NEW d \in Drills, restore[d].state = "SUCCEEDED"
  PROVE  /\ SucceededDrill(restore[d]) /\ restore[d].target = Copy
         /\ restore[d].verification.verified \in Nat /\ restore[d].completed \in Nat
         /\ restore[d].verification.verified <= restore[d].completed
<1> DEFINE r == restore[d]
<1>1. ValidateRestoreMetadata(r) /\ r \in Restores
  BY DEF DrillsOK
<1>2. r.mode = "ISOLATED_DRILL" /\ r.target = Copy
  BY <1>1 DEF Restores
<1>3. /\ r.verification.outcome = "PASSED" /\ r.completed # None
      /\ r.verification.verified # None
      /\ NotAfter(r.verification.verified, r.completed)
  BY <1>1 DEF ValidateRestoreMetadata, ValidRestoreState, ValidVerification
<1>4. r.verification.verified \in Nat /\ r.completed \in Nat
  BY <1>1, <1>3 DEF Restores, Times
<1> QED BY <1>1, <1>2, <1>3, <1>4 DEF SucceededDrill, NotAfter

LEMMA SnapshotNamesNewest ==
  ASSUME DrillsOK, NEW s, s.base.target = Copy, s.base.checked \in Nat,
         SnapshotLatestCurrent({restore[d] : d \in Drills}, s),
         NEW d \in Drills, restore[d].state = "SUCCEEDED",
         restore[d].completed <= s.base.checked
  PROVE  s.state # "UNVERIFIABLE" /\ restore[d].verification.verified <= s.assessment.verified
<1> DEFINE records == {restore[e] : e \in Drills}
           at == s.base.checked
           usable == {r \in records : r.target = Copy /\ SucceededDrill(r)
                                      /\ r.verification.verified <= at}
           newest == {r \in usable : \A q \in usable :
                        r.verification.verified >= q.verification.verified}
           x == CHOOSE y \in newest : \A q \in newest : q = y \/ LowerId(y.id, q.id)
           a == Assessment(x, s.base.maxAge, at)
<1>1. restore[d] \in usable
  BY SucceededCounts
<1>2. ASSUME NEW r \in usable
      PROVE  r.verification.verified \in Nat /\ r.verification.verified <= at
  <2>1. PICK e \in Drills : r = restore[e]
    OBVIOUS
  <2>2. r.state = "SUCCEEDED"
    BY DEF SucceededDrill
  <2> QED BY <2>1, <2>2, SucceededCounts
<1>3. x \in newest
  <2>1. usable # {} /\ usable \in SUBSET records
    BY <1>1
  <2> HIDE DEF usable
  <2>2. \E y \in newest : \A q \in newest : q = y \/ LowerId(y.id, q.id)
    BY <1>2, <2>1, NewestExists
  <2> HIDE DEF newest
  <2> QED BY <2>2
<1>4. /\ s.state = a.state /\ s.assessment = a
  <2>1. LatestSnapshot(records, s.base.target, s.base.maxAge, at) = s
    BY DEF SnapshotLatestCurrent
  <2>2. LatestSnapshot(records, Copy, s.base.maxAge, at) =
          [base |-> [target |-> Copy, checked |-> at, maxAge |-> s.base.maxAge],
           state |-> a.state, assessment |-> a, rv |-> x.rv, gen |-> x.gen,
           digest |-> x.verification.evidence]
    <3>1. usable # {}
      BY <1>1
    <3> QED BY <3>1 DEF LatestSnapshot
  <2> HIDE DEF a, x
  <2>3. s = [base |-> [target |-> Copy, checked |-> at, maxAge |-> s.base.maxAge],
             state |-> a.state, assessment |-> a, rv |-> x.rv, gen |-> x.gen,
             digest |-> x.verification.evidence]
    BY <2>1, <2>2
  <2> QED BY <2>3
<1>5. a.state # "UNVERIFIABLE" /\ a.verified = x.verification.verified
  BY DEF Assessment
<1> HIDE DEF a, x
<1>6. restore[d].verification.verified <= x.verification.verified
  <2>1. x.verification.verified >= restore[d].verification.verified /\ x \in usable
    BY <1>1, <1>3
  <2> HIDE DEF usable
  <2> QED BY <1>1, <1>2, <2>1
<1> QED BY <1>4, <1>5, <1>6

LEMMA StoredHolds == DrillInv => StoredEvidenceHolds
<1> SUFFICES ASSUME DrillInv, stored # None
             PROVE  IF stored.kind = "binding"
                    THEN BindingStatus(restore[stored.value.restore], stored.value) = "current"
                    ELSE SnapshotLatestCurrent({restore[d] : d \in Drills}, stored.value) =>
                           \A d \in Drills :
                             restore[d].state = "SUCCEEDED"
                             /\ restore[d].completed <= stored.value.base.checked =>
                               /\ stored.value.state # "UNVERIFIABLE"
                               /\ restore[d].verification.verified
                                    <= stored.value.assessment.verified
  BY DEF StoredEvidenceHolds
<1>1. CASE stored.kind = "binding"
  BY <1>1 DEF DrillInv, StoredOK, BindingStatus
<1>2. CASE stored.kind # "binding"
  <2>1. stored.value.base.target = Copy /\ stored.value.base.checked \in Nat
    BY <1>2 DEF DrillInv, StoredOK
  <2>2. DrillsOK
    BY DEF DrillInv, RecordsOK
  <2> QED BY <1>2, <2>1, <2>2, SnapshotNamesNewest
<1> QED BY <1>1, <1>2

(* A stored binding stays current, because no request changes a finished   *)
(* drill (validRestoreDrillEdge), and a snapshot that still validates      *)
(* against all restores names the newest drill of its time                 *)
(* (ValidateRestoreDrillFreshnessSnapshotLatestCurrent).                   *)
THEOREM StoredEvidenceAlwaysHolds == Spec => []StoredEvidenceHolds
BY StoredHolds, DrillsStayConsistent, PTL

-----------------------------------------------------------------------------
(* Fencing.                                                                *)

(* Any restore of a stateful target, in place or to a point in time, that  *)
(* ValidateRestoreMetadata accepts and that has started, not only the ones *)
(* FencedRestores enumerates: its fence was confirmed before it started,   *)
(* on evidence observed after it was requested.                            *)
THEOREM FencedFirst ==
  ASSUME NEW r, r.target.stateful, r.mode \in {"IN_PLACE", "PITR"},
         ValidateRestoreMetadata(r), r.started \in Nat, r.started # None,
         r.requested \in Nat, r.requested # None,
         r.fencing.confirmed \in Times,
         \A e \in r.fencing.evidence : e.at \in Nat
  PROVE  /\ r.fencing.confirmed # None
         /\ r.requested <= r.fencing.confirmed /\ r.fencing.confirmed <= r.started
         /\ \A e \in r.fencing.evidence : r.requested <= e.at /\ e.at <= r.started
<1>1. r.state # "PLANNED"
  BY DEF ValidateRestoreMetadata, ValidRestoreState
<1>2. r.fencing.state = "CONFIRMED"
  <2>1. ValidFencingContext(r)
    BY DEF ValidateRestoreMetadata
  <2> QED BY <1>1, <2>1 DEF ValidFencingContext
<1>3. r.fencing.confirmed # None /\ RecordedBy(r.fencing.evidence, r.fencing.confirmed)
  <2>1. ValidateFencing(r.fencing)
    BY DEF ValidateRestoreMetadata
  <2> QED BY <1>2, <2>1 DEF ValidateFencing
<1>4. /\ NotAfter(r.fencing.confirmed, r.started)
      /\ NotAfter(r.requested, r.fencing.confirmed)
      /\ \A e \in r.fencing.evidence : r.requested <= e.at
  BY DEF ValidateRestoreMetadata
<1>5. r.requested <= r.fencing.confirmed /\ r.fencing.confirmed <= r.started
  BY <1>3, <1>4 DEF NotAfter
<1>6. \A e \in r.fencing.evidence : e.at <= r.started
  BY <1>3, <1>5 DEF RecordedBy, Times
<1> QED BY <1>3, <1>4, <1>5, <1>6

LEMMA FencedAlways == FencedBeforeRestore
<1> SUFFICES ASSUME NEW r \in FencedRestores, ValidateRestoreMetadata(r), r.started # None
             PROVE  /\ r.fencing.confirmed # None
                    /\ r.requested <= r.fencing.confirmed /\ r.fencing.confirmed <= r.started
                    /\ \A e \in r.fencing.evidence : r.requested <= e.at /\ e.at <= r.started
  BY DEF FencedBeforeRestore
<1>0. PICK state \in {"PLANNED", "RUNNING", "FAILED", "CANCELLED"}, started \in {None, 1, 2, 3},
           fence \in {"REQUIRED", "CONFIRMED", "FAILED"}, confirmed \in {None, 0, 1, 2, 3},
           seen \in 0 .. 3 :
        r = FencedRestore(state, started, Fence(fence, confirmed, seen))
  BY DEF FencedRestores
<1>1. /\ r.mode = "IN_PLACE" /\ r.target = DB /\ r.requested = 1 /\ r.started = started
      /\ r.fencing = Fence(fence, confirmed, seen)
  BY <1>0 DEF FencedRestore, PlannedDrill
<1>2. /\ r.target.stateful /\ r.started \in Nat /\ r.requested \in Nat /\ r.requested # None
      /\ r.fencing.confirmed \in Times
      /\ \A e \in r.fencing.evidence : e.at \in Nat
  BY <1>1, RestoreDrillAssumption DEF DB, Times, Fence
<1> QED BY <1>1, <1>2, FencedFirst

(* No restore of a stateful target in place starts before its fence is     *)
(* confirmed, on evidence observed after the request                       *)
(* (validateRestoreFencingContext, validateFencing).                       *)
THEOREM FencesComeFirst == Spec => []FencedBeforeRestore
BY FencedAlways, PTL
=============================================================================
