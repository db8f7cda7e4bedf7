--------------------------- MODULE PlacementReuse ---------------------------
(***************************************************************************)
(* The life of a placement recommendation (internal/capacity): it is       *)
(* captured with the derivations it rests on (placement_evidence.go,       *)
(* placement_provenance.go, placement_derivation_binding.go,               *)
(* placement_derived_evidence.go), revalidated into a reuse decision       *)
(* (placement_derived_evidence_revalidation.go,                            *)
(* placement_reuse_decision.go), expanded into the headroom of every       *)
(* resource (placement_resource_headroom.go), whose age is checked         *)
(* (placement_resource_headroom_freshness.go), and at last a gate lets the *)
(* recommendation be used again or not (placement_reuse_consumption.go,    *)
(* placement_resource_reuse_gate.go).                                      *)
(*                                                                         *)
(* The functions are pure: a consumer holds one document of each kind and  *)
(* passes them back, together with the profiles, telemetry, derivations    *)
(* and request of that moment, while time passes and all of these change.  *)
(* It may thus combine documents of different moments.  A call that        *)
(* returns an error yields no document, so its action is not enabled.      *)
(* A document's identifier digests its content; the model compares the     *)
(* content.  Documents are not tampered with, so the integrity checks on   *)
(* a document passed back hold.                                            *)
(***************************************************************************)
EXTENDS Placement

CONSTANTS
  Nodes,       \* node identifiers, ordered as the numbers they are
  Profiles,    \* contents a capacity profile may have
  Reports,     \* contents a telemetry snapshot may have
  Requests,    \* placement requests
  Worlds,      \* the request, profiles and reports to begin with
  MaxClock,    \* bound: time
  MaxChanges   \* bound: new profiles, snapshots and requests

VARIABLES
  now, profile, telemetry, request,
  evidence,   \* the derivation held for each node
  derived,    \* PlacementAdviceDerivedEvidenceSnapshot
  decision,   \* PlacementAdviceReuseDecision, with its revalidation
  envelope,   \* PlacementResourceHeadroomEnvelope
  freshness,  \* PlacementResourceHeadroomFreshnessGate
  gate,       \* what the last call returned, if it evaluated the reuse gate
  changes

world == <<now, profile, telemetry, request, changes>>
placementVars == <<world, evidence, derived, decision, envelope, freshness, gate>>

ASSUME PlacementReuseAssumption ==
  /\ IsFiniteSet(Nodes) /\ Nodes \subseteq Nat /\ None \notin Nodes
  /\ \A p \in Profiles : ValidProfile(p)
  /\ \A p \in Profiles : \* percentages are exact
       100 % p.safe = 0 /\ \A c \in Constraints : 100 % p.limit[c] = 0
  /\ \A r \in Reports : ValidReport(r)
  /\ \A q \in Requests : ValidRequest(q)
  /\ Worlds \subseteq [request : Requests, profile : [Nodes -> Profiles],
                        report : [Nodes -> Reports]]
  /\ {MaxClock, MaxChanges} \subseteq Nat

-----------------------------------------------------------------------------
(***************************************************************************)
(* The inputs of a call: one derivation per node that has one, with the    *)
(* node's profile and telemetry.                                           *)
(***************************************************************************)
Inputs == {n \in Nodes : evidence[n] # None}
Projections == [n \in Inputs |-> evidence[n].projection]

ValidateNodeProjectionDerivation(n) ==
  /\ CanDerive(profile[n], telemetry[n], evidence[n].evaluatedAt)
  /\ evidence[n] = DeriveNodeProjection(profile[n], telemetry[n], evidence[n].evaluatedAt)

validatePlacementNodeDerivations(at) ==
  /\ Inputs # {}
  /\ \A n \in Inputs : evidence[n].evaluatedAt <= at /\ ValidateNodeProjectionDerivation(n)

TelemetryFresh(at) == \A n \in Inputs : Within(at, evidence[n].observedAt, MaxTelemetryAge)

CapturePlacementAdviceSnapshot ==
  [request |-> request, nodes |-> Projections,
   advice |-> BuildPlacementAdvice(request, Projections)]

(* What CapturePlacementAdviceFromDerivations seals at time at.            *)
CurrentEvidence(at) ==
  [placement |-> CapturePlacementAdviceSnapshot, evaluatedAt |-> at,
   derivations |-> [n \in Inputs |-> evidence[n]]]

CanCompare(at) == validatePlacementNodeDerivations(at) /\ CanAssess(request, Projections)
CanCapture(at) == CanCompare(at) /\ TelemetryFresh(at)

-----------------------------------------------------------------------------
(***************************************************************************)
(* RevalidatePlacementAdviceDerivedEvidence: the reason it gives.          *)
(***************************************************************************)
PlacementReason(saved) ==
  IF saved.placement.request # request THEN "placement-request-or-constraint-drift"
  ELSE IF saved.placement.nodes # Projections THEN "node-capacity-or-telemetry-evidence-drift"
  ELSE IF saved.placement.advice # BuildPlacementAdvice(request, Projections)
    THEN "placement-decision-drift"
  ELSE "exact-evidence-current"

(* placementProvenanceDrift, on nodes that are the same in both.           *)
ProvenanceDrift(saved) ==
  LET moved(n) == saved.derivations[n].generation # evidence[n].generation
      heard(n) == saved.derivations[n].observedAt # evidence[n].observedAt
      drifted == {n \in Inputs : moved(n) \/ heard(n)}
  IN  IF drifted = {} THEN "none"
      ELSE IF moved(Min(drifted)) THEN "capacity-profile-revision-drift"
      ELSE "telemetry-revision-drift"

ProvenanceReason(saved, at) ==
  IF ~TelemetryFresh(at) THEN "telemetry-freshness-expired"
  ELSE IF ProvenanceDrift(saved) # "none" THEN ProvenanceDrift(saved)
  ELSE IF saved.derivations # [n \in Inputs |-> evidence[n]] THEN "projection-derivation-drift"
  ELSE IF saved # CurrentEvidence(at) THEN "derived-evidence-identity-drift"
  ELSE "exact-derived-evidence-current"

DerivedReason(saved, at) ==
  LET placement == PlacementReason(saved)
  IN  IF placement # "exact-evidence-current" THEN placement ELSE ProvenanceReason(saved, at)

(* Whether two revalidations are the same is asked only of reusable ones,  *)
(* where the current evidence is the saved evidence: it is left out.       *)
Revalidation(saved, at) ==
  LET reason == DerivedReason(saved, at)
  IN  [saved |-> saved, reason |-> reason,
       reusable |-> /\ reason = "exact-derived-evidence-current"
                    /\ reusablePlacementRecommendation(saved.placement.advice)]

(* Except for expired telemetry it also captures the current evidence.     *)
CanRevalidate(saved, at) ==
  /\ CanCompare(at)
  /\ TelemetryFresh(at) \/ DerivedReason(saved, at) = "telemetry-freshness-expired"

EvaluatePlacementAdviceReuse(revalidation) ==
  [revalidation |-> revalidation, allowed |-> revalidation.reusable]

(* EvaluatePlacementAdviceReuseConsumption allows the decision.            *)
Consumable(dec, current) == dec.allowed /\ current.reusable /\ dec.revalidation = current

-----------------------------------------------------------------------------
(***************************************************************************)
(* BuildPlacementResourceHeadroomEnvelope                                  *)
(***************************************************************************)
Band(eligible, margin) ==
  IF ~eligible \/ margin < 0 THEN "blocked" ELSE IF margin = 0 THEN "boundary" ELSE "headroom"

placementResourceHeadroomEntries(n) ==
  [c \in Constraints |->
     [reserve |-> Reserve(profile[n], telemetry[n], c), obsAt |-> telemetry[n].obsAt[c],
      kind |-> telemetry[n].kind[c],
      band |-> Band(TRUE, Reserve(profile[n], telemetry[n], c))]]

HeadroomCandidate(saved, n) ==
  LET node == saved.placement.nodes[n]
      eligible == n \in Eligible(saved.placement.request, saved.placement.nodes)
      workload == SafeReservePercent(saved.placement.request, node)
                    - saved.placement.request.minimumReserve
      entries == placementResourceHeadroomEntries(n)
      limiting == Min({entries[c].reserve : c \in Constraints})
      margin == IF limiting < workload THEN limiting ELSE workload
  IN  [eligible |-> eligible, resources |-> entries, margin |-> margin,
       limitedBy |-> IF limiting < workload THEN "resource" ELSE "workload",
       band |-> Band(eligible, margin), confidence |-> node.confidence]

Headroom(saved, at) ==
  [derived |-> saved, evaluatedAt |-> at,
   candidates |-> [n \in Serving(saved.placement.nodes) |-> HeadroomCandidate(saved, n)]]

CanHeadroom(saved, at) ==
  /\ CanCapture(at) /\ saved = CurrentEvidence(at)
  /\ \A n \in Serving(saved.placement.nodes) : CanDerive(profile[n], telemetry[n], at)

-----------------------------------------------------------------------------
(***************************************************************************)
(* BuildPlacementResourceHeadroomFreshnessGate                             *)
(***************************************************************************)
(* Mutant of ceilDurationSeconds: a begun second does not count.           *)
FloorDurationSeconds(age) == age \div TicksPerSecond

ceilDurationSeconds(age) == (age + TicksPerSecond - 1) \div TicksPerSecond

classifyPlacementResourceHeadroomCandidate(candidate, p, at) ==
  IF \E c \in Constraints :
       ceilDurationSeconds(at - candidate.resources[c].obsAt) > p.maxAge[c]
    THEN "stale"
  ELSE IF \/ \E c \in Constraints : candidate.resources[c].kind # "measured"
          \/ candidate.confidence = 0
    THEN "degraded-evidence"
  ELSE "current"

FreshnessGate(env, at) ==
  [envelope |-> env, checkedAt |-> at,
   status |-> [n \in DOMAIN env.candidates |->
                 classifyPlacementResourceHeadroomCandidate(env.candidates[n], profile[n], at)]]

CanCheckFreshness(env, saved, at) ==
  /\ env.evaluatedAt <= at
  /\ CanHeadroom(saved, env.evaluatedAt) /\ env = Headroom(saved, env.evaluatedAt)

AllCurrent(fresh) == \A n \in DOMAIN fresh.status : fresh.status[n] = "current"

(* EvaluatePlacementResourceReuseGate: what blocks the recommendation.     *)
BlockedBy(dec, fresh, saved) ==
  IF dec.revalidation.saved # saved THEN "lineage"
  ELSE IF ~AllCurrent(fresh) THEN "resource-evidence"
  ELSE IF ~Consumable(dec, Revalidation(saved, saved.evaluatedAt)) THEN "strong-evidence"
  ELSE "none"

-----------------------------------------------------------------------------
Snapshot(r, at) ==
  [at |-> at, healthy |-> r.healthy, load |-> r.load,
   value |-> r.value, kind |-> r.kind,
   obsAt |-> [c \in DOMAIN r.lag |-> at - r.lag[c]]]

Revised(p, generation) ==
  [generation |-> generation, safe |-> p.safe, technical |-> p.technical,
   confidence |-> p.confidence, limit |-> p.limit, maxAge |-> p.maxAge, accepts |-> p.accepts]

PlacementInit ==
  /\ now = 0 /\ changes = 0
  /\ \E w \in Worlds :
       /\ request = w.request
       /\ profile = [n \in Nodes |-> Revised(w.profile[n], 1)]
       /\ telemetry = [n \in Nodes |-> Snapshot(w.report[n], 0)]
  /\ evidence = [n \in Nodes |-> None]
  /\ derived = None /\ decision = None /\ envelope = None /\ freshness = None /\ gate = None

documents == <<evidence, derived, decision, envelope, freshness>>

Tick ==
  /\ now < MaxClock /\ now' = now + 1
  /\ gate' = None /\ UNCHANGED <<profile, telemetry, request, changes, documents>>

(* A node sends a snapshot.  The identifier and revision it gives it may   *)
(* be the ones it used before; the model does not rely on them.            *)
Report(n) ==
  /\ changes < MaxChanges /\ changes' = changes + 1
  /\ \E r \in Reports : telemetry' = [telemetry EXCEPT ![n] = Snapshot(r, now)]
  /\ gate' = None /\ UNCHANGED <<now, profile, request, documents>>

Reprofile(n) ==
  /\ changes < MaxChanges /\ changes' = changes + 1
  /\ \E p \in Profiles :
       profile' = [profile EXCEPT ![n] = Revised(p, profile[n].generation + 1)]
  /\ gate' = None /\ UNCHANGED <<now, telemetry, request, documents>>

ChangeRequest ==
  /\ changes < MaxChanges /\ changes' = changes + 1
  /\ request' \in Requests \ {request}
  /\ gate' = None /\ UNCHANGED <<now, profile, telemetry, documents>>

(* The consumer derives the projections of some nodes afresh.              *)
Derive ==
  /\ \E S \in SUBSET Nodes \ {{}} :
       /\ \A n \in S : CanDerive(profile[n], telemetry[n], now)
       /\ evidence' = [n \in Nodes |->
            IF n \in S THEN DeriveNodeProjection(profile[n], telemetry[n], now) ELSE None]
  /\ gate' = None /\ UNCHANGED <<world, derived, decision, envelope, freshness>>

(* An envelope of the evidence held before is of no use any more; an old   *)
(* decision may still be presented.                                        *)
CapturePlacementAdviceFromDerivations ==
  /\ CanCapture(now)
  /\ derived' = CurrentEvidence(now)
  /\ envelope' = None /\ freshness' = None
  /\ gate' = None /\ UNCHANGED <<world, evidence, decision>>

(* Revalidate, now or at the original evaluation time, and decide.         *)
Decide ==
  /\ derived # None
  /\ \E at \in {now, derived.evaluatedAt} :
       /\ CanRevalidate(derived, at)
       /\ decision' = EvaluatePlacementAdviceReuse(Revalidation(derived, at))
  /\ gate' = None /\ UNCHANGED <<world, evidence, derived, envelope, freshness>>

BuildHeadroom ==
  /\ derived # None
  /\ CanHeadroom(derived, derived.evaluatedAt)
  /\ envelope' = Headroom(derived, derived.evaluatedAt)
  /\ gate' = None /\ UNCHANGED <<world, evidence, derived, decision, freshness>>

CheckFreshness ==
  /\ derived # None /\ envelope # None
  /\ CanCheckFreshness(envelope, derived, now)
  /\ freshness' = FreshnessGate(envelope, now)
  /\ gate' = None /\ UNCHANGED <<world, evidence, derived, decision, envelope>>

EvaluateGate ==
  /\ None \notin {derived, decision, envelope, freshness}
  /\ freshness = FreshnessGate(envelope, now) /\ CanCheckFreshness(envelope, derived, now)
  /\ CanRevalidate(derived, derived.evaluatedAt)
  /\ gate' = [checkedAt |-> now, recommended |-> derived.placement.advice.recommended,
              blockedBy |-> BlockedBy(decision, freshness, derived)]
  /\ UNCHANGED <<world, evidence, derived, decision, envelope, freshness>>

PlacementNext ==
  \/ \E n \in Nodes : Report(n) \/ Reprofile(n)
  \/ Derive \/ Tick \/ ChangeRequest \/ CapturePlacementAdviceFromDerivations \/ Decide
  \/ BuildHeadroom \/ CheckFreshness \/ EvaluateGate

PlacementSpec == PlacementInit /\ [][PlacementNext]_placementVars

-----------------------------------------------------------------------------
(***************************************************************************)
(* Properties                                                              *)
(***************************************************************************)
(* What a reused recommendation promises, from the profiles and telemetry  *)
(* alone: the node carries the additional workload within its safe         *)
(* capacity, the fleet carries it whichever failureReserve nodes fail, and *)
(* no resource of a serving node is beyond its limit, by observations that *)
(* were measured and are within the age their constraint allows.           *)
SafeToReuse(n) ==
  LET serving == {m \in Inputs : telemetry[m].healthy}
      load(S) == SumFunctionOnSet([m \in Inputs |-> telemetry[m].load], S)
      capacity(S) == SumFunctionOnSet([m \in Inputs |-> profile[m].safe], S)
  IN  /\ n \in serving
      /\ telemetry[n].load + request.increment <= profile[n].safe
      /\ \A failed \in SUBSET serving : Cardinality(failed) = request.failureReserve =>
           load(serving) + request.increment <= capacity(serving \ failed)
      /\ \A m \in serving, c \in Constraints :
           /\ telemetry[m].value[c] <= profile[m].limit[c]
           /\ telemetry[m].kind[c] = "measured"
           /\ now - telemetry[m].obsAt[c] <= profile[m].maxAge[c] * TicksPerSecond

(* Whatever documents of whatever moments are combined, and however the    *)
(* profiles, telemetry and request moved in between, the reuse gate lets a *)
(* recommendation through only when it is safe at that moment              *)
(* (EvaluatePlacementResourceReuseGate and all it rests on).               *)
PermittedReuseIsSafe ==
  gate # None /\ gate.blockedBy = "none" => SafeToReuse(gate.recommended)

(* The headroom envelope explains the advice it is built for: a candidate  *)
(* is blocked in the one exactly when it is ineligible in the other, and a *)
(* recommended node has no resource beyond its safe limit                  *)
(* (BuildPlacementResourceHeadroomEnvelope against BuildPlacementAdvice).  *)
HeadroomExplainsAdvice ==
  envelope # None =>
    /\ \A n \in DOMAIN envelope.candidates :
         (envelope.candidates[n].band = "blocked") <=> ~envelope.candidates[n].eligible
    /\ LET best == envelope.derived.placement.advice.recommended
       IN  best # None => \A c \in Constraints :
             envelope.candidates[best].resources[c].band # "blocked"
=============================================================================
