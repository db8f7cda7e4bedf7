----------------------------- MODULE Placement ------------------------------
(***************************************************************************)
(* Where to put more workload (internal/capacity): a node's projection is  *)
(* derived from its capacity profile and one telemetry snapshot            *)
(* (projection_derivation.go), the fleet is assessed without its largest   *)
(* nodes (planner.go) and the nodes are ranked (placement.go).             *)
(*                                                                         *)
(* A profile and a snapshot are records whose resource fields are          *)
(* functions on constraint identifiers: limit and maxAge (seconds) and     *)
(* accepts in a profile; value, obsAt and kind in a snapshot.  A node that *)
(* is healthy and carries the requested role is "healthy" here.            *)
(* Confidence 0 is ConfidenceLow, larger is more confident.  Quantities    *)
(* are whole numbers and percentages are exact, so the tolerance with      *)
(* which the code compares floats does not appear.                         *)
(***************************************************************************)
EXTENDS Integers, FiniteSets, FiniteSetsExt

CONSTANTS
  None,             \* no document, no node
  Constraints,      \* constraint identifiers, ordered as the numbers they are
  TicksPerSecond,   \* resolution of the clock
  MaxTelemetryAge   \* maxProjectionTelemetryAgeSeconds

ASSUME PlacementAssumption ==
  /\ Constraints # {} /\ IsFiniteSet(Constraints) /\ Constraints \subseteq Nat
  /\ TicksPerSecond \in Nat \ {0} /\ MaxTelemetryAge \in Nat

(* What NormalizeConstraint, NormalizeProfile, the telemetry contract and  *)
(* BuildPlacementAdvice demand of the numbers they are given.              *)
ValidConstraints(p) ==
  p.limit \in [Constraints -> Nat \ {0}] /\ p.maxAge \in [Constraints -> Nat \ {0}]

ValidProfile(p) ==
  /\ p.safe \in Nat \ {0} /\ p.technical \in Nat /\ p.safe < p.technical
  /\ p.confidence \in Nat /\ ValidConstraints(p)

ValidReport(r) ==
  /\ r.healthy \in BOOLEAN /\ r.load \in Nat
  /\ \A c \in DOMAIN r.value : r.value[c] \in Nat /\ r.lag[c] \in Int
  /\ DOMAIN r.lag = DOMAIN r.value

ValidRequest(q) ==
  q.increment \in Nat \ {0} /\ q.failureReserve \in Nat /\ q.minimumReserve \in 0 .. 90

Percent(part, whole) == (part * 100) \div whole
Within(at, since, seconds) == since <= at /\ at - since <= seconds * TicksPerSecond

-----------------------------------------------------------------------------
(***************************************************************************)
(* DeriveNodeProjection                                                    *)
(***************************************************************************)
validateProjectionObservation(p, t, c, at) ==
  t.kind[c] \in p.accepts[c] /\ Within(at, t.obsAt[c], p.maxAge[c])

normalizeNodeProjectionTelemetry(t, at) ==
  /\ Within(at, t.at, MaxTelemetryAge)
  /\ DOMAIN t.value = Constraints
  /\ \A c \in Constraints : t.obsAt[c] <= t.at

CanDerive(p, t, at) ==
  /\ normalizeNodeProjectionTelemetry(t, at)
  /\ \A c \in Constraints : validateProjectionObservation(p, t, c, at)

Reserve(p, t, c) == Percent(p.limit[c] - t.value[c], p.limit[c])

(* The constraint with the least reserve, the first of them on a tie.      *)
Bottleneck(p, t) ==
  CHOOSE c \in Constraints : \A d \in Constraints \ {c} :
    \/ Reserve(p, t, c) < Reserve(p, t, d)
    \/ Reserve(p, t, c) = Reserve(p, t, d) /\ c < d

Projection(p, t) ==
  LET tightest == Bottleneck(p, t)
  IN  [healthy |-> t.healthy, load |-> t.load, safe |-> p.safe, technical |-> p.technical,
       confidence |-> p.confidence, bottleneck |-> tightest,
       reserve |-> Reserve(p, t, tightest)]

(* The evidence; its DerivationID digests all of it.                       *)
DeriveNodeProjection(p, t, at) ==
  [generation |-> p.generation, observedAt |-> t.at, evaluatedAt |-> at,
   projection |-> Projection(p, t),
   observations |-> [value |-> t.value, obsAt |-> t.obsAt, kind |-> t.kind]]

-----------------------------------------------------------------------------
(***************************************************************************)
(* BuildAssessment.  nodes is a function from node identifiers to          *)
(* projections.                                                            *)
(***************************************************************************)
Serving(nodes) == {n \in DOMAIN nodes : nodes[n].healthy}
TotalLoad(nodes) == SumFunctionOnSet([n \in DOMAIN nodes |-> nodes[n].load], Serving(nodes))
SafeCapacity(nodes, S) == SumFunctionOnSet([n \in DOMAIN nodes |-> nodes[n].safe], S)

Larger(nodes, m, n) ==
  nodes[m].safe > nodes[n].safe \/ (nodes[m].safe = nodes[n].safe /\ m < n)

(* byCapacity[:FailureReserveNodes]                                        *)
Largest(nodes, k) ==
  {n \in Serving(nodes) : Cardinality({m \in Serving(nodes) : Larger(nodes, m, n)}) < k}

CanAssess(request, nodes) == Cardinality(Serving(nodes)) > request.failureReserve

FleetSafe(request, nodes) ==
  /\ SafeCapacity(nodes, Serving(nodes) \ Largest(nodes, request.failureReserve))
       >= TotalLoad(nodes) + request.increment
  /\ \A n \in Serving(nodes) : nodes[n].reserve >= 0

-----------------------------------------------------------------------------
(***************************************************************************)
(* BuildPlacementAdvice                                                    *)
(***************************************************************************)
SafeReserve(request, node) == node.safe - (node.load + request.increment)
SafeReservePercent(request, node) == Percent(SafeReserve(request, node), node.safe)

(* Mutant of CandidateReason: a resource beyond its limit does not count.  *)
CandidateReasonNoBottleneck(request, node) ==
  IF node.confidence = 0 THEN "insufficient-confidence"
  ELSE IF SafeReserve(request, node) < 0 THEN "safe-capacity-exceeded"
  ELSE IF node.technical < node.load + request.increment THEN "technical-limit-exceeded"
  ELSE IF SafeReservePercent(request, node) < request.minimumReserve
    THEN "minimum-node-reserve-not-preserved"
  ELSE "eligible"

CandidateReason(request, node) ==
  IF node.confidence = 0 THEN "insufficient-confidence"
  ELSE IF SafeReserve(request, node) < 0 THEN "safe-capacity-exceeded"
  ELSE IF node.technical < node.load + request.increment THEN "technical-limit-exceeded"
  ELSE IF node.reserve < 0 THEN "existing-bottleneck-overload"
  ELSE IF SafeReservePercent(request, node) < request.minimumReserve
    THEN "minimum-node-reserve-not-preserved"
  ELSE "eligible"

Eligible(request, nodes) ==
  {n \in Serving(nodes) : CandidateReason(request, nodes[n]) = "eligible"}

Better(request, nodes, m, n) ==
  LET rank(x) == <<SafeReservePercent(request, nodes[x]), nodes[x].confidence, nodes[x].reserve>>
      first == {i \in 1 .. 3 : rank(m)[i] # rank(n)[i]}
  IN  IF first = {} THEN m < n ELSE rank(m)[Min(first)] > rank(n)[Min(first)]

Recommended(request, nodes) ==
  LET eligible == Eligible(request, nodes)
  IN  IF eligible # {} /\ FleetSafe(request, nodes)
        THEN CHOOSE m \in eligible : \A n \in eligible \ {m} : Better(request, nodes, m, n)
        ELSE None

BuildPlacementAdvice(request, nodes) ==
  LET best == Recommended(request, nodes)
      safe == FleetSafe(request, nodes)
      unsure == \E n \in Serving(nodes) :
                  CandidateReason(request, nodes[n]) = "insufficient-confidence"
  IN  [recommended |-> best, fleetSafe |-> safe,
       action |-> IF best # None THEN "none"
                  ELSE IF safe /\ unsure THEN "collect-evidence" ELSE "add-role-capacity"]

reusablePlacementRecommendation(advice) ==
  advice.recommended # None /\ advice.action = "none" /\ advice.fleetSafe
=============================================================================
