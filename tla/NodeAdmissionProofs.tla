------------------------- MODULE NodeAdmissionProofs -------------------------
(***************************************************************************)
(* Proofs about node admission and the node lifecycle, for any number of   *)
(* tokens, presentations, reports and requesters, any topology the core    *)
(* contracts accept and executions in any order.                           *)
(***************************************************************************)
EXTENDS NodeAdmission, FiniteSetTheorems, TLAPS

LifecycleObjects ==
  [object: {Node}, scope: {NodeScope}, owner: {NodeScope}, generation: Nat,
   version: Nat, created: Nat, updated: Nat, state: States, changed: Nat,
   reason: {None, "incident"}]

TransitionRequests ==
  [to: States, type: {"desired", "observation"}, reason: {None, "incident"},
   evidence: SUBSET EvidenceChecks,
   pre: [object: {Node}, version: Nat, generation: {None}]]

(* A plan that admits the node into its scope.                             *)
PlanFor(p) == p.grant.node = Node /\ p.grant.scope = NodeScope

(* A request that was filed: it names the version its requester reviewed,  *)
(* what was reviewed is the stored object or one of an older version, and  *)
(* enrolment was attested only on the ground of a plan.                    *)
RequestOK(filed) ==
  /\ filed.request \in TransitionRequests
  /\ filed.reviewed \in LifecycleObjects
  /\ filed.request.pre.version = filed.reviewed.version
  /\ filed.reviewed.version <= lifecycle.version
  /\ filed.reviewed.version = lifecycle.version => filed.reviewed = lifecycle
  /\ "enrollment-authorized" \in filed.request.evidence =>
       \E p \in plans : PlanFor(p)

(* The clock of a presenter was read after the token was issued.           *)
PresentationOK(p) ==
  /\ p.token \in revealed /\ p.at \in Nat
  /\ tokens[p.token].issued <= p.at

(* A grant was given for a token that is marked since, in its time.        *)
GrantOK(g) ==
  /\ g \in Grants
  /\ tokens[g.token] # None
  /\ tokens[g.token].consumed
  /\ tokens[g.token].issued <= g.consumedAt
  /\ g.consumedAt < tokens[g.token].expires

PlanOK(p) ==
  /\ p \in AdmissionPlans
  /\ \E i \in DOMAIN grants : grants[i] = p.grant
  /\ AdmissionAccepted(p.grant, p.report, p.assignments)

TokensOK ==
  /\ now \in Nat
  /\ DOMAIN tokens = Tokens
  /\ \A t \in Tokens : tokens[t] # None =>
                         tokens[t] \in TokenStates /\ tokens[t].issued <= now
  /\ \A t \in revealed : t \in Tokens /\ tokens[t] # None
  /\ \A p \in presented : PresentationOK(p)

GrantsOK ==
  /\ grants \in Seq(Grants)
  /\ \A i \in DOMAIN grants : GrantOK(grants[i])
  /\ \A i, j \in DOMAIN grants : grants[i].token = grants[j].token => i = j

PlansOK == \A p \in plans : PlanOK(p)

LifecycleOK ==
  /\ lifecycle \in LifecycleObjects
  /\ DOMAIN pending = Requesters
  /\ \A r \in Requesters : pending[r] # None => RequestOK(pending[r])

OriginOK ==
  /\ lifecycle.state \notin {"discovered", "retired"} => origin # None
  /\ origin # None => origin \in plans /\ PlanFor(origin)

(* The inductive invariant.                                                *)
AdmissionOK ==
  TokensOK /\ GrantsOK /\ PlansOK /\ LifecycleOK /\ OriginOK /\ ServiceAfterDrain

-----------------------------------------------------------------------------
(* The rules, read as a graph: what an edge into enrolment, into service   *)
(* and into retirement asks for, and where it may start.                   *)
LEMMA RuleFacts ==
  ASSUME NEW rule \in TransitionRules
  PROVE  /\ rule.from # "retired"
         /\ rule.from = "discovered" => rule.to \in {"enrolling", "retired"}
         /\ rule.to = "enrolling" => "enrollment-authorized" \in rule.checks
         /\ rule.to \in ServiceStates =>
              rule.from \in ServiceStates \/ DrainChecks \subseteq rule.checks
         /\ rule.to = "retired" =>
              \/ rule.from \in ServiceStates
              \/ "no-managed-state" \in rule.checks
<1>1. CASE rule \in FailureRules
  BY <1>1 DEF FailureRules, Observation, ServiceStates
<1>2. CASE rule \in PlannedRules
  <2>1. /\ rule.from # "retired"
        /\ rule.from = "discovered" => rule.to \in {"enrolling", "retired"}
    BY <1>2 DEF PlannedRules, Observation, Desired
  <2>2. rule.to = "enrolling" => "enrollment-authorized" \in rule.checks
    BY <1>2 DEF PlannedRules, Observation, Desired
  <2>3. rule.to \in ServiceStates =>
          rule.from \in ServiceStates \/ DrainChecks \subseteq rule.checks
    BY <1>2 DEF PlannedRules, Observation, Desired, ServiceStates
  <2>4. rule.to = "retired" =>
              \/ rule.from \in ServiceStates
              \/ "no-managed-state" \in rule.checks
    BY <1>2 DEF PlannedRules, Observation, Desired, ServiceStates, Unmanaged
  <2> QED BY <2>1, <2>2, <2>3, <2>4
<1> QED BY <1>1, <1>2 DEF TransitionRules

(* What a request turns a lifecycle object into.                           *)
LEMMA SuccessorFields ==
  ASSUME NEW o \in LifecycleObjects, NEW q \in TransitionRequests,
         NEW at, NEW version, at \in Nat, version \in Nat
  PROVE  /\ Successor(o, q, at, version) \in LifecycleObjects
         /\ Successor(o, q, at, version).state = q.to
         /\ Successor(o, q, at, version).version = version
<1>1. o.generation + (IF q.type = "desired" THEN 1 ELSE 0) \in Nat
  BY DEF LifecycleObjects
<1>2. q.to \in States /\ q.reason \in {None, "incident"}
  BY DEF TransitionRequests
<1> QED
  BY <1>1, <1>2 DEF LifecycleObjects, Successor

-----------------------------------------------------------------------------
(* The initial state.                                                      *)
LEMMA InitOK == Init => AdmissionOK
<1> SUFFICES ASSUME Init PROVE AdmissionOK
  OBVIOUS
<1>1. TokensOK /\ GrantsOK /\ PlansOK
  BY DEF Init, TokensOK, GrantsOK, PlansOK
<1>2. InitialLifecycle \in LifecycleObjects
  BY DEF InitialLifecycle, LifecycleObjects, States
<1>3. lifecycle.state = "discovered"
  BY DEF Init, InitialLifecycle
<1>4. LifecycleOK
  BY <1>2 DEF Init, LifecycleOK
<1>5. OriginOK /\ ServiceAfterDrain
  BY <1>3 DEF Init, OriginOK, ServiceAfterDrain, ServiceStates
<1> QED
  BY <1>1, <1>4, <1>5 DEF AdmissionOK

-----------------------------------------------------------------------------
(* The token registry.                                                     *)

(* A step of the registry that keeps the state of every token that was     *)
(* issued, except that it may be marked, and every grant, keeps the rest.  *)
LEMMA NodeKept ==
  ASSUME AdmissionOK, UNCHANGED nodeVars, plans' = plans
  PROVE  LifecycleOK' /\ OriginOK' /\ ServiceAfterDrain'
<1>1. /\ lifecycle' = lifecycle /\ pending' = pending /\ attested' = attested
      /\ origin' = origin
  BY DEF nodeVars
<1>2. \A r \in Requesters : pending'[r] # None => RequestOK(pending[r])'
  BY <1>1 DEF AdmissionOK, LifecycleOK, RequestOK
<1>3. LifecycleOK'
  BY <1>1, <1>2 DEF AdmissionOK, LifecycleOK
<1>4. OriginOK' /\ ServiceAfterDrain'
  BY <1>1 DEF AdmissionOK, OriginOK, ServiceAfterDrain
<1> QED
  BY <1>3, <1>4

LEMMA IssueOK ==
  ASSUME AdmissionOK, NEW t \in Tokens, NEW q \in TokenRequests, Issue(t, q)
  PROVE  AdmissionOK'
<1> DEFINE new == [node |-> q.node, scope |-> q.scope,
                   transport |-> q.transport, issued |-> now,
                   expires |-> now + q.ttl, consumed |-> FALSE]
<1>1. /\ tokens' = [tokens EXCEPT ![t] = new]
      /\ now' = now /\ revealed' = revealed /\ presented' = presented
      /\ grants' = grants /\ plans' = plans /\ UNCHANGED nodeVars
  BY DEF Issue
<1>2. now \in Nat /\ DOMAIN tokens = Tokens /\ tokens[t] = None
  BY DEF AdmissionOK, TokensOK, Issue
<1>3. now + q.ttl \in Int
  BY <1>2, NodeAdmissionAssumption
<1>4. new \in TokenStates /\ new.issued = now
  <2>1. q.transport \in Transports
    BY DEF Issue
  <2> QED
    BY <1>2, <1>3, <2>1 DEF TokenStates
<1>5. tokens'[t] = new /\ \A u \in Tokens : u # t => tokens'[u] = tokens[u]
  BY <1>1, <1>2
<1>6. DOMAIN tokens' = Tokens
  BY <1>1, <1>2
<1> HIDE DEF new
<1>7. TokensOK'
  <2>1. \A u \in Tokens : tokens'[u] # None =>
                            tokens'[u] \in TokenStates /\ tokens'[u].issued <= now'
    <3> SUFFICES ASSUME NEW u \in Tokens, tokens'[u] # None
                 PROVE  tokens'[u] \in TokenStates /\ tokens'[u].issued <= now'
      OBVIOUS
    <3>1. CASE u = t
      BY <3>1, <1>1, <1>2, <1>4, <1>5
    <3>2. CASE u # t
      BY <3>2, <1>1, <1>5 DEF AdmissionOK, TokensOK
    <3> QED BY <3>1, <3>2
  <2>2. \A u \in revealed : u \in Tokens /\ u # t /\ tokens'[u] = tokens[u]
                            /\ tokens[u] # None
    BY <1>2, <1>5 DEF AdmissionOK, TokensOK
  <2>3. \A p \in presented : PresentationOK(p)'
    BY <1>1, <2>2 DEF AdmissionOK, TokensOK, PresentationOK
  <2> QED
    BY <1>1, <1>2, <1>6, <2>1, <2>2, <2>3 DEF TokensOK
<1>8. GrantsOK'
  <2>1. \A i \in DOMAIN grants : GrantOK(grants[i])'
    <3> SUFFICES ASSUME NEW i \in DOMAIN grants PROVE GrantOK(grants[i])'
      OBVIOUS
    <3>1. GrantOK(grants[i])
      BY DEF AdmissionOK, GrantsOK
    <3>2. grants[i].token \in Tokens /\ grants[i].token # t
      BY <3>1, <1>2 DEF GrantOK, Grants
    <3> QED
      BY <3>1, <3>2, <1>1, <1>5 DEF GrantOK
  <2> QED
    BY <1>1, <2>1 DEF AdmissionOK, GrantsOK
<1>9. PlansOK'
  BY <1>1 DEF AdmissionOK, PlansOK, PlanOK
<1> QED
  BY <1>1, <1>7, <1>8, <1>9, NodeKept DEF AdmissionOK

(* Reveal, Present and Tick leave the tokens and the grants alone.         *)
LEMMA HandoverOK ==
  ASSUME AdmissionOK,
         \/ \E t \in Tokens : Reveal(t)
         \/ \E t \in Tokens : Present(t)
         \/ Tick
  PROVE  AdmissionOK'
<1>1. /\ tokens' = tokens /\ grants' = grants /\ plans' = plans
      /\ UNCHANGED nodeVars
  BY DEF Reveal, Present, Tick
<1>2. GrantsOK' /\ PlansOK'
  BY <1>1 DEF AdmissionOK, GrantsOK, GrantOK, PlansOK, PlanOK
<1>3. TokensOK
  BY DEF AdmissionOK
<1>4. TokensOK'
  <2>1. CASE \E t \in Tokens : Reveal(t)
    <3>1. PICK t \in Tokens : Reveal(t)
      BY <2>1
    <3>2. /\ revealed' = revealed \cup {t} /\ tokens[t] # None /\ now' = now
          /\ presented' = presented
      BY <3>1 DEF Reveal
    <3>3. \A p \in presented : PresentationOK(p)'
      BY <1>1, <1>3, <3>2 DEF TokensOK, PresentationOK
    <3> QED
      BY <1>1, <1>3, <3>2, <3>3 DEF TokensOK
  <2>2. CASE \E t \in Tokens : Present(t)
    <3>1. PICK t \in Tokens : Present(t)
      BY <2>2
    <3>0. PICK new : new = [token |-> t, at |-> now]
      OBVIOUS
    <3>2. /\ revealed' = revealed /\ t \in revealed /\ now' = now
          /\ presented' = presented \cup {new}
      BY <3>0, <3>1 DEF Present
    <3>3. new.token = t /\ new.at = now
      BY <3>0
    <3>4. tokens[t].issued <= now /\ now \in Nat
      BY <1>3, <3>2 DEF TokensOK
    <3>5. PresentationOK(new)'
      BY <1>1, <3>2, <3>3, <3>4 DEF PresentationOK
    <3>6. \A p \in presented : PresentationOK(p)'
      BY <1>1, <1>3, <3>2 DEF TokensOK, PresentationOK
    <3> QED
      BY <1>1, <1>3, <3>2, <3>5, <3>6 DEF TokensOK
  <2>3. CASE Tick
    <3>1. now' = now + 1 /\ revealed' = revealed /\ presented' = presented
      BY <2>3 DEF Tick
    <3>2. \A t \in Tokens : tokens[t] # None =>
            tokens[t] \in TokenStates /\ tokens[t].issued <= now'
      BY <1>3, <3>1 DEF TokensOK, TokenStates
    <3>3. \A p \in presented : PresentationOK(p)'
      BY <1>1, <1>3, <3>1 DEF TokensOK, PresentationOK
    <3> QED
      BY <1>1, <1>3, <3>1, <3>2, <3>3 DEF TokensOK
  <2> QED
    BY <2>1, <2>2, <2>3
<1> QED
  BY <1>1, <1>2, <1>4, NodeKept DEF AdmissionOK

(* A grant marks its token; a token that is marked is granted no more.     *)
LEMMA ConsumeOK ==
  ASSUME AdmissionOK, NEW p \in presented, Consume(p)
  PROVE  AdmissionOK'
<1> DEFINE t == p.token
           g == Grant(t, p.at)
<1>1. /\ tokens' = [tokens EXCEPT ![t].consumed = TRUE]
      /\ grants' = Append(grants, g)
      /\ now' = now /\ revealed' = revealed /\ presented' = presented
      /\ plans' = plans /\ UNCHANGED nodeVars
      /\ tokens[t] # None /\ ~tokens[t].consumed /\ p.at < tokens[t].expires
  BY DEF Consume
<1>2. t \in Tokens /\ p.at \in Nat /\ tokens[t].issued <= p.at
  BY DEF AdmissionOK, TokensOK, PresentationOK
<1>3. DOMAIN tokens = Tokens /\ tokens[t] \in TokenStates /\ tokens[t].issued <= now
  BY <1>1, <1>2 DEF AdmissionOK, TokensOK
<1>4. g \in Grants /\ g.token = t /\ g.consumedAt = p.at
  BY <1>2, <1>3 DEF Grant, Grants, TokenStates
<1>5. /\ tokens'[t] \in TokenStates
      /\ tokens'[t].consumed
      /\ tokens'[t].issued = tokens[t].issued
      /\ tokens'[t].expires = tokens[t].expires
      /\ \A u \in Tokens : u # t => tokens'[u] = tokens[u]
      /\ DOMAIN tokens' = Tokens
  BY <1>1, <1>2, <1>3 DEF TokenStates
<1>6. tokens'[t] # None
  BY <1>5, NodeAdmissionAssumption
<1> HIDE DEF t, g
<1>7. TokensOK'
  <2>1. \A u \in Tokens : tokens'[u] # None =>
                            tokens'[u] \in TokenStates /\ tokens'[u].issued <= now'
    BY <1>1, <1>3, <1>5 DEF AdmissionOK, TokensOK
  <2>2. \A u \in revealed : u \in Tokens /\ tokens'[u] # None
    BY <1>5, <1>6 DEF AdmissionOK, TokensOK
  <2>3. \A x \in presented : PresentationOK(x)'
    <3> SUFFICES ASSUME NEW x \in presented PROVE PresentationOK(x)'
      OBVIOUS
    <3>1. PresentationOK(x) /\ x.token \in Tokens
      BY DEF AdmissionOK, TokensOK, PresentationOK
    <3>2. tokens'[x.token].issued = tokens[x.token].issued
      BY <3>1, <1>5
    <3> QED
      BY <3>1, <3>2, <1>1 DEF PresentationOK
  <2> QED
    BY <1>1, <1>5, <2>1, <2>2, <2>3 DEF AdmissionOK, TokensOK
<1>8. grants \in Seq(Grants)
  BY DEF AdmissionOK, GrantsOK
<1>9. /\ grants' \in Seq(Grants)
      /\ DOMAIN grants' = DOMAIN grants \cup {Len(grants) + 1}
      /\ \A i \in DOMAIN grants : grants'[i] = grants[i]
      /\ grants'[Len(grants) + 1] = g
  BY <1>1, <1>4, <1>8
<1>10. \A i \in DOMAIN grants : GrantOK(grants[i]) /\ grants[i].token # t
  BY <1>1 DEF AdmissionOK, GrantsOK, GrantOK
<1>11. GrantsOK'
  <2>1. \A i \in DOMAIN grants' : GrantOK(grants[i])'
    <3> SUFFICES ASSUME NEW i \in DOMAIN grants' PROVE GrantOK(grants[i])'
      OBVIOUS
    <3>1. CASE i \in DOMAIN grants
      <4>1. grants[i].token \in Tokens
        BY <3>1, <1>10 DEF GrantOK, Grants
      <4>2. tokens'[grants[i].token] = tokens[grants[i].token]
        BY <3>1, <4>1, <1>5, <1>10
      <4> QED
        BY <3>1, <4>2, <1>9, <1>10 DEF GrantOK
    <3>2. CASE i = Len(grants) + 1
      <4>1. tokens'[g.token].issued <= g.consumedAt /\ g.consumedAt < tokens'[g.token].expires
        BY <1>1, <1>2, <1>4, <1>5 DEF t
      <4> QED
        BY <3>2, <4>1, <1>4, <1>5, <1>6, <1>9 DEF GrantOK
    <3> QED
      BY <3>1, <3>2, <1>9
  <2>2. \A i, j \in DOMAIN grants' :
          grants'[i].token = grants'[j].token => i = j
    BY <1>4, <1>9, <1>10 DEF AdmissionOK, GrantsOK
  <2> QED
    BY <1>9, <2>1, <2>2 DEF GrantsOK
<1>12. PlansOK'
  <2> SUFFICES ASSUME NEW x \in plans PROVE PlanOK(x)'
    BY <1>1 DEF PlansOK
  <2>1. PlanOK(x)
    BY DEF AdmissionOK, PlansOK
  <2>2. \E i \in DOMAIN grants' : grants'[i] = x.grant
    BY <2>1, <1>9 DEF PlanOK
  <2> QED
    BY <2>1, <2>2 DEF PlanOK
<1> QED
  BY <1>1, <1>7, <1>11, <1>12, NodeKept DEF AdmissionOK

-----------------------------------------------------------------------------
(* Admission.                                                              *)
LEMMA BuildOK ==
  ASSUME AdmissionOK, NEW i \in DOMAIN grants, NEW report \in Reports,
         NEW assignments \in AssignmentSets,
         BuildAdmissionPlan(grants[i], report, assignments)
  PROVE  AdmissionOK'
<1> DEFINE new == [grant |-> grants[i], report |-> report,
                   assignments |-> assignments]
<1>1. /\ plans' = plans \cup {new} /\ UNCHANGED <<tokenVars, nodeVars>>
      /\ AdmissionAccepted(grants[i], report, assignments)
  BY DEF BuildAdmissionPlan
<1>2. /\ new.grant = grants[i] /\ new.report = report
      /\ new.assignments = assignments
  OBVIOUS
<1>3. grants[i] \in Grants
  BY DEF AdmissionOK, GrantsOK, GrantOK
<1>4. new \in AdmissionPlans
  BY <1>3 DEF AdmissionPlans
<1> HIDE DEF new
<1>5. /\ now' = now /\ tokens' = tokens /\ revealed' = revealed
      /\ presented' = presented /\ grants' = grants
      /\ lifecycle' = lifecycle /\ pending' = pending
      /\ attested' = attested /\ origin' = origin
  BY <1>1 DEF tokenVars, nodeVars
<1>6. TokensOK'
  BY <1>5 DEF AdmissionOK, TokensOK, PresentationOK
<1>7. GrantsOK'
  BY <1>5 DEF AdmissionOK, GrantsOK, GrantOK
<1>8. PlanOK(new)
  BY <1>1, <1>2, <1>4 DEF PlanOK
<1>9. PlansOK'
  BY <1>1, <1>5, <1>8 DEF AdmissionOK, PlansOK, PlanOK
<1>10. \A r \in Requesters : pending'[r] # None => RequestOK(pending[r])'
  BY <1>1, <1>5 DEF AdmissionOK, LifecycleOK, RequestOK
<1>11. LifecycleOK' /\ OriginOK' /\ ServiceAfterDrain'
  BY <1>1, <1>5, <1>10 DEF AdmissionOK, LifecycleOK, OriginOK, ServiceAfterDrain
<1> QED
  BY <1>6, <1>7, <1>9, <1>11 DEF AdmissionOK

-----------------------------------------------------------------------------
(* The lifecycle.                                                          *)

(* A filed request is about the object as it is stored now.                *)
LEMMA FileOK ==
  ASSUME AdmissionOK, NEW to \in States,
         NEW evidence \in Attestations(Projected, to), NEW r \in Requesters,
         NEW type \in {"desired", "observation"},
         NEW reason \in {None, "incident"},
         FileTransition(r, type, to, evidence, reason)
  PROVE  AdmissionOK'
<1> DEFINE q == [to |-> to, type |-> type, reason |-> reason,
                 evidence |-> evidence,
                 pre |-> [object |-> lifecycle.object,
                          version |-> lifecycle.version, generation |-> None]]
           new == [request |-> q, reviewed |-> lifecycle]
<1>1. /\ BuildTransitionPlan(lifecycle, q, lifecycle.updated + 1)
      /\ pending' = [pending EXCEPT ![r] = new]
      /\ UNCHANGED <<tokenVars, plans, lifecycle, attested, origin>>
  BY DEF FileTransition, Projected
<1>2. lifecycle \in LifecycleObjects
  BY DEF AdmissionOK, LifecycleOK
<1>3. evidence \subseteq EvidenceChecks
  BY <1>1 DEF BuildTransitionPlan, ValidateTransition
<1>4. lifecycle.object = Node /\ lifecycle.scope = NodeScope /\ lifecycle.version \in Nat
  BY <1>2 DEF LifecycleObjects
<1>5. q \in TransitionRequests
  BY <1>3, <1>4 DEF TransitionRequests
<1>6. "enrollment-authorized" \in evidence => \E p \in plans : PlanFor(p)
  BY <1>4 DEF Attestations, Projected, PlanFor
<1>7. /\ new.request = q /\ new.reviewed = lifecycle
      /\ q.pre.version = lifecycle.version /\ q.evidence = evidence
  OBVIOUS
<1> HIDE DEF q, new
<1>filed. PICK filed : filed = new
  OBVIOUS
<1>8. /\ now' = now /\ tokens' = tokens /\ revealed' = revealed
      /\ presented' = presented /\ grants' = grants /\ plans' = plans
      /\ lifecycle' = lifecycle /\ attested' = attested /\ origin' = origin
  BY <1>1 DEF tokenVars
<1>9. TokensOK' /\ GrantsOK' /\ PlansOK'
  BY <1>8 DEF AdmissionOK, TokensOK, PresentationOK, GrantsOK, GrantOK, PlansOK, PlanOK
<1>10. OriginOK' /\ ServiceAfterDrain'
  BY <1>8 DEF AdmissionOK, OriginOK, ServiceAfterDrain
<1>11. RequestOK(filed)'
  <2>1. filed.request = q /\ filed.reviewed = lifecycle
    BY <1>7, <1>filed
  <2>2. /\ filed.request \in TransitionRequests
        /\ filed.request.pre.version = lifecycle.version
        /\ filed.request.evidence = evidence
    BY <1>5, <1>7, <2>1
  <2> QED
    BY <1>2, <1>4, <1>6, <1>8, <2>1, <2>2 DEF RequestOK
<1>12. LifecycleOK'
  <2>1. DOMAIN pending = Requesters
    BY DEF AdmissionOK, LifecycleOK
  <2>2. \A s \in Requesters : pending'[s] # None => RequestOK(pending[s])'
    <3> SUFFICES ASSUME NEW s \in Requesters, pending'[s] # None
                 PROVE  RequestOK(pending[s])'
      OBVIOUS
    <3>1. CASE s = r
      BY <3>1, <2>1, <1>1, <1>11, <1>filed
    <3>2. CASE s # r
      <4>1. pending'[s] = pending[s]
        BY <3>2, <2>1, <1>1
      <4> QED
        BY <4>1, <1>8 DEF AdmissionOK, LifecycleOK, RequestOK
    <3> QED BY <3>1, <3>2
  <2> QED
    BY <1>1, <1>2, <1>8, <2>1, <2>2 DEF LifecycleOK
<1> QED
  BY <1>9, <1>10, <1>12 DEF AdmissionOK

(* What is known when the job of a request writes: the requester reviewed  *)
(* the very object it replaces, and the edge is one of the rules.          *)
LEMMA ExecuteFacts ==
  ASSUME AdmissionOK, NEW r \in Requesters,
         NEW at \in {lifecycle.updated, lifecycle.updated + 1}, Execute(r, at)
  PROVE  /\ pending[r] # None /\ RequestOK(pending[r])
         /\ pending[r].reviewed = lifecycle
         /\ lifecycle' = Successor(lifecycle, pending[r].request, at,
                                   lifecycle.version + 1)
         /\ lifecycle' \in LifecycleObjects
         /\ lifecycle'.state = pending[r].request.to
         /\ lifecycle'.version = lifecycle.version + 1
         /\ \E rule \in TransitionRules :
              /\ rule.from = lifecycle.state /\ rule.to = lifecycle'.state
              /\ rule.checks \subseteq pending[r].request.evidence
<1>1. pending[r] # None /\ RequestOK(pending[r])
  BY DEF Execute, AdmissionOK, LifecycleOK
<1> DEFINE q == pending[r].request
<1>2. q \in TransitionRequests
  BY <1>1 DEF RequestOK
<1>3. /\ lifecycle \in LifecycleObjects
      /\ lifecycle.version \in Nat /\ lifecycle.updated \in Nat
  BY DEF AdmissionOK, LifecycleOK, LifecycleObjects
<1>4. at \in Nat /\ lifecycle.version + 1 \in Nat
  BY <1>3
<1>5. /\ lifecycle' = Successor(lifecycle, q, at, lifecycle.version + 1)
      /\ ValidateTransition(lifecycle, lifecycle', q)
  BY DEF Execute
<1>6. /\ lifecycle' \in LifecycleObjects /\ lifecycle'.state = q.to
      /\ lifecycle'.version = lifecycle.version + 1
  BY <1>2, <1>3, <1>4, <1>5, SuccessorFields
<1>7. q.pre.version = lifecycle.version
  BY <1>5 DEF ValidateTransition, PreconditionHolds
<1>8. \E rule \in TransitionRules :
        /\ rule.from = lifecycle.state /\ rule.to = lifecycle'.state
        /\ rule.checks \subseteq q.evidence
  BY <1>5 DEF ValidateTransition
<1>9. pending[r].reviewed = lifecycle
  BY <1>1, <1>7 DEF RequestOK
<1> QED
  BY <1>1, <1>5, <1>6, <1>8, <1>9

LEMMA ExecuteOK ==
  ASSUME AdmissionOK, NEW r \in Requesters,
         NEW at \in {lifecycle.updated, lifecycle.updated + 1}, Execute(r, at)
  PROVE  AdmissionOK'
<1> DEFINE q == pending[r].request
<1>1. /\ RequestOK(pending[r])
      /\ lifecycle' \in LifecycleObjects
      /\ lifecycle'.state = q.to
      /\ lifecycle'.version = lifecycle.version + 1
  BY ExecuteFacts
<1>2. PICK rule \in TransitionRules :
        /\ rule.from = lifecycle.state /\ rule.to = lifecycle'.state
        /\ rule.checks \subseteq q.evidence
  BY ExecuteFacts
<1>3. /\ rule.from # "retired"
      /\ rule.from = "discovered" => rule.to \in {"enrolling", "retired"}
      /\ rule.to = "enrolling" => "enrollment-authorized" \in rule.checks
      /\ rule.to \in ServiceStates =>
           rule.from \in ServiceStates \/ DrainChecks \subseteq rule.checks
      /\ rule.to = "retired" =>
           \/ rule.from \in ServiceStates
           \/ "no-managed-state" \in rule.checks
  BY RuleFacts
<1>4. /\ attested' = IF lifecycle'.state \in WorkingStates THEN {}
                     ELSE attested \cup q.evidence
      /\ origin' = IF lifecycle'.state = "enrolling"
                   THEN CHOOSE p \in plans :
                          p.grant.node = Node /\ p.grant.scope = NodeScope
                   ELSE origin
      /\ pending' = pending /\ plans' = plans /\ UNCHANGED tokenVars
  BY DEF Execute
<1>5. TokensOK' /\ GrantsOK' /\ PlansOK'
  <2>1. /\ now' = now /\ tokens' = tokens /\ revealed' = revealed
        /\ presented' = presented /\ grants' = grants /\ plans' = plans
    BY <1>4 DEF tokenVars
  <2> QED
    BY <2>1 DEF AdmissionOK, TokensOK, PresentationOK, GrantsOK, GrantOK, PlansOK, PlanOK
<1>6. LifecycleOK'
  <2>1. lifecycle.version \in Nat
    BY DEF AdmissionOK, LifecycleOK, LifecycleObjects
  <2>2. \A s \in Requesters : pending'[s] # None => RequestOK(pending[s])'
    <3> SUFFICES ASSUME NEW s \in Requesters, pending[s] # None
                 PROVE  RequestOK(pending[s])'
      BY <1>4
    <3>1. RequestOK(pending[s])
      BY DEF AdmissionOK, LifecycleOK
    <3>2. /\ pending[s].reviewed.version \in Nat
          /\ pending[s].reviewed.version < lifecycle'.version
      BY <1>1, <2>1, <3>1 DEF RequestOK, LifecycleObjects
    <3> QED
      BY <1>1, <1>4, <2>1, <3>1, <3>2 DEF RequestOK
  <2> QED
    BY <1>1, <1>4, <2>2 DEF AdmissionOK, LifecycleOK
<1>7. OriginOK'
  <2>1. CASE lifecycle'.state = "enrolling"
    <3>1. \E p \in plans : PlanFor(p)
      BY <2>1, <1>1, <1>2, <1>3 DEF RequestOK
    <3>2. origin' \in plans /\ PlanFor(origin')
      BY <2>1, <3>1, <1>4 DEF PlanFor
    <3>3. origin' # None
      BY <3>2, NodeAdmissionAssumption DEF AdmissionOK, PlansOK, PlanOK
    <3> QED
      BY <3>2, <3>3, <1>4 DEF OriginOK, PlanFor
  <2>2. CASE lifecycle'.state # "enrolling"
    <3>1. origin' = origin
      BY <2>2, <1>4
    <3>2. lifecycle'.state # "retired" => origin # None
      BY <2>2, <1>2, <1>3 DEF AdmissionOK, OriginOK
    <3> QED
      BY <3>1, <3>2, <1>4 DEF AdmissionOK, OriginOK, PlanFor
  <2> QED
    BY <2>1, <2>2
<1>8. ServiceAfterDrain'
  <2> SUFFICES ASSUME lifecycle'.state \in ServiceStates \cup {"retired"}
               PROVE  \/ DrainChecks \subseteq attested'
                      \/ lifecycle'.state = "retired" /\ "no-managed-state" \in attested'
    BY DEF ServiceAfterDrain
  <2>1. attested' = attested \cup q.evidence
    BY <1>4 DEF ServiceStates, WorkingStates
  <2>2. CASE rule.from \in ServiceStates
    <3>1. DrainChecks \subseteq attested
      BY <2>2, <1>2, <1>3 DEF AdmissionOK, ServiceAfterDrain, ServiceStates
    <3> QED
      BY <2>1, <3>1
  <2>3. CASE rule.from \notin ServiceStates
    BY <2>1, <2>3, <1>2, <1>3
  <2> QED
    BY <2>2, <2>3
<1> QED
  BY <1>5, <1>6, <1>7, <1>8 DEF AdmissionOK

-----------------------------------------------------------------------------
(* The inductive invariant holds.                                          *)
LEMMA AdmissionInvariant == Spec => []AdmissionOK
<1>1. AdmissionOK /\ [Next]_vars => AdmissionOK'
  <2> SUFFICES ASSUME AdmissionOK, [Next]_vars PROVE AdmissionOK'
    OBVIOUS
  <2>1. CASE Next
    <3>1. CASE \E t \in Tokens, q \in TokenRequests : Issue(t, q)
      BY <3>1, IssueOK
    <3>2. CASE \/ \E t \in Tokens : Reveal(t)
               \/ \E t \in Tokens : Present(t)
               \/ Tick
      BY <3>2, HandoverOK
    <3>3. CASE \E p \in presented : Consume(p)
      BY <3>3, ConsumeOK
    <3>4. CASE \E i \in DOMAIN grants, report \in Reports,
                  assignments \in AssignmentSets :
                 BuildAdmissionPlan(grants[i], report, assignments)
      BY <3>4, BuildOK
    <3>5. CASE \E to \in States :
                 \E evidence \in Attestations(Projected, to), r \in Requesters,
                    type \in {"desired", "observation"}, reason \in {None, "incident"} :
                   FileTransition(r, type, to, evidence, reason)
      BY <3>5, FileOK
    <3>6. CASE \E r \in Requesters, at \in {lifecycle.updated, lifecycle.updated + 1} :
                 Execute(r, at)
      BY <3>6, ExecuteOK
    <3> QED
      BY <2>1, <3>1, <3>2, <3>3, <3>4, <3>5, <3>6 DEF Next
  <2>2. CASE UNCHANGED vars
    <3>1. /\ UNCHANGED nodeVars /\ plans' = plans /\ now' = now
          /\ tokens' = tokens /\ revealed' = revealed
          /\ presented' = presented /\ grants' = grants
      BY <2>2 DEF vars, tokenVars
    <3>2. TokensOK' /\ GrantsOK' /\ PlansOK'
      BY <3>1 DEF AdmissionOK, TokensOK, PresentationOK, GrantsOK, GrantOK, PlansOK, PlanOK
    <3> QED
      BY <3>1, <3>2, NodeKept DEF AdmissionOK
  <2> QED
    BY <2>1, <2>2
<1> QED
  BY <1>1, InitOK, PTL DEF Spec

(* A node that was let in was let in by one token, used once, in its time, *)
(* for this node and scope, and after everything the plan rests on was     *)
(* observed (Consume marks the token under the lock;                       *)
(* BuildEnrollmentAdmissionPlan binds grant and report).                   *)
THEOREM NodesEnterByOneGrant == Spec => []EnrolledByOneGrant
<1>1. AdmissionOK => EnrolledByOneGrant
  <2> SUFFICES ASSUME AdmissionOK PROVE EnrolledByOneGrant
    OBVIOUS
  <2>1. lifecycle.state \notin {"discovered", "retired"} => origin # None
    BY DEF AdmissionOK, OriginOK
  <2>2. ASSUME origin # None
        PROVE  LET grant == origin.grant
               IN  /\ Cardinality({i \in DOMAIN grants :
                                      grants[i].token = grant.token}) = 1
                   /\ grant.node = lifecycle.object
                   /\ grant.scope = lifecycle.scope
                   /\ tokens[grant.token].issued <= grant.consumedAt
                   /\ grant.consumedAt < tokens[grant.token].expires
                   /\ \A o \in origin.report.observations :
                        o.observed <= grant.consumedAt
                   /\ origin.report.collected <= grant.consumedAt
                   /\ \A a \in origin.assignments :
                        a.node = lifecycle.object /\ a.scope = lifecycle.scope
    <3> DEFINE grant == origin.grant
               uses == {i \in DOMAIN grants : grants[i].token = grant.token}
    <3>1. origin \in plans /\ PlanFor(origin) /\ PlanOK(origin)
      BY <2>2 DEF AdmissionOK, OriginOK, PlansOK
    <3>2. PICK k \in DOMAIN grants : grants[k] = grant
      BY <3>1 DEF PlanOK
    <3>3. GrantOK(grant)
      BY <3>2 DEF AdmissionOK, GrantsOK
    <3>4. uses = {k}
      BY <3>2 DEF AdmissionOK, GrantsOK
    <3>5. Cardinality(uses) = 1
      BY <3>4, FS_Singleton
    <3>6. AdmissionAccepted(grant, origin.report, origin.assignments)
      BY <3>1 DEF PlanOK
    <3>7. /\ grant.node = lifecycle.object /\ grant.scope = lifecycle.scope
      BY <3>1 DEF PlanFor, AdmissionOK, LifecycleOK, LifecycleObjects
    <3>8. \A a \in origin.assignments :
            a.node = lifecycle.object /\ a.scope = lifecycle.scope
      BY <3>6, <3>7 DEF AdmissionAccepted
    <3>9. /\ origin.report.collected <= grant.consumedAt
          /\ PreconditionsReady(origin.report)
          /\ NormalizeEnrollment(origin.report)
      BY <3>6 DEF AdmissionAccepted
    <3>10. origin.report.contract = "v2"
           /\ \A o \in origin.report.observations : o.observed <= origin.report.collected
      BY <3>9 DEF PreconditionsReady
    <3>11. origin.report \in Reports
      BY <3>1 DEF PlanOK, AdmissionPlans
    <3>12. grant.consumedAt \in Nat
      BY <3>3 DEF GrantOK, Grants
    <3>13. origin.report.collected \in Int
      <4>1. origin.report.collected # None
        BY <3>9 DEF NormalizeEnrollment, NormalizeEnrollmentV2, PreconditionsReady,
                    HasV2Fields
      <4> QED
        BY <4>1, <3>11, NodeAdmissionAssumption
    <3>14. \A o \in origin.report.observations : o.observed <= grant.consumedAt
      BY <3>9, <3>10, <3>11, <3>12, <3>13, NodeAdmissionAssumption
    <3> QED
      BY <3>3, <3>5, <3>7, <3>8, <3>9, <3>14 DEF GrantOK
  <2> QED
    BY <2>1, <2>2 DEF EnrolledByOneGrant
<1> QED
  BY <1>1, AdmissionInvariant, PTL

(* In every state, a node that is serviced, replaced or removed was        *)
(* drained, with the evidence for it, since it last could run workloads,   *)
(* and a retired node was drained or held nothing managed                  *)
(* (transitionRules, ValidateTransition).                                  *)
THEOREM ServiceFollowsDrain == Spec => []ServiceAfterDrain
<1>1. AdmissionOK => ServiceAfterDrain
  BY DEF AdmissionOK
<1> QED
  BY <1>1, AdmissionInvariant, PTL

(* Every step that changes the stored object starts from the very object   *)
(* that the requester reviewed (ObjectPrecondition.ValidateAgainst under   *)
(* versions that only grow).                                               *)
THEOREM StoredTransitionsWereReviewed == Spec => TransitionsAreReviewed
<1>1. AdmissionOK /\ [Next]_vars =>
        [lifecycle' # lifecycle =>
           \E r \in Requesters : /\ pending[r] # None
                                 /\ pending[r].reviewed = lifecycle
                                 /\ pending[r].request.to = lifecycle'.state]_vars
  <2> SUFFICES ASSUME AdmissionOK, Next, lifecycle' # lifecycle
               PROVE  \E r \in Requesters :
                        /\ pending[r] # None
                        /\ pending[r].reviewed = lifecycle
                        /\ pending[r].request.to = lifecycle'.state
    BY DEF vars, nodeVars
  <2>1. \E r \in Requesters, at \in {lifecycle.updated, lifecycle.updated + 1} :
          Execute(r, at)
    BY DEF Next, Issue, Reveal, Present, Consume, Tick, BuildAdmissionPlan,
           FileTransition, nodeVars
  <2>2. PICK r \in Requesters : \E at \in {lifecycle.updated, lifecycle.updated + 1} :
          Execute(r, at)
    BY <2>1
  <2>3. PICK at \in {lifecycle.updated, lifecycle.updated + 1} : Execute(r, at)
    BY <2>2
  <2>4. /\ pending[r] # None /\ pending[r].reviewed = lifecycle
        /\ lifecycle'.state = pending[r].request.to
    BY <2>3, ExecuteFacts
  <2> QED
    BY <2>4
<1> QED
  BY <1>1, AdmissionInvariant, PTL DEF Spec, TransitionsAreReviewed
=============================================================================
