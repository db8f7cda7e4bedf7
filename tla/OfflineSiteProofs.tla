-------------------------- MODULE OfflineSiteProofs --------------------------
(***************************************************************************)
(* Proofs about the site that works offline, for any number of requests,   *)
(* snapshots, outages and writes, and for any order in which snapshots     *)
(* arrive and queued intents are classified and executed.                  *)
(***************************************************************************)
EXTENDS OfflineSite, FiniteSetTheorems, TLAPS

Revision == [generation: Nat, version: Nat]

Entry ==
  [request: Requests, base: Revision, policyGeneration: Nat, policyVersion: Nat,
   queuedAt: Nat]

Object ==
  [generation: Nat, version: Nat, applied: {r.digest : r \in Requests} \cup {None}]

PolicyRecord ==
  [kind: {"desired"}, authority: {"global"}, generation: Nat, version: Nat,
   payload: SitePolicies]

TypeOK ==
  /\ now \in Nat
  /\ issued \subseteq PolicyRecord /\ IsFiniteSet(issued) /\ policyGen \in Nat
  /\ stored \in PolicyRecord
  /\ writes \in Nat /\ object \in Object
  /\ view \in Revision
  /\ queue \subseteq Entry
  /\ effects \in Seq([entry: Entry, before: Object])

(* A ready decision was taken on the revision its intent was based on, and *)
(* before that intent was reflected.                                       *)
DecisionsOK ==
  /\ decisions = [e \in queue |-> decisions[e]]
  /\ \A e \in queue :
       decisions[e] # None /\ decisions[e].status = "ready_for_approved_change" =>
         /\ decisions[e].observed.generation = e.base.generation
         /\ decisions[e].observed.version = e.base.version
         /\ decisions[e].observed.applied # e.request.digest

(* Every write gives the object a version it never had, so that an effect  *)
(* leaves behind a version for good.                                       *)
EffectsOK ==
  /\ object.version = writes + 1
  /\ OfflineIntentOnce
  /\ \A i \in DOMAIN effects : effects[i].before.version < object.version

(* The site holds one record per generation, none above the stored one,    *)
(* and admitted each queued intent under a record that it held.            *)
PoliciesOK ==
  /\ stored \in held /\ held \subseteq issued
  /\ \A r \in held : r.generation <= stored.generation
  /\ \A r, s \in held : r.generation = s.generation => r = s
  /\ \A e \in queue :
       \E r \in held :
         /\ r.generation = e.policyGeneration /\ r.version = e.policyVersion
         /\ r.payload.from <= e.queuedAt /\ e.queuedAt < r.payload.until
         /\ HasExactDelegation(r.payload, e.request)

(* The inductive invariant.                                                *)
SiteOK == TypeOK /\ DecisionsOK /\ EffectsOK /\ PoliciesOK

-----------------------------------------------------------------------------
(* An admitted request was delegated by the snapshot and inside its time.  *)
LEMMA AdmittedInForce ==
  ASSUME NEW request, NEW expected, NEW record \in PolicyRecord, NEW at, at \in Nat,
         NEW link,
         AdmissionReason(request, link, at, expected, record) =
           "explicit_delegation_matched"
  PROVE  /\ link = "wan_unavailable"
         /\ record.payload.from <= at /\ at < record.payload.until
         /\ HasExactDelegation(record.payload, request)
<1>1. record.payload.from \in Nat /\ record.payload.until \in Nat
  BY OfflineSiteAssumption DEF OfflineSiteAssumption, PolicyRecord
<1>2. /\ link = "wan_unavailable"
      /\ ~(at < record.payload.from)
      /\ ~(at >= record.payload.until)
      /\ HasExactDelegation(record.payload, request)
  BY DEF AdmissionReason
<1> QED
  BY <1>1, <1>2

(* The elements of a sequence over S are in S.                             *)
LEMMA ElementOf ==
  ASSUME NEW S, NEW q \in Seq(S), NEW i \in DOMAIN q
  PROVE  q[i] \in S
  OBVIOUS

(* Effects know the version they replaced.                                 *)
LEMMA EffectVersions ==
  ASSUME SiteOK
  PROVE  \A i \in DOMAIN effects : effects[i].before.version \in Nat
<1>1. effects \in Seq([entry: Entry, before: Object])
  BY DEF SiteOK, TypeOK
<1>2. \A i \in DOMAIN effects : effects[i] \in [entry: Entry, before: Object]
  BY <1>1, ElementOf
<1>3. \A i \in DOMAIN effects : effects[i].before \in Object
  BY <1>2
<1> QED
  BY <1>3 DEF Object

(* The site starts in the invariant.                                       *)
LEMMA SiteInitOK == Init => SiteOK
<1> SUFFICES ASSUME NEW payload \in SitePolicies,
                    LET first == [kind |-> "desired", authority |-> "global",
                                  generation |-> 1, version |-> 1, payload |-> payload]
                    IN  /\ now = 1
                        /\ issued = {first} /\ policyGen = 1
                        /\ stored = first /\ held = {first}
                        /\ object = [generation |-> 1, version |-> 1, applied |-> None]
                        /\ writes = 0
                        /\ view = [generation |-> 1, version |-> 1]
                        /\ queue = {}
                        /\ decisions = <<>>
                        /\ effects = <<>>
             PROVE  SiteOK
  BY DEF Init
<1>1. TypeOK
  BY FS_Singleton DEF TypeOK, PolicyRecord, Object, Revision
<1>2. DecisionsOK
  BY DEF DecisionsOK
<1>3. EffectsOK
  BY DEF EffectsOK, OfflineIntentOnce
<1>4. PoliciesOK
  BY DEF PoliciesOK
<1> QED
  BY <1>1, <1>2, <1>3, <1>4 DEF SiteOK

(* Admission queues an intent under the stored snapshot.                   *)
LEMMA AdmitOK ==
  ASSUME SiteOK, NEW request \in Requests, NEW expected, Admit(request, expected)
  PROVE  SiteOK'
<1> DEFINE entry == QueueEntry(request, now, stored)
<1>1. /\ queue' = queue \cup {entry}
      /\ decisions' = [e \in queue' |-> IF e \in queue THEN decisions[e] ELSE None]
      /\ UNCHANGED <<now, policyVars, objectVars, view, effects>>
  BY DEF Admit
<1>2. stored \in PolicyRecord /\ now \in Nat /\ view \in Revision
  BY DEF SiteOK, TypeOK
<1>3. /\ entry \in Entry /\ entry.request = request /\ entry.queuedAt = now
      /\ entry.policyGeneration = stored.generation /\ entry.policyVersion = stored.version
  BY <1>2 DEF QueueEntry, Entry, PolicyRecord
<1>4. /\ stored.payload.from <= now /\ now < stored.payload.until
      /\ HasExactDelegation(stored.payload, request)
  BY <1>2, AdmittedInForce DEF Admit
<1> HIDE DEF entry
<1>5. TypeOK'
  BY <1>1, <1>3 DEF SiteOK, TypeOK, policyVars, objectVars
<1>6. DecisionsOK'
  BY <1>1 DEF SiteOK, DecisionsOK
<1>7. EffectsOK'
  BY <1>1 DEF SiteOK, EffectsOK, OfflineIntentOnce, objectVars
<1>8. PoliciesOK'
  BY <1>1, <1>3, <1>4 DEF SiteOK, PoliciesOK, policyVars
<1> QED
  BY <1>5, <1>6, <1>7, <1>8 DEF SiteOK

(* Classification records what it compared.                                *)
LEMMA ClassifyOK ==
  ASSUME SiteOK, NEW entry \in queue, Classify(entry)
  PROVE  SiteOK'
<1> DEFINE decision == [status |-> ReconnectStatus(entry, object), observed |-> object]
<1>1. /\ decisions' = [decisions EXCEPT ![entry] = decision]
      /\ UNCHANGED <<now, policyVars, objectVars, view, queue, effects>>
  BY DEF Classify
<1>2. decision.status = "ready_for_approved_change" =>
        /\ decision.observed.generation = entry.base.generation
        /\ decision.observed.version = entry.base.version
        /\ decision.observed.applied # entry.request.digest
  BY DEF ReconnectStatus
<1> HIDE DEF decision
<1>3. TypeOK'
  BY <1>1 DEF SiteOK, TypeOK, policyVars, objectVars
<1>4. DecisionsOK'
  BY <1>1, <1>2 DEF SiteOK, DecisionsOK
<1>5. EffectsOK' /\ PoliciesOK'
  BY <1>1 DEF SiteOK, EffectsOK, OfflineIntentOnce, PoliciesOK, policyVars, objectVars
<1> QED
  BY <1>3, <1>4, <1>5 DEF SiteOK

(* The change of a ready intent takes effect once.                         *)
LEMMA ApplyReadyOK ==
  ASSUME SiteOK, NEW entry \in queue, ApplyReady(entry)
  PROVE  SiteOK'
<1> DEFINE effect == [entry |-> entry, before |-> object]
<1>1. /\ object \in Object /\ writes \in Nat /\ entry \in Entry
      /\ object.generation \in Nat /\ object.version \in Nat
      /\ effects \in Seq([entry: Entry, before: Object])
  BY DEF SiteOK, TypeOK, Object
<1>2. /\ object' = [generation |-> object.generation + 1, version |-> writes + 2,
                    applied |-> entry.request.digest]
      /\ writes' = writes + 1
      /\ effects' = Append(effects, effect)
      /\ UNCHANGED <<now, policyVars, view, queue, decisions>>
  BY DEF ApplyReady, Write
<1>3. /\ object.generation = entry.base.generation
      /\ object.version = entry.base.version
      /\ object.applied # entry.request.digest
  BY DEF ApplyReady, SiteOK, DecisionsOK
<1>4. entry.request \in Requests
  BY <1>1 DEF Entry
<1>5. object' \in Object
  BY <1>1, <1>2, <1>4 DEF Object
<1>6. effect \in [entry: Entry, before: Object]
  BY <1>1
<1>7. effect.entry = entry /\ effect.before = object
  OBVIOUS
<1> HIDE DEF effect
<1>8. effects' \in Seq([entry: Entry, before: Object])
  BY <1>1, <1>2, <1>6
<1>9. TypeOK'
  BY <1>1, <1>2, <1>5, <1>8 DEF SiteOK, TypeOK, policyVars
<1>10. DecisionsOK' /\ PoliciesOK'
  BY <1>2 DEF SiteOK, DecisionsOK, PoliciesOK, policyVars
<1>11. /\ Len(effects) \in Nat /\ DOMAIN effects = 1 .. Len(effects)
       /\ DOMAIN effects' = 1 .. Len(effects) + 1
       /\ effects'[Len(effects) + 1] = effect
       /\ \A i \in 1 .. Len(effects) : effects'[i] = effects[i]
  BY <1>1, <1>2, <1>6
<1>12. object.version = writes + 1 /\ object'.version = writes + 2
  BY <1>2 DEF SiteOK, EffectsOK
<1>13. \A i \in 1 .. Len(effects) :
         /\ effects[i].before.version \in Nat
         /\ effects[i].before.version < object.version
         /\ effects[i].entry.base.version = effects[i].before.version
  BY <1>11, EffectVersions DEF SiteOK, EffectsOK, OfflineIntentOnce
<1>14. \A i \in 1 .. Len(effects) : effects[i].entry # entry
  BY <1>1, <1>3, <1>13
<1>15. \A i \in DOMAIN effects' : effects'[i].before.version < object'.version
  BY <1>1, <1>7, <1>11, <1>12, <1>13
<1>16. OfflineIntentOnce'
  <2>1. ASSUME NEW i \in DOMAIN effects'
        PROVE  /\ effects'[i].before.generation = effects'[i].entry.base.generation
               /\ effects'[i].before.version = effects'[i].entry.base.version
               /\ effects'[i].before.applied # effects'[i].entry.request.digest
    BY <1>3, <1>7, <1>11 DEF SiteOK, EffectsOK, OfflineIntentOnce
  <2>2. ASSUME NEW i \in DOMAIN effects', NEW j \in DOMAIN effects',
               effects'[i].entry = effects'[j].entry
        PROVE  i = j
    BY <1>7, <1>11, <1>14, <2>2 DEF SiteOK, EffectsOK, OfflineIntentOnce
  <2> QED
    BY <2>1, <2>2 DEF OfflineIntentOnce
<1>17. EffectsOK'
  BY <1>1, <1>2, <1>12, <1>15, <1>16 DEF EffectsOK
<1> QED
  BY <1>9, <1>10, <1>17 DEF SiteOK

(* A write by somebody else moves the version on.                          *)
LEMMA CenterWriteOK ==
  ASSUME SiteOK, NEW generation \in 1 .. MaxWrites + 1, CenterWrite(generation)
  PROVE  SiteOK'
<1>1. /\ object \in Object /\ object.applied \in {r.digest : r \in Requests} \cup {None}
      /\ writes \in Nat /\ generation \in Nat
  BY OfflineSiteAssumption DEF SiteOK, TypeOK, Object, OfflineSiteAssumption
<1>2. /\ object' = [generation |-> generation, version |-> writes + 2,
                    applied |-> IF generation = object.generation THEN object.applied
                                ELSE None]
      /\ writes' = writes + 1
      /\ UNCHANGED <<now, policyVars, view, queue, decisions, effects>>
  BY DEF CenterWrite, Write
<1>3. object' \in Object /\ object'.version = writes + 2
  BY <1>1, <1>2 DEF Object
<1>4. TypeOK'
  BY <1>1, <1>2, <1>3 DEF SiteOK, TypeOK, policyVars
<1>5. DecisionsOK' /\ PoliciesOK'
  BY <1>2 DEF SiteOK, DecisionsOK, PoliciesOK, policyVars
<1>6. object'.version = writes' + 1 /\ OfflineIntentOnce'
  BY <1>1, <1>2, <1>3 DEF SiteOK, EffectsOK, OfflineIntentOnce
<1>7. \A i \in DOMAIN effects : effects[i].before.version \in Nat
  BY EffectVersions
<1>8. EffectsOK'
  BY <1>1, <1>2, <1>3, <1>6, <1>7 DEF SiteOK, EffectsOK
<1> QED
  BY <1>4, <1>5, <1>8 DEF SiteOK

(* The center issues a snapshot, perhaps under a generation used before.   *)
LEMMA IssuePolicyOK ==
  ASSUME SiteOK, NEW payload \in SitePolicies, IssuePolicy(payload)
  PROVE  SiteOK'
<1> DEFINE record == [kind |-> "desired", authority |-> "global",
                      generation |-> policyGen + 1, version |-> Cardinality(issued) + 1,
                      payload |-> payload]
<1>1. /\ policyGen' = policyGen + 1 /\ issued' = issued \cup {record}
      /\ UNCHANGED <<now, stored, held, objectVars, view, queue, decisions, effects>>
  BY DEF IssuePolicy
<1>2. IsFiniteSet(issued) /\ Cardinality(issued) \in Nat /\ policyGen \in Nat
  BY FS_CardinalityType DEF SiteOK, TypeOK
<1>3. record \in PolicyRecord
  BY <1>2 DEF PolicyRecord
<1>4. IsFiniteSet(issued')
  BY <1>1, <1>2, FS_AddElement
<1> HIDE DEF record
<1>5. TypeOK'
  BY <1>1, <1>2, <1>3, <1>4 DEF SiteOK, TypeOK, objectVars
<1>6. DecisionsOK' /\ EffectsOK'
  BY <1>1 DEF SiteOK, DecisionsOK, EffectsOK, OfflineIntentOnce, objectVars
<1>7. PoliciesOK'
  BY <1>1 DEF SiteOK, PoliciesOK
<1> QED
  BY <1>5, <1>6, <1>7 DEF SiteOK

(* A snapshot arrives.                                                     *)
LEMMA DeliverOK ==
  ASSUME SiteOK, NEW record \in issued, Deliver(record)
  PROVE  SiteOK'
<1>1. /\ stored' = record /\ held' = held \cup {record}
      /\ UNCHANGED <<now, issued, policyGen, objectVars, view, queue, decisions, effects>>
      /\ record.generation > stored.generation
  BY DEF Deliver, Reconcile
<1>2. /\ record \in PolicyRecord /\ record.generation \in Nat /\ stored.generation \in Nat
      /\ \A r \in held : r.generation \in Nat
  BY DEF SiteOK, TypeOK, PoliciesOK, PolicyRecord
<1>3. TypeOK'
  BY <1>1, <1>2 DEF SiteOK, TypeOK, objectVars
<1>4. DecisionsOK' /\ EffectsOK'
  BY <1>1 DEF SiteOK, DecisionsOK, EffectsOK, OfflineIntentOnce, objectVars
<1>5. PoliciesOK'
  BY <1>1, <1>2 DEF SiteOK, PoliciesOK
<1> QED
  BY <1>3, <1>4, <1>5 DEF SiteOK

(* Every step keeps the invariant.                                         *)
LEMMA SiteNextOK == SiteOK /\ [Next]_vars => SiteOK'
<1> SUFFICES ASSUME SiteOK, [Next]_vars PROVE SiteOK'
  OBVIOUS
<1> USE DEF SiteOK, TypeOK, DecisionsOK, EffectsOK, OfflineIntentOnce, PoliciesOK,
            policyVars, objectVars
<1>1. CASE UNCHANGED vars
  BY <1>1 DEF vars
<1>2. CASE RestoreCenter
  <2>1. policyGen' \in Nat
    BY <1>2 DEF RestoreCenter
  <2> QED
    BY <1>2, <2>1 DEF RestoreCenter
<1>3. CASE RefreshView
  <2>1. view' \in Revision
    BY <1>3 DEF RefreshView, Object, Revision
  <2> QED
    BY <1>3, <2>1 DEF RefreshView
<1>4. CASE Disconnect \/ Reconnect
  BY <1>4 DEF Disconnect, Reconnect
<1>5. CASE Tick
  <2>1. now' \in Nat
    BY <1>5 DEF Tick
  <2> QED
    BY <1>5, <2>1 DEF Tick
<1> QED
  BY <1>1, <1>2, <1>3, <1>4, <1>5, AdmitOK, ClassifyOK, ApplyReadyOK, CenterWriteOK,
    IssuePolicyOK, DeliverOK DEF Next

(* The invariant holds in every reachable state.                           *)
LEMMA SiteInvariance == Spec => []SiteOK
BY SiteInitOK, SiteNextOK, PTL DEF Spec

-----------------------------------------------------------------------------
(***************************************************************************)
(* An intent queued offline takes effect at most once and only over the    *)
(* revision its author worked on, however often ClassifyReconnect runs and *)
(* its change is executed, and whatever else is written meanwhile.         *)
(***************************************************************************)
THEOREM IntentsTakeEffectOnce == Spec => []OfflineIntentOnce
<1>1. SiteOK => OfflineIntentOnce
  BY DEF SiteOK, EffectsOK
<1> QED
  BY <1>1, SiteInvariance, PTL

(***************************************************************************)
(* Reconcile keeps one snapshot per generation at the site, so whatever it *)
(* admitted under a generation it admitted under one snapshot, which the   *)
(* center issued and which delegated the operation and was in force then.  *)
(***************************************************************************)
THEOREM OneSnapshotPerGeneration == Spec => []OnePolicyPerGeneration
<1>1. SiteOK => OnePolicyPerGeneration
  BY DEF SiteOK, PoliciesOK, OnePolicyPerGeneration
<1> QED
  BY <1>1, SiteInvariance, PTL
=============================================================================
