----------------------------- MODULE OfflineSite -----------------------------
(***************************************************************************)
(* A site that loses its link to the center and keeps working              *)
(* (internal/siteoffline, internal/sitesync).                              *)
(*                                                                         *)
(* The center issues policy snapshots as desired-state records; the link   *)
(* loses, delays, repeats and reorders them, and the site reconciles what  *)
(* arrives with what it stores.  While the link is down the site admits    *)
(* operations under its snapshot and queues them with the revision of the  *)
(* object they were based on.  After reconnection every queued intent is   *)
(* classified against the center, and a ready one goes through an ordinary *)
(* change, which writes only if the object is still at the revision the    *)
(* classification observed.  The center may be restored from a backup and  *)
(* issue a generation again.                                               *)
(*                                                                         *)
(* There is one site, one scope and one object.  The callers of these      *)
(* packages (the center, the link, the change pipeline) are not part of    *)
(* the repository and are marked external in the map.                      *)
(***************************************************************************)
EXTENDS Naturals, Sequences, FiniteSets

CONSTANTS
  None,
  Requests,      \* the operations users ask for at the site: [id, site,
                 \* scope, class, action, digest]
  SitePolicies,  \* what the center may put in a snapshot: [site, scope,
                 \* from, until, delegations]
  MaxNow,        \* bound on the clock
  MaxPolicies,   \* bound on the snapshots the center issues
  MaxWrites,     \* bound on the writes of the object at the center
  MaxOutages     \* bound on the outages of the link

ASSUME OfflineSiteAssumption ==
  /\ {MaxNow, MaxPolicies, MaxWrites, MaxOutages} \subseteq Nat
  /\ \A p \in SitePolicies : p.from \in Nat /\ p.until \in Nat

VARIABLES
  now,        \* the clock
  wan,        \* "wan_available" or "wan_unavailable"
  outages,    \* outages so far
  issued,     \* the records the center issued; any of them may still arrive
  policyGen,  \* the generation the center believes it issued last
  stored,     \* the record the site stores
  held,       \* every record the site ever stored
  object,     \* the object at the center: [generation, version, applied]
  writes,     \* writes of the object so far
  view,       \* the revision of the object the site knows
  queue,      \* the queue of the site
  decisions,  \* queue entry -> None or its latest classification
  effects     \* the writes that came from the queue: [entry, before]

policyVars == <<issued, policyGen, stored, held>>
objectVars == <<object, writes>>
vars == <<now, wan, outages, policyVars, objectVars, view, queue, decisions,
          effects>>

OperationClasses == {"ui", "job", "market"}

-----------------------------------------------------------------------------
(* sitesync: records are [kind, authority, generation, version, payload].  *)

ValidRecord(r) ==
  /\ r.generation > 0
  /\ \/ r.kind = "desired" /\ r.authority = "global"
     \/ r.kind = "actual" /\ r.authority = "site"

(* Mutant of Reconcile: the same generation with other content replaces    *)
(* what is stored.                                                         *)
ReconcileOverwrites(current, incoming) ==
  /\ ValidRecord(current) /\ ValidRecord(incoming)
  /\ incoming.generation >= current.generation

(* Reconcile: whether the incoming record replaces the stored one.  An     *)
(* older generation is stale and the same generation is either the same    *)
(* record again or a conflict: none of them changes anything.              *)
Reconcile(current, incoming) ==
  /\ ValidRecord(current) /\ ValidRecord(incoming)
  /\ current.kind = incoming.kind
  /\ current.authority = incoming.authority
  /\ incoming.generation > current.generation

-----------------------------------------------------------------------------
(* Admission at the site.                                                  *)

ValidPolicy(p) ==
  /\ p.from < p.until
  /\ \A d \in p.delegations : /\ d.scope = p.scope
                              /\ d.class \in OperationClasses

HasExactDelegation(p, request) ==
  [scope |-> request.scope, class |-> request.class,
   action |-> request.action] \in p.delegations

(* The first reason that applies, in the order of the code.                *)
AdmissionReason(request, connectivity, at, expected, record) ==
  LET p == record.payload
  IN  IF connectivity # "wan_unavailable" THEN "offline_admission_not_applicable"
      ELSE IF request.site # p.site THEN "site_mismatch"
      ELSE IF request.scope # p.scope THEN "cross_scope_operation"
      ELSE IF at < p.from THEN "policy_not_yet_valid"
      ELSE IF at >= p.until THEN "policy_expired"
      ELSE IF expected.generation # record.generation THEN "policy_generation_mismatch"
      ELSE IF expected.version # record.version THEN "policy_resource_version_mismatch"
      ELSE IF ~HasExactDelegation(p, request) THEN "operation_not_delegated"
      ELSE "explicit_delegation_matched"

QueueEntry(request, at, record) ==
  [request |-> request, base |-> view, policyGeneration |-> record.generation,
   policyVersion |-> record.version, queuedAt |-> at]

(* BuildAdmissionDecision; a denied request leaves no trace.  The caller   *)
(* expects a snapshot it has seen at the site, perhaps an older one.       *)
Admit(request, expected) ==
  /\ request.class \in OperationClasses
  /\ ValidPolicy(stored.payload)
  /\ \A e \in queue : e.request.id # request.id
  /\ AdmissionReason(request, wan, now, expected, stored) =
       "explicit_delegation_matched"
  /\ LET entry == QueueEntry(request, now, stored)
     IN  /\ queue' = queue \cup {entry}
         /\ decisions' = [e \in queue' |-> IF e \in queue THEN decisions[e]
                                                          ELSE None]
  /\ UNCHANGED <<now, wan, outages, policyVars, objectVars, view, effects>>

-----------------------------------------------------------------------------
(* Reconnection.                                                           *)

(* Mutant of ReconnectStatus: only generations are compared.               *)
ReconnectStatusByGeneration(entry, current) ==
  IF current.applied = entry.request.digest THEN "already_reflected"
  ELSE IF current.generation = entry.base.generation
       THEN "ready_for_approved_change"
       ELSE "conflict"

ReconnectStatus(entry, current) ==
  IF current.applied = entry.request.digest THEN "already_reflected"
  ELSE IF /\ current.generation = entry.base.generation
          /\ current.version = entry.base.version
       THEN "ready_for_approved_change"
       ELSE "conflict"

(* ClassifyReconnect.  It may run again at any time while the link is up;  *)
(* the entry stays in the queue.                                           *)
Classify(entry) ==
  /\ wan = "wan_available"
  /\ decisions' = [decisions EXCEPT ![entry] =
                     [status |-> ReconnectStatus(entry, object),
                      observed |-> object]]
  /\ UNCHANGED <<now, wan, outages, policyVars, objectVars, view, queue,
                 effects>>

Write(generation, applied) ==
  /\ writes < MaxWrites
  /\ writes' = writes + 1
  /\ object' = [generation |-> generation, version |-> writes + 2,
                applied |-> applied]

(* The approved change of a ready intent.  It may have waited for long and *)
(* may be executed again.                                                  *)
ApplyReady(entry) ==
  /\ decisions[entry] # None
  /\ decisions[entry].status = "ready_for_approved_change"
  /\ object = decisions[entry].observed
  /\ Write(object.generation + 1, entry.request.digest)
  /\ effects' = Append(effects, [entry |-> entry, before |-> object])
  /\ UNCHANGED <<now, wan, outages, policyVars, view, queue, decisions>>

(* Somebody else changes the object, or reports on it and so changes only  *)
(* its version, or puts an older generation back.                          *)
CenterWrite(generation) ==
  /\ generation \in 1 .. object.generation + 1
  /\ Write(generation, IF generation = object.generation THEN object.applied
                       ELSE None)
  /\ UNCHANGED <<now, wan, outages, policyVars, view, queue, decisions,
                 effects>>

-----------------------------------------------------------------------------
(* The center and the link.                                                *)

IssuePolicy(payload) ==
  /\ Cardinality(issued) < MaxPolicies
  /\ policyGen' = policyGen + 1
  /\ issued' = issued \cup
       {[kind |-> "desired", authority |-> "global",
         generation |-> policyGen + 1, version |-> Cardinality(issued) + 1,
         payload |-> payload]}
  /\ UNCHANGED <<now, wan, outages, stored, held, objectVars, view, queue,
                 decisions, effects>>

(* The center is restored from a backup taken one generation ago.          *)
RestoreCenter ==
  /\ policyGen > 1
  /\ policyGen' = policyGen - 1
  /\ UNCHANGED <<now, wan, outages, issued, stored, held, objectVars, view,
                 queue, decisions, effects>>

Deliver(record) ==
  /\ wan = "wan_available"
  /\ Reconcile(stored, record)
  /\ stored' = record
  /\ held' = held \cup {record}
  /\ UNCHANGED <<now, wan, outages, issued, policyGen, objectVars, view,
                 queue, decisions, effects>>

RefreshView ==
  /\ wan = "wan_available"
  /\ view' = [generation |-> object.generation, version |-> object.version]
  /\ UNCHANGED <<now, wan, outages, policyVars, objectVars, queue, decisions,
                 effects>>

Disconnect ==
  /\ wan = "wan_available"
  /\ outages < MaxOutages
  /\ wan' = "wan_unavailable"
  /\ outages' = outages + 1
  /\ UNCHANGED <<now, policyVars, objectVars, view, queue, decisions,
                 effects>>

Reconnect ==
  /\ wan = "wan_unavailable"
  /\ wan' = "wan_available"
  /\ UNCHANGED <<now, outages, policyVars, objectVars, view, queue, decisions,
                 effects>>

Tick ==
  /\ now < MaxNow
  /\ now' = now + 1
  /\ UNCHANGED <<wan, outages, policyVars, objectVars, view, queue, decisions,
                 effects>>

Init ==
  \E payload \in SitePolicies :
    LET first == [kind |-> "desired", authority |-> "global",
                  generation |-> 1, version |-> 1, payload |-> payload]
    IN  /\ now = 1
        /\ wan = "wan_available" /\ outages = 0
        /\ issued = {first} /\ policyGen = 1
        /\ stored = first /\ held = {first}
        /\ object = [generation |-> 1, version |-> 1, applied |-> None]
        /\ writes = 0
        /\ view = [generation |-> 1, version |-> 1]
        /\ queue = {}
        /\ decisions = <<>>
        /\ effects = <<>>

Next ==
  \/ \E request \in Requests, expected \in held : Admit(request, expected)
  \/ \E entry \in queue : Classify(entry)
  \/ \E entry \in queue : ApplyReady(entry)
  \/ \E generation \in 1 .. MaxWrites + 1 : CenterWrite(generation)
  \/ \E payload \in SitePolicies : IssuePolicy(payload)
  \/ RestoreCenter
  \/ \E record \in issued : Deliver(record)
  \/ RefreshView
  \/ Disconnect
  \/ Reconnect
  \/ Tick

Spec == Init /\ [][Next]_vars

-----------------------------------------------------------------------------

(* An intent queued during an outage takes effect at most once, however    *)
(* often it is classified and its change executed, never over a revision   *)
(* other than the one its author worked on, and never twice under two      *)
(* requests for the same intent in a row.                                  *)
OfflineIntentOnce ==
  /\ \A i \in DOMAIN effects :
       LET e == effects[i]
       IN  /\ e.before.generation = e.entry.base.generation
           /\ e.before.version = e.entry.base.version
           /\ e.before.applied # e.entry.request.digest
  /\ \A i, j \in DOMAIN effects :
       effects[i].entry = effects[j].entry => i = j

(* Whatever the site admitted under one policy generation it admitted      *)
(* under one snapshot, which the center issued, which delegated exactly    *)
(* that operation and which was valid then, also when a restored center    *)
(* issued the generation a second time and snapshots arrive out of order.  *)
OnePolicyPerGeneration ==
  /\ \A e, f \in queue : e.policyGeneration = f.policyGeneration =>
                           e.policyVersion = f.policyVersion
  /\ \A e \in queue :
       \E r \in issued :
         /\ r.generation = e.policyGeneration /\ r.version = e.policyVersion
         /\ r.payload.from <= e.queuedAt /\ e.queuedAt < r.payload.until
         /\ HasExactDelegation(r.payload, e.request)
=============================================================================
