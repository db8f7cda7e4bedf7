----------------------------- MODULE CoreObjects -----------------------------
(***************************************************************************)
(* The distributed core object store (persistence/postgres/core_objects.go *)
(* and corecontracts/memory_repository.go) behind the typed action         *)
(* core.object.apply.                                                      *)
(*                                                                         *)
(* An operator, or an agent with an observation, reads the store and files *)
(* a mutation as a job.  A worker executes the job; it may crash, lose its *)
(* lease or lose the answer and execute it again, after other jobs changed *)
(* the store.  Apply is one serialised transaction: the receipt of the key *)
(* answers a repeated execution, anything else is validated against the    *)
(* whole snapshot and written together with its receipt.                   *)
(***************************************************************************)
EXTENDS CoreContracts, Sequences

CONSTANTS
  Jobs,          \* the jobs, each with its own idempotency key
  InitialStore,  \* the objects before the first job
  Templates,     \* what operators ask for: [type, object, scope, owner, doc]
  Observers,     \* what agents report on: [object, scope, owner, source,
                 \* desired]
  MaxNow,        \* bound on the clock
  Lag            \* how far the clock of an applying process may be behind

(* What may be stored, asked for and kept: ObjectMetadata with a document, *)
(* ObjectMutation and the receipt of one.                                  *)
Ids == {x.object : x \in InitialStore \cup Templates \cup Observers}
ScopeIds == {x.scope : x \in InitialStore \cup Templates \cup Observers}
OwnerIds == {x.owner : x \in InitialStore \cup Templates \cup Observers}

DesiredDocs ==
  {x.doc : x \in {y \in InitialStore \cup Templates : y.type = "desired-state"}}

ReportedDocs ==
  [kind: {d.kind : d \in DesiredDocs}, target: {d.target : d \in DesiredDocs},
   desired: {f.desired : f \in Observers}, source: {f.source : f \in Observers},
   observedGeneration: Nat, observedAt: Nat,
   status: {"converged", "progressing"}, state: {d.spec : d \in DesiredDocs}]

Documents == {x.doc : x \in InitialStore \cup Templates} \cup ReportedDocs

StoredObjects ==
  [object: Ids, type: ObjectTypes, scope: ScopeIds, owner: OwnerIds,
   doc: Documents, version: Nat, generation: Nat, created: Nat, updated: Nat]

Preconditions == [object: Ids, version: Nat, generation: Nat \cup {None}]

Mutations ==
  [operation: {"create", "replace"}, type: ObjectTypes, object: Ids,
   scope: ScopeIds, owner: OwnerIds, doc: Documents,
   pre: Preconditions \cup {None}]

Receipts == [fingerprint: Mutations, result: StoredObjects]

(* The initial store is finite and valid, and no version in it is one the  *)
(* server allocates later.  Observations come from agents only, and every  *)
(* agent reports on a desired state, never on an observation.  None is no  *)
(* object, mutation or receipt.                                            *)
ASSUME CoreObjectsAssumption ==
  /\ ValidateStoredObjects(InitialStore) /\ IsFiniteSet(InitialStore)
  /\ InitialStore \subseteq StoredObjects
  /\ \A o \in InitialStore : o.version = 0
  /\ \A x \in InitialStore \cup Templates :
       /\ x.type \in ObjectTypes \ {"actual-state"}
       /\ \A f \in Observers : x.object = f.desired => x.type = "desired-state"
  /\ \A f, g \in Observers : f.object # g.desired
  /\ MaxNow \in Nat /\ Lag \in Nat
  /\ None \notin StoredObjects /\ None \notin Mutations /\ None \notin Receipts

VARIABLES
  store,     \* the stored objects
  receipts,  \* job -> None or the fingerprint and the result of its mutation
  request,   \* job -> None or the mutation it carries
  seen,      \* job -> None or the object as its author read it
  answers,   \* job -> the results its executions were given
  effects,   \* every change of the store: [job, before, after], in order
  now        \* the clock

vars == <<store, receipts, request, seen, answers, effects, now>>

Init ==
  /\ store = InitialStore
  /\ receipts = [j \in Jobs |-> None]
  /\ request = [j \in Jobs |-> None]
  /\ seen = [j \in Jobs |-> None]
  /\ answers = [j \in Jobs |-> {}]
  /\ effects = <<>>
  /\ now = 1

(* Get: the object as it is stored, None when there is none.               *)
Get(id) ==
  IF \E o \in store : o.object = id THEN CHOOSE o \in store : o.object = id
  ELSE None

File(j, mutation) ==
  /\ request[j] = None
  /\ request' = [request EXCEPT ![j] = mutation]
  /\ seen' = [seen EXCEPT ![j] = Get(mutation.object)]
  /\ UNCHANGED <<store, receipts, answers, effects, now>>

(* A request that replaces what its author read, or creates what it did    *)
(* not find.  The generation is a guard the author may leave out.          *)
Mutation(wanted, guard) ==
  LET current == Get(wanted.object)
  IN  [operation |-> IF current = None THEN "create" ELSE "replace",
       type |-> wanted.type, object |-> wanted.object, scope |-> wanted.scope,
       owner |-> wanted.owner, doc |-> wanted.doc,
       pre |-> IF current = None THEN None
               ELSE [object |-> wanted.object, version |-> current.version,
                     generation |-> IF guard THEN current.generation
                                    ELSE None]]

Author(j, wanted) ==
  File(j, Mutation(wanted, TRUE))

(* An agent reports what it found after it applied the desired state it    *)
(* had read: the generation it read and the content it brought about.      *)
Report(j, from, status) ==
  LET desired == Get(from.desired)
      doc == [kind |-> desired.doc.kind, target |-> desired.doc.target,
              desired |-> desired.object, source |-> from.source,
              observedGeneration |-> desired.generation,
              observedAt |-> now, status |-> status,
              state |-> desired.doc.spec]
  IN  /\ desired # None
      /\ File(j, Mutation([type |-> "actual-state", object |-> from.object,
                           scope |-> from.scope, owner |-> from.owner,
                           doc |-> doc], FALSE))

(* Mutant of Replayed: a repeated execution is answered with the object as *)
(* it is now.                                                              *)
ReplayedFromStore(j) == Get(receipts[j].result.object)

(* loadCoreMutationReceipt: the result kept with the receipt.              *)
Replayed(j) == receipts[j].result

(* Apply on a key that has a receipt: same fingerprint, same answer.       *)
ApplyReplay(j) ==
  /\ request[j] # None
  /\ receipts[j] # None
  /\ receipts[j].fingerprint = request[j]
  /\ answers' = [answers EXCEPT ![j] = @ \cup {Replayed(j)}]
  /\ UNCHANGED <<store, receipts, request, seen, effects, now>>

(* Apply on a fresh key: object and receipt in one transaction.  The       *)
(* answer of the committed transaction may be lost on its way back.        *)
ApplyMutation(j, at, delivered) ==
  LET current == Get(request[j].object)
      next == NextObject(request[j], current, at, Len(effects) + 1)
  IN  /\ request[j] # None
      /\ receipts[j] = None
      /\ MutationPrepared(request[j], store, current, at, Len(effects) + 1)
      /\ store' = ReplaceInSnapshot(store, next)
      /\ receipts' = [receipts EXCEPT ![j] =
                        [fingerprint |-> request[j], result |-> next]]
      /\ effects' = Append(effects, [job |-> j, before |-> current,
                                     after |-> next])
      /\ answers' = IF delivered
                    THEN [answers EXCEPT ![j] = @ \cup {next}]
                    ELSE answers
      /\ UNCHANGED <<request, seen, now>>

Tick ==
  /\ now < MaxNow
  /\ now' = now + 1
  /\ UNCHANGED <<store, receipts, request, seen, answers, effects>>

Next ==
  \/ \E j \in Jobs, w \in Templates : Author(j, w)
  \/ \E j \in Jobs, f \in Observers, s \in {"converged", "progressing"} :
       Report(j, f, s)
  \/ \E j \in Jobs : ApplyReplay(j)
  \/ \E j \in Jobs, at \in (now - Lag)..now, d \in BOOLEAN :
       at > 0 /\ ApplyMutation(j, at, d)
  \/ Tick

Spec == Init /\ [][Next]_vars

-----------------------------------------------------------------------------
(* The verifier of core.object.apply: the answer is the object the job     *)
(* named, with the document it asked for.                                  *)
Verified(mutation, answer) ==
  /\ answer.object = mutation.object
  /\ answer.type = mutation.type
  /\ ValidMetadata(answer)
  /\ answer.doc = mutation.doc

(* However often a job is executed, and whatever others do in between, the *)
(* store changes at most once for it and every execution that returns is   *)
(* given that same object and passes the verifier of the action.           *)
EffectOnce ==
  \A j \in Jobs :
    /\ Cardinality({i \in DOMAIN effects : effects[i].job = j}) <= 1
    /\ \A a \in answers[j] :
         /\ Verified(request[j], a)
         /\ \E i \in DOMAIN effects : /\ effects[i].job = j
                                      /\ effects[i].after = a

(* Nobody overwrites what they did not read: the object a job replaced was *)
(* still, in every field, the one its author had seen when the request was *)
(* built, also when only observations, which keep the generation, were     *)
(* stored in between.                                                      *)
NoBlindOverwrite ==
  \A i \in DOMAIN effects : effects[i].before = seen[effects[i].job]

AuthorityFor(type) ==
  IF type \in {"role-assignment", "desired-state"} THEN "desired-state"
  ELSE "configuration"

(* A change of one object never takes the ground from under another: every *)
(* stored intent is owned by the root or by a scope above it that still    *)
(* holds the delegation, every interface belongs to a node that still has  *)
(* a role at its site, and every scope has one control plane.              *)
ReferencesHold ==
  LET t == TopologyOf(store)
  IN  /\ \A o \in {x \in store : x.type # "actual-state"} :
           /\ o.owner \in PathUp(t, o.scope) \cup PathUp(t, o.object)
           /\ \/ o.owner = RootId(t)
              \/ \E s \in t.scopes : /\ s.id = o.owner
                                     /\ AuthorityFor(o.type) \in s.delegations
      /\ \A i \in DocsOf(store, "network-interface") :
           \E a \in Assignments(store) : a.node = i.node /\ a.site = i.site
      /\ \A a, b \in Assignments(store) :
           /\ a.role \in ControllerRoles /\ b.role \in ControllerRoles
           /\ a.scope = b.scope
           => a.service = b.service

(* A pair that counts as converged describes the present: what the agent   *)
(* brought about is the content desired now, however late its report was   *)
(* stored and however often the intent changed meanwhile.                  *)
ConvergedIsCurrent ==
  \A d \in OfType(store, "desired-state"),
     a \in OfType(store, "actual-state") :
    IsConverged(TopologyOf(store), d, a) => a.doc.state = d.doc.spec
=============================================================================
