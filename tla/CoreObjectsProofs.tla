-------------------------- MODULE CoreObjectsProofs --------------------------
(***************************************************************************)
(* Proofs about the core object store, for any valid initial store, any    *)
(* templates and observers and any number of jobs, executed in any order   *)
(* and any number of times.                                                *)
(***************************************************************************)
EXTENDS CoreObjects, FiniteSetTheorems, TLAPS

(* An observation and the intent it is about: the generation that was      *)
(* observed is the stored one, with its content, or an older one.          *)
ReportOK(doc) ==
  \E o \in store :
    /\ o.object = doc.desired /\ o.type = "desired-state"
    /\ doc.observedGeneration <= o.generation
    /\ doc.observedGeneration = o.generation => doc.state = o.doc.spec

(* The documents of stored objects and of requests.                        *)
DocumentOK(x) ==
  /\ x.type = "desired-state" => x.doc \in DesiredDocs
  /\ x.type = "actual-state" => x.doc \in ReportedDocs /\ ReportOK(x.doc)
  /\ \A f \in Observers : x.object = f.desired => x.type = "desired-state"

EffectRecord ==
  [job: Jobs, before: StoredObjects \cup {None}, after: StoredObjects]

(* What an author read is stored still, or what is stored has a higher     *)
(* version.                                                                *)
ReadOK(o) ==
  \E c \in store :
    /\ c.object = o.object
    /\ o.version <= c.version
    /\ o.version = c.version => c = o

RequestOK(j) ==
  request[j] # None =>
    /\ request[j] \in Mutations
    /\ DocumentOK(request[j])
    /\ request[j].operation = "create" => seen[j] = None
    /\ request[j].operation # "create" =>
         /\ seen[j] \in StoredObjects
         /\ seen[j].object = request[j].object
         /\ request[j].pre.version = seen[j].version
         /\ ReadOK(seen[j])

(* A receipt belongs to the one effect of its job.                         *)
ReceiptOK(j) ==
  /\ receipts[j] # None =>
       /\ receipts[j] \in Receipts
       /\ request[j] # None
       /\ receipts[j].fingerprint = request[j]
       /\ Verified(request[j], receipts[j].result)
       /\ \E i \in DOMAIN effects : /\ effects[i].job = j
                                    /\ effects[i].after = receipts[j].result
  /\ \A a \in answers[j] : receipts[j] # None /\ a = receipts[j].result

StoreOK ==
  /\ IsFiniteSet(store)
  /\ store \subseteq StoredObjects
  /\ ValidateStoredObjects(store)
  /\ \A o \in store : o.version <= Len(effects) /\ DocumentOK(o)

EffectsOK ==
  /\ effects \in Seq(EffectRecord)
  /\ \A i \in DOMAIN effects : receipts[effects[i].job] # None
  /\ \A i, k \in DOMAIN effects : effects[i].job = effects[k].job => i = k
  /\ NoBlindOverwrite

JobsOK ==
  /\ now \in Nat
  /\ DOMAIN request = Jobs /\ DOMAIN seen = Jobs
  /\ DOMAIN receipts = Jobs /\ DOMAIN answers = Jobs
  /\ \A j \in Jobs : RequestOK(j) /\ ReceiptOK(j)

(* The inductive invariant.                                                *)
ObjectsOK == StoreOK /\ EffectsOK /\ JobsOK

-----------------------------------------------------------------------------
(* Reading the store.                                                      *)

(* A valid snapshot holds an object once, with sound metadata.             *)
LEMMA ValidSnapshot ==
  ASSUME NEW objects, ValidateStoredObjects(objects)
  PROVE  /\ \A a, b \in objects : a.object = b.object => a = b
         /\ \A o \in objects : ValidMetadata(o)
BY DEF ValidateStoredObjects

LEMMA GetFacts ==
  ASSUME StoreOK, NEW id
  PROVE  /\ Get(id) # None => Get(id) \in store /\ Get(id).object = id
         /\ Get(id) = None => \A o \in store : o.object # id
         /\ \A o \in store : o.object = id => o = Get(id)
<1>1. None \notin store
  BY CoreObjectsAssumption DEF StoreOK
<1>2. \A a, b \in store : a.object = b.object => a = b
  BY ValidSnapshot DEF StoreOK
<1>3. CASE \E o \in store : o.object = id
  <2>1. Get(id) \in store /\ Get(id).object = id
    BY <1>3 DEF Get
  <2> QED
    BY <2>1, <1>1, <1>2
<1>4. CASE ~\E o \in store : o.object = id
  BY <1>4 DEF Get
<1> QED
  BY <1>3, <1>4

LEMMA EffectJobs ==
  ASSUME EffectsOK, NEW i \in DOMAIN effects
  PROVE  effects[i] \in EffectRecord /\ effects[i].job \in Jobs
<1>1. effects[i] \in EffectRecord
  BY DEF EffectsOK
<1> QED
  BY <1>1 DEF EffectRecord

-----------------------------------------------------------------------------
(* The initial state.                                                      *)
LEMMA InitOK == Init => ObjectsOK
<1> SUFFICES ASSUME Init PROVE ObjectsOK
  OBVIOUS
<1>1. StoreOK
  <2>1. /\ IsFiniteSet(store) /\ store \subseteq StoredObjects
        /\ ValidateStoredObjects(store)
        /\ Len(effects) = 0
    BY CoreObjectsAssumption DEF Init
  <2>2. ASSUME NEW o \in store PROVE o.version <= Len(effects) /\ DocumentOK(o)
    <3>1. /\ o \in InitialStore /\ o.version = 0 /\ o.type # "actual-state"
          /\ \A f \in Observers : o.object = f.desired => o.type = "desired-state"
      BY CoreObjectsAssumption DEF Init
    <3>2. o.type = "desired-state" => o.doc \in DesiredDocs
      BY <3>1 DEF DesiredDocs
    <3> QED
      BY <2>1, <3>1, <3>2 DEF DocumentOK
  <2> QED
    BY <2>1, <2>2 DEF StoreOK
<1>2. EffectsOK
  BY DEF Init, EffectsOK, NoBlindOverwrite
<1>3. JobsOK
  BY DEF Init, JobsOK, RequestOK, ReceiptOK
<1> QED
  BY <1>1, <1>2, <1>3 DEF ObjectsOK

-----------------------------------------------------------------------------
(* Filing.                                                                 *)

(* A mutation is built from what its author reads.                         *)
LEMMA MutationFacts ==
  ASSUME StoreOK, NEW wanted, NEW guard \in BOOLEAN,
         wanted.type \in ObjectTypes, wanted.object \in Ids,
         wanted.scope \in ScopeIds, wanted.owner \in OwnerIds,
         wanted.doc \in Documents
  PROVE  /\ Mutation(wanted, guard) \in Mutations
         /\ Mutation(wanted, guard).type = wanted.type
         /\ Mutation(wanted, guard).object = wanted.object
         /\ Mutation(wanted, guard).doc = wanted.doc
         /\ Mutation(wanted, guard).operation = "create" => Get(wanted.object) = None
         /\ Mutation(wanted, guard).operation # "create" =>
              /\ Get(wanted.object) # None
              /\ Mutation(wanted, guard).pre.version = Get(wanted.object).version
<1> DEFINE current == Get(wanted.object)
           op == IF current = None THEN "create" ELSE "replace"
           pre == IF current = None THEN None
                  ELSE [object |-> wanted.object, version |-> current.version,
                        generation |-> IF guard THEN current.generation
                                       ELSE None]
           m == Mutation(wanted, guard)
<1>1. m = [operation |-> op, type |-> wanted.type, object |-> wanted.object,
           scope |-> wanted.scope, owner |-> wanted.owner, doc |-> wanted.doc,
           pre |-> pre]
  BY DEF Mutation
<1>2. current # None => current \in StoredObjects
  BY GetFacts DEF StoreOK
<1>3. current # None => current.version \in Nat /\ current.generation \in Nat
  BY <1>2 DEF StoredObjects
<1>4. pre \in Preconditions \cup {None}
  BY <1>3 DEF Preconditions
<1>5. current # None => pre.version = current.version
  OBVIOUS
<1>6. op \in {"create", "replace"} /\ (op = "create" <=> current = None)
  OBVIOUS
<1> HIDE DEF current, op, pre
<1>7. m \in Mutations
  BY <1>1, <1>4, <1>6 DEF Mutations
<1>8. /\ m.type = wanted.type /\ m.object = wanted.object /\ m.doc = wanted.doc
      /\ m.operation = op /\ m.pre = pre
  BY <1>1
<1> QED
  BY <1>5, <1>6, <1>7, <1>8 DEF current

(* Whatever is about a store that does not change stays true.              *)
LEMMA StoreKept ==
  ASSUME ObjectsOK, store' = store, effects' = effects
  PROVE  /\ StoreOK'
         /\ \A x : DocumentOK(x) => DocumentOK(x)'
         /\ \A o : ReadOK(o) => ReadOK(o)'
BY DEF ObjectsOK, StoreOK, DocumentOK, ReportOK, ReadOK

LEMMA FileOK ==
  ASSUME ObjectsOK, NEW j \in Jobs, NEW m \in Mutations, File(j, m),
         DocumentOK(m),
         m.operation = "create" => Get(m.object) = None,
         m.operation # "create" => /\ Get(m.object) # None
                                   /\ m.pre.version = Get(m.object).version
  PROVE  ObjectsOK'
<1>1. /\ request[j] = None
      /\ request' = [request EXCEPT ![j] = m]
      /\ seen' = [seen EXCEPT ![j] = Get(m.object)]
      /\ store' = store /\ receipts' = receipts /\ answers' = answers
      /\ effects' = effects /\ now' = now
  BY DEF File
<1>2. DOMAIN request = Jobs /\ DOMAIN seen = Jobs
  BY DEF ObjectsOK, JobsOK
<1>3. /\ request'[j] = m /\ seen'[j] = Get(m.object)
      /\ \A k \in Jobs : k # j => request'[k] = request[k] /\ seen'[k] = seen[k]
      /\ DOMAIN request' = Jobs /\ DOMAIN seen' = Jobs
  BY <1>1, <1>2
<1>4. receipts[j] = None
  BY <1>1 DEF ObjectsOK, JobsOK, ReceiptOK
<1>5. StoreOK'
  BY <1>1, StoreKept
<1>6. EffectsOK'
  <2>1. \A i \in DOMAIN effects : effects[i].job \in Jobs /\ effects[i].job # j
    BY <1>4, EffectJobs DEF ObjectsOK, EffectsOK
  <2>2. NoBlindOverwrite'
    BY <1>1, <1>3, <2>1 DEF ObjectsOK, EffectsOK, NoBlindOverwrite
  <2> QED
    BY <1>1, <2>2 DEF ObjectsOK, EffectsOK
<1>7. \A k \in Jobs : RequestOK(k)'
  <2> SUFFICES ASSUME NEW k \in Jobs PROVE RequestOK(k)'
    OBVIOUS
  <2>1. CASE k # j
    <3>1. RequestOK(k)
      BY DEF ObjectsOK, JobsOK
    <3> QED
      BY <2>1, <3>1, <1>1, <1>3, StoreKept DEF RequestOK
  <2>2. CASE k = j
    <3>1. DocumentOK(m)'
      BY <1>1, StoreKept
    <3>2. CASE m.operation = "create"
      BY <2>2, <3>1, <3>2, <1>3 DEF RequestOK
    <3>3. CASE m.operation # "create"
      <4>1. PICK o : o = Get(m.object)
        OBVIOUS
      <4>2. o \in store /\ o.object = m.object /\ m.pre.version = o.version
        BY <3>3, <4>1, GetFacts DEF ObjectsOK
      <4>3. o \in StoredObjects /\ o.version \in Nat
        BY <4>2 DEF ObjectsOK, StoreOK, StoredObjects
      <4>4. ReadOK(o)
        BY <4>2, <4>3 DEF ReadOK
      <4>5. ReadOK(o)'
        BY <4>4, <1>1, StoreKept
      <4>6. seen'[j] = o
        BY <4>1, <1>3
      <4> QED
        BY <2>2, <3>1, <3>3, <4>2, <4>3, <4>5, <4>6, <1>3 DEF RequestOK
    <3> QED
      BY <3>2, <3>3
  <2> QED
    BY <2>1, <2>2
<1>8. \A k \in Jobs : ReceiptOK(k)'
  <2> SUFFICES ASSUME NEW k \in Jobs PROVE ReceiptOK(k)'
    OBVIOUS
  <2>1. ReceiptOK(k)
    BY DEF ObjectsOK, JobsOK
  <2>2. CASE k # j
    BY <2>1, <2>2, <1>1, <1>3 DEF ReceiptOK
  <2>3. CASE k = j
    BY <2>1, <2>3, <1>1, <1>4 DEF ReceiptOK
  <2> QED
    BY <2>2, <2>3
<1>9. JobsOK'
  BY <1>1, <1>3, <1>7, <1>8 DEF ObjectsOK, JobsOK
<1> QED
  BY <1>5, <1>6, <1>9 DEF ObjectsOK

LEMMA AuthorOK ==
  ASSUME ObjectsOK, NEW j \in Jobs, NEW w \in Templates, Author(j, w)
  PROVE  ObjectsOK'
<1>1. /\ w.type \in ObjectTypes /\ w.type # "actual-state"
      /\ \A f \in Observers : w.object = f.desired => w.type = "desired-state"
  BY CoreObjectsAssumption
<1>2. /\ w.object \in Ids /\ w.scope \in ScopeIds /\ w.owner \in OwnerIds
      /\ w.doc \in Documents
      /\ w.type = "desired-state" => w.doc \in DesiredDocs
  BY DEF Ids, ScopeIds, OwnerIds, Documents, DesiredDocs
<1> DEFINE m == Mutation(w, TRUE)
<1>3. /\ m \in Mutations /\ m.type = w.type /\ m.object = w.object /\ m.doc = w.doc
      /\ m.operation = "create" => Get(m.object) = None
      /\ m.operation # "create" => /\ Get(m.object) # None
                                   /\ m.pre.version = Get(m.object).version
  BY <1>1, <1>2, MutationFacts DEF ObjectsOK
<1>4. File(j, m)
  BY DEF Author
<1> HIDE DEF m
<1>5. DocumentOK(m)
  BY <1>1, <1>2, <1>3 DEF DocumentOK
<1> QED
  BY <1>3, <1>4, <1>5, FileOK

LEMMA AgentReportOK ==
  ASSUME ObjectsOK, NEW j \in Jobs, NEW f \in Observers,
         NEW s \in {"converged", "progressing"}, Report(j, f, s)
  PROVE  ObjectsOK'
<1> DEFINE d == Get(f.desired)
           doc == [kind |-> d.doc.kind, target |-> d.doc.target,
                   desired |-> d.object, source |-> f.source,
                   observedGeneration |-> d.generation,
                   observedAt |-> now, status |-> s, state |-> d.doc.spec]
           w == [type |-> "actual-state", object |-> f.object,
                 scope |-> f.scope, owner |-> f.owner, doc |-> doc]
           m == Mutation(w, FALSE)
<1>1. d # None /\ File(j, m)
  BY DEF Report
<1>2. d \in store /\ d.object = f.desired
  BY <1>1, GetFacts DEF ObjectsOK
<1>3. d.type = "desired-state" /\ d.doc \in DesiredDocs
  BY <1>2 DEF ObjectsOK, StoreOK, DocumentOK
<1>4. d.generation \in Nat /\ now \in Nat
  BY <1>2 DEF ObjectsOK, StoreOK, JobsOK, StoredObjects
<1>5. doc.desired = d.object /\ doc.observedGeneration = d.generation /\ doc.state = d.doc.spec
  OBVIOUS
<1>6. doc \in ReportedDocs
  BY <1>2, <1>3, <1>4 DEF ReportedDocs
<1>7. /\ w.type = "actual-state" /\ w.object = f.object /\ w.doc = doc
      /\ w.scope = f.scope /\ w.owner = f.owner
  OBVIOUS
<1> HIDE DEF d, doc, w
<1>8. /\ w.type \in ObjectTypes /\ w.object \in Ids /\ w.scope \in ScopeIds
      /\ w.owner \in OwnerIds /\ w.doc \in Documents
  BY <1>6, <1>7 DEF ObjectTypes, Ids, ScopeIds, OwnerIds, Documents
<1>9. /\ m \in Mutations /\ m.type = w.type /\ m.object = w.object /\ m.doc = w.doc
      /\ m.operation = "create" => Get(m.object) = None
      /\ m.operation # "create" => /\ Get(m.object) # None
                                   /\ m.pre.version = Get(m.object).version
  BY <1>8, MutationFacts DEF ObjectsOK
<1> HIDE DEF m
<1>10. ReportOK(doc)
  BY <1>2, <1>3, <1>4, <1>5 DEF ReportOK
<1>11. \A g \in Observers : m.object # g.desired
  BY <1>7, <1>9, CoreObjectsAssumption
<1>12. DocumentOK(m)
  BY <1>6, <1>7, <1>9, <1>10, <1>11 DEF DocumentOK
<1> QED
  BY <1>1, <1>9, <1>12, FileOK

-----------------------------------------------------------------------------
(* Execution.                                                              *)

(* A step that only moves the clock or delivers what a receipt holds.      *)
LEMMA AnsweredOK ==
  ASSUME ObjectsOK, store' = store, effects' = effects, request' = request,
         seen' = seen, receipts' = receipts, now' \in Nat,
         DOMAIN answers' = Jobs,
         \A j \in Jobs : \A a \in answers'[j] :
           a \in answers[j] \/ (receipts[j] # None /\ a = receipts[j].result)
  PROVE  ObjectsOK'
<1>1. StoreOK'
  BY StoreKept
<1>2. EffectsOK'
  BY DEF ObjectsOK, EffectsOK, NoBlindOverwrite
<1>3. \A j \in Jobs : RequestOK(j)'
  BY StoreKept DEF ObjectsOK, JobsOK, RequestOK
<1>4. \A j \in Jobs : ReceiptOK(j)'
  <2> SUFFICES ASSUME NEW j \in Jobs PROVE ReceiptOK(j)'
    OBVIOUS
  <2>1. ReceiptOK(j)
    BY DEF ObjectsOK, JobsOK
  <2>2. \A a \in answers'[j] : receipts[j] # None /\ a = receipts[j].result
    BY <2>1 DEF ReceiptOK
  <2> QED
    BY <2>1, <2>2 DEF ReceiptOK
<1>5. JobsOK'
  BY <1>3, <1>4 DEF ObjectsOK, JobsOK
<1> QED
  BY <1>1, <1>2, <1>5 DEF ObjectsOK

LEMMA ReplayOK ==
  ASSUME ObjectsOK, NEW j \in Jobs, ApplyReplay(j)
  PROVE  ObjectsOK'
<1>1. /\ receipts[j] # None
      /\ answers' = [answers EXCEPT ![j] = answers[j] \cup {receipts[j].result}]
      /\ store' = store /\ receipts' = receipts /\ request' = request
      /\ seen' = seen /\ effects' = effects /\ now' = now
  BY DEF ApplyReplay, Replayed
<1>2. DOMAIN answers = Jobs /\ now \in Nat
  BY DEF ObjectsOK, JobsOK
<1>3. DOMAIN answers' = Jobs
  BY <1>1, <1>2
<1>4. \A k \in Jobs : \A a \in answers'[k] :
        a \in answers[k] \/ (receipts[k] # None /\ a = receipts[k].result)
  BY <1>1, <1>2
<1> QED
  BY <1>1, <1>2, <1>3, <1>4, AnsweredOK

(* The object a mutation writes: typed, newer than every stored one, and   *)
(* in the place of the object its author had read.                         *)
Written(j, current, next) ==
  /\ next \in StoredObjects
  /\ next.version = Len(effects) + 1
  /\ next.object = request[j].object /\ next.type = request[j].type
  /\ next.doc = request[j].doc
  /\ current # None =>
       /\ current \in store /\ current.object = next.object
       /\ next.type = current.type
       /\ current.generation <= next.generation
       /\ (next.generation = current.generation
             /\ next.type = "desired-state") => next.doc = current.doc
  /\ current = None => \A o \in store : o.object # next.object
  /\ current = seen[j]
  /\ ValidateStoredObjects(ReplaceInSnapshot(store, next))

LEMMA ApplyFacts ==
  ASSUME ObjectsOK, NEW j \in Jobs, NEW at, at \in Nat,
         NEW current, current = Get(request[j].object),
         NEW next, next = NextObject(request[j], current, at, Len(effects) + 1),
         request[j] # None,
         MutationPrepared(request[j], store, current, at, Len(effects) + 1)
  PROVE  Written(j, current, next)
<1> DEFINE q == request[j]
<1>1. RequestOK(j) /\ q \in Mutations
  BY DEF ObjectsOK, JobsOK, RequestOK
<1>2. Len(effects) + 1 \in Nat
  BY DEF ObjectsOK, EffectsOK
<1>3. current # None => current \in store /\ current.object = q.object
  BY GetFacts DEF ObjectsOK
<1>4. current # None => /\ current \in StoredObjects
                        /\ current.generation \in Nat /\ current.created \in Nat
  BY <1>3 DEF ObjectsOK, StoreOK, StoredObjects
<1>5. current = None => \A o \in store : o.object # q.object
  BY GetFacts DEF ObjectsOK
<1> DEFINE gen == IF current = None THEN 1
                  ELSE IF DesiredChanged(q, current)
                       THEN current.generation + 1 ELSE current.generation
           born == IF current = None THEN at ELSE current.created
<1>6. next = [object |-> q.object, type |-> q.type, scope |-> q.scope,
              owner |-> q.owner, doc |-> q.doc, version |-> Len(effects) + 1,
              generation |-> gen, created |-> born, updated |-> at]
  BY DEF NextObject
<1>7. gen \in Nat /\ born \in Nat
  BY <1>4
<1>8. /\ q.object \in Ids /\ q.type \in ObjectTypes /\ q.scope \in ScopeIds
      /\ q.owner \in OwnerIds /\ q.doc \in Documents
  BY <1>1 DEF Mutations
<1>9. current # None =>
        /\ current.generation <= gen
        /\ gen = current.generation => ~DesiredChanged(q, current)
  BY <1>4
<1> HIDE DEF gen, born
<1>10. next \in StoredObjects
  BY <1>2, <1>6, <1>7, <1>8 DEF StoredObjects
<1>11. /\ next.object = q.object /\ next.type = q.type /\ next.doc = q.doc
       /\ next.version = Len(effects) + 1 /\ next.generation = gen
  BY <1>6
<1>12. /\ IF q.operation = "create" THEN current = None
          ELSE /\ current # None
               /\ PreconditionHolds(q.pre, current)
               /\ q.type = current.type
       /\ ValidateStoredObjects(ReplaceInSnapshot(store, next))
  BY DEF MutationPrepared, CandidateAccepted
<1>13. current = seen[j]
  <2>1. CASE q.operation = "create"
    BY <2>1, <1>1, <1>12 DEF RequestOK
  <2>2. CASE q.operation # "create"
    <3>1. /\ seen[j] \in StoredObjects /\ seen[j].object = q.object
          /\ q.pre.version = seen[j].version /\ ReadOK(seen[j])
      BY <2>2, <1>1 DEF RequestOK
    <3>2. PICK c \in store : /\ c.object = seen[j].object
                             /\ seen[j].version = c.version => c = seen[j]
      BY <3>1 DEF ReadOK
    <3>3. c = current
      BY <3>1, <3>2, GetFacts DEF ObjectsOK
    <3>4. q.pre.version = current.version
      BY <2>2, <1>12 DEF PreconditionHolds
    <3> QED
      BY <3>1, <3>2, <3>3, <3>4
  <2> QED
    BY <2>1, <2>2
<1>14. current # None => next.type = current.type
  BY <1>11, <1>12
<1>15. (current # None /\ next.generation = current.generation
          /\ next.type = "desired-state") => next.doc = current.doc
  BY <1>9, <1>11 DEF DesiredChanged
<1> QED
  BY <1>3, <1>5, <1>9, <1>10, <1>11, <1>12, <1>13, <1>14, <1>15 DEF Written

(* What a replaced object leaves true of observations and of what authors  *)
(* read.                                                                   *)
LEMMA ReplacedKeeps ==
  ASSUME ObjectsOK, NEW next \in StoredObjects, NEW current,
         next.version = Len(effects) + 1,
         current # None =>
              /\ current \in store /\ current.object = next.object
              /\ next.type = current.type
              /\ current.generation <= next.generation
              /\ (next.generation = current.generation
                    /\ next.type = "desired-state") => next.doc = current.doc,
         current = None => \A o \in store : o.object # next.object,
         store' = ReplaceInSnapshot(store, next)
  PROVE  /\ \A doc \in ReportedDocs : ReportOK(doc) => ReportOK(doc)'
         /\ \A o \in StoredObjects : ReadOK(o) => ReadOK(o)'
<1>1. next \in store' /\ \A o \in store : o.object # next.object => o \in store'
  BY DEF ReplaceInSnapshot
<1>2. \A a, b \in store : a.object = b.object => a = b
  BY ValidSnapshot DEF ObjectsOK, StoreOK
<1>3. \A o \in store : o.object = next.object => o = current /\ current # None
  BY <1>2
<1>4. /\ \A o \in store : o.generation \in Nat /\ o.version \in Nat
                          /\ o.version <= Len(effects)
      /\ Len(effects) \in Nat /\ next.generation \in Nat
  BY DEF ObjectsOK, StoreOK, EffectsOK, StoredObjects
<1>5. ASSUME NEW doc \in ReportedDocs, ReportOK(doc) PROVE ReportOK(doc)'
  <2>1. PICK o \in store :
          /\ o.object = doc.desired /\ o.type = "desired-state"
          /\ doc.observedGeneration <= o.generation
          /\ doc.observedGeneration = o.generation => doc.state = o.doc.spec
    BY <1>5 DEF ReportOK
  <2>2. CASE o.object # next.object
    BY <2>1, <2>2, <1>1 DEF ReportOK
  <2>3. CASE o.object = next.object
    <3>1. o = current /\ current # None
      BY <2>3, <1>3
    <3>2. doc.observedGeneration \in Nat
      BY DEF ReportedDocs
    <3>3. next.object = doc.desired /\ next.type = "desired-state"
      BY <2>1, <2>3, <3>1
    <3>4. o.generation <= next.generation
      BY <3>1
    <3>5. doc.observedGeneration <= next.generation
      BY <2>1, <3>2, <3>4, <1>4
    <3>6. doc.observedGeneration = next.generation => doc.state = next.doc.spec
      <4> SUFFICES ASSUME doc.observedGeneration = next.generation
                   PROVE  doc.state = next.doc.spec
        OBVIOUS
      <4>1. next.generation = o.generation
        BY <2>1, <3>4, <1>4
      <4>2. next.doc = o.doc
        BY <3>1, <3>3, <4>1
      <4> QED
        BY <2>1, <4>1, <4>2
    <3> QED
      BY <3>3, <3>5, <3>6, <1>1 DEF ReportOK
  <2> QED
    BY <2>2, <2>3
<1>6. ASSUME NEW o \in StoredObjects, ReadOK(o) PROVE ReadOK(o)'
  <2>1. PICK c \in store : /\ c.object = o.object /\ o.version <= c.version
                           /\ o.version = c.version => c = o
    BY <1>6 DEF ReadOK
  <2>2. CASE c.object # next.object
    BY <2>1, <2>2, <1>1 DEF ReadOK
  <2>3. CASE c.object = next.object
    <3>1. o.version \in Nat
      BY DEF StoredObjects
    <3>2. o.version < next.version
      BY <2>1, <3>1, <1>4
    <3> QED
      BY <2>1, <2>3, <3>1, <3>2, <1>1, <1>4 DEF ReadOK
  <2> QED
    BY <2>2, <2>3
<1> QED
  BY <1>5, <1>6

LEMMA ApplyOK ==
  ASSUME ObjectsOK, NEW j \in Jobs, NEW at, at \in Nat, NEW d \in BOOLEAN,
         ApplyMutation(j, at, d)
  PROVE  ObjectsOK'
<1>1. PICK current : current = Get(request[j].object)
  OBVIOUS
<1>2. PICK next : next = NextObject(request[j], current, at, Len(effects) + 1)
  OBVIOUS
<1>3. PICK receipt : receipt = [fingerprint |-> request[j], result |-> next]
  OBVIOUS
<1>4. PICK effect : effect = [job |-> j, before |-> current, after |-> next]
  OBVIOUS
<1>5. /\ request[j] # None /\ receipts[j] = None
      /\ MutationPrepared(request[j], store, current, at, Len(effects) + 1)
      /\ store' = ReplaceInSnapshot(store, next)
      /\ receipts' = [receipts EXCEPT ![j] = receipt]
      /\ effects' = Append(effects, effect)
      /\ answers' = IF d THEN [answers EXCEPT ![j] = answers[j] \cup {next}]
                    ELSE answers
      /\ request' = request /\ seen' = seen /\ now' = now
  BY <1>1, <1>2, <1>3, <1>4 DEF ApplyMutation
<1>6. /\ next \in StoredObjects
      /\ next.version = Len(effects) + 1
      /\ next.object = request[j].object /\ next.type = request[j].type
      /\ next.doc = request[j].doc
      /\ current # None =>
           /\ current \in store /\ current.object = next.object
           /\ next.type = current.type
           /\ current.generation <= next.generation
           /\ (next.generation = current.generation
                 /\ next.type = "desired-state") => next.doc = current.doc
      /\ current = None => \A o \in store : o.object # next.object
      /\ current = seen[j]
      /\ ValidateStoredObjects(ReplaceInSnapshot(store, next))
  <2>1. Written(j, current, next)
    BY <1>1, <1>2, <1>5, ApplyFacts
  <2> QED
    BY <2>1 DEF Written
<1>7. /\ \A doc \in ReportedDocs : ReportOK(doc) => ReportOK(doc)'
      /\ \A o \in StoredObjects : ReadOK(o) => ReadOK(o)'
  BY <1>5, <1>6, ReplacedKeeps
<1>8. \A x : DocumentOK(x) => DocumentOK(x)'
  BY <1>7 DEF DocumentOK
<1>9. request[j] \in Mutations /\ DocumentOK(request[j])
  BY <1>5 DEF ObjectsOK, JobsOK, RequestOK
<1>10. DocumentOK(next)
  BY <1>6, <1>9 DEF DocumentOK
<1>11. effects \in Seq(EffectRecord) /\ Len(effects) \in Nat
  BY DEF ObjectsOK, EffectsOK
<1>12. effect \in EffectRecord /\ effect.job = j /\ effect.before = current
       /\ effect.after = next
  <2>1. current \in StoredObjects \cup {None}
    BY <1>6 DEF ObjectsOK, StoreOK
  <2> QED
    BY <1>4, <1>6, <2>1 DEF EffectRecord
<1>13. /\ effects' \in Seq(EffectRecord) /\ Len(effects') = Len(effects) + 1
       /\ DOMAIN effects' = DOMAIN effects \cup {Len(effects) + 1}
       /\ \A i \in DOMAIN effects : effects'[i] = effects[i]
       /\ effects'[Len(effects) + 1] = effect
  BY <1>5, <1>11, <1>12
<1>14. StoreOK'
  <2>1. IsFiniteSet(store')
    <3>1. IsFiniteSet({o \in store : o.object # next.object})
      BY FS_Subset DEF ObjectsOK, StoreOK
    <3> QED
      BY <1>5, <3>1, FS_AddElement DEF ReplaceInSnapshot
  <2>2. store' \subseteq StoredObjects /\ \A o \in store' : o \in store \/ o = next
    BY <1>5, <1>6 DEF ReplaceInSnapshot, ObjectsOK, StoreOK
  <2>3. ASSUME NEW o \in store' PROVE o.version <= Len(effects') /\ DocumentOK(o)'
    <3>1. CASE o = next
      BY <3>1, <1>6, <1>8, <1>10, <1>11, <1>13
    <3>2. CASE o \in store
      <4>1. o.version <= Len(effects) /\ DocumentOK(o) /\ o.version \in Nat
        BY <3>2 DEF ObjectsOK, StoreOK, StoredObjects
      <4> QED
        BY <4>1, <1>8, <1>11, <1>13
    <3> QED
      BY <2>2, <3>1, <3>2
  <2> QED
    BY <1>5, <1>6, <2>1, <2>2, <2>3 DEF StoreOK
<1>15. receipt \in Receipts /\ receipt.fingerprint = request[j] /\ receipt.result = next
  BY <1>3, <1>6, <1>9 DEF Receipts
<1>16. receipt # None
  BY <1>15, CoreObjectsAssumption
<1>17. /\ DOMAIN receipts = Jobs /\ DOMAIN answers = Jobs
       /\ DOMAIN request = Jobs /\ DOMAIN seen = Jobs /\ now \in Nat
  BY DEF ObjectsOK, JobsOK
<1>18. /\ receipts'[j] = receipt /\ DOMAIN receipts' = Jobs
       /\ \A k \in Jobs : k # j => receipts'[k] = receipts[k]
  BY <1>5, <1>17
<1>19. \A i \in DOMAIN effects : effects[i].job \in Jobs /\ effects[i].job # j
  BY <1>5, EffectJobs DEF ObjectsOK, EffectsOK
<1>20. EffectsOK'
  <2>1. \A i \in DOMAIN effects' : receipts'[effects'[i].job] # None
    BY <1>12, <1>13, <1>16, <1>18, <1>19 DEF ObjectsOK, EffectsOK
  <2>2. \A i, k \in DOMAIN effects' : effects'[i].job = effects'[k].job => i = k
    BY <1>12, <1>13, <1>19 DEF ObjectsOK, EffectsOK
  <2>3. \A i \in DOMAIN effects' : effects'[i].before = seen'[effects'[i].job]
    BY <1>5, <1>6, <1>12, <1>13 DEF ObjectsOK, EffectsOK, NoBlindOverwrite
  <2> QED
    BY <1>13, <2>1, <2>2, <2>3 DEF EffectsOK, NoBlindOverwrite
<1>21. \A k \in Jobs : RequestOK(k)'
  <2> SUFFICES ASSUME NEW k \in Jobs PROVE RequestOK(k)'
    OBVIOUS
  <2>1. RequestOK(k)
    BY DEF ObjectsOK, JobsOK
  <2> QED
    BY <2>1, <1>5, <1>7, <1>8 DEF RequestOK
<1>22. ValidMetadata(next)
  <2>1. next \in ReplaceInSnapshot(store, next)
    BY DEF ReplaceInSnapshot
  <2> QED
    BY <2>1, <1>6, ValidSnapshot
<1>23. Verified(request[j], next)
  BY <1>6, <1>22 DEF Verified
<1>24. /\ DOMAIN answers' = Jobs
       /\ \A k \in Jobs : k # j => answers'[k] = answers[k]
       /\ \A a \in answers'[j] : a \in answers[j] \/ a = next
  BY <1>5, <1>17
<1>25. \A k \in Jobs : ReceiptOK(k)'
  <2> SUFFICES ASSUME NEW k \in Jobs PROVE ReceiptOK(k)'
    OBVIOUS
  <2>1. ReceiptOK(k)
    BY DEF ObjectsOK, JobsOK
  <2>2. CASE k # j
    <3>1. receipts'[k] = receipts[k] /\ answers'[k] = answers[k] /\ request'[k] = request[k]
      BY <2>2, <1>5, <1>18, <1>24
    <3>2. receipts[k] # None =>
            \E i \in DOMAIN effects' : /\ effects'[i].job = k
                                       /\ effects'[i].after = receipts[k].result
      BY <2>1, <1>13 DEF ReceiptOK
    <3> QED
      BY <2>1, <3>1, <3>2 DEF ReceiptOK, Verified, ValidMetadata
  <2>3. CASE k = j
    <3>1. answers[j] = {}
      BY <2>1, <2>3, <1>5 DEF ReceiptOK
    <3>2. \A a \in answers'[j] : receipts'[j] # None /\ a = receipts'[j].result
      BY <3>1, <1>15, <1>16, <1>18, <1>24
    <3>3. \E i \in DOMAIN effects' : /\ effects'[i].job = j
                                     /\ effects'[i].after = receipts'[j].result
      BY <1>12, <1>13, <1>15, <1>18
    <3>4. Verified(request[j], receipts[j].result)'
      BY <1>5, <1>15, <1>18, <1>23 DEF Verified, ValidMetadata
    <3> QED
      BY <2>3, <3>2, <3>3, <3>4, <1>5, <1>15, <1>18 DEF ReceiptOK
  <2> QED
    BY <2>2, <2>3
<1>26. JobsOK'
  BY <1>5, <1>17, <1>18, <1>21, <1>24, <1>25 DEF JobsOK
<1> QED
  BY <1>14, <1>20, <1>26 DEF ObjectsOK

-----------------------------------------------------------------------------
(* References.                                                             *)

(* A finite set with one element.                                          *)
LEMMA OneElement ==
  ASSUME NEW S, IsFiniteSet(S), Cardinality(S) = 1
  PROVE  \E x : S = {x}
<1>1. ExistsBijection(1..1, S)
  BY FS_CardinalityType
<1>2. PICK f : f \in Bijection(1..1, S)
  BY <1>1 DEF ExistsBijection
<1>3. f \in [1..1 -> S] /\ \A y \in S : \E i \in 1..1 : f[i] = y
  BY <1>2 DEF Bijection, Surjection, Injection
<1>4. S = {f[1]}
  BY <1>3
<1> QED
  BY <1>4

(* The documents of one type in a finite store are finitely many.          *)
LEMMA FiniteDocs ==
  ASSUME NEW objects, IsFiniteSet(objects), NEW type
  PROVE  IsFiniteSet(DocsOf(objects, type))
<1> DEFINE S == OfType(objects, type)
           f == [o \in S |-> o.doc]
<1>1. IsFiniteSet(S)
  BY FS_Subset DEF OfType
<1>2. f \in Surjection(S, DocsOf(objects, type))
  BY DEF Surjection, DocsOf
<1> QED
  BY <1>1, <1>2, FS_Surjection

(* The one global scope is the root.                                       *)
LEMMA RootIsGlobal ==
  ASSUME NEW t, IsFiniteSet(t.scopes), NewTopologyAccepts(t),
         NEW s \in t.scopes, s.kind = "global"
  PROVE  RootId(t) = s.id
<1> DEFINE roots == {x \in t.scopes : x.kind = "global"}
<1>1. IsFiniteSet(roots) /\ Cardinality(roots) = 1
  BY FS_Subset DEF NewTopologyAccepts
<1>2. PICK r : roots = {r}
  BY <1>1, OneElement
<1>3. \A x \in t.scopes : x.kind = "global" => x = s
  BY <1>2
<1>4. (CHOOSE x \in t.scopes : x.kind = "global") = s
  BY <1>3
<1> QED
  BY <1>4 DEF RootId

(* Who may own an intent: the root, or a scope above it that holds the     *)
(* delegation.                                                             *)
LEMMA OwnerFacts ==
  ASSUME NEW t, NEW owner, NEW scope, NEW authority,
         MayOwn(t, owner, scope, authority)
  PROVE  /\ owner \in PathUp(t, scope)
         /\ \/ owner = RootId(t)
            \/ \E s \in t.scopes : s.id = owner /\ authority \in s.delegations
<1>1. owner \in PathUp(t, scope) /\ HasId(t.scopes, owner)
  BY DEF MayOwn, Contains
<1>2. ASSUME owner # RootId(t)
      PROVE  \E s \in t.scopes : s.id = owner /\ authority \in s.delegations
  <2>1. authority \in ById(t.scopes, owner).delegations
    BY <1>2 DEF MayOwn, IsDelegated
  <2>2. ById(t.scopes, owner) \in t.scopes /\ ById(t.scopes, owner).id = owner
    BY <1>1 DEF ById, HasId
  <2> QED
    BY <2>1, <2>2
<1> QED
  BY <1>1, <1>2

(* What a valid snapshot says about its references.                        *)
LEMMA ValidReferences ==
  ASSUME StoreOK
  PROVE  ReferencesHold
<1> DEFINE t == TopologyOf(store)
<1>1. /\ IsFiniteSet(store)
      /\ \A o \in store : o.type \in ObjectTypes
      /\ NewTopologyAccepts(t)
      /\ \A o \in store : ValidateTypedObject(t, o)
      /\ ValidateRoleAssignments(t, Assignments(store))
      /\ ValidateNetworkContracts(t, DocsOf(store, "network-zone"),
                                  DocsOf(store, "network-interface"),
                                  Assignments(store))
  BY DEF StoreOK, ValidateStoredObjects
<1>2. t.scopes = DocsOf(store, "scope") /\ IsFiniteSet(t.scopes)
  BY <1>1, FiniteDocs DEF TopologyOf
<1>3. ASSUME NEW o \in store, o.type # "actual-state"
      PROVE  /\ o.owner \in PathUp(t, o.scope) \cup PathUp(t, o.object)
             /\ \/ o.owner = RootId(t)
                \/ \E s \in t.scopes : /\ s.id = o.owner
                                       /\ AuthorityFor(o.type) \in s.delegations
  <2>0. ValidateTypedObject(t, o) /\ o.type \in ObjectTypes
    BY <1>1
  <2>1. CASE o.type = "scope"
    <3>1. ValidScopeObject(t, o) /\ o.doc \in t.scopes
      BY <2>0, <2>1, <1>2 DEF ValidateTypedObject, DocsOf, OfType
    <3>2. CASE o.doc.kind = "global"
      <4>1. o.owner = o.object /\ o.doc.id = o.object
        BY <3>1, <3>2 DEF ValidScopeObject
      <4>2. RootId(t) = o.doc.id
        BY <3>1, <3>2, <1>1, <1>2, RootIsGlobal
      <4>3. RootId(t) \in PathUp(t, o.doc.id)
        BY <3>1, <1>1 DEF NewTopologyAccepts, ValidPathToRoot
      <4> QED
        BY <4>1, <4>2, <4>3
    <3>3. CASE o.doc.kind # "global"
      <4>1. MayOwn(t, o.owner, o.object, "configuration")
        BY <3>1, <3>3 DEF ValidScopeObject
      <4>2. AuthorityFor(o.type) = "configuration"
        BY <2>1 DEF AuthorityFor
      <4> HIDE DEF t
      <4> QED
        BY <4>1, <4>2, OwnerFacts
    <3> QED
      BY <3>2, <3>3
  <2>2. CASE o.type \in {"site", "management-zone", "network-zone",
                         "network-interface"}
    <3>1. MayOwn(t, o.owner, o.scope, "configuration")
      BY <2>0, <2>2 DEF ValidateTypedObject, BoundDocument
    <3>2. AuthorityFor(o.type) = "configuration"
      BY <2>2 DEF AuthorityFor
    <3> HIDE DEF t
    <3> QED
      BY <3>1, <3>2, OwnerFacts
  <2>3. CASE o.type \in {"role-assignment", "desired-state"}
    <3>1. MayOwn(t, o.owner, o.scope, "desired-state")
      BY <2>0, <2>3 DEF ValidateTypedObject, ValidateRoleAssignment,
                        RoleAssignmentFrom, ValidateDesiredState
    <3>2. AuthorityFor(o.type) = "desired-state"
      BY <2>3 DEF AuthorityFor
    <3> HIDE DEF t
    <3> QED
      BY <3>1, <3>2, OwnerFacts
  <2> QED
    BY <2>0, <2>1, <2>2, <2>3, <1>3 DEF ObjectTypes
<1>4. ASSUME NEW i \in DocsOf(store, "network-interface")
      PROVE  \E a \in Assignments(store) : a.node = i.node /\ a.site = i.site
  <2>1. i.node \in NodesAtSite(Assignments(store), i.site)
    BY <1>1 DEF ValidateNetworkContracts, ValidateNetworkInterface
  <2> QED
    BY <2>1 DEF NodesAtSite
<1>5. ASSUME NEW a \in Assignments(store), NEW b \in Assignments(store),
             a.role \in ControllerRoles, b.role \in ControllerRoles,
             a.scope = b.scope
      PROVE  a.service = b.service
  BY <1>1, <1>5 DEF ValidateRoleAssignments
<1> QED
  BY <1>3, <1>4, <1>5 DEF ReferencesHold

-----------------------------------------------------------------------------
(* The inductive invariant holds.                                          *)
LEMMA ObjectsInvariant == Spec => []ObjectsOK
<1>1. ObjectsOK /\ [Next]_vars => ObjectsOK'
  <2> SUFFICES ASSUME ObjectsOK, [Next]_vars PROVE ObjectsOK'
    OBVIOUS
  <2>0. now \in Nat /\ DOMAIN answers = Jobs
    BY DEF ObjectsOK, JobsOK
  <2>1. CASE \E j \in Jobs, w \in Templates : Author(j, w)
    BY <2>1, AuthorOK
  <2>2. CASE \E j \in Jobs, f \in Observers, s \in {"converged", "progressing"} :
               Report(j, f, s)
    BY <2>2, AgentReportOK
  <2>3. CASE \E j \in Jobs : ApplyReplay(j)
    BY <2>3, ReplayOK
  <2>4. CASE \E j \in Jobs, at \in (now - Lag)..now, d \in BOOLEAN :
               at > 0 /\ ApplyMutation(j, at, d)
    <3>1. PICK j \in Jobs : \E at \in (now - Lag)..now, d \in BOOLEAN :
                              at > 0 /\ ApplyMutation(j, at, d)
      BY <2>4
    <3>2. PICK at \in (now - Lag)..now : \E d \in BOOLEAN :
                              at > 0 /\ ApplyMutation(j, at, d)
      BY <3>1
    <3>3. at \in Nat
      BY <3>2, <2>0, CoreObjectsAssumption
    <3> QED
      BY <3>2, <3>3, ApplyOK
  <2>5. CASE Tick
    <3>1. /\ now' = now + 1 /\ answers' = answers /\ store' = store
          /\ receipts' = receipts /\ request' = request /\ seen' = seen
          /\ effects' = effects
      BY <2>5 DEF Tick
    <3>2. now' \in Nat
      BY <3>1, <2>0
    <3> QED
      BY <3>1, <3>2, <2>0, AnsweredOK
  <2>6. CASE UNCHANGED vars
    <3>1. /\ now' = now /\ answers' = answers /\ store' = store
          /\ receipts' = receipts /\ request' = request /\ seen' = seen
          /\ effects' = effects
      BY <2>6 DEF vars
    <3> QED
      BY <3>1, <2>0, AnsweredOK
  <2> QED
    BY <2>1, <2>2, <2>3, <2>4, <2>5, <2>6 DEF Next
<1> QED
  BY <1>1, InitOK, PTL DEF Spec

(* However often a job is executed, the store changes at most once for it  *)
(* and every execution is given the object of that change, which the       *)
(* verifier accepts (CoreObjectRepository.Apply and its receipts).         *)
THEOREM JobsTakeEffectOnce == Spec => []EffectOnce
<1>1. ObjectsOK => EffectOnce
  <2> SUFFICES ASSUME ObjectsOK, NEW j \in Jobs
               PROVE  /\ Cardinality({i \in DOMAIN effects : effects[i].job = j}) <= 1
                      /\ \A a \in answers[j] :
                           /\ Verified(request[j], a)
                           /\ \E i \in DOMAIN effects : /\ effects[i].job = j
                                                        /\ effects[i].after = a
    BY DEF EffectOnce
  <2> DEFINE own == {i \in DOMAIN effects : effects[i].job = j}
  <2>1. Cardinality(own) <= 1
    <3>1. CASE own = {}
      BY <3>1, FS_EmptySet
    <3>2. CASE own # {}
      <4>1. PICK i \in own : TRUE
        BY <3>2
      <4>2. own = {i}
        BY <4>1 DEF ObjectsOK, EffectsOK
      <4>3. Cardinality({i}) = 1
        BY FS_Singleton
      <4> HIDE DEF own
      <4> QED
        BY <4>2, <4>3
    <3> QED
      BY <3>1, <3>2
  <2>2. \A a \in answers[j] :
          /\ Verified(request[j], a)
          /\ \E i \in DOMAIN effects : effects[i].job = j /\ effects[i].after = a
    BY DEF ObjectsOK, JobsOK, ReceiptOK
  <2> QED
    BY <2>1, <2>2
<1> QED
  BY <1>1, ObjectsInvariant, PTL

(* The object a job replaced was, in every field, the one its author had   *)
(* read (ObjectPrecondition.ValidateAgainst with server-allocated          *)
(* versions).                                                              *)
THEOREM NothingIsOverwrittenBlindly == Spec => []NoBlindOverwrite
<1>1. ObjectsOK => NoBlindOverwrite
  BY DEF ObjectsOK, EffectsOK
<1> QED
  BY <1>1, ObjectsInvariant, PTL

(* Every stored intent keeps its owner's authority, every interface its    *)
(* node and every scope its one control plane, whatever else is changed    *)
(* (ValidateStoredObjects on the whole candidate snapshot).                *)
THEOREM ReferencesAlwaysHold == Spec => []ReferencesHold
<1>1. ObjectsOK => ReferencesHold
  BY ValidReferences DEF ObjectsOK
<1> QED
  BY <1>1, ObjectsInvariant, PTL

(* A pair that counts as converged describes the intent of now: a          *)
(* generation stands for one content (DesiredChanged, IsConverged).        *)
THEOREM ConvergenceIsCurrent == Spec => []ConvergedIsCurrent
<1>1. ObjectsOK => ConvergedIsCurrent
  <2> SUFFICES ASSUME ObjectsOK,
                      NEW d \in OfType(store, "desired-state"),
                      NEW a \in OfType(store, "actual-state"),
                      IsConverged(TopologyOf(store), d, a)
               PROVE  a.doc.state = d.doc.spec
    BY DEF ConvergedIsCurrent
  <2>1. d \in store /\ a \in store /\ a.type = "actual-state"
    BY DEF OfType
  <2>2. ReportOK(a.doc)
    BY <2>1 DEF ObjectsOK, StoreOK, DocumentOK
  <2>3. PICK o \in store :
          /\ o.object = a.doc.desired
          /\ a.doc.observedGeneration = o.generation => a.doc.state = o.doc.spec
    BY <2>2 DEF ReportOK
  <2>4. a.doc.desired = d.object /\ a.doc.observedGeneration = d.generation
    BY DEF IsConverged, ValidateStatePair
  <2>5. o = d
    BY <2>1, <2>3, <2>4, ValidSnapshot DEF ObjectsOK, StoreOK
  <2> QED
    BY <2>3, <2>4, <2>5
<1> QED
  BY <1>1, ObjectsInvariant, PTL
=============================================================================
