------------------------- MODULE CatalogServiceProofs -------------------------
(***************************************************************************)
(* Safety of CatalogService for every catalog, every set of threads and     *)
(* requests, and every bound.                                               *)
(***************************************************************************)
EXTENDS SerialCatalog, FiniteSetTheorems, SequenceTheorems, WellFoundedInduction, TLAPS

-----------------------------------------------------------------------------
(* The operators the service is built from keep their types *)

\* What evaluate returns is a decision about exactly the request it was given.
LEMMA EvaluateType ==
  ASSUME NEW subject \in Subjects, NEW resource \in DatasetIds \cup {NoId},
         NEW action \in Ops, NEW purpose, NEW dataset \in Dataset \cup {Missing}
  PROVE  LET decision == evaluate(subject, resource, action, purpose, dataset)
         IN  /\ decision \in Decision
             /\ decision.subject = subject
             /\ decision.resource = resource
             /\ decision.action = action
<1> DEFINE decision == evaluate(subject, resource, action, purpose, dataset)
           allow == Allowed(subject, action, purpose, dataset)
           onDataset == allow /\ LooksAtDataset(action)
<1>1. ASSUME onDataset PROVE PiiColumns(dataset.schema) \in SUBSET ColumnNames
  <2>1. dataset # Missing
    BY <1>1 DEF Allowed, LooksAtDataset, DatasetRules
  <2>2. dataset.schema \in SUBSET Column
    BY <2>1 DEF Dataset, Schema
  <2> QED
    BY <2>2 DEF PiiColumns, Column
<1>2. (onDataset /\ RowFiltered(action, purpose, dataset)) \in BOOLEAN
  BY DEF RowFiltered
<1>3. (IF onDataset THEN PiiColumns(dataset.schema) ELSE {}) \in SUBSET ColumnNames
  BY <1>1
<1> QED
  BY <1>2, <1>3 DEF evaluate, Decision

\* Every mutation of a dataset yields a dataset.
LEMMA MutationsType ==
  ASSUME NEW dataset \in Dataset
  PROVE  /\ Published(dataset) \in Dataset
         /\ Deprecated(dataset) \in Dataset
         /\ \A patch \in PatchRequest : Patched(dataset, patch) \in Dataset
<1>1. RoundTrip(dataset.schema) \in Schema
  BY DEF RoundTrip, Schema, Column, Dataset
<1>0. /\ bump_version(dataset.version) \in Nat
      /\ bump_version(dataset.schema_version) \in Nat
  BY DEF bump_version, Dataset
<1>2. Published(dataset) \in Dataset
  BY <1>0, <1>1 DEF Published, Dataset, Statuses
<1>3. Deprecated(dataset) \in Dataset
  BY <1>0, <1>1 DEF Deprecated, Dataset, Statuses
<1>4. ASSUME NEW patch \in PatchRequest
      PROVE  Patched(dataset, patch) \in Dataset
  <2>1. Updated(dataset.sensitivity, patch.sensitivity) \in Sensitivities
    BY DEF Updated, PatchRequest, Dataset
  <2>2. Updated(RoundTrip(dataset.schema), patch.schema) \in Schema
    BY <1>1 DEF Updated, PatchRequest
  <2>3. Updated(dataset.described, patch.described) \in BOOLEAN
    BY DEF Updated, PatchRequest, Dataset
  <2> QED
    BY <1>0, <2>1, <2>2, <2>3 DEF Patched, Dataset
<1> QED
  BY <1>2, <1>3, <1>4

\* A registration yields a dataset.
LEMMA RegisteredType ==
  ASSUME NEW request \in CreateRequest
  PROVE  Registered(request) \in Dataset
BY DEF Registered, CreateRequest, Dataset, Statuses

\* A snapshot of a dataset is a snapshot.
LEMMA SnapshotType ==
  ASSUME NEW dataset \in Dataset
  PROVE  make_schema_snapshot(dataset) \in Snapshot
BY DEF make_schema_snapshot, Snapshot, Dataset

\* The id a registration settles on, automatic or not, is one of the ids.
LEMMA RegisterIdType ==
  ASSUME NEW request \in CreateRequest
  PROVE  RegisterId(request) \in DatasetIds
<1>1. Catalog \in SUBSET DatasetIds
  BY DEF Catalog
<1>2. IsFiniteSet(DatasetIds) /\ AutoId \in [1..(Cardinality(DatasetIds) + 1) -> DatasetIds]
  BY IdsAssumption
<1>3. IsFiniteSet(Catalog) /\ Cardinality(Catalog) <= Cardinality(DatasetIds)
  BY <1>1, <1>2, FS_Subset
<1>4. Cardinality(Catalog) \in Nat /\ Cardinality(DatasetIds) \in Nat
  BY <1>2, <1>3, FS_CardinalityType
<1>5. Cardinality(Catalog) + 1 \in 1..(Cardinality(DatasetIds) + 1)
  BY <1>3, <1>4
<1> QED
  BY <1>2, <1>5 DEF RegisterId, CreateRequest

-----------------------------------------------------------------------------
(* Threads *)

\* A thread that answers is idle and well typed.
LEMMA AnsweredType ==
  ASSUME NEW th \in Thread, NEW code \in {"ok", "400", "403", "404", "500"}
  PROVE  /\ Answered(th, code) \in Thread
         /\ RequestInOrder(Answered(th, code))
         /\ Answered(th, code).stage = "idle"
         /\ Answered(th, code).reply = code
         /\ Answered(th, code).decision = th.decision
         /\ Answered(th, code).actor = th.actor
         /\ Answered(th, code).op = th.op
         /\ Answered(th, code).resource = th.resource
BY DEF Answered, Thread, Stages, RequestInOrder

\* A thread that has built its copy holds a dataset and the id it goes to.
LEMMA PreparedType ==
  ASSUME NEW th \in Thread, th.stage = "read", RequestInOrder(th),
         NEW id \in DatasetIds, NEW copy \in Dataset
  PROVE  /\ Prepared(th, id, copy) \in Thread
         /\ RequestInOrder(Prepared(th, id, copy))
         /\ Prepared(th, id, copy).stage = "commit"
         /\ Prepared(th, id, copy).reply = "none"
         /\ Prepared(th, id, copy).decision = th.decision
         /\ Prepared(th, id, copy).actor = th.actor
         /\ Prepared(th, id, copy).op = th.op
         /\ Prepared(th, id, copy).resource = id
BY DEF Prepared, Thread, Stages, RequestInOrder

\* A thread without a request.
LEMMA IdleType ==
  /\ IdleThread \in Thread
  /\ RequestInOrder(IdleThread)
  /\ \A code \in {"400", "500"} : /\ [IdleThread EXCEPT !.reply = code] \in Thread
                                  /\ RequestInOrder([IdleThread EXCEPT !.reply = code])
<1>1. (CHOOSE s \in Subjects : TRUE) \in Subjects
  BY ServiceAssumption
<1> QED
  BY <1>1 DEF IdleThread, Thread, Stages, Ops, RequestInOrder

\* The module-level code builds a well-typed catalog.
LEMMA SeedType ==
  /\ SeedData \in [DatasetIds -> Dataset \cup {Missing}]
  /\ SeedHistory \in [DatasetIds -> Seq(Snapshot)]
<1>1. SeedData \in [DatasetIds -> Dataset \cup {Missing}]
  BY ServiceAssumption DEF SeedData
<1>2. ASSUME NEW d \in DOMAIN Seed
      PROVE  <<make_schema_snapshot(Seed[d])>> \in Seq(Snapshot)
  BY ServiceAssumption, SnapshotType
<1> QED
  BY <1>1, <1>2 DEF SeedHistory

-----------------------------------------------------------------------------
(* Types are invariant *)

\* The catalog as it is seeded satisfies the type invariant.
LEMMA TypeInit == Init => TypeInv
BY SeedType, IdleType DEF Init, TypeInv, TypeOK

\* Taking a decision leaves a well-typed log and a thread that is either refused
\* or carries what its next step reads.
LEMMA TypeEvaluate ==
  ASSUME TypeInv, NEW t \in Threads, NEW op \in Ops, NEW actor \in Subjects,
         NEW id \in DatasetIds \cup {NoId},
         NEW payload \in CreateRequests \cup PatchRequests \cup {NoPayload},
         op = "create" => payload \in CreateRequests /\ id = payload.id,
         op = "patch" => payload \in PatchRequests,
         op # "create" => id \in DatasetIds,
         Evaluate(t, op, actor, id, payload)
  PROVE  TypeInv'
<1> DEFINE decision == evaluate(actor, id, op, "catalog", get_dataset(id))
           th == Request(op, actor, id, payload, Len(decisions) + 1, decision.effect)
<1>1. get_dataset(id) \in Dataset \cup {Missing}
  BY DEF get_dataset, TypeInv, TypeOK
<1>2. decision \in Decision
  BY <1>1, EvaluateType
<1>3. decisions' \in Seq(Decision)
  BY <1>2 DEF Evaluate, record_policy_decision, TypeInv, TypeOK
<1>4. Len(decisions) + 1 \in Nat
  BY DEF TypeInv, TypeOK
<1>5. th \in Thread
  BY <1>4 DEF Request, Thread, Stages, Ops
<1>6. RequestInOrder(th)
  BY DEF Request, RequestInOrder
<1>7. thread' = [thread EXCEPT ![t] = th]
  BY DEF Evaluate
<1> QED
  BY <1>3, <1>5, <1>6, <1>7 DEF Evaluate, TypeInv, TypeOK

\* A step that only moves thread t to a well-typed record keeps the types.
LEMMA TypeThreadStep ==
  ASSUME TypeInv, NEW t \in Threads, NEW th \in Thread, RequestInOrder(th),
         thread' = [thread EXCEPT ![t] = th],
         data' \in [DatasetIds -> Dataset \cup {Missing}],
         history' \in [DatasetIds -> Seq(Snapshot)],
         decisions' \in Seq(Decision), audit' \in Seq(Event)
  PROVE  TypeInv'
BY DEF TypeInv, TypeOK

\* The read half of a request: it answers with an error, or goes on under the
\* same decision; only a create without an id changes its target.
ReadOutcome(t, th) ==
  /\ thread[t].stage = "read"
  /\ thread' = [thread EXCEPT ![t] = th]
  /\ UNCHANGED <<data, history, decisions, audit>>
  /\ th \in Thread
  /\ RequestInOrder(th)
  /\ th.reply # "ok"
  /\ th.stage # "idle" =>
       /\ th.decision = thread[t].decision
       /\ th.actor = thread[t].actor
       /\ th.op = thread[t].op
       /\ \/ th.resource = thread[t].resource
          \/ th.op = "create" /\ thread[t].resource = NoId

\* A thread that gives up in its read step keeps the invariant.
LEMMA ReadAnswers ==
  ASSUME TypeInv, NEW t \in Threads, thread[t].stage = "read",
         NEW code \in {"400", "403", "404", "500"},
         thread' = [thread EXCEPT ![t] = Answered(thread[t], code)],
         UNCHANGED <<data, history, decisions, audit>>
  PROVE  \E th : ReadOutcome(t, th)
<1>1. thread[t] \in Thread
  BY DEF TypeInv, TypeOK
<1>2. ReadOutcome(t, Answered(thread[t], code))
  BY <1>1, AnsweredType DEF ReadOutcome
<1> QED
  BY <1>2

\* A thread that has built a copy keeps the invariant.
LEMMA ReadPrepares ==
  ASSUME TypeInv, NEW t \in Threads, thread[t].stage = "read",
         NEW id \in DatasetIds, NEW copy \in Dataset,
         \/ id = thread[t].resource
         \/ thread[t].op = "create" /\ thread[t].resource = NoId,
         thread' = [thread EXCEPT ![t] = Prepared(thread[t], id, copy)],
         UNCHANGED <<data, history, decisions, audit>>
  PROVE  \E th : ReadOutcome(t, th)
<1>1. thread[t] \in Thread /\ RequestInOrder(thread[t])
  BY DEF TypeInv, TypeOK
<1>2. ReadOutcome(t, Prepared(thread[t], id, copy))
  BY <1>1, PreparedType DEF ReadOutcome
<1> QED
  BY <1>2

\* Each read step answers, prepares a copy, or marks a repeated publish; nothing
\* else of the thread moves.
LEMMA ReadStep ==
  ASSUME TypeInv, NEW t \in Threads,
         Register(t) \/ Patch(t) \/ Publish(t) \/ Deprecate(t)
  PROVE  \E th : ReadOutcome(t, th)
<1> DEFINE th == thread[t]
           dataset == get_dataset(th.resource)
<1>0. th \in Thread /\ RequestInOrder(th) /\ th.stage = "read"
  BY DEF TypeInv, TypeOK, Register, Patch, Publish, Deprecate, At
<1>1. UNCHANGED <<data, history, decisions, audit>>
  BY DEF Register, Patch, Publish, Deprecate
<1>2. ASSUME th.op # "create" PROVE th.resource \in DatasetIds /\ dataset \in Dataset \cup {Missing}
  BY <1>0, <1>2 DEF RequestInOrder, get_dataset, TypeInv, TypeOK
<1>3. CASE Register(t)
  <2> DEFINE id == RegisterId(th.payload)
  <2>1. th.op = "create" /\ th.resource = th.payload.id /\ th.payload \in CreateRequest
    BY <1>0, <1>3, ServiceAssumption DEF Register, At, RequestInOrder
  <2>2. id \in DatasetIds /\ Registered(th.payload) \in Dataset
    BY <2>1, RegisterIdType, RegisteredType
  <2>3. id = th.resource \/ th.resource = NoId
    BY <2>1 DEF RegisterId
  <2>4. CASE IdTaken(id)
    <3>1. thread' = [thread EXCEPT ![t] = Answered(th, "500")]
      BY <1>3, <2>4 DEF Register
    <3> QED
      BY <1>0, <1>1, <3>1, ReadAnswers
  <2>5. CASE ~ IdTaken(id)
    <3>1. thread' = [thread EXCEPT ![t] = Prepared(th, id, Registered(th.payload))]
      BY <1>3, <2>5 DEF Register
    <3> QED
      BY <1>0, <1>1, <2>1, <2>2, <2>3, <3>1, ReadPrepares
  <2> QED
    BY <2>4, <2>5
<1>4. CASE Patch(t)
  <2>1. th.op = "patch" /\ th.payload \in PatchRequest
    BY <1>0, <1>4, ServiceAssumption DEF Patch, At, RequestInOrder
  <2>2. CASE dataset = Missing
    <3>1. thread' = [thread EXCEPT ![t] = Answered(th, "404")]
      BY <1>4, <2>2 DEF Patch
    <3> QED
      BY <1>0, <1>1, <3>1, ReadAnswers
  <2>3. CASE dataset # Missing /\ ~ th.payload.well_formed
    <3>1. thread' = [thread EXCEPT ![t] = Answered(th, "400")]
      BY <1>4, <2>3 DEF Patch
    <3> QED
      BY <1>0, <1>1, <3>1, ReadAnswers
  <2>4. CASE dataset # Missing /\ th.payload.well_formed
    <3>1. thread' = [thread EXCEPT ![t] = Prepared(th, th.resource, Patched(dataset, th.payload))]
      BY <1>4, <2>4 DEF Patch
    <3>2. Patched(dataset, th.payload) \in Dataset
      BY <1>2, <2>1, <2>4, MutationsType
    <3> QED
      BY <1>0, <1>1, <1>2, <2>1, <3>1, <3>2, ReadPrepares
  <2> QED
    BY <2>2, <2>3, <2>4
<1>5. CASE Publish(t)
  <2>1. th.op = "publish"
    BY <1>5 DEF Publish, At
  <2>2. CASE dataset = Missing
    <3>1. thread' = [thread EXCEPT ![t] = Answered(th, "404")]
      BY <1>5, <2>2 DEF Publish
    <3> QED
      BY <1>0, <1>1, <3>1, ReadAnswers
  <2>3. CASE dataset # Missing /\ ~ MayPublish(dataset)
    <3>1. thread' = [thread EXCEPT ![t] = Answered(th, "400")]
      BY <1>5, <2>3 DEF Publish
    <3> QED
      BY <1>0, <1>1, <3>1, ReadAnswers
  <2>4. CASE dataset # Missing /\ MayPublish(dataset) /\ dataset.status = "published"
    <3>1. thread' = [thread EXCEPT ![t] = [th EXCEPT !.stage = "noop"]]
      BY <1>5, <2>4 DEF Publish
    <3>2. ReadOutcome(t, [th EXCEPT !.stage = "noop"])
      BY <1>0, <1>1, <1>2, <2>1, <3>1 DEF ReadOutcome, Thread, Stages, RequestInOrder
    <3> QED
      BY <3>2
  <2>5. CASE dataset # Missing /\ MayPublish(dataset) /\ dataset.status # "published"
    <3>1. thread' = [thread EXCEPT ![t] = Prepared(th, th.resource, Published(dataset))]
      BY <1>5, <2>5 DEF Publish
    <3>2. Published(dataset) \in Dataset
      BY <1>2, <2>1, <2>5, MutationsType
    <3> QED
      BY <1>0, <1>1, <1>2, <2>1, <3>1, <3>2, ReadPrepares
  <2> QED
    BY <2>2, <2>3, <2>4, <2>5
<1>6. CASE Deprecate(t)
  <2>1. th.op = "deprecate"
    BY <1>6 DEF Deprecate, At
  <2>2. CASE dataset = Missing
    <3>1. thread' = [thread EXCEPT ![t] = Answered(th, "404")]
      BY <1>6, <2>2 DEF Deprecate
    <3> QED
      BY <1>0, <1>1, <3>1, ReadAnswers
  <2>3. CASE dataset # Missing
    <3>1. thread' = [thread EXCEPT ![t] = Prepared(th, th.resource, Deprecated(dataset))]
      BY <1>6, <2>3 DEF Deprecate
    <3>2. Deprecated(dataset) \in Dataset
      BY <1>2, <2>1, <2>3, MutationsType
    <3> QED
      BY <1>0, <1>1, <1>2, <2>1, <3>1, <3>2, ReadPrepares
  <2> QED
    BY <2>2, <2>3
<1> QED
  BY <1>3, <1>4, <1>5, <1>6

\* Every step of the service keeps the type invariant.
LEMMA TypeNext == TypeInv /\ [Next]_vars => TypeInv'
<1> SUFFICES ASSUME TypeInv, [Next]_vars PROVE TypeInv'
  OBVIOUS
<1> USE DEF TypeInv, TypeOK
<1>1. ASSUME NEW t \in Threads, EvaluateCreate(t) PROVE TypeInv'
  <2>1. PICK actor \in Subjects, request \in CreateRequests :
               Evaluate(t, "create", actor, request.id, request)
    BY <1>1 DEF EvaluateCreate
  <2>2. request.id \in DatasetIds \cup {NoId}
    BY ServiceAssumption DEF CreateRequest
  <2> QED
    BY <2>1, <2>2, TypeEvaluate DEF Ops
<1>2. ASSUME NEW t \in Threads, EvaluatePatch(t) PROVE TypeInv'
  <2>1. PICK actor \in Subjects, id \in DatasetIds, request \in PatchRequests :
               Evaluate(t, "patch", actor, id, request)
    BY <1>2 DEF EvaluatePatch
  <2> QED
    BY <2>1, TypeEvaluate DEF Ops
<1>3. ASSUME NEW t \in Threads, EvaluatePublish(t) PROVE TypeInv'
  <2>1. PICK actor \in Subjects, id \in DatasetIds :
               Evaluate(t, "publish", actor, id, NoPayload)
    BY <1>3 DEF EvaluatePublish
  <2> QED
    BY <2>1, TypeEvaluate DEF Ops
<1>4. ASSUME NEW t \in Threads, EvaluateDeprecate(t) PROVE TypeInv'
  <2>1. PICK actor \in Subjects, id \in DatasetIds :
               Evaluate(t, "deprecate", actor, id, NoPayload)
    BY <1>4 DEF EvaluateDeprecate
  <2> QED
    BY <2>1, TypeEvaluate DEF Ops
<1>5. ASSUME NEW t \in Threads, EvaluateFails(t) \/ CreateMalformed(t) PROVE TypeInv'
  BY <1>5, IdleType, TypeThreadStep DEF EvaluateFails, CreateMalformed
<1>6. ASSUME NEW t \in Threads, Register(t) \/ Patch(t) \/ Publish(t) \/ Deprecate(t)
      PROVE  TypeInv'
  <2>1. PICK th : ReadOutcome(t, th)
    BY <1>6, ReadStep
  <2> QED
    BY <2>1, TypeThreadStep DEF ReadOutcome
<1>7. ASSUME NEW t \in Threads, Commit(t) PROVE TypeInv'
  <2> DEFINE th == [thread[t] EXCEPT !.stage = "snapshot"]
  <2>1. thread[t] \in Thread /\ RequestInOrder(thread[t]) /\ thread[t].stage = "commit"
    BY <1>7 DEF Commit
  <2>2. th \in Thread /\ RequestInOrder(th)
    BY <2>1 DEF Thread, Stages, RequestInOrder
  <2>3. data' \in [DatasetIds -> Dataset \cup {Missing}]
    BY <1>7, <2>1 DEF Commit, RequestInOrder
  <2>4. thread' = [thread EXCEPT ![t] = th]
    BY <1>7 DEF Commit
  <2> QED
    BY <1>7, <2>2, <2>3, <2>4, TypeThreadStep DEF Commit
<1>8. ASSUME NEW t \in Threads, TakeSnapshot(t) PROVE TypeInv'
  <2> DEFINE th == [thread[t] EXCEPT !.stage = "audit", !.copy = Missing]
  <2>1. thread[t] \in Thread /\ RequestInOrder(thread[t]) /\ thread[t].stage = "snapshot"
    BY <1>8 DEF TakeSnapshot
  <2>2. th \in Thread /\ RequestInOrder(th)
    BY <2>1 DEF Thread, Stages, RequestInOrder
  <2>3. make_schema_snapshot(thread[t].copy) \in Snapshot
    BY <2>1, SnapshotType DEF RequestInOrder
  <2>4. history' \in [DatasetIds -> Seq(Snapshot)]
    BY <1>8, <2>1, <2>3 DEF TakeSnapshot, RequestInOrder
  <2>5. thread' = [thread EXCEPT ![t] = th]
    BY <1>8 DEF TakeSnapshot
  <2> QED
    BY <1>8, <2>2, <2>4, <2>5, TypeThreadStep DEF TakeSnapshot
<1>9. ASSUME NEW t \in Threads, Audit(t) PROVE TypeInv'
  <2>1. thread[t] \in Thread /\ RequestInOrder(thread[t]) /\ AtAudit(t)
    BY <1>9 DEF Audit
  <2>2. AuditEventOf(thread[t]) \in Event
    BY <2>1 DEF AuditEventOf, Event, Thread, RequestInOrder, AtAudit
  <2>3. audit' \in Seq(Event)
    BY <1>9, <2>2 DEF Audit, record_audit_event
  <2> QED
    BY <1>9, <2>1, <2>3, AnsweredType, TypeThreadStep DEF Audit
<1>10. ASSUME NEW t \in Threads, AuditFails(t) PROVE TypeInv'
  <2> DEFINE code == IF thread[t].op = "patch" THEN "400" ELSE "500"
  <2>1. thread[t] \in Thread /\ code \in {"ok", "400", "403", "404", "500"}
    OBVIOUS
  <2>2. thread' = [thread EXCEPT ![t] = Answered(thread[t], code)]
    BY <1>10 DEF AuditFails
  <2> QED
    BY <1>10, <2>1, <2>2, AnsweredType, TypeThreadStep DEF AuditFails
<1>11. CASE Restart
  BY <1>11, SeedType, IdleType DEF Restart, Reopened
<1>12. CASE UNCHANGED vars
  BY <1>12 DEF vars, RequestInOrder
<1> QED
  BY <1>1, <1>2, <1>3, <1>4, <1>5, <1>6, <1>7, <1>8, <1>9, <1>10, <1>11, <1>12 DEF Next, Arrive, Serve

\* Type correctness of the whole service.
THEOREM TypeCorrect == Spec => []TypeOK
<1>1. Spec => []TypeInv
  BY TypeInit, TypeNext, PTL DEF Spec
<1>2. TypeInv => TypeOK
  BY DEF TypeInv
<1> QED
  BY <1>1, <1>2, PTL

-----------------------------------------------------------------------------
(* Evidence: the audit log against the decision log *)

\* A decision once recorded licenses the same thing for ever.
LEMMA LicensesKept ==
  ASSUME TypeInv, NEW decision \in Decision, decisions' = Append(decisions, decision),
         NEW k, NEW actor, NEW action, NEW resource, Licenses(decisions, k, actor, action, resource)
  PROVE  Licenses(decisions', k, actor, action, resource)
<1>1. /\ Len(decisions') = Len(decisions) + 1
      /\ \A i \in 1..Len(decisions) : decisions'[i] = decisions[i]
      /\ decisions' \in Seq(Decision)
  BY AppendProperties DEF TypeInv, TypeOK
<1>2. k \in 1..Len(decisions)
  BY DEF Licenses, TypeInv, TypeOK
<1>3. DOMAIN decisions' = 1..Len(decisions')
  BY <1>1
<1>4. k \in DOMAIN decisions' /\ decisions'[k] = decisions[k]
  BY <1>1, <1>2, <1>3 DEF TypeInv, TypeOK
<1> QED
  BY <1>4 DEF Licenses

\* With both logs unchanged, a thread may go idle without success, or move on
\* under the decision it holds.
LEMMA EvidenceThreadStep ==
  ASSUME TypeInv, EvidenceInv, NEW t \in Threads, NEW th \in Thread,
         thread' = [thread EXCEPT ![t] = th], UNCHANGED <<decisions, audit>>,
         th.reply # "ok",
         th.stage # "idle" =>
           /\ thread[t].stage # "idle"
           /\ th.decision = thread[t].decision
           /\ Licenses(decisions, th.decision, th.actor, th.op, th.resource)
  PROVE  EvidenceInv'
<1>1. thread'[t] = th /\ \A u \in Threads \ {t} : thread'[u] = thread[u]
  BY DEF TypeInv, TypeOK
<1>2. \A k, actor, action, resource :
         Licenses(decisions', k, actor, action, resource) = Licenses(decisions, k, actor, action, resource)
  BY DEF Licenses
<1>3. RequestsLicensed'
  BY <1>1, <1>2 DEF RequestsLicensed, EvidenceInv
<1>4. DecisionsUnspent'
  BY <1>1 DEF DecisionsUnspent, EvidenceInv
<1>5. AuditTraceable'
  BY <1>2 DEF AuditTraceable, EvidenceInv
<1>6. SuccessIsAudited'
  BY <1>1 DEF SuccessIsAudited, EvidenceInv
<1> QED
  BY <1>3, <1>4, <1>5, <1>6 DEF EvidenceInv

\* Recording a decision.
LEMMA EvidenceEvaluate ==
  ASSUME TypeInv, EvidenceInv, NEW t \in Threads, NEW op \in Ops, NEW actor \in Subjects,
         NEW id \in DatasetIds \cup {NoId}, NEW payload,
         Evaluate(t, op, actor, id, payload)
  PROVE  EvidenceInv'
<1> DEFINE decision == evaluate(actor, id, op, "catalog", get_dataset(id))
           k == Len(decisions) + 1
           th == Request(op, actor, id, payload, k, decision.effect)
<1>1. get_dataset(id) \in Dataset \cup {Missing}
  BY DEF get_dataset, TypeInv, TypeOK
<1>2. /\ decision \in Decision
      /\ decision.subject = actor
      /\ decision.resource = id
      /\ decision.action = op
  BY <1>1, EvaluateType
<1>3. decisions' = Append(decisions, decision) /\ audit' = audit /\ decisions \in Seq(Decision)
  BY DEF Evaluate, record_policy_decision, TypeInv, TypeOK
<1>4. /\ decisions' \in Seq(Decision)
      /\ Len(decisions') = k
      /\ decisions'[k] = decision
  BY <1>2, <1>3, AppendProperties
<1>5. k \in DOMAIN decisions'
  <2>1. k \in Nat /\ k >= 1
    BY <1>3
  <2>2. DOMAIN decisions' = 1..k
    BY <1>4
  <2> QED
    BY <2>1, <2>2
<1>6. thread'[t] = th /\ \A u \in Threads \ {t} : thread'[u] = thread[u]
  BY DEF Evaluate, TypeInv, TypeOK
<1>7. th.stage # "idle" => Licenses(decisions', k, actor, op, id)
  BY <1>2, <1>4, <1>5 DEF Licenses, Request
<1>8. /\ th.decision = k
      /\ th.actor = actor
      /\ th.op = op
      /\ th.resource = id
      /\ th.reply # "ok"
  BY DEF Request
<1>9. \A j, a, o, r : Licenses(decisions, j, a, o, r) => Licenses(decisions', j, a, o, r) /\ j # k
  <2> SUFFICES ASSUME NEW j, NEW a, NEW o, NEW r, Licenses(decisions, j, a, o, r)
               PROVE  Licenses(decisions', j, a, o, r) /\ j # k
    OBVIOUS
  <2>1. Licenses(decisions', j, a, o, r)
    BY <1>2, <1>3, LicensesKept
  <2>2. j \in 1..Len(decisions)
    BY <1>3 DEF Licenses
  <2>3. j # k
    BY <1>3, <2>2
  <2> QED
    BY <2>1, <2>3
<1>10. RequestsLicensed'
  BY <1>6, <1>7, <1>8, <1>9 DEF RequestsLicensed, EvidenceInv
<1>11. DecisionsUnspent'
  <2>1. \A i \in DOMAIN audit : audit[i].decision_id # k
    BY <1>9 DEF AuditTraceable, EvidenceInv
  <2>2. \A u \in Threads : thread[u].stage # "idle" => thread[u].decision # k
    BY <1>9 DEF RequestsLicensed, EvidenceInv
  <2> QED
    BY <1>3, <1>6, <1>8, <2>1, <2>2 DEF DecisionsUnspent, EvidenceInv
<1>12. AuditTraceable'
  BY <1>3, <1>9 DEF AuditTraceable, EvidenceInv
<1>13. SuccessIsAudited'
  BY <1>3, <1>6, <1>8 DEF SuccessIsAudited, EvidenceInv
<1> QED
  BY <1>10, <1>11, <1>12, <1>13 DEF EvidenceInv

\* Appending the audit event of a change.
LEMMA EvidenceAudit ==
  ASSUME TypeInv, EvidenceInv, NEW t \in Threads, Audit(t)
  PROVE  EvidenceInv'
<1> DEFINE old == thread[t]
           th == Answered(old, "ok")
           event == AuditEventOf(old)
           n == Len(audit) + 1
<1>1. old \in Thread /\ RequestInOrder(old) /\ old.stage \in {"audit", "noop"}
  BY DEF Audit, AtAudit, TypeInv, TypeOK
<1>2. event \in Event
  BY <1>1 DEF AuditEventOf, Event, Thread, RequestInOrder
<1>3. /\ event.decision_id = old.decision
      /\ event.actor = old.actor
      /\ event.action = old.op
      /\ event.resource = old.resource
  BY DEF AuditEventOf
<1>4. audit \in Seq(Event) /\ audit' = Append(audit, event) /\ decisions' = decisions
  BY DEF Audit, record_audit_event, TypeInv, TypeOK
<1>5. /\ audit' \in Seq(Event)
      /\ Len(audit') = n
      /\ \A i \in 1..Len(audit) : audit'[i] = audit[i]
      /\ audit'[n] = event
  BY <1>2, <1>4, AppendProperties
<1>6. DOMAIN audit = 1..Len(audit) /\ DOMAIN audit' = 1..n /\ Len(audit) \in Nat
  BY <1>4, <1>5
<1>7. \A i \in DOMAIN audit' : (i \in DOMAIN audit /\ audit'[i] = audit[i]) \/ (i = n /\ audit'[i] = event)
  BY <1>5, <1>6
<1>8. n \in DOMAIN audit' /\ DOMAIN audit \subseteq DOMAIN audit'
  BY <1>6
<1>9. thread'[t] = th /\ \A u \in Threads \ {t} : thread'[u] = thread[u]
  BY DEF Audit, TypeInv, TypeOK
<1>10. /\ th.stage = "idle"
       /\ th.decision = old.decision
       /\ th.actor = old.actor
       /\ th.op = old.op
       /\ th.resource = old.resource
  BY <1>1, AnsweredType
<1>11. \A k, actor, action, resource :
          Licenses(decisions', k, actor, action, resource) = Licenses(decisions, k, actor, action, resource)
  BY <1>4 DEF Licenses
<1>12. RequestsLicensed'
  BY <1>9, <1>10, <1>11 DEF RequestsLicensed, EvidenceInv
<1>13. DecisionsUnspent'
  <2>1. \A u \in Threads \ {t} : thread[u].stage # "idle" => thread[u].decision # event.decision_id
    BY <1>1, <1>3 DEF DecisionsUnspent, EvidenceInv
  <2> QED
    BY <1>7, <1>9, <1>10, <2>1 DEF DecisionsUnspent, EvidenceInv
<1>14. AuditTraceable'
  <2>1. Licenses(decisions, event.decision_id, event.actor, event.action, event.resource)
    BY <1>1, <1>3 DEF RequestsLicensed, EvidenceInv
  <2>2. \A i \in DOMAIN audit : audit[i].decision_id # event.decision_id
    BY <1>1, <1>3 DEF DecisionsUnspent, EvidenceInv
  <2>3. \A i \in DOMAIN audit' :
           Licenses(decisions', audit'[i].decision_id, audit'[i].actor, audit'[i].action, audit'[i].resource)
    BY <1>7, <1>11, <2>1 DEF AuditTraceable, EvidenceInv
  <2>4. \A i, j \in DOMAIN audit' : audit'[i].decision_id = audit'[j].decision_id => i = j
    BY <1>7, <2>2 DEF AuditTraceable, EvidenceInv
  <2> QED
    BY <2>3, <2>4 DEF AuditTraceable
<1>15. SuccessIsAudited'
  <2> SUFFICES ASSUME NEW u \in Threads, thread'[u].reply = "ok"
               PROVE  \E i \in DOMAIN audit' :
                         /\ audit'[i].decision_id = thread'[u].decision
                         /\ audit'[i].actor = thread'[u].actor
                         /\ audit'[i].action = thread'[u].op
                         /\ audit'[i].resource = thread'[u].resource
    BY DEF SuccessIsAudited
  <2>1. CASE u = t
    BY <1>3, <1>5, <1>8, <1>9, <1>10, <2>1
  <2>2. CASE u # t
    <3>1. PICK i \in DOMAIN audit :
                 /\ audit[i].decision_id = thread[u].decision
                 /\ audit[i].actor = thread[u].actor
                 /\ audit[i].action = thread[u].op
                 /\ audit[i].resource = thread[u].resource
      BY <1>9, <2>2 DEF SuccessIsAudited, EvidenceInv
    <3>2. i \in DOMAIN audit' /\ audit'[i] = audit[i]
      BY <1>5, <1>6, <1>8
    <3> QED
      BY <1>9, <2>2, <3>1, <3>2
  <2> QED
    BY <2>1, <2>2
<1> QED
  BY <1>12, <1>13, <1>14, <1>15 DEF EvidenceInv

\* The empty logs satisfy the evidence invariant.
LEMMA EvidenceInit == Init => EvidenceInv
<1> SUFFICES ASSUME Init PROVE EvidenceInv
  OBVIOUS
<1>1. \A t \in Threads : thread[t].stage = "idle" /\ thread[t].reply = "none"
  BY DEF Init, IdleThread
<1>2. DOMAIN audit = {}
  BY DEF Init
<1> QED
  BY <1>1, <1>2 DEF EvidenceInv, RequestsLicensed, DecisionsUnspent, AuditTraceable, SuccessIsAudited

\* Every step of the service keeps the evidence invariant.
LEMMA EvidenceNext == TypeInv /\ EvidenceInv /\ [Next]_vars => EvidenceInv'
<1> SUFFICES ASSUME TypeInv, EvidenceInv, [Next]_vars PROVE EvidenceInv'
  OBVIOUS
<1>1. ASSUME NEW t \in Threads, EvaluateCreate(t) PROVE EvidenceInv'
  <2>1. PICK actor \in Subjects, request \in CreateRequests :
               Evaluate(t, "create", actor, request.id, request)
    BY <1>1 DEF EvaluateCreate
  <2>2. request.id \in DatasetIds \cup {NoId}
    BY ServiceAssumption DEF CreateRequest
  <2> QED
    BY <2>1, <2>2, EvidenceEvaluate DEF Ops
<1>2. ASSUME NEW t \in Threads, EvaluatePatch(t) PROVE EvidenceInv'
  BY <1>2, EvidenceEvaluate DEF EvaluatePatch, Ops
<1>3. ASSUME NEW t \in Threads, EvaluatePublish(t) PROVE EvidenceInv'
  BY <1>3, EvidenceEvaluate DEF EvaluatePublish, Ops
<1>4. ASSUME NEW t \in Threads, EvaluateDeprecate(t) PROVE EvidenceInv'
  BY <1>4, EvidenceEvaluate DEF EvaluateDeprecate, Ops
<1>5. ASSUME NEW t \in Threads, EvaluateFails(t) \/ CreateMalformed(t) PROVE EvidenceInv'
  <2>1. PICK code \in {"400", "500"} : /\ thread' = [thread EXCEPT ![t] = [IdleThread EXCEPT !.reply = code]]
                                       /\ UNCHANGED <<data, history, decisions, audit>>
    BY <1>5 DEF EvaluateFails, CreateMalformed
  <2> DEFINE th == [IdleThread EXCEPT !.reply = code]
  <2>2. th.stage = "idle" /\ th.reply = code
    BY DEF IdleThread
  <2> QED
    BY <1>5, <2>1, <2>2, IdleType, EvidenceThreadStep
<1>6. ASSUME NEW t \in Threads, Register(t) \/ Patch(t) \/ Publish(t) \/ Deprecate(t)
      PROVE  EvidenceInv'
  <2>1. PICK th : ReadOutcome(t, th)
    BY <1>6, ReadStep
  <2>2. Licenses(decisions, thread[t].decision, thread[t].actor, thread[t].op, thread[t].resource)
    BY <2>1 DEF ReadOutcome, EvidenceInv, RequestsLicensed
  <2>3. th.stage # "idle" => Licenses(decisions, th.decision, th.actor, th.op, th.resource)
    BY <2>1, <2>2 DEF ReadOutcome, Licenses
  <2> QED
    BY <2>1, <2>3, EvidenceThreadStep DEF ReadOutcome
<1>7. ASSUME NEW t \in Threads, Commit(t) \/ TakeSnapshot(t) PROVE EvidenceInv'
  <2>1. thread[t] \in Thread /\ RequestInOrder(thread[t]) /\ thread[t].stage # "idle"
    BY <1>7 DEF Commit, TakeSnapshot, TypeInv, TypeOK
  <2>2. PICK th \in Thread :
               /\ thread' = [thread EXCEPT ![t] = th]
               /\ th.stage # "idle"
               /\ th.reply = thread[t].reply
               /\ th.decision = thread[t].decision
               /\ th.actor = thread[t].actor
               /\ th.op = thread[t].op
               /\ th.resource = thread[t].resource
    <3>1. CASE Commit(t)
      <4> DEFINE th == [thread[t] EXCEPT !.stage = "snapshot"]
      <4>1. th \in Thread /\ thread' = [thread EXCEPT ![t] = th]
        BY <2>1, <3>1 DEF Commit, Thread, Stages
      <4> QED
        BY <2>1, <4>1 DEF Thread
    <3>2. CASE TakeSnapshot(t)
      <4> DEFINE th == [thread[t] EXCEPT !.stage = "audit", !.copy = Missing]
      <4>1. th \in Thread /\ thread' = [thread EXCEPT ![t] = th]
        BY <2>1, <3>2 DEF TakeSnapshot, Thread, Stages
      <4> QED
        BY <2>1, <4>1 DEF Thread
    <3> QED
      BY <1>7, <3>1, <3>2
  <2>3. th.reply # "ok"
    BY <2>1, <2>2 DEF RequestInOrder
  <2>4. Licenses(decisions, th.decision, th.actor, th.op, th.resource)
    BY <2>1, <2>2 DEF EvidenceInv, RequestsLicensed
  <2>5. UNCHANGED <<decisions, audit>>
    BY <1>7 DEF Commit, TakeSnapshot
  <2> QED
    BY <2>1, <2>2, <2>3, <2>4, <2>5, EvidenceThreadStep
<1>8. ASSUME NEW t \in Threads, Audit(t) PROVE EvidenceInv'
  BY <1>8, EvidenceAudit
<1>9. ASSUME NEW t \in Threads, AuditFails(t) PROVE EvidenceInv'
  <2> DEFINE code == IF thread[t].op = "patch" THEN "400" ELSE "500"
  <2>1. thread[t] \in Thread /\ code \in {"ok", "400", "403", "404", "500"} /\ code # "ok"
    BY DEF TypeInv, TypeOK
  <2>2. thread' = [thread EXCEPT ![t] = Answered(thread[t], code)] /\ UNCHANGED <<decisions, audit>>
    BY <1>9 DEF AuditFails
  <2> QED
    BY <2>1, <2>2, AnsweredType, EvidenceThreadStep
<1>10. CASE Restart
  <2>1. \A t \in Threads : thread'[t].stage = "idle" /\ thread'[t].reply = "none"
    BY <1>10 DEF Restart, Reopened, IdleThread
  <2>2. AuditTraceable'
    <3>1. CASE StoreIsDurable
      BY <1>10, <3>1 DEF Restart, Reopened, AuditTraceable, Licenses, EvidenceInv
    <3>2. CASE ~ StoreIsDurable
      <4>1. DOMAIN audit' = {}
        BY <1>10, <3>2 DEF Restart, Reopened
      <4> QED
        BY <4>1 DEF AuditTraceable
    <3> QED
      BY <3>1, <3>2
  <2> QED
    BY <2>1, <2>2 DEF EvidenceInv, RequestsLicensed, DecisionsUnspent, SuccessIsAudited
<1>11. CASE UNCHANGED vars
  BY <1>11 DEF vars, EvidenceInv, RequestsLicensed, DecisionsUnspent, AuditTraceable,
               SuccessIsAudited, Licenses
<1> QED
  BY <1>1, <1>2, <1>3, <1>4, <1>5, <1>6, <1>7, <1>8, <1>9, <1>10, <1>11 DEF Next, Arrive, Serve

\* Every success event is licensed by its own recorded decision, for any number
\* of threads, any store failures and any restarts.
THEOREM AuditIsTraceable == Spec => []AuditTraceable
<1>1. Spec => [](TypeInv /\ EvidenceInv)
  BY TypeInit, TypeNext, EvidenceInit, EvidenceNext, PTL DEF Spec
<1>2. EvidenceInv => AuditTraceable
  BY DEF EvidenceInv
<1> QED
  BY <1>1, <1>2, PTL

\* No client is told of a success that the audit log does not show.
THEOREM SuccessesAreAudited == Spec => []SuccessIsAudited
<1>1. Spec => [](TypeInv /\ EvidenceInv)
  BY TypeInit, TypeNext, EvidenceInit, EvidenceNext, PTL DEF Spec
<1>2. EvidenceInv => SuccessIsAudited
  BY DEF EvidenceInv
<1> QED
  BY <1>1, <1>2, PTL

-----------------------------------------------------------------------------
(* Schema history: the current version is never lost from it *)

\* The data and the histories stay, and no thread leaves the snapshot stage.
LEMMA SnapshotThreadStep ==
  ASSUME CurrentIsSnapshotted, UNCHANGED <<data, history>>,
         \A u \in Threads : thread[u].stage = "snapshot" => thread'[u] = thread[u]
  PROVE  CurrentIsSnapshotted'
BY DEF CurrentIsSnapshotted

\* The seeded history holds the seeded datasets.
LEMMA SnapshotInit == ASSUME data = SeedData, history = SeedHistory PROVE CurrentIsSnapshotted
<1> SUFFICES ASSUME NEW d \in DatasetIds, data[d] # Missing
             PROVE  \E i \in DOMAIN history[d] : history[d][i] = make_schema_snapshot(data[d])
  BY DEF CurrentIsSnapshotted
<1>1. d \in DOMAIN Seed /\ data[d] = Seed[d]
  BY DEF SeedData
<1>2. history[d] = <<make_schema_snapshot(data[d])>>
  BY <1>1 DEF SeedHistory
<1> QED
  BY <1>2

\* record_schema_snapshot appends: the entries there are stay where they are, and
\* the new one is found.
LEMMA AppendExtends ==
  ASSUME NEW S, NEW log \in Seq(S), NEW e \in S
  PROVE  /\ \A i \in DOMAIN log : i \in DOMAIN Append(log, e) /\ Append(log, e)[i] = log[i]
         /\ \E i \in DOMAIN Append(log, e) : Append(log, e)[i] = e
<1>1. /\ Len(log) \in Nat
      /\ DOMAIN log = 1..Len(log)
      /\ DOMAIN Append(log, e) = 1..(Len(log) + 1)
  OBVIOUS
<1>2. ASSUME NEW i \in DOMAIN log
      PROVE  i \in DOMAIN Append(log, e) /\ Append(log, e)[i] = log[i]
  BY <1>1
<1>3. Len(log) + 1 \in DOMAIN Append(log, e)
  BY <1>1
<1>4. Append(log, e)[Len(log) + 1] = e
  OBVIOUS
<1> QED
  BY <1>2, <1>3, <1>4

\* Every step of the service keeps the current version in the history.
LEMMA SnapshotNext == TypeInv /\ CurrentIsSnapshotted /\ [Next]_vars => CurrentIsSnapshotted'
<1> SUFFICES ASSUME TypeInv, CurrentIsSnapshotted, [Next]_vars PROVE CurrentIsSnapshotted'
  OBVIOUS
<1>1. ASSUME NEW t \in Threads, Arrive(t) PROVE CurrentIsSnapshotted'
  <2>1. UNCHANGED <<data, history>> /\ thread[t].stage = "idle"
    BY <1>1 DEF Arrive, EvaluateCreate, EvaluatePatch, EvaluatePublish, EvaluateDeprecate,
                EvaluateFails, CreateMalformed, Evaluate
  <2>2. \A u \in Threads \ {t} : thread'[u] = thread[u]
    BY <1>1 DEF Arrive, EvaluateCreate, EvaluatePatch, EvaluatePublish, EvaluateDeprecate,
                EvaluateFails, CreateMalformed, Evaluate, TypeInv, TypeOK
  <2> QED
    BY <2>1, <2>2, SnapshotThreadStep
<1>2. ASSUME NEW t \in Threads, Register(t) \/ Patch(t) \/ Publish(t) \/ Deprecate(t)
      PROVE  CurrentIsSnapshotted'
  <2>1. PICK th : ReadOutcome(t, th)
    BY <1>2, ReadStep
  <2>2. UNCHANGED <<data, history>> /\ thread[t].stage = "read"
    BY <2>1 DEF ReadOutcome
  <2>3. \A u \in Threads \ {t} : thread'[u] = thread[u]
    BY <2>1 DEF ReadOutcome, TypeInv, TypeOK
  <2> QED
    BY <2>2, <2>3, SnapshotThreadStep
<1>3. ASSUME NEW t \in Threads, Commit(t) PROVE CurrentIsSnapshotted'
  <2> DEFINE id == thread[t].resource
  <2>1. id \in DatasetIds /\ thread[t].stage = "commit" /\ thread[t] \in Thread
    BY <1>3 DEF Commit, TypeInv, TypeOK, RequestInOrder
  <2>2. /\ data'[id] = thread[t].copy
        /\ \A d \in DatasetIds \ {id} : data'[d] = data[d]
        /\ history' = history
    BY <1>3, <2>1 DEF Commit, TypeInv, TypeOK
  <2>3. /\ thread'[t].stage = "snapshot"
        /\ thread'[t].resource = id
        /\ thread'[t].copy = thread[t].copy
    BY <1>3, <2>1 DEF Commit, Thread, TypeInv, TypeOK
  <2>4. \A u \in Threads \ {t} : thread'[u] = thread[u]
    BY <1>3 DEF Commit, TypeInv, TypeOK
  <2> QED
    BY <2>1, <2>2, <2>3, <2>4 DEF CurrentIsSnapshotted
<1>4. ASSUME NEW t \in Threads, TakeSnapshot(t) PROVE CurrentIsSnapshotted'
  <2> DEFINE id == thread[t].resource
             entry == make_schema_snapshot(thread[t].copy)
  <2>1. /\ thread[t] \in Thread
        /\ thread[t].stage = "snapshot"
        /\ id \in DatasetIds
        /\ entry \in Snapshot
    BY <1>4, SnapshotType DEF TakeSnapshot, TypeInv, TypeOK, RequestInOrder
  <2>2. /\ data' = data
        /\ history'[id] = Append(history[id], entry)
        /\ \A d \in DatasetIds \ {id} : history'[d] = history[d]
        /\ \A u \in Threads \ {t} : thread'[u] = thread[u]
    BY <1>4, <2>1 DEF TakeSnapshot, TypeInv, TypeOK
  <2>3. history[id] \in Seq(Snapshot)
    BY <2>1 DEF TypeInv, TypeOK
  <2>4. /\ \A i \in DOMAIN history[id] : i \in DOMAIN history'[id] /\ history'[id][i] = history[id][i]
        /\ \E i \in DOMAIN history'[id] : history'[id][i] = entry
    <3> HIDE DEF id, entry
    <3>1. history'[id] = Append(history[id], entry) /\ entry \in Snapshot /\ history[id] \in Seq(Snapshot)
      BY <2>1, <2>2, <2>3
    <3>2. /\ \A i \in DOMAIN history[id] : /\ i \in DOMAIN Append(history[id], entry)
                                         /\ Append(history[id], entry)[i] = history[id][i]
          /\ \E i \in DOMAIN Append(history[id], entry) : Append(history[id], entry)[i] = entry
      BY <3>1, AppendExtends
    <3> QED
      BY <3>1, <3>2, Zenon
  <2> SUFFICES ASSUME NEW d \in DatasetIds, data'[d] # Missing
               PROVE  \/ \E i \in DOMAIN history'[d] : history'[d][i] = make_schema_snapshot(data'[d])
                      \/ \E u \in Threads : /\ thread'[u].stage = "snapshot"
                                           /\ thread'[u].resource = d
                                           /\ thread'[u].copy = data'[d]
    BY DEF CurrentIsSnapshotted
  <2>5. CASE \E i \in DOMAIN history[d] : history[d][i] = make_schema_snapshot(data[d])
    BY <2>2, <2>4, <2>5
  <2>6. CASE \E u \in Threads : /\ thread[u].stage = "snapshot"
                               /\ thread[u].resource = d
                               /\ thread[u].copy = data[d]
    <3>1. PICK u \in Threads : /\ thread[u].stage = "snapshot"
                              /\ thread[u].resource = d
                              /\ thread[u].copy = data[d]
      BY <2>6
    <3>2. CASE u = t
      BY <2>2, <2>4, <3>1, <3>2
    <3>3. CASE u # t
      BY <2>2, <3>1, <3>3
    <3> QED
      BY <3>2, <3>3
  <2> QED
    BY <2>2, <2>5, <2>6 DEF CurrentIsSnapshotted
<1>5. ASSUME NEW t \in Threads, Audit(t) \/ AuditFails(t) PROVE CurrentIsSnapshotted'
  <2>1. UNCHANGED <<data, history>> /\ thread[t].stage \in {"audit", "noop"}
    BY <1>5 DEF Audit, AuditFails, AtAudit
  <2>2. \A u \in Threads \ {t} : thread'[u] = thread[u]
    BY <1>5 DEF Audit, AuditFails, TypeInv, TypeOK
  <2> QED
    BY <2>1, <2>2, SnapshotThreadStep
<1>6. CASE Restart
  <2>1. data' = SeedData /\ history' = SeedHistory
    BY <1>6 DEF Restart, Reopened
  <2> SUFFICES ASSUME NEW d \in DatasetIds, data'[d] # Missing
               PROVE  \E i \in DOMAIN history'[d] : history'[d][i] = make_schema_snapshot(data'[d])
    BY DEF CurrentIsSnapshotted
  <2>2. d \in DOMAIN Seed /\ data'[d] = Seed[d]
    BY <2>1 DEF SeedData
  <2>3. history'[d] = <<make_schema_snapshot(data'[d])>>
    BY <2>1, <2>2 DEF SeedHistory
  <2> QED
    BY <2>3
<1>7. CASE UNCHANGED vars
  BY <1>7 DEF vars, CurrentIsSnapshotted
<1> QED
  BY <1>1, <1>2, <1>3, <1>4, <1>5, <1>6, <1>7 DEF Next, Serve

\* However its writers race, the version a dataset shows is in its history or on
\* its way there.
THEOREM CurrentVersionIsKept == Spec => []CurrentIsSnapshotted
<1>1. Init => CurrentIsSnapshotted
  BY SnapshotInit DEF Init
<1>2. Spec => [](TypeInv /\ CurrentIsSnapshotted)
  BY <1>1, TypeInit, TypeNext, SnapshotNext, PTL DEF Spec
<1> QED
  BY <1>2, PTL

-----------------------------------------------------------------------------
(* The published role matrix *)

\* What evaluate allows of a mutation, some role of the actor lists in the matrix.
LEMMA AllowedIsListed ==
  ASSUME NEW actor, NEW op \in Ops, NEW purpose, NEW dataset, Allowed(actor, op, purpose, dataset)
  PROVE  \E role \in RolesOf(actor) : op \in MatrixActions(role)
<1>1. is_admin(actor)
  <2>1. CASE op = "create"
    BY <2>1 DEF Allowed, Discovery
  <2>2. CASE op \in Mutations
    <3>1. DatasetRules(actor, op, purpose, dataset)
      BY <2>2 DEF Allowed, Mutations, Discovery
    <3> QED
      BY <2>2, <3>1 DEF DatasetRules, can_mutate
  <2> QED
    BY <2>1, <2>2 DEF Ops, Mutations
<1>2. PICK role \in RolesOf(actor) : role \in {"admin", "platform-admin"}
  BY <1>1 DEF is_admin, has_role
<1>3. op \in MatrixActions(role)
  BY <1>2 DEF MatrixActions, Ops
<1> QED
  BY <1>3

\* Every decision that allows something is in the matrix.
DecisionsFitMatrix ==
  \A k \in DOMAIN decisions : decisions[k].effect = "allow" =>
     \E role \in RolesOf(decisions[k].subject) : decisions[k].action \in MatrixActions(role)

\* A new decision is in the matrix if it allows anything.
LEMMA MatrixEvaluate ==
  ASSUME TypeInv, DecisionsFitMatrix, NEW t \in Threads, NEW op \in Ops, NEW actor \in Subjects,
         NEW id \in DatasetIds \cup {NoId}, NEW payload, Evaluate(t, op, actor, id, payload)
  PROVE  DecisionsFitMatrix'
<1>1. get_dataset(id) \in Dataset \cup {Missing}
  BY DEF get_dataset, TypeInv, TypeOK
<1>2. PICK decision \in Decision :
         /\ decision = evaluate(actor, id, op, "catalog", get_dataset(id))
         /\ decision.subject = actor /\ decision.action = op
  BY <1>1, EvaluateType
<1>3. decisions' = Append(decisions, decision) /\ decisions \in Seq(Decision)
  BY <1>2 DEF Evaluate, record_policy_decision, TypeInv, TypeOK
<1>4. decision.effect = "allow" => \E role \in RolesOf(actor) : op \in MatrixActions(role)
  <2>1. decision.effect = "allow" => Allowed(actor, op, "catalog", get_dataset(id))
    BY <1>2 DEF evaluate
  <2> QED
    BY <2>1, AllowedIsListed
<1> SUFFICES ASSUME NEW k \in DOMAIN decisions', decisions'[k].effect = "allow"
             PROVE  \E role \in RolesOf(decisions'[k].subject) : decisions'[k].action \in MatrixActions(role)
  BY DEF DecisionsFitMatrix
<1>5. CASE k \in DOMAIN decisions
  <2>1. decisions'[k] = decisions[k]
    BY <1>3, <1>5
  <2> QED
    BY <1>5, <2>1 DEF DecisionsFitMatrix
<1>6. CASE k \notin DOMAIN decisions
  <2>1. decisions'[k] = decision
    BY <1>3, <1>6
  <2> QED
    BY <1>2, <1>4, <2>1
<1> QED
  BY <1>5, <1>6

\* Every step keeps the decisions in the matrix.
LEMMA MatrixNext == TypeInv /\ DecisionsFitMatrix /\ [Next]_vars => DecisionsFitMatrix'
<1> SUFFICES ASSUME TypeInv, DecisionsFitMatrix, [Next]_vars PROVE DecisionsFitMatrix'
  OBVIOUS
<1>1. ASSUME NEW t \in Threads, EvaluateCreate(t) PROVE DecisionsFitMatrix'
  <2>1. PICK actor \in Subjects, request \in CreateRequests :
               Evaluate(t, "create", actor, request.id, request)
    BY <1>1 DEF EvaluateCreate
  <2>2. request.id \in DatasetIds \cup {NoId}
    BY ServiceAssumption DEF CreateRequest
  <2> QED
    BY <2>1, <2>2, MatrixEvaluate DEF Ops
<1>2. ASSUME NEW t \in Threads, EvaluatePatch(t) \/ EvaluatePublish(t) \/ EvaluateDeprecate(t)
      PROVE  DecisionsFitMatrix'
  BY <1>2, MatrixEvaluate DEF EvaluatePatch, EvaluatePublish, EvaluateDeprecate, Ops
<1>3. ASSUME NEW t \in Threads, CreateMalformed(t) \/ EvaluateFails(t) \/ Serve(t) PROVE DecisionsFitMatrix'
  <2>1. decisions' = decisions
    BY <1>3 DEF CreateMalformed, EvaluateFails, Serve, Register, Patch, Publish, Deprecate, Commit, TakeSnapshot, Audit, AuditFails
  <2> QED
    BY <2>1 DEF DecisionsFitMatrix
<1>4. CASE Restart
  <2>1. decisions' = decisions \/ decisions' = <<>>
    BY <1>4 DEF Restart, Reopened
  <2> QED
    BY <2>1 DEF DecisionsFitMatrix
<1>5. CASE UNCHANGED vars
  BY <1>5 DEF vars, DecisionsFitMatrix
<1> QED
  BY <1>1, <1>2, <1>3, <1>4, <1>5 DEF Next, Arrive

\* The matrix served by /enterprise/rbac-matrix is honoured in every audited change, for
\* every set of actors, threads and requests: the matrix lists what evaluate
\* (sdp/policy.py) allows, and the event carries the actor and action of its decision.
THEOREM AuditedChangesAreListed == Spec => []MatrixIsHonoured
<1>1. Init => DecisionsFitMatrix
  BY DEF Init, DecisionsFitMatrix
<1>2. Spec => [](TypeInv /\ EvidenceInv /\ DecisionsFitMatrix)
  BY <1>1, TypeInit, TypeNext, EvidenceInit, EvidenceNext, MatrixNext, PTL DEF Spec
<1>3. EvidenceInv /\ DecisionsFitMatrix => MatrixIsHonoured
  BY DEF EvidenceInv, AuditTraceable, Licenses, DecisionsFitMatrix, MatrixIsHonoured
<1> QED
  BY <1>2, <1>3, PTL

-----------------------------------------------------------------------------
(* What a read step makes of the dataset it finds *)

\* copy is what a change of this kind makes of dataset.
MadeFrom(op, dataset, copy) ==
  \/ op = "patch" /\ \E patch \in PatchRequests : copy = Patched(dataset, patch)
  \/ /\ op = "publish" /\ copy = Published(dataset)
     /\ validate_metadata(dataset) /\ dataset.status # "published"
  \/ op = "deprecate" /\ copy = Deprecated(dataset)

\* th has built its copy from the catalog as it is.
CopyMade(th) ==
  /\ th.resource \in DatasetIds
  /\ IF th.op = "create"
     THEN data[th.resource] = Missing /\ \E request \in CreateRequests : th.copy = Registered(request)
     ELSE data[th.resource] # Missing /\ MadeFrom(th.op, data[th.resource], th.copy)

\* th has found its dataset published already.
FoundPublished(th) ==
  /\ th.op = "publish" /\ th.resource \in DatasetIds /\ data[th.resource] # Missing
  /\ validate_metadata(data[th.resource]) /\ data[th.resource].status = "published"

\* What thread old is after its read step.
Made(old, th) ==
  /\ th.stage \in {"idle", "commit", "noop"}
  /\ th.stage # "idle" =>
       /\ th.op = old.op /\ th.actor = old.actor
       /\ th.op # "create" => th.resource = old.resource
  /\ th.stage = "commit" => CopyMade(th)
  /\ th.stage = "noop" => FoundPublished(th)

\* Each read step answers, builds its copy from the dataset it finds, or finds it
\* published.
LEMMA ReadMakes ==
  ASSUME TypeInv, NEW t \in Threads, Register(t) \/ Patch(t) \/ Publish(t) \/ Deprecate(t)
  PROVE  Made(thread[t], thread'[t])
<1>1. PICK th \in Thread : th = thread[t] /\ RequestInOrder(th) /\ th.stage = "read"
  BY DEF TypeInv, TypeOK, Register, Patch, Publish, Deprecate, At
<1>2. PICK dataset : dataset = get_dataset(th.resource)
  OBVIOUS
<1>3. ASSUME th.op # "create" PROVE th.resource \in DatasetIds /\ dataset = data[th.resource]
  BY <1>1, <1>2, <1>3 DEF RequestInOrder, get_dataset
<1>4. ASSUME NEW new, thread' = [thread EXCEPT ![t] = new] PROVE thread'[t] = new
  BY <1>4 DEF TypeInv, TypeOK
<1>5. ASSUME NEW code, thread' = [thread EXCEPT ![t] = Answered(th, code)]
      PROVE  Made(th, thread'[t])
  <2>1. Answered(th, code).stage = "idle"
    BY DEF Answered, Thread
  <2> QED
    BY <1>4, <1>5, <2>1 DEF Made
<1>6. ASSUME NEW id, NEW copy, thread' = [thread EXCEPT ![t] = Prepared(th, id, copy)],
             th.op # "create" => id = th.resource,
             CopyMade(Prepared(th, id, copy))
      PROVE  Made(th, thread'[t])
  <2>1. PICK new : new = Prepared(th, id, copy)
    OBVIOUS
  <2>2. new.stage = "commit" /\ new.op = th.op /\ new.actor = th.actor /\ new.resource = id
    BY <2>1 DEF Prepared, Thread
  <2> QED
    BY <1>4, <1>6, <2>1, <2>2 DEF Made
<1>7. ASSUME NEW id \in DatasetIds, NEW copy
      PROVE  LET new == Prepared(th, id, copy) IN new.op = th.op /\ new.resource = id /\ new.copy = copy
  BY DEF Prepared, Thread
<1>8. CASE Register(t)
  <2>1. th.op = "create" /\ th.payload \in CreateRequests /\ th.payload \in CreateRequest
    BY <1>1, <1>8, ServiceAssumption DEF Register, At, RequestInOrder
  <2>2. PICK id \in DatasetIds : id = RegisterId(th.payload)
    BY <2>1, RegisterIdType
  <2>3. CASE IdTaken(id)
    BY <1>1, <1>5, <1>8, <2>2, <2>3 DEF Register
  <2>4. CASE ~ IdTaken(id)
    <3>1. thread' = [thread EXCEPT ![t] = Prepared(th, id, Registered(th.payload))]
      BY <1>1, <1>8, <2>2, <2>4 DEF Register
    <3>2. CopyMade(Prepared(th, id, Registered(th.payload)))
      BY <1>7, <2>1, <2>4 DEF CopyMade, IdTaken
    <3> QED
      BY <1>1, <1>6, <2>1, <3>1, <3>2
  <2> QED
    BY <2>3, <2>4
<1>9. CASE Patch(t)
  <2>1. th.op = "patch" /\ th.payload \in PatchRequests
    BY <1>1, <1>9 DEF Patch, At, RequestInOrder
  <2>2. CASE dataset = Missing \/ ~ th.payload.well_formed
    BY <1>1, <1>2, <1>5, <1>9, <2>2 DEF Patch
  <2>3. CASE dataset # Missing /\ th.payload.well_formed
    <3>1. thread' = [thread EXCEPT ![t] = Prepared(th, th.resource, Patched(dataset, th.payload))]
      BY <1>1, <1>2, <1>9, <2>3 DEF Patch
    <3>2. CopyMade(Prepared(th, th.resource, Patched(dataset, th.payload)))
      BY <1>3, <1>7, <2>1, <2>3 DEF CopyMade, MadeFrom
    <3> QED
      BY <1>1, <1>6, <3>1, <3>2
  <2> QED
    BY <2>2, <2>3
<1>10. CASE Publish(t)
  <2>1. th.op = "publish"
    BY <1>1, <1>10 DEF Publish, At
  <2>2. CASE dataset = Missing \/ ~ MayPublish(dataset)
    BY <1>1, <1>2, <1>5, <1>10, <2>2 DEF Publish
  <2>3. CASE dataset # Missing /\ MayPublish(dataset) /\ dataset.status = "published"
    <3>1. PICK new : new = [th EXCEPT !.stage = "noop"]
      OBVIOUS
    <3>2. thread' = [thread EXCEPT ![t] = new]
      BY <1>1, <1>2, <1>10, <2>3, <3>1 DEF Publish
    <3>3. new.stage = "noop" /\ new.op = th.op /\ new.actor = th.actor /\ new.resource = th.resource
      BY <3>1 DEF Thread
    <3>4. FoundPublished(new)
      BY <1>3, <2>1, <2>3, <3>3 DEF FoundPublished, MayPublish
    <3> QED
      BY <1>1, <1>4, <3>2, <3>3, <3>4 DEF Made
  <2>4. CASE dataset # Missing /\ MayPublish(dataset) /\ dataset.status # "published"
    <3>1. thread' = [thread EXCEPT ![t] = Prepared(th, th.resource, Published(dataset))]
      BY <1>1, <1>2, <1>10, <2>4 DEF Publish
    <3>2. CopyMade(Prepared(th, th.resource, Published(dataset)))
      BY <1>3, <1>7, <2>1, <2>4 DEF CopyMade, MadeFrom, MayPublish
    <3> QED
      BY <1>1, <1>6, <3>1, <3>2
  <2> QED
    BY <2>2, <2>3, <2>4
<1>11. CASE Deprecate(t)
  <2>1. th.op = "deprecate"
    BY <1>1, <1>11 DEF Deprecate, At
  <2>2. CASE dataset = Missing
    BY <1>1, <1>2, <1>5, <1>11, <2>2 DEF Deprecate
  <2>3. CASE dataset # Missing
    <3>1. thread' = [thread EXCEPT ![t] = Prepared(th, th.resource, Deprecated(dataset))]
      BY <1>1, <1>2, <1>11, <2>3 DEF Deprecate
    <3>2. CopyMade(Prepared(th, th.resource, Deprecated(dataset)))
      BY <1>3, <1>7, <2>1, <2>3 DEF CopyMade, MadeFrom
    <3> QED
      BY <1>1, <1>6, <3>1, <3>2
  <2> QED
    BY <2>2, <2>3
<1> QED
  BY <1>8, <1>9, <1>10, <1>11

\* A request that arrives is refused, fails or goes on to its read.
LEMMA ArriveStage ==
  ASSUME TypeInv, NEW t \in Threads, Arrive(t)
  PROVE  thread'[t].stage \in {"idle", "read"}
<1>1. CASE EvaluateFails(t) \/ CreateMalformed(t)
  BY <1>1 DEF EvaluateFails, CreateMalformed, IdleThread, TypeInv, TypeOK
<1>2. ASSUME NEW op, NEW actor, NEW id, NEW payload, Evaluate(t, op, actor, id, payload)
      PROVE  thread'[t].stage \in {"idle", "read"}
  <2>1. PICK decision, effect : thread' = [thread EXCEPT ![t] = Request(op, actor, id, payload, decision, effect)]
    BY <1>2 DEF Evaluate
  <2>2. Request(op, actor, id, payload, decision, effect).stage \in {"idle", "read"}
    BY DEF Request
  <2> QED
    BY <2>1, <2>2 DEF TypeInv, TypeOK
<1> QED
  BY <1>1, <1>2 DEF Arrive, EvaluateCreate, EvaluatePatch, EvaluatePublish, EvaluateDeprecate

-----------------------------------------------------------------------------
(* One request at a time *)

OneAtATime == \E t : Threads = {t}

\* The seed datasets are at version "1.0.0", the default.
FirstVersions == \A d \in DOMAIN Seed : Seed[d].version = 0

\* The actor may change the dataset as it is.
May(actor, d) ==
  /\ data[d] # Missing /\ is_admin(actor)
  /\ can_access_tenant(actor, data[d].tenant_id)

\* While a request is served, what it has checked and read stays as it is.
SerialInv ==
  \A t \in Threads :
     /\ thread[t].stage \in {"read", "commit"} =>
          IF thread[t].op = "create" THEN is_admin(thread[t].actor) ELSE May(thread[t].actor, thread[t].resource)
     /\ thread[t].stage = "commit" => CopyMade(thread[t])
     /\ thread[t].stage = "snapshot" => data[thread[t].resource] = thread[t].copy

\* The thread that has changed d and not yet appended the new version.
Pending(d) == \E t \in Threads : thread[t].stage = "snapshot" /\ thread[t].resource = d

VersionsInv ==
  \A d \in DatasetIds :
     /\ data[d] = Missing => history[d] = <<>>
     /\ \A i \in DOMAIN history[d] : history[d][i].version = i - 1
     /\ data[d] # Missing =>
          data[d].version = IF Pending(d) THEN Len(history[d]) ELSE Len(history[d]) - 1

\* An entry is of an earlier schema version, or of this one and with its columns.
Agrees(entry, dataset) ==
  \/ entry.schema_version < dataset.schema_version
  \/ /\ entry.schema_version = dataset.schema_version
     /\ RoundTrip(entry.schema) = RoundTrip(dataset.schema)

SchemasInv ==
  /\ SchemaVersionNamesOneSchema
  /\ \A d \in DatasetIds : data[d] = Missing => history[d] = <<>>
  /\ \A d \in DatasetIds : data[d] # Missing => \A i \in DOMAIN history[d] : Agrees(history[d][i], data[d])

\* What a change makes of a dataset: the next version, in the same tenant, with the
\* same columns or the next schema version.
Succeeds(copy, dataset) ==
  /\ copy \in Dataset
  /\ copy.tenant_id = dataset.tenant_id
  /\ copy.version = dataset.version + 1
  /\ \/ copy.schema_version = dataset.schema_version + 1
     \/ copy.schema_version = dataset.schema_version /\ copy.schema = RoundTrip(dataset.schema)

\* A column that was made explicit stays as it is when that is done again.
LEMMA RoundTripTwice ==
  ASSUME NEW schema \in Schema
  PROVE  RoundTrip(RoundTrip(schema)) = RoundTrip(schema)
<1>1. \A c \in schema : c \in Column
  BY DEF Schema
<1>2. ASSUME NEW c \in schema
      PROVE  [[c EXCEPT !.explicit = TRUE] EXCEPT !.explicit = TRUE] = [c EXCEPT !.explicit = TRUE]
  BY <1>1 DEF Column
<1>3. ASSUME NEW c \in RoundTrip(schema) PROVE [c EXCEPT !.explicit = TRUE] = c
  BY <1>2 DEF RoundTrip
<1>4. RoundTrip(RoundTrip(schema)) = {[c EXCEPT !.explicit = TRUE] : c \in RoundTrip(schema)}
  BY DEF RoundTrip
<1> QED
  BY <1>3, <1>4

\* Each of the three changes of a dataset makes a successor.
LEMMA ChangeSucceeds ==
  ASSUME NEW dataset \in Dataset, NEW op, NEW copy, MadeFrom(op, dataset, copy)
  PROVE  Succeeds(copy, dataset)
<1>1. CASE copy = Published(dataset)
  <2>1. copy \in Dataset
    BY <1>1, MutationsType
  <2> QED
    BY <1>1, <2>1 DEF Published, Succeeds, Dataset, bump_version
<1>2. CASE copy = Deprecated(dataset)
  <2>1. copy \in Dataset
    BY <1>2, MutationsType
  <2> QED
    BY <1>2, <2>1 DEF Deprecated, Succeeds, Dataset, bump_version
<1>3. ASSUME NEW patch \in PatchRequests, copy = Patched(dataset, patch) PROVE Succeeds(copy, dataset)
  <2>1. copy \in Dataset
    BY <1>3, MutationsType, ServiceAssumption
  <2>2. /\ copy.tenant_id = dataset.tenant_id /\ copy.version = dataset.version + 1
        /\ copy.schema_version = IF MentionsSchema(patch) THEN dataset.schema_version + 1
                                                          ELSE dataset.schema_version
        /\ copy.schema = Updated(RoundTrip(dataset.schema), patch.schema)
    BY <1>3 DEF Patched, Dataset, bump_version
  <2> QED
    BY <2>1, <2>2 DEF Succeeds, MentionsSchema, Updated
<1> QED
  BY <1>1, <1>2, <1>3 DEF MadeFrom

\* A request that goes on to its read may do what it asks for, on the catalog as it is.
LEMMA ArriveMay ==
  ASSUME TypeInv, NEW t \in Threads, Arrive(t), thread'[t].stage = "read"
  PROVE  IF thread'[t].op = "create" THEN is_admin(thread'[t].actor)
                                     ELSE May(thread'[t].actor, thread'[t].resource)
<1>1. ~ EvaluateFails(t) /\ ~ CreateMalformed(t)
  BY DEF EvaluateFails, CreateMalformed, IdleThread, TypeInv, TypeOK
<1>2. ASSUME NEW op \in Ops, NEW actor, NEW id, NEW payload, Evaluate(t, op, actor, id, payload),
             op # "create" => id \in DatasetIds
      PROVE  IF thread'[t].op = "create" THEN is_admin(thread'[t].actor)
                                         ELSE May(thread'[t].actor, thread'[t].resource)
  <2>1. PICK decision : decision = evaluate(actor, id, op, "catalog", get_dataset(id))
    OBVIOUS
  <2>2. PICK th : th = Request(op, actor, id, payload, Len(decisions) + 1, decision.effect)
    OBVIOUS
  <2>3. thread'[t] = th
    BY <1>2, <2>1, <2>2 DEF Evaluate, TypeInv, TypeOK
  <2>4. th.op = op /\ th.actor = actor /\ th.resource = id /\ (th.stage = "read" => decision.effect = "allow")
    BY <2>2 DEF Request
  <2>5. Allowed(actor, op, "catalog", get_dataset(id))
    BY <2>1, <2>3, <2>4 DEF evaluate
  <2>6. CASE op = "create"
    <3>1. is_admin(actor)
      BY <2>5, <2>6 DEF Allowed, Discovery
    <3> QED
      BY <2>3, <2>4, <2>6, <3>1
  <2>7. CASE op # "create"
    <3>1. op \in Mutations /\ op \notin Discovery
      BY <2>7 DEF Ops, Mutations, Discovery
    <3>2. DatasetRules(actor, op, "catalog", get_dataset(id))
      BY <2>5, <2>7, <3>1 DEF Allowed
    <3>3. get_dataset(id) = data[id]
      BY <1>2, <2>7 DEF get_dataset
    <3>4. May(actor, id)
      BY <3>1, <3>2, <3>3 DEF DatasetRules, can_mutate, May
    <3> QED
      BY <2>3, <2>4, <2>7, <3>4
  <2> QED
    BY <2>6, <2>7
<1>3. CASE EvaluateCreate(t)
  BY <1>2, <1>3 DEF EvaluateCreate, Ops
<1>4. CASE EvaluatePatch(t)
  BY <1>2, <1>4 DEF EvaluatePatch, Ops
<1>5. CASE EvaluatePublish(t)
  BY <1>2, <1>5 DEF EvaluatePublish, Ops
<1>6. CASE EvaluateDeprecate(t)
  BY <1>2, <1>6 DEF EvaluateDeprecate, Ops
<1> QED
  BY <1>1, <1>3, <1>4, <1>5, <1>6 DEF Arrive

\* A step of thread t before its assignment to _DATA or after its snapshot.
Quiet(t) ==
  /\ UNCHANGED <<data, history>>
  /\ thread[t].stage # "snapshot" /\ thread'[t].stage # "snapshot"
  /\ thread'[t].stage = "read" =>
       IF thread'[t].op = "create" THEN is_admin(thread'[t].actor)
                                   ELSE May(thread'[t].actor, thread'[t].resource)
  /\ thread'[t].stage = "commit" => thread[t].stage = "read" /\ Made(thread[t], thread'[t])

\* The steps of a thread: it changes the catalog, then the history, or neither.
LEMMA StepKinds ==
  ASSUME TypeInv, NEW t \in Threads, Arrive(t) \/ Serve(t)
  PROVE  Quiet(t) \/ Commit(t) \/ TakeSnapshot(t)
<1>1. CASE Arrive(t)
  <2>1. UNCHANGED <<data, history>> /\ thread[t].stage = "idle"
    BY <1>1 DEF Arrive, EvaluateCreate, EvaluatePatch, EvaluatePublish, EvaluateDeprecate,
                EvaluateFails, CreateMalformed, Evaluate
  <2>2. thread'[t].stage \in {"idle", "read"}
    BY <1>1, ArriveStage
  <2> QED
    BY <1>1, <2>1, <2>2, ArriveMay DEF Quiet
<1>2. CASE Register(t) \/ Patch(t) \/ Publish(t) \/ Deprecate(t)
  <2>1. UNCHANGED <<data, history>> /\ thread[t].stage = "read"
    BY <1>2 DEF Register, Patch, Publish, Deprecate, At
  <2>2. Made(thread[t], thread'[t])
    BY <1>2, ReadMakes
  <2> QED
    BY <2>1, <2>2 DEF Quiet, Made
<1>3. CASE Audit(t) \/ AuditFails(t)
  <2>1. UNCHANGED <<data, history>> /\ thread[t].stage # "snapshot"
    BY <1>3 DEF Audit, AuditFails, AtAudit
  <2>2. thread'[t].stage = "idle"
    <3>1. PICK code : thread' = [thread EXCEPT ![t] = Answered(thread[t], code)]
      BY <1>3 DEF Audit, AuditFails
    <3>2. Answered(thread[t], code).stage = "idle"
      BY DEF Answered, Thread, TypeInv, TypeOK
    <3> QED
      BY <3>1, <3>2 DEF TypeInv, TypeOK
  <2> QED
    BY <2>1, <2>2 DEF Quiet
<1> QED
  BY <1>1, <1>2, <1>3 DEF Serve

\* The assignment to _DATA, and what the thread carries on to the snapshot.
LEMMA CommitFields ==
  ASSUME TypeInv, NEW t \in Threads, Commit(t)
  PROVE  /\ thread[t].stage = "commit" /\ thread[t].resource \in DatasetIds /\ thread[t].copy \in Dataset
         /\ data'[thread[t].resource] = thread[t].copy
         /\ \A d \in DatasetIds \ {thread[t].resource} : data'[d] = data[d]
         /\ history' = history
         /\ thread'[t].stage = "snapshot" /\ thread'[t].resource = thread[t].resource
         /\ thread'[t].copy = thread[t].copy
<1>1. thread[t] \in Thread /\ RequestInOrder(thread[t]) /\ thread[t].stage = "commit"
  BY DEF Commit, TypeInv, TypeOK
<1>2. thread[t].resource \in DatasetIds /\ thread[t].copy \in Dataset
  BY <1>1 DEF RequestInOrder
<1>3. thread'[t] = [thread[t] EXCEPT !.stage = "snapshot"]
  BY DEF Commit, TypeInv, TypeOK
<1>4. /\ thread'[t].stage = "snapshot" /\ thread'[t].resource = thread[t].resource
      /\ thread'[t].copy = thread[t].copy
  BY <1>1, <1>3 DEF Thread
<1> QED
  BY <1>1, <1>2, <1>4 DEF Commit, TypeInv, TypeOK

\* The append to _SCHEMA_HISTORY.
LEMMA TakeSnapshotFields ==
  ASSUME TypeInv, NEW t \in Threads, TakeSnapshot(t)
  PROVE  /\ thread[t].stage = "snapshot" /\ thread[t].resource \in DatasetIds /\ thread[t].copy \in Dataset
         /\ make_schema_snapshot(thread[t].copy) \in Snapshot
         /\ history[thread[t].resource] \in Seq(Snapshot)
         /\ history'[thread[t].resource] =
              Append(history[thread[t].resource], make_schema_snapshot(thread[t].copy))
         /\ \A d \in DatasetIds \ {thread[t].resource} : history'[d] = history[d]
         /\ data' = data
         /\ thread'[t].stage = "audit"
<1>1. thread[t] \in Thread /\ RequestInOrder(thread[t]) /\ thread[t].stage = "snapshot"
  BY DEF TakeSnapshot, TypeInv, TypeOK
<1>2. thread[t].resource \in DatasetIds /\ thread[t].copy \in Dataset
  BY <1>1 DEF RequestInOrder
<1>3. make_schema_snapshot(thread[t].copy) \in Snapshot
  BY <1>2, SnapshotType
<1>4. thread'[t] = [thread[t] EXCEPT !.stage = "audit", !.copy = Missing]
  BY DEF TakeSnapshot, TypeInv, TypeOK
<1>5. thread'[t].stage = "audit"
  BY <1>1, <1>4 DEF Thread
<1> QED
  BY <1>1, <1>2, <1>3, <1>5 DEF TakeSnapshot, TypeInv, TypeOK

\* The catalog as it is seeded: one version of each dataset, of which the history is
\* the list.
LEMMA SeedIsInOrder ==
  ASSUME NEW d \in DatasetIds
  PROVE  /\ SeedData[d] = Missing => SeedHistory[d] = <<>>
         /\ SeedData[d] # Missing =>
              /\ d \in DOMAIN Seed /\ SeedData[d] = Seed[d] /\ Seed[d] \in Dataset
              /\ SeedHistory[d] = <<make_schema_snapshot(Seed[d])>>
         /\ IdleThread.stage = "idle"
<1>1. CASE d \in DOMAIN Seed
  <2>1. SeedData[d] = Seed[d] /\ SeedHistory[d] = <<make_schema_snapshot(Seed[d])>>
    BY <1>1 DEF SeedData, SeedHistory
  <2>2. Seed[d] \in Dataset
    BY <1>1, ServiceAssumption
  <2> QED
    BY <1>1, <2>1, <2>2, MissingAssumption DEF IdleThread
<1>2. CASE d \notin DOMAIN Seed
  BY <1>2 DEF SeedData, SeedHistory, IdleThread
<1> QED
  BY <1>1, <1>2

\* The seeded histories list the first versions.
LEMMA SeedVersions ==
  ASSUME FirstVersions, NEW d \in DatasetIds
  PROVE  /\ SeedData[d] = Missing => SeedHistory[d] = <<>>
         /\ \A i \in DOMAIN SeedHistory[d] : SeedHistory[d][i].version = i - 1
         /\ SeedData[d] # Missing => SeedData[d].version = Len(SeedHistory[d]) - 1
<1>1. CASE SeedData[d] = Missing
  BY <1>1, SeedIsInOrder
<1>2. CASE SeedData[d] # Missing
  <2>1. /\ d \in DOMAIN Seed /\ SeedData[d] = Seed[d] /\ Seed[d].version = 0
        /\ SeedHistory[d] = <<make_schema_snapshot(Seed[d])>>
    BY <1>2, SeedIsInOrder DEF FirstVersions
  <2>2. make_schema_snapshot(Seed[d]).version = 0
    BY <2>1 DEF make_schema_snapshot
  <2>3. PICK entry : entry = make_schema_snapshot(Seed[d]) /\ SeedHistory[d] = <<entry>> /\ entry.version = 0
    BY <2>1, <2>2
  <2>4. Len(SeedHistory[d]) = 1 /\ \A i \in DOMAIN SeedHistory[d] : i = 1 /\ SeedHistory[d][i] = entry
    BY <2>3
  <2> QED
    BY <1>2, <2>1, <2>3, <2>4
<1> QED
  BY <1>1, <1>2

\* While a request is served, what it has checked and read stays as it is.
LEMMA SerialNext == ASSUME OneAtATime PROVE TypeInv /\ SerialInv /\ [Next]_vars => SerialInv'
<1> SUFFICES ASSUME TypeInv, SerialInv, [Next]_vars PROVE SerialInv'
  OBVIOUS
<1>1. PICK t : Threads = {t}
  BY DEF OneAtATime
<1>2. ASSUME Quiet(t) PROVE SerialInv'
  <2>1. UNCHANGED <<data, history>>
    BY <1>2 DEF Quiet
  <2>2. CASE thread'[t].stage = "read"
    BY <1>1, <1>2, <2>1, <2>2 DEF Quiet, SerialInv, May
  <2>3. CASE thread'[t].stage = "commit"
    <3>1. /\ thread'[t].op = thread[t].op /\ thread'[t].actor = thread[t].actor
          /\ thread'[t].op # "create" => thread'[t].resource = thread[t].resource
          /\ CopyMade(thread'[t])
      BY <1>2, <2>3 DEF Quiet, Made
    <3>2. IF thread[t].op = "create" THEN is_admin(thread[t].actor) ELSE May(thread[t].actor, thread[t].resource)
      BY <1>1, <1>2, <2>3 DEF Quiet, SerialInv
    <3>3. CopyMade(thread[t])'
      BY <2>1, <3>1 DEF CopyMade, MadeFrom
    <3>4. IF thread'[t].op = "create" THEN is_admin(thread'[t].actor) ELSE May(thread[t].actor, thread[t].resource)'
      BY <2>1, <3>1, <3>2 DEF May
    <3> QED
      BY <1>1, <2>3, <3>3, <3>4 DEF SerialInv
  <2>4. CASE thread'[t].stage \notin {"read", "commit"}
    BY <1>1, <1>2, <2>4 DEF Quiet, SerialInv
  <2> QED
    BY <2>2, <2>3, <2>4
<1>3. ASSUME Commit(t) PROVE SerialInv'
  BY <1>1, <1>3, CommitFields DEF SerialInv
<1>4. ASSUME TakeSnapshot(t) PROVE SerialInv'
  BY <1>1, <1>4, TakeSnapshotFields DEF SerialInv
<1>5. CASE Restart
  BY <1>1, <1>5 DEF Restart, IdleThread, SerialInv
<1>6. CASE UNCHANGED vars
  <2>1. May(thread[t].actor, thread[t].resource)' = May(thread[t].actor, thread[t].resource)
    BY <1>6 DEF vars, May
  <2>2. CopyMade(thread[t])' = CopyMade(thread[t])
    BY <1>6 DEF vars, CopyMade, MadeFrom
  <2> QED
    BY <1>1, <1>6, <2>1, <2>2 DEF vars, SerialInv
<1> QED
  BY <1>1, <1>2, <1>3, <1>4, <1>5, <1>6, StepKinds DEF Next

\* The history stays the list of the versions.
LEMMA VersionsNext ==
  ASSUME OneAtATime, FirstVersions
  PROVE  TypeInv /\ SerialInv /\ VersionsInv /\ [Next]_vars => VersionsInv'
<1> SUFFICES ASSUME TypeInv, SerialInv, VersionsInv, [Next]_vars PROVE VersionsInv'
  OBVIOUS
<1>1. PICK t : Threads = {t}
  BY DEF OneAtATime
<1>2. \A d : Pending(d) <=> thread[t].stage = "snapshot" /\ thread[t].resource = d
  BY <1>1 DEF Pending
<1>3. \A d : Pending(d)' <=> thread'[t].stage = "snapshot" /\ thread'[t].resource = d
  BY <1>1 DEF Pending
<1>4. ASSUME Quiet(t) PROVE VersionsInv'
  BY <1>2, <1>3, <1>4 DEF Quiet, VersionsInv
<1>5. ASSUME Commit(t) PROVE VersionsInv'
  <2>1. PICK id \in DatasetIds, copy \in Dataset :
          /\ id = thread[t].resource /\ copy = thread[t].copy /\ data'[id] = copy
          /\ \A d \in DatasetIds \ {id} : data'[d] = data[d]
          /\ history' = history
          /\ thread[t].stage = "commit" /\ thread'[t].stage = "snapshot" /\ thread'[t].resource = id
    BY <1>1, <1>5, CommitFields
  <2>2. \A d \in DatasetIds : ~ Pending(d) /\ (Pending(d)' <=> d = id)
    BY <1>2, <1>3, <2>1
  <2>3. copy # Missing /\ CopyMade(thread[t])
    BY <1>1, <2>1, MissingAssumption DEF SerialInv
  <2>4. Len(history[id]) \in Nat
    BY DEF TypeInv, TypeOK
  <2>5. copy.version = Len(history[id])
    <3>1. CASE thread[t].op = "create"
      <4>1. history[id] = <<>>
        BY <2>1, <2>3, <3>1 DEF CopyMade, VersionsInv
      <4>2. PICK request \in CreateRequests : copy = Registered(request)
        BY <2>1, <2>3, <3>1 DEF CopyMade
      <4>3. copy.version = 0
        BY <4>2 DEF Registered
      <4> QED
        BY <4>1, <4>3
    <3>2. CASE thread[t].op # "create"
      <4>1. PICK dataset \in Dataset : dataset = data[id] /\ MadeFrom(thread[t].op, dataset, copy)
        BY <2>1, <2>3, <3>2 DEF CopyMade, TypeInv, TypeOK
      <4>2. copy.version = dataset.version + 1
        BY <4>1, ChangeSucceeds DEF Succeeds
      <4>3. dataset.version = Len(history[id]) - 1
        BY <2>2, <4>1, MissingAssumption DEF VersionsInv
      <4> QED
        BY <2>4, <4>2, <4>3
    <3> QED
      BY <3>1, <3>2
  <2> QED
    BY <2>1, <2>2, <2>3, <2>5 DEF VersionsInv
<1>6. ASSUME TakeSnapshot(t) PROVE VersionsInv'
  <2>1. PICK id \in DatasetIds, entry \in Snapshot, n \in Nat :
          /\ id = thread[t].resource /\ entry = make_schema_snapshot(thread[t].copy)
          /\ history[id] \in Seq(Snapshot) /\ n = Len(history[id])
          /\ history'[id] = Append(history[id], entry)
          /\ \A d \in DatasetIds \ {id} : history'[d] = history[d]
          /\ data' = data /\ data[id] # Missing /\ entry.version = data[id].version
          /\ thread[t].stage = "snapshot" /\ thread'[t].stage = "audit"
    <3>1. PICK id \in DatasetIds, copy \in Dataset : id = thread[t].resource /\ copy = thread[t].copy
      BY <1>1, <1>6, TakeSnapshotFields
    <3>2. data[id] = copy
      BY <1>1, <1>6, <3>1, TakeSnapshotFields DEF SerialInv
    <3>3. make_schema_snapshot(copy).version = copy.version /\ copy # Missing
      BY MissingAssumption DEF make_schema_snapshot
    <3>4. Len(history[id]) \in Nat
      BY DEF TypeInv, TypeOK
    <3> QED
      BY <1>1, <1>6, <3>1, <3>2, <3>3, <3>4, TakeSnapshotFields
  <2>2. \A d \in DatasetIds : (Pending(d) <=> d = id) /\ ~ Pending(d)'
    BY <1>2, <1>3, <2>1
  <2>3. data[id].version = n
    BY <2>1, <2>2 DEF VersionsInv
  <2>4. Len(history'[id]) = n + 1 /\ DOMAIN history'[id] = 1..(n + 1) /\ DOMAIN history[id] = 1..n
    BY <2>1
  <2>5. ASSUME NEW i \in DOMAIN history'[id] PROVE history'[id][i].version = i - 1
    <3>1. CASE i \in 1..n
      <4>1. history'[id][i] = history[id][i]
        BY <2>1, <3>1
      <4> QED
        BY <2>4, <3>1, <4>1 DEF VersionsInv
    <3>2. CASE i = n + 1
      <4>1. history'[id][i] = entry
        BY <2>1, <3>2
      <4> QED
        BY <2>1, <2>3, <3>2, <4>1
    <3> QED
      BY <2>4, <3>1, <3>2
  <2>6. data'[id].version = Len(history'[id]) - 1
    BY <2>1, <2>3, <2>4
  <2> SUFFICES ASSUME NEW d \in DatasetIds
               PROVE  /\ data'[d] = Missing => history'[d] = <<>>
                      /\ \A i \in DOMAIN history'[d] : history'[d][i].version = i - 1
                      /\ data'[d] # Missing => data'[d].version = Len(history'[d]) - 1
    BY <2>2 DEF VersionsInv
  <2>7. CASE d = id
    BY <2>1, <2>5, <2>6, <2>7
  <2>8. CASE d # id
    BY <2>1, <2>2, <2>8 DEF VersionsInv
  <2> QED
    BY <2>7, <2>8
<1>7. CASE Restart
  <2>1. data' = SeedData /\ history' = SeedHistory /\ thread'[t] = IdleThread
    BY <1>1, <1>7 DEF Restart
  <2>2. IdleThread.stage = "idle"
    BY DEF IdleThread
  <2>3. ASSUME NEW d \in DatasetIds
        PROVE  /\ SeedData[d] = Missing => SeedHistory[d] = <<>>
               /\ \A i \in DOMAIN SeedHistory[d] : SeedHistory[d][i].version = i - 1
               /\ SeedData[d] # Missing => SeedData[d].version = Len(SeedHistory[d]) - 1
    BY SeedVersions
  <2> QED
    BY <1>3, <2>1, <2>2, <2>3 DEF VersionsInv
<1>8. CASE UNCHANGED vars
  BY <1>2, <1>3, <1>8 DEF vars, VersionsInv
<1> QED
  BY <1>1, <1>4, <1>5, <1>6, <1>7, <1>8, StepKinds DEF Next

\* The seeded histories have one schema for a version.
LEMMA SeedSchemas ==
  /\ \A d \in DatasetIds : \A i, j \in DOMAIN SeedHistory[d] : i = j
  /\ \A d \in DatasetIds : SeedData[d] = Missing => SeedHistory[d] = <<>>
  /\ \A d \in DatasetIds : SeedData[d] # Missing => \A i \in DOMAIN SeedHistory[d] : Agrees(SeedHistory[d][i], SeedData[d])
<1> SUFFICES ASSUME NEW d \in DatasetIds
             PROVE  /\ \A i, j \in DOMAIN SeedHistory[d] : i = j
                    /\ SeedData[d] = Missing => SeedHistory[d] = <<>>
                    /\ SeedData[d] # Missing => \A i \in DOMAIN SeedHistory[d] : Agrees(SeedHistory[d][i], SeedData[d])
  OBVIOUS
<1>1. CASE SeedData[d] = Missing
  BY <1>1, SeedIsInOrder
<1>2. CASE SeedData[d] # Missing
  <2>1. PICK entry : entry = make_schema_snapshot(Seed[d])
    OBVIOUS
  <2>2. SeedData[d] = Seed[d] /\ SeedHistory[d] = <<entry>>
    BY <1>2, <2>1, SeedIsInOrder
  <2>3. Agrees(entry, Seed[d])
    BY <2>1 DEF make_schema_snapshot, Agrees
  <2>4. \A i \in DOMAIN SeedHistory[d] : i = 1 /\ SeedHistory[d][i] = entry
    BY <2>2
  <2> QED
    BY <1>2, <2>2, <2>3, <2>4
<1> QED
  BY <1>1, <1>2

\* A schema version keeps naming one schema.
LEMMA SchemasNext ==
  ASSUME OneAtATime
  PROVE  TypeInv /\ SerialInv /\ SchemasInv /\ [Next]_vars => SchemasInv'
<1> SUFFICES ASSUME TypeInv, SerialInv, SchemasInv, [Next]_vars PROVE SchemasInv'
  OBVIOUS
<1>1. PICK t : Threads = {t}
  BY DEF OneAtATime
<1>2. ASSUME UNCHANGED <<data, history>> PROVE SchemasInv'
  BY <1>2 DEF SchemasInv, SchemaVersionNamesOneSchema
<1>3. ASSUME Commit(t) PROVE SchemasInv'
  <2>1. PICK id \in DatasetIds, copy \in Dataset :
          /\ id = thread[t].resource /\ copy = thread[t].copy /\ data'[id] = copy
          /\ \A d \in DatasetIds \ {id} : data'[d] = data[d]
          /\ history' = history
    BY <1>1, <1>3, CommitFields
  <2>2. copy # Missing /\ CopyMade(thread[t])
    BY <1>1, <1>3, <2>1, CommitFields, MissingAssumption DEF SerialInv
  <2>3. ASSUME NEW i \in DOMAIN history[id] PROVE Agrees(history[id][i], copy)
    <3>1. CASE thread[t].op = "create"
      <4>1. history[id] = <<>>
        BY <2>1, <2>2, <3>1 DEF CopyMade, SchemasInv
      <4> QED
        BY <4>1
    <3>2. CASE thread[t].op # "create"
      <4>1. PICK dataset \in Dataset : dataset = data[id] /\ MadeFrom(thread[t].op, dataset, copy)
        BY <2>1, <2>2, <3>2 DEF CopyMade, TypeInv, TypeOK
      <4>2. Succeeds(copy, dataset)
        BY <4>1, ChangeSucceeds
      <4>3. PICK entry \in Snapshot : entry = history[id][i]
        BY DEF TypeInv, TypeOK
      <4>4. Agrees(entry, dataset)
        BY <4>1, <4>3, MissingAssumption DEF SchemasInv
      <4>5. entry.schema_version \in Nat /\ dataset.schema_version \in Nat /\ dataset.schema \in Schema
        BY DEF Snapshot, Dataset
      <4>6. CASE copy.schema_version = dataset.schema_version + 1
        BY <4>3, <4>4, <4>5, <4>6 DEF Agrees
      <4>7. CASE copy.schema_version = dataset.schema_version /\ copy.schema = RoundTrip(dataset.schema)
        <5>1. RoundTrip(copy.schema) = RoundTrip(dataset.schema)
          BY <4>5, <4>7, RoundTripTwice
        <5> QED
          BY <4>3, <4>4, <4>7, <5>1 DEF Agrees
      <4> QED
        BY <4>2, <4>6, <4>7 DEF Succeeds
    <3> QED
      BY <3>1, <3>2
  <2>4. SchemaVersionNamesOneSchema'
    BY <2>1 DEF SchemasInv, SchemaVersionNamesOneSchema
  <2> SUFFICES ASSUME NEW d \in DatasetIds
               PROVE  /\ data'[d] = Missing => history'[d] = <<>>
                      /\ data'[d] # Missing => \A i \in DOMAIN history'[d] : Agrees(history'[d][i], data'[d])
    BY <2>4 DEF SchemasInv
  <2>5. CASE d = id
    BY <2>1, <2>2, <2>3, <2>5
  <2>6. CASE d # id
    BY <2>1, <2>6 DEF SchemasInv
  <2> QED
    BY <2>5, <2>6
<1>4. ASSUME TakeSnapshot(t) PROVE SchemasInv'
  <2>1. PICK id \in DatasetIds, copy \in Dataset : id = thread[t].resource /\ copy = thread[t].copy /\ data[id] = copy
    BY <1>1, <1>4, TakeSnapshotFields DEF SerialInv
  <2>2. PICK entry \in Snapshot : entry = make_schema_snapshot(copy)
    BY SnapshotType
  <2>3. /\ history[id] \in Seq(Snapshot) /\ history'[id] = Append(history[id], entry)
        /\ \A d \in DatasetIds \ {id} : history'[d] = history[d]
        /\ data' = data /\ copy # Missing
    BY <1>1, <1>4, <2>1, <2>2, TakeSnapshotFields, MissingAssumption
  <2>4. /\ entry.schema_version = copy.schema_version /\ entry.schema = copy.schema
        /\ Agrees(entry, copy)
    BY <2>2 DEF make_schema_snapshot, Agrees
  <2>5. ASSUME NEW i \in DOMAIN history'[id]
        PROVE  history'[id][i] = entry \/ (i \in DOMAIN history[id] /\ history'[id][i] = history[id][i])
    BY <2>3
  <2>6. \A i \in DOMAIN history[id] : Agrees(history[id][i], copy)
    BY <2>1, <2>3 DEF SchemasInv
  <2>7. ASSUME NEW i \in DOMAIN history[id], history[id][i].schema_version = entry.schema_version
        PROVE  RoundTrip(history[id][i].schema) = RoundTrip(entry.schema)
    <3>1. PICK old \in Snapshot : old = history[id][i]
      BY <2>3
    <3>2. ~ (old.schema_version < copy.schema_version)
      BY <2>4, <2>7, <3>1 DEF Snapshot
    <3> QED
      BY <2>4, <2>6, <3>1, <3>2 DEF Agrees
  <2>8. ASSUME NEW d \in DatasetIds, NEW i \in DOMAIN history'[d], NEW j \in DOMAIN history'[d],
               history'[d][i].schema_version = history'[d][j].schema_version
        PROVE  RoundTrip(history'[d][i].schema) = RoundTrip(history'[d][j].schema)
    <3>1. CASE d # id
      BY <2>3, <2>8, <3>1 DEF SchemasInv, SchemaVersionNamesOneSchema
    <3>2. CASE d = id /\ history'[id][i] = entry
      BY <2>5, <2>7, <2>8, <3>2
    <3>3. CASE d = id /\ history'[id][j] = entry
      BY <2>5, <2>7, <2>8, <3>3
    <3>4. CASE /\ d = id /\ i \in DOMAIN history[id] /\ history'[id][i] = history[id][i]
               /\ j \in DOMAIN history[id] /\ history'[id][j] = history[id][j]
      BY <2>8, <3>4 DEF SchemasInv, SchemaVersionNamesOneSchema
    <3> QED
      BY <2>5, <3>1, <3>2, <3>3, <3>4
  <2>9. SchemaVersionNamesOneSchema'
    BY <2>8 DEF SchemaVersionNamesOneSchema
  <2> SUFFICES ASSUME NEW d \in DatasetIds
               PROVE  /\ data'[d] = Missing => history'[d] = <<>>
                      /\ data'[d] # Missing => \A i \in DOMAIN history'[d] : Agrees(history'[d][i], data'[d])
    BY <2>9 DEF SchemasInv
  <2>10. CASE d = id
    BY <2>1, <2>3, <2>4, <2>5, <2>6, <2>10
  <2>11. CASE d # id
    BY <2>3, <2>11 DEF SchemasInv
  <2> QED
    BY <2>10, <2>11
<1>5. CASE Restart
  <2>1. data' = SeedData /\ history' = SeedHistory
    BY <1>5 DEF Restart
  <2> QED
    BY <2>1, SeedSchemas DEF SchemasInv, SchemaVersionNamesOneSchema
<1>6. ASSUME Quiet(t) PROVE SchemasInv'
  BY <1>2, <1>6 DEF Quiet
<1> QED
  BY <1>1, <1>2, <1>3, <1>4, <1>5, <1>6, StepKinds DEF Next, vars

\* Served one request at a time, the service is in order: what holds from one step to the
\* next, and at the start.
LEMMA SerialInvariant ==
  ASSUME OneAtATime PROVE Spec => [](TypeInv /\ SerialInv /\ SchemasInv)
<1>1. Init => SerialInv
  BY DEF Init, IdleThread, SerialInv
<1>2. Init => SchemasInv
  BY SeedSchemas DEF Init, SchemasInv, SchemaVersionNamesOneSchema
<1> QED
  BY <1>1, <1>2, TypeInit, TypeNext, SerialNext, SchemasNext, PTL DEF Spec

\* With requests one at a time, a schema version names one schema (sdp/catalog.py,
\* patch_dataset moves schema_version with every schema it is sent), whatever fails and
\* whenever the process restarts.
THEOREM SchemaVersionsAreNames == ASSUME OneAtATime PROVE Spec => []SchemaVersionNamesOneSchema
<1>1. SchemasInv => SchemaVersionNamesOneSchema
  BY DEF SchemasInv
<1> QED
  BY <1>1, SerialInvariant, PTL

\* Every column of the schema has all its fields.
Plain(schema) == RoundTrip(schema) = schema

\* A schema version that comes back in the history, or is about to, comes back with all
\* the fields of its columns.
SettledInv ==
  \A d \in DatasetIds :
     /\ \A i, j \in DOMAIN history[d] :
           j < i /\ history[d][j].schema_version = history[d][i].schema_version => Plain(history[d][i].schema)
     /\ Pending(d) =>
          \A j \in DOMAIN history[d] :
             history[d][j].schema_version = data[d].schema_version => Plain(data[d].schema)

\* What is read out of a model and read in again has all its fields.
LEMMA RoundTripIsPlain == ASSUME NEW schema \in Schema PROVE Plain(RoundTrip(schema))
BY RoundTripTwice DEF Plain

\* A seeded history has one entry, so nothing in it has come back.
LEMMA SettledStart ==
  ASSUME data = SeedData, history = SeedHistory, \A t \in Threads : thread[t].stage = "idle"
  PROVE  SettledInv
<1>1. \A d : ~ Pending(d)
  BY DEF Pending
<1>2. ASSUME NEW d \in DatasetIds, NEW i \in DOMAIN history[d], NEW j \in DOMAIN history[d] PROVE ~ (j < i)
  <2>1. SeedHistory[d] = <<>> \/ \E e : SeedHistory[d] = <<e>>
    BY SeedIsInOrder
  <2>2. i = 1 /\ j = 1
    BY <2>1
  <2> QED
    BY <2>2
<1> QED
  BY <1>1, <1>2 DEF SettledInv

\* Whatever comes back in the history has all its fields.
LEMMA SettledNext ==
  ASSUME OneAtATime
  PROVE  TypeInv /\ SerialInv /\ SchemasInv /\ SettledInv /\ [Next]_vars => SettledInv'
<1> SUFFICES ASSUME TypeInv, SerialInv, SchemasInv, SettledInv, [Next]_vars PROVE SettledInv'
  OBVIOUS
<1>1. PICK t : Threads = {t}
  BY DEF OneAtATime
<1>2. ASSUME UNCHANGED <<data, history>>, thread'[t].stage # "snapshot" PROVE SettledInv'
  <2>1. \A d : ~ Pending(d)'
    BY <1>1, <1>2 DEF Pending
  <2> QED
    BY <1>2, <2>1 DEF SettledInv
<1>3. ASSUME Commit(t) PROVE SettledInv'
  <2>1. PICK id \in DatasetIds, copy \in Dataset :
          /\ id = thread[t].resource /\ copy = thread[t].copy /\ data'[id] = copy
          /\ \A d \in DatasetIds \ {id} : data'[d] = data[d]
          /\ history' = history /\ thread'[t].resource = id
    BY <1>1, <1>3, CommitFields
  <2>2. CopyMade(thread[t])
    BY <1>1, <1>3, CommitFields DEF SerialInv
  <2>3. ASSUME NEW j \in DOMAIN history[id], history[id][j].schema_version = copy.schema_version
        PROVE  Plain(copy.schema)
    <3>1. thread[t].op # "create"
      BY <2>1, <2>2 DEF CopyMade, SchemasInv
    <3>2. PICK dataset \in Dataset : dataset = data[id] /\ MadeFrom(thread[t].op, dataset, copy)
      BY <2>1, <2>2, <3>1 DEF CopyMade, TypeInv, TypeOK
    <3>3. Succeeds(copy, dataset)
      BY <3>2, ChangeSucceeds
    <3>4. PICK entry \in Snapshot : entry = history[id][j]
      BY DEF TypeInv, TypeOK
    <3>5. Agrees(entry, dataset)
      BY <3>2, <3>4, MissingAssumption DEF SchemasInv
    <3>6. entry.schema_version \in Nat /\ dataset.schema_version \in Nat /\ dataset.schema \in Schema
      BY DEF Snapshot, Dataset
    <3>7. copy.schema_version # dataset.schema_version + 1
      BY <2>3, <3>4, <3>5, <3>6 DEF Agrees
    <3>8. copy.schema = RoundTrip(dataset.schema)
      BY <3>3, <3>7 DEF Succeeds
    <3> QED
      BY <3>6, <3>8, RoundTripIsPlain
  <2>4. \A d \in DatasetIds : Pending(d)' => d = id
    BY <1>1, <2>1 DEF Pending
  <2> QED
    BY <2>1, <2>3, <2>4 DEF SettledInv
<1>4. ASSUME TakeSnapshot(t) PROVE SettledInv'
  <2>1. PICK id \in DatasetIds, copy \in Dataset :
          id = thread[t].resource /\ copy = thread[t].copy /\ data[id] = copy /\ Pending(id)
    BY <1>1, <1>4, TakeSnapshotFields DEF SerialInv, Pending
  <2>2. PICK entry \in Snapshot : entry = make_schema_snapshot(copy)
    BY SnapshotType
  <2>3. PICK h \in Seq(Snapshot) : h = history[id]
    BY <2>1 DEF TypeInv, TypeOK
  <2>4. /\ history'[id] = Append(h, entry)
        /\ \A d \in DatasetIds \ {id} : history'[d] = history[d]
        /\ thread'[t].stage = "audit"
    BY <1>1, <1>4, <2>1, <2>2, <2>3, TakeSnapshotFields
  <2>5. entry.schema_version = copy.schema_version /\ entry.schema = copy.schema
    BY <2>2 DEF make_schema_snapshot
  <2>6. \A d : ~ Pending(d)'
    BY <1>1, <2>4 DEF Pending
  <2>7. ASSUME NEW i \in DOMAIN Append(h, entry), NEW j \in DOMAIN Append(h, entry), j < i,
               Append(h, entry)[j].schema_version = Append(h, entry)[i].schema_version
        PROVE  Plain(Append(h, entry)[i].schema)
    <3>1. j \in DOMAIN h /\ Append(h, entry)[j] = h[j]
      BY <2>7
    <3>2. CASE i \in DOMAIN h
      <4>1. Append(h, entry)[i] = h[i]
        BY <3>2
      <4> QED
        BY <2>3, <2>7, <3>1, <3>2, <4>1 DEF SettledInv
    <3>3. CASE i \notin DOMAIN h
      <4>1. Append(h, entry)[i] = entry
        BY <3>3
      <4>2. h[j].schema_version = copy.schema_version
        BY <2>5, <2>7, <3>1, <4>1
      <4> QED
        BY <2>1, <2>3, <2>5, <3>1, <4>1, <4>2 DEF SettledInv
    <3> QED
      BY <3>2, <3>3
  <2>8. ASSUME NEW d \in DatasetIds, NEW i \in DOMAIN history'[d], NEW j \in DOMAIN history'[d], j < i,
               history'[d][j].schema_version = history'[d][i].schema_version
        PROVE  Plain(history'[d][i].schema)
    <3>1. CASE d = id
      BY <2>4, <2>7, <2>8, <3>1
    <3>2. CASE d # id
      BY <2>4, <2>8, <3>2 DEF SettledInv
    <3> QED
      BY <3>1, <3>2
  <2> QED
    BY <2>6, <2>8 DEF SettledInv
<1>5. CASE Restart
  <2>1. data' = SeedData /\ history' = SeedHistory /\ \A u \in Threads : thread'[u].stage = "idle"
    BY <1>5 DEF Restart, IdleThread
  <2>2. \A d : ~ Pending(d)'
    BY <2>1 DEF Pending
  <2>3. ASSUME NEW d \in DatasetIds, NEW i \in DOMAIN SeedHistory[d], NEW j \in DOMAIN SeedHistory[d] PROVE ~ (j < i)
    <3>1. SeedHistory[d] = <<>> \/ \E e : SeedHistory[d] = <<e>>
      BY SeedIsInOrder
    <3> QED
      BY <3>1
  <2> QED
    BY <2>1, <2>2, <2>3 DEF SettledInv
<1>6. CASE UNCHANGED vars
  BY <1>6 DEF vars, SettledInv, Pending
<1>7. ASSUME Quiet(t) PROVE SettledInv'
  BY <1>2, <1>7 DEF Quiet
<1> QED
  BY <1>1, <1>3, <1>4, <1>5, <1>6, <1>7, StepKinds DEF Next

\* The positions of a list have a last one among them.
LEMMA LastPosition ==
  ASSUME NEW n \in Nat, NEW S \in SUBSET (1..n), S # {}
  PROVE  \E i \in S : \A j \in S : j <= i
<1> DEFINE R == OpToRel(<, Nat)
           T == {n - i : i \in S}
<1>1. IsWellFoundedOn(R, Nat)
  BY NatLessThanWellFounded
<1>2. T \in SUBSET Nat /\ T # {}
  <2>1. ASSUME NEW i \in S PROVE n - i \in Nat
    <3>1. i \in 1..n
      OBVIOUS
    <3> QED
      BY <3>1
  <2>2. PICK i \in S : TRUE
    OBVIOUS
  <2>3. n - i \in T
    OBVIOUS
  <2> QED
    BY <2>1, <2>3
<1> HIDE DEF R
<1>3. PICK m \in T : \A k \in T : ~ (<<k, m>> \in R)
  BY <1>1, <1>2, WFMin
<1>4. \A k \in T : ~ (k < m)
  BY <1>2, <1>3 DEF R, OpToRel
<1>5. PICK i \in S : m = n - i
  OBVIOUS
<1>6. ASSUME NEW j \in S PROVE j <= i
  BY <1>4, <1>5
<1> QED
  BY <1>6

\* A schema version that is in a history is that of its last entry with that version.
LEMMA SchemaAtIsThere ==
  ASSUME NEW h \in Seq(Snapshot), NEW version \in SchemaVersions(h)
  PROVE  \E i \in DOMAIN h :
            /\ SchemaAt(h, version) = h[i].schema /\ h[i].schema_version = version
            /\ \A j \in DOMAIN h : h[j].schema_version = version => j <= i
<1> DEFINE entries == {i \in DOMAIN h : h[i].schema_version = version}
<1>1. entries \in SUBSET (1..Len(h)) /\ entries # {} /\ Len(h) \in Nat
  BY DEF SchemaVersions
<1> HIDE DEF entries
<1>2. \E i \in entries : \A j \in entries : j <= i
  BY <1>1, LastPosition
<1>3. PICK last : last = CHOOSE i \in entries : \A j \in entries : j <= i
  OBVIOUS
<1>4. last \in entries /\ \A j \in entries : j <= last
  BY <1>2, <1>3
<1>5. SchemaAt(h, version) = h[last].schema
  BY <1>3 DEF SchemaAt, entries
<1> QED
  BY <1>4, <1>5 DEF entries

\* The schema shown for a settled version has all its fields.
LEMMA SettledIsPlain ==
  ASSUME TypeInv, SettledInv, NEW d \in DatasetIds, NEW version, Settled(d, version)
  PROVE  Plain(SchemaAt(history[d], version))
<1>1. PICK h \in Seq(Snapshot) : h = history[d]
  BY DEF TypeInv, TypeOK
<1>2. version \in SchemaVersions(h)
  BY <1>1 DEF Settled, SchemaVersions
<1>3. PICK last \in DOMAIN h :
        /\ SchemaAt(h, version) = h[last].schema /\ h[last].schema_version = version
        /\ \A j \in DOMAIN h : h[j].schema_version = version => j <= last
  BY <1>2, SchemaAtIsThere
<1>4. PICK j \in DOMAIN h : j # last /\ h[j].schema_version = version
  BY <1>1 DEF Settled
<1>5. j < last
  BY <1>3, <1>4
<1> QED
  BY <1>1, <1>3, <1>4, <1>5 DEF SettledInv

\* With requests one at a time, the diff the service reports (sdp/catalog.py,
\* get_dataset_schema_diff) misses no column whose PII flag differs between the two
\* schema versions, and reports no other one as changed once each of the versions has been
\* stored a second time: whatever fails and whenever the process restarts.
THEOREM DiffsShowRealChanges == ASSUME OneAtATime PROVE Spec => []DiffShowsRealChanges
<1>1. Init => SettledInv
  BY SettledStart DEF Init, IdleThread
<1>2. Spec => [](TypeInv /\ SettledInv)
  BY <1>1, SerialInvariant, SettledNext, PTL DEF Spec
<1>3. TypeInv /\ SettledInv => DiffShowsRealChanges
  <2> SUFFICES ASSUME TypeInv, SettledInv, NEW d \in DatasetIds,
                      NEW from \in SchemaVersions(history[d]), NEW to \in SchemaVersions(history[d]),
                      NEW b \in SchemaAt(history[d], from), NEW c \in SchemaAt(history[d], to), b.name = c.name
               PROVE  LET reported == <<b, c>> \in schema_diff(history[d], from, to).changed
                      IN  /\ b.pii # c.pii => reported
                          /\ reported /\ Settled(d, from) /\ Settled(d, to) => b.pii # c.pii
    BY DEF DiffShowsRealChanges
  <2>1. history[d] \in Seq(Snapshot)
    BY DEF TypeInv, TypeOK
  <2>2. \A version \in SchemaVersions(history[d]) : \A x \in SchemaAt(history[d], version) : x \in Column
    <3> SUFFICES ASSUME NEW version \in SchemaVersions(history[d]) PROVE SchemaAt(history[d], version) \in Schema
      BY DEF Schema
    <3>1. PICK i \in DOMAIN history[d] : SchemaAt(history[d], version) = history[d][i].schema
      BY <2>1, SchemaAtIsThere
    <3>2. history[d][i] \in Snapshot
      BY <2>1
    <3>3. history[d][i].schema \in Schema
      BY <3>2 DEF Snapshot
    <3> QED
      BY <3>1, <3>3
  <2>3. (<<b, c>> \in schema_diff(history[d], from, to).changed) <=> b # c
    BY DEF schema_diff
  <2>4. Settled(d, from) => b.explicit
    <3>1. Settled(d, from) => b \in RoundTrip(SchemaAt(history[d], from))
      BY SettledIsPlain DEF Plain
    <3> QED
      BY <2>2, <3>1 DEF RoundTrip, Column
  <2>5. Settled(d, to) => c.explicit
    <3>1. Settled(d, to) => c \in RoundTrip(SchemaAt(history[d], to))
      BY SettledIsPlain DEF Plain
    <3> QED
      BY <2>2, <3>1 DEF RoundTrip, Column
  <2>6. b # c /\ b.explicit /\ c.explicit => b.pii # c.pii
    BY <2>2 DEF Column
  <2> QED
    BY <2>3, <2>4, <2>5, <2>6
<1> QED
  BY <1>2, <1>3, PTL

\* With requests one at a time the history of a dataset is the list of its versions, from
\* the first one to the current one and without a gap (sdp/catalog.py, _bump_version and
\* _record_schema_snapshot).
THEOREM HistoriesAreVersionLogs ==
  ASSUME OneAtATime, FirstVersions PROVE Spec => []HistoryIsVersionLog
<1>1. Init => VersionsInv
  <2> SUFFICES ASSUME Init PROVE VersionsInv
    OBVIOUS
  <2>1. data = SeedData /\ history = SeedHistory /\ \A t \in Threads : thread[t].stage = "idle"
    BY DEF Init, IdleThread
  <2>2. \A d : ~ Pending(d)
    BY <2>1 DEF Pending
  <2> QED
    BY <2>1, <2>2, SeedVersions DEF VersionsInv
<1>2. Spec => [](TypeInv /\ SerialInv /\ VersionsInv)
  BY <1>1, SerialInvariant, VersionsNext, PTL DEF Spec
<1>3. TypeInv /\ VersionsInv => HistoryIsVersionLog
  <2> SUFFICES ASSUME TypeInv, VersionsInv, NEW d \in DatasetIds
               PROVE  /\ \A i \in DOMAIN history[d] : history[d][i].version = i - 1
                      /\ data[d] # Missing =>
                           data[d].version = Len(history[d]) - 1
                             + Cardinality({t \in Threads : thread[t].stage = "snapshot" /\ thread[t].resource = d})
    BY DEF HistoryIsVersionLog
  <2> DEFINE writers == {t \in Threads : thread[t].stage = "snapshot" /\ thread[t].resource = d}
  <2>1. PICK t : Threads = {t}
    BY DEF OneAtATime
  <2>2. PICK n \in Nat : n = Len(history[d])
    BY DEF TypeInv, TypeOK
  <2>3. CASE Pending(d)
    <3>1. writers = {t}
      BY <2>1, <2>3 DEF Pending
    <3>2. Cardinality(writers) = 1
      BY <3>1, FS_Singleton
    <3> QED
      BY <2>2, <2>3, <3>2 DEF VersionsInv
  <2>4. CASE ~ Pending(d)
    <3>1. writers = {}
      BY <2>4 DEF Pending
    <3>2. Cardinality(writers) = 0
      BY <3>1, FS_EmptySet
    <3> QED
      BY <2>2, <2>4, <3>2 DEF VersionsInv
  <2> QED
    BY <2>3, <2>4
<1> QED
  BY <1>2, <1>3, PTL

\* With requests one at a time, nobody without a role for all tenants changes a dataset of
\* another tenant (sdp/policy.py decides, sdp/catalog.py keeps the tenant).
THEOREM ChangesAreInTenant == ASSUME OneAtATime PROVE Spec => ChangesStayInTenant
<1>1. TypeInv /\ SerialInv /\ [Next]_vars =>
        [\A t \in Threads :
            /\ thread[t].stage = "commit"
            /\ thread'[t].stage = "snapshot"
            /\ thread[t].op # "create"
            /\ ~ \E role \in RolesOf(thread[t].actor) : MatrixAllTenants(role)
            => thread[t].copy.tenant_id = TenantOf(thread[t].actor)]_vars
  <2> SUFFICES ASSUME TypeInv, SerialInv, NEW t \in Threads, thread[t].stage = "commit", thread[t].op # "create",
                      ~ \E role \in RolesOf(thread[t].actor) : MatrixAllTenants(role)
               PROVE  thread[t].copy.tenant_id = TenantOf(thread[t].actor)
    OBVIOUS
  <2>1. CopyMade(thread[t]) /\ May(thread[t].actor, thread[t].resource)
    BY DEF SerialInv
  <2>2. PICK dataset \in Dataset :
          dataset = data[thread[t].resource] /\ MadeFrom(thread[t].op, dataset, thread[t].copy)
    BY <2>1 DEF CopyMade, TypeInv, TypeOK
  <2>3. thread[t].copy.tenant_id = dataset.tenant_id
    BY <2>2, ChangeSucceeds DEF Succeeds
  <2>4. can_access_tenant(thread[t].actor, dataset.tenant_id)
    BY <2>1, <2>2 DEF May
  <2> QED
    BY <2>3, <2>4 DEF can_access_tenant, MatrixAllTenants
<1> QED
  BY <1>1, SerialInvariant, PTL DEF Spec, ChangesStayInTenant

-----------------------------------------------------------------------------
(* The abstract catalog *)

\* The words of the contract are those of the service.
LEMMA SameWords ==
  /\ \A dataset : Atomic!make_schema_snapshot(dataset) = make_schema_snapshot(dataset)
  /\ \A schema : Atomic!RoundTrip(schema) = RoundTrip(schema)
  /\ \A dataset : Atomic!Published(dataset) = Published(dataset)
  /\ \A dataset : Atomic!Deprecated(dataset) = Deprecated(dataset)
  /\ \A dataset : Atomic!validate_metadata(dataset) <=> validate_metadata(dataset)
  /\ \A actor : Atomic!is_admin(actor) <=> is_admin(actor)
  /\ \A actor, tenant : Atomic!can_access_tenant(actor, tenant) <=> can_access_tenant(actor, tenant)
<1>1. \A dataset : Atomic!make_schema_snapshot(dataset) = make_schema_snapshot(dataset)
  BY DEF Atomic!make_schema_snapshot, make_schema_snapshot
<1>2. \A schema : Atomic!RoundTrip(schema) = RoundTrip(schema)
  BY DEF Atomic!RoundTrip, RoundTrip
<1>3. \A dataset : Atomic!Published(dataset) = Published(dataset)
  BY <1>2 DEF Atomic!Published, Published, Atomic!bump_version, bump_version
<1>4. \A dataset : Atomic!Deprecated(dataset) = Deprecated(dataset)
  BY <1>2 DEF Atomic!Deprecated, Deprecated, Atomic!bump_version, bump_version
<1>5. \A dataset : Atomic!validate_metadata(dataset) <=> validate_metadata(dataset)
  BY DEF Atomic!validate_metadata, validate_metadata
<1>6. \A actor : Atomic!RolesOf(actor) = RolesOf(actor)
  BY DEF Atomic!RolesOf, RolesOf, Atomic!subject_key, subject_key
<1>7. \A actor : Atomic!TenantOf(actor) = TenantOf(actor)
  BY DEF Atomic!TenantOf, TenantOf, Atomic!subject_key, subject_key
<1>8. \A actor : Atomic!is_admin(actor) <=> is_admin(actor)
  BY <1>6 DEF Atomic!is_admin, is_admin, Atomic!has_role, has_role
<1>9. \A actor, tenant : Atomic!can_access_tenant(actor, tenant) <=> can_access_tenant(actor, tenant)
  BY <1>6, <1>7 DEF Atomic!can_access_tenant, can_access_tenant
<1> QED
  BY <1>1, <1>2, <1>3, <1>4, <1>5, <1>8, <1>9

TrailRecord == [actor : Subjects, action : Ops, resource : DatasetIds]

\* The history and the trail, with what thread th has still to append.
HistoryWith(h, th) ==
  [d \in DatasetIds |->
     h[d] \o IF th.stage = "snapshot" /\ th.resource = d THEN <<make_schema_snapshot(th.copy)>> ELSE <<>>]

EntryOf(th) == [actor |-> th.actor, action |-> th.op, resource |-> th.resource]

Trail(log) == [i \in DOMAIN log |-> TrailEntry(log[i])]

TrailWith(log, th) ==
  Trail(log) \o IF th.stage \in {"snapshot", "audit", "noop"} THEN <<EntryOf(th)>> ELSE <<>>

\* What is shown of the only thread.
LEMMA ShownIs ==
  ASSUME NEW t, Threads = {t}
  PROVE  /\ ShownHistory = HistoryWith(history, thread[t])
         /\ ShownTrail = TrailWith(audit, thread[t])
<1>1. Worker = thread[t]
  BY DEF Worker
<1>2. TrailEntry(AuditEventOf(thread[t])) = EntryOf(thread[t])
  BY DEF TrailEntry, AuditEventOf, EntryOf
<1> QED
  BY <1>1, <1>2 DEF ShownHistory, PendingSnapshot, HistoryWith, ShownTrail, PendingEvent, TrailWith, Trail

\* What is shown of it after a step.
LEMMA ShownIsNext ==
  ASSUME NEW t, Threads = {t}
  PROVE  /\ ShownHistory' = HistoryWith(history', thread'[t])
         /\ ShownTrail' = TrailWith(audit', thread'[t])
<1>1. Worker' = thread'[t]
  BY DEF Worker
<1>2. TrailEntry(AuditEventOf(thread'[t])) = EntryOf(thread'[t])
  BY DEF TrailEntry, AuditEventOf, EntryOf
<1>3. ShownHistory' = HistoryWith(history', thread'[t])
  BY <1>1 DEF ShownHistory, PendingSnapshot, HistoryWith
<1>4. PendingEvent' = IF thread'[t].stage \in {"snapshot", "audit", "noop"} THEN <<EntryOf(thread'[t])>> ELSE <<>>
  BY <1>1, <1>2 DEF PendingEvent, TrailEntry, AuditEventOf
<1> QED
  BY <1>3, <1>4 DEF ShownTrail, TrailWith, Trail, TrailEntry

\* A list with nothing, or with one more entry, behind it.
LEMMA ConcatOne ==
  ASSUME NEW S, NEW s \in Seq(S)
  PROVE  s \o <<>> = s /\ \A e \in S : s \o <<e>> = Append(s, e)
<1>1. s \o <<>> = s
  OBVIOUS
<1>2. ASSUME NEW e \in S PROVE s \o <<e>> = Append(s, e)
  OBVIOUS
<1> QED
  BY <1>1, <1>2

\* The history shown is the one there is, or has the pending snapshot at its end.
LEMMA HistoryShown ==
  ASSUME NEW h \in [DatasetIds -> Seq(Snapshot)], NEW th \in Thread, RequestInOrder(th)
  PROVE  HistoryWith(h, th) =
           IF th.stage = "snapshot" THEN [h EXCEPT ![th.resource] = Append(@, make_schema_snapshot(th.copy))]
                                    ELSE h
<1>1. CASE th.stage = "snapshot"
  <2>1. PICK id \in DatasetIds, entry \in Snapshot : id = th.resource /\ entry = make_schema_snapshot(th.copy)
    BY <1>1, SnapshotType DEF RequestInOrder
  <2>2. HistoryWith(h, th) = [d \in DatasetIds |-> h[d] \o IF id = d THEN <<entry>> ELSE <<>>]
    BY <1>1, <2>1 DEF HistoryWith
  <2>3. ASSUME NEW d \in DatasetIds PROVE HistoryWith(h, th)[d] = [h EXCEPT ![id] = Append(@, entry)][d]
    <3>1. h[d] \in Seq(Snapshot)
      OBVIOUS
    <3>2. CASE d = id
      BY <2>2, <3>1, <3>2, ConcatOne
    <3>3. CASE d # id
      BY <2>2, <3>1, <3>3, ConcatOne
    <3> QED
      BY <3>2, <3>3
  <2>4. HistoryWith(h, th) = [h EXCEPT ![id] = Append(@, entry)]
    BY <2>2, <2>3
  <2> QED
    BY <1>1, <2>1, <2>4
<1>2. CASE th.stage # "snapshot"
  <2>1. HistoryWith(h, th) = [d \in DatasetIds |-> h[d] \o <<>>]
    BY <1>2 DEF HistoryWith
  <2>2. \A d \in DatasetIds : h[d] \o <<>> = h[d]
    BY ConcatOne
  <2> QED
    BY <1>2, <2>1, <2>2
<1> QED
  BY <1>1, <1>2

\* The trail of an audit log.
LEMMA TrailType ==
  ASSUME NEW log \in Seq(Event)
  PROVE  /\ Trail(log) \in Seq(TrailRecord) /\ Len(Trail(log)) = Len(log)
         /\ \A i \in 1..Len(log) : Trail(log)[i] = TrailEntry(log[i])
<1>1. Len(log) \in Nat /\ DOMAIN log = 1..Len(log) /\ \A i \in 1..Len(log) : log[i] \in Event
  OBVIOUS
<1>2. \A e \in Event : TrailEntry(e) \in TrailRecord
  BY DEF Event, TrailEntry, TrailRecord
<1>3. Trail(log) = [i \in 1..Len(log) |-> TrailEntry(log[i])]
  BY <1>1 DEF Trail
<1>4. PICK n \in Nat : n = Len(log)
  BY <1>1
<1>5. Trail(log) \in [1..n -> TrailRecord]
  BY <1>1, <1>2, <1>3, <1>4
<1> QED
  BY <1>3, <1>4, <1>5

\* The trail shown is the one there is, or has the pending entry at its end.
LEMMA TrailShown ==
  ASSUME NEW log \in Seq(Event), NEW th \in Thread, RequestInOrder(th)
  PROVE  TrailWith(log, th) =
           IF th.stage \in {"snapshot", "audit", "noop"} THEN Append(Trail(log), EntryOf(th)) ELSE Trail(log)
<1>1. Trail(log) \in Seq(TrailRecord)
  BY TrailType
<1>2. CASE th.stage \in {"snapshot", "audit", "noop"}
  <2>1. EntryOf(th) \in TrailRecord
    BY <1>2 DEF EntryOf, TrailRecord, RequestInOrder, Thread
  <2>2. TrailWith(log, th) = Trail(log) \o <<EntryOf(th)>>
    BY <1>2 DEF TrailWith
  <2> QED
    BY <1>1, <1>2, <2>1, <2>2, ConcatOne
<1>3. CASE th.stage \notin {"snapshot", "audit", "noop"}
  <2>1. TrailWith(log, th) = Trail(log) \o <<>>
    BY <1>3 DEF TrailWith
  <2> QED
    BY <1>1, <1>3, <2>1, ConcatOne
<1> QED
  BY <1>2, <1>3

\* The trail of a log with one more event.
LEMMA TrailAppend ==
  ASSUME NEW log \in Seq(Event), NEW e \in Event
  PROVE  Trail(Append(log, e)) = Append(Trail(log), TrailEntry(e))
<1>1. PICK n \in Nat : n = Len(log)
  OBVIOUS
<1>2. PICK more : more = Append(log, e)
  OBVIOUS
<1>3. more \in Seq(Event) /\ Len(more) = n + 1 /\ (\A i \in 1..n : more[i] = log[i]) /\ more[n + 1] = e
  BY <1>1, <1>2, AppendProperties
<1>4. PICK a \in Seq(TrailRecord) : a = Trail(more) /\ Len(a) = n + 1 /\ \A i \in 1..(n + 1) : a[i] = TrailEntry(more[i])
  BY <1>3, TrailType
<1>5. PICK x \in TrailRecord : x = TrailEntry(e)
  BY DEF Event, TrailEntry, TrailRecord
<1>6. PICK old \in Seq(TrailRecord) : old = Trail(log) /\ Len(old) = n /\ \A i \in 1..n : old[i] = TrailEntry(log[i])
  BY <1>1, TrailType
<1>7. PICK b : b = Append(old, x)
  OBVIOUS
<1>b. b \in Seq(TrailRecord) /\ Len(b) = n + 1 /\ (\A i \in 1..n : b[i] = old[i]) /\ b[n + 1] = x
  BY <1>6, <1>7, AppendProperties
<1>8. ASSUME NEW i \in 1..(n + 1) PROVE a[i] = b[i]
  <2>1. CASE i \in 1..n
    BY <1>3, <1>4, <1>6, <1>b, <2>1
  <2>2. CASE i = n + 1
    BY <1>3, <1>4, <1>5, <1>b, <2>2
  <2> QED
    BY <2>1, <2>2
<1>9. a = b
  BY <1>4, <1>b, <1>8, SeqEqual
<1> QED
  BY <1>2, <1>4, <1>5, <1>6, <1>7, <1>9

\* What the contract shows before and after a step, by what the thread has still to
\* append.
LEMMA Shown ==
  ASSUME TypeInv, TypeInv', NEW t, Threads = {t}
  PROVE  /\ ShownHistory =
              IF thread[t].stage = "snapshot"
              THEN [history EXCEPT ![thread[t].resource] = Append(@, make_schema_snapshot(thread[t].copy))]
              ELSE history
         /\ ShownTrail =
              IF thread[t].stage \in {"snapshot", "audit", "noop"}
              THEN Append(Trail(audit), EntryOf(thread[t])) ELSE Trail(audit)
         /\ ShownHistory' =
              IF thread'[t].stage = "snapshot"
              THEN [history' EXCEPT ![thread'[t].resource] = Append(@, make_schema_snapshot(thread'[t].copy))]
              ELSE history'
         /\ ShownTrail' =
              IF thread'[t].stage \in {"snapshot", "audit", "noop"}
              THEN Append(Trail(audit'), EntryOf(thread'[t])) ELSE Trail(audit')
<1>1. /\ history \in [DatasetIds -> Seq(Snapshot)] /\ audit \in Seq(Event)
      /\ thread[t] \in Thread /\ RequestInOrder(thread[t])
  BY DEF TypeInv, TypeOK
<1>2. /\ history' \in [DatasetIds -> Seq(Snapshot)] /\ audit' \in Seq(Event)
      /\ thread'[t] \in Thread /\ RequestInOrder(thread'[t])
  BY DEF TypeInv, TypeOK, RequestInOrder
<1>3. /\ ShownHistory = HistoryWith(history, thread[t]) /\ ShownTrail = TrailWith(audit, thread[t])
      /\ ShownHistory' = HistoryWith(history', thread'[t]) /\ ShownTrail' = TrailWith(audit', thread'[t])
  BY ShownIs, ShownIsNext
<1> QED
  BY <1>1, <1>2, <1>3, HistoryShown, TrailShown

\* An action of the contract, or none.
AtomicStep == Atomic!Next \/ UNCHANGED <<data, ShownHistory, ShownTrail>>

\* A commit is the change the contract speaks of.
LEMMA CommitIsAtomic ==
  ASSUME TypeInv, TypeInv', SerialInv, NEW t, Threads = {t}, Commit(t)
  PROVE  AtomicStep
<1>1. PICK id \in DatasetIds, copy \in Dataset, actor \in Subjects, op \in Ops :
        /\ id = thread[t].resource /\ copy = thread[t].copy /\ actor = thread[t].actor /\ op = thread[t].op
  BY CommitFields DEF TypeInv, TypeOK, Thread
<1>2. /\ thread[t].stage = "commit" /\ thread'[t].stage = "snapshot"
      /\ thread'[t].resource = id /\ thread'[t].copy = copy /\ history' = history
      /\ data' = [data EXCEPT ![id] = copy] /\ audit' = audit
  BY <1>1, CommitFields DEF Commit
<1>3. EntryOf(thread'[t]) = [actor |-> actor, action |-> op, resource |-> id]
  <2>1. thread[t] \in Thread /\ thread'[t] = [thread[t] EXCEPT !.stage = "snapshot"]
    BY DEF Commit, TypeInv, TypeOK
  <2>2. thread'[t].actor = actor /\ thread'[t].op = op
    BY <1>1, <2>1 DEF Thread
  <2> QED
    BY <1>2, <2>2 DEF EntryOf
<1>4. /\ ShownHistory' = [ShownHistory EXCEPT ![id] = Append(@, make_schema_snapshot(copy))]
      /\ ShownTrail' = Append(ShownTrail, [actor |-> actor, action |-> op, resource |-> id])
  BY <1>2, <1>3, Shown
<1>5. data'[id] = copy /\ copy # Missing
  BY <1>2, MissingAssumption DEF TypeInv, TypeOK
<1>6. Atomic!Replace(id, actor, op)
  BY <1>2, <1>4, <1>5, SameWords DEF Atomic!Replace, Atomic!Log
<1>7. CASE op = "create"
  <2>1. is_admin(actor) /\ data[id] = Missing /\ \E request \in CreateRequests : copy = Registered(request)
    BY <1>1, <1>2, <1>7 DEF SerialInv, CopyMade
  <2>2. copy.status = "registered" /\ copy.version = 0 /\ copy.schema_version = 0
    BY <2>1 DEF Registered
  <2>3. Atomic!Register(id, actor)
    BY <1>5, <1>6, <1>7, <2>1, <2>2, SameWords DEF Atomic!Register
  <2> QED
    BY <2>3 DEF AtomicStep, Atomic!Next
<1>8. CASE op # "create"
  <2>1. PICK dataset \in Dataset : dataset = data[id] /\ MadeFrom(op, dataset, copy)
    BY <1>1, <1>2, <1>8 DEF SerialInv, CopyMade, TypeInv, TypeOK
  <2>2. Atomic!Authorised(actor, id)
    BY <1>1, <1>2, <1>8, SameWords DEF SerialInv, May, Atomic!Authorised
  <2>3. CASE op = "patch"
    <3>1. PICK patch \in PatchRequests : copy = Patched(dataset, patch)
      BY <2>1, <2>3 DEF MadeFrom
    <3>2. Succeeds(copy, dataset)
      BY <2>1, ChangeSucceeds
    <3>3. copy.sourced = dataset.sourced /\ copy.status = dataset.status
      BY <3>1 DEF Patched, Dataset
    <3>4. Atomic!Patch(id, actor)
      BY <1>5, <1>6, <2>1, <2>2, <2>3, <3>2, <3>3, SameWords DEF Atomic!Patch, Succeeds
    <3> QED
      BY <3>4 DEF AtomicStep, Atomic!Next
  <2>4. CASE op = "publish"
    <3>1. copy = Published(dataset) /\ validate_metadata(dataset) /\ dataset.status # "published"
      BY <2>1, <2>4 DEF MadeFrom
    <3>2. Atomic!Publish(id, actor)
      BY <1>2, <1>6, <2>1, <2>2, <2>4, <3>1, SameWords DEF Atomic!Publish
    <3> QED
      BY <3>2 DEF AtomicStep, Atomic!Next
  <2>5. CASE op = "deprecate"
    <3>1. copy = Deprecated(dataset)
      BY <2>1, <2>5 DEF MadeFrom
    <3>2. Atomic!Deprecate(id, actor)
      BY <1>2, <1>6, <2>1, <2>2, <2>5, <3>1, SameWords DEF Atomic!Deprecate
    <3> QED
      BY <3>2 DEF AtomicStep, Atomic!Next
  <2> QED
    BY <1>8, <2>3, <2>4, <2>5 DEF Ops
<1> QED
  BY <1>7, <1>8

\* A read that finds the dataset published is the repeated publish of the contract; any
\* other read is not seen.
LEMMA ReadIsAtomic ==
  ASSUME TypeInv, TypeInv', SerialInv, NEW t, Threads = {t}, Register(t) \/ Patch(t) \/ Publish(t) \/ Deprecate(t)
  PROVE  AtomicStep
<1>1. UNCHANGED <<data, history, audit>> /\ thread[t].stage = "read"
  BY DEF Register, Patch, Publish, Deprecate, At
<1>2. Made(thread[t], thread'[t])
  BY ReadMakes
<1>3. CASE thread'[t].stage \in {"idle", "commit"}
  <2>1. ShownHistory' = ShownHistory /\ ShownTrail' = ShownTrail
    BY <1>1, <1>3, Shown
  <2> QED
    BY <1>1, <2>1 DEF AtomicStep
<1>4. CASE thread'[t].stage = "noop"
  <2>1. PICK id \in DatasetIds, actor \in Subjects :
          /\ id = thread'[t].resource /\ id = thread[t].resource
          /\ actor = thread'[t].actor /\ actor = thread[t].actor
          /\ thread'[t].op = "publish" /\ thread[t].op = "publish"
          /\ data[id] # Missing /\ validate_metadata(data[id]) /\ data[id].status = "published"
    <3>1. thread[t].actor \in Subjects
      BY DEF TypeInv, TypeOK, Thread
    <3> QED
      BY <1>2, <1>4, <3>1 DEF Made, FoundPublished
  <2>2. Atomic!Authorised(actor, id)
    BY <1>1, <2>1, SameWords DEF SerialInv, May, Atomic!Authorised
  <2>3. EntryOf(thread'[t]) = [actor |-> actor, action |-> "publish", resource |-> id]
    BY <2>1 DEF EntryOf
  <2>4. ShownHistory' = ShownHistory /\ ShownTrail' = Append(ShownTrail, EntryOf(thread'[t]))
    BY <1>1, <1>4, Shown
  <2>5. Atomic!PublishAgain(id, actor)
    BY <1>1, <2>1, <2>2, <2>3, <2>4, SameWords DEF Atomic!PublishAgain, Atomic!Log
  <2> QED
    BY <2>5 DEF AtomicStep, Atomic!Next
<1> QED
  BY <1>2, <1>3, <1>4 DEF Made

\* The steps the contract does not see: the decision, the snapshot and the audit event,
\* which counted as appended before.
LEMMA OthersAreHidden ==
  ASSUME TypeInv, TypeInv', NEW t, Threads = {t}, Arrive(t) \/ TakeSnapshot(t) \/ Audit(t)
  PROVE  AtomicStep
<1>1. CASE Arrive(t)
  <2>1. UNCHANGED <<data, history, audit>> /\ thread[t].stage = "idle"
    BY <1>1 DEF Arrive, EvaluateCreate, EvaluatePatch, EvaluatePublish, EvaluateDeprecate,
                EvaluateFails, CreateMalformed, Evaluate
  <2>2. thread'[t].stage \in {"idle", "read"}
    BY <1>1, ArriveStage
  <2>3. ShownHistory' = ShownHistory /\ ShownTrail' = ShownTrail
    BY <2>1, <2>2, Shown
  <2> QED
    BY <2>1, <2>3 DEF AtomicStep
<1>2. CASE TakeSnapshot(t)
  <2>1. thread[t] \in Thread /\ thread'[t] = [thread[t] EXCEPT !.stage = "audit", !.copy = Missing]
    BY <1>2 DEF TakeSnapshot, TypeInv, TypeOK
  <2>2. EntryOf(thread'[t]) = EntryOf(thread[t]) /\ thread'[t].stage = "audit"
    BY <2>1 DEF EntryOf, Thread
  <2>3. /\ thread[t].stage = "snapshot" /\ data' = data /\ audit' = audit
        /\ history' = [history EXCEPT ![thread[t].resource] = Append(@, make_schema_snapshot(thread[t].copy))]
    BY <1>2 DEF TakeSnapshot
  <2>4. ShownHistory' = ShownHistory /\ ShownTrail' = ShownTrail
    BY <2>2, <2>3, Shown
  <2> QED
    BY <2>3, <2>4 DEF AtomicStep
<1>3. CASE Audit(t)
  <2>1. PICK e : e = AuditEventOf(thread[t])
    OBVIOUS
  <2>2. /\ thread[t].stage \in {"audit", "noop"} /\ UNCHANGED <<data, history>> /\ audit' = Append(audit, e)
        /\ thread' = [thread EXCEPT ![t] = Answered(thread[t], "ok")]
    BY <1>3, <2>1 DEF Audit, AtAudit, record_audit_event
  <2>3. thread[t] \in Thread /\ RequestInOrder(thread[t]) /\ audit \in Seq(Event)
    BY DEF TypeInv, TypeOK
  <2>4. e \in Event /\ TrailEntry(e) = EntryOf(thread[t])
    BY <2>1, <2>2, <2>3 DEF AuditEventOf, Event, Thread, RequestInOrder, TrailEntry, EntryOf
  <2>5. thread'[t].stage = "idle"
    BY <2>2, <2>3, AnsweredType DEF TypeInv, TypeOK
  <2>6. Trail(audit') = Append(Trail(audit), EntryOf(thread[t]))
    BY <2>2, <2>3, <2>4, TrailAppend
  <2>7. ShownHistory' = ShownHistory /\ ShownTrail' = ShownTrail
    BY <2>2, <2>5, <2>6, Shown
  <2> QED
    BY <2>2, <2>7 DEF AtomicStep
<1> QED
  BY <1>1, <1>2, <1>3

\* A store that never fails and a process that runs on.
Healthy == StoreMayFail = FALSE /\ MayRestart = FALSE

\* Requests one at a time, with a store that never fails and a process that runs on, see
\* what AtomicCatalog promises: check, new version, history entry and audit entry are one
\* step, for every catalog, every set of actors and requests (sdp/api.py, the four
\* mutating handlers).
THEOREM ServiceIsAtomic == ASSUME OneAtATime, Healthy PROVE Spec => ImplementsAtomicCatalog
<1>1. PICK t : Threads = {t}
  BY DEF OneAtATime
<1>2. Init => Atomic!Init
  <2> SUFFICES ASSUME Init PROVE Atomic!Init
    OBVIOUS
  <2>1. data = SeedData /\ history = SeedHistory /\ audit = <<>> /\ thread[t].stage = "idle"
    BY <1>1 DEF Init, IdleThread
  <2>2. TypeInv
    BY TypeInit
  <2>3. history \in [DatasetIds -> Seq(Snapshot)] /\ audit \in Seq(Event) /\ thread[t] \in Thread /\ RequestInOrder(thread[t])
    BY <1>1, <2>2 DEF TypeInv, TypeOK
  <2>4. ShownHistory = history /\ ShownTrail = Trail(audit)
    BY <1>1, <2>1, <2>3, ShownIs, HistoryShown, TrailShown
  <2>5. Trail(audit) = <<>>
    <3>1. Trail(audit) \in Seq(TrailRecord) /\ Len(Trail(audit)) = Len(audit)
      BY <2>3, TrailType
    <3>2. Len(audit) = 0
      BY <2>1
    <3> QED
      BY <3>1, <3>2
  <2> QED
    BY <2>1, <2>4, <2>5, SameWords DEF Atomic!Init, SeedData, SeedHistory
<1>3. TypeInv /\ TypeInv' /\ SerialInv /\ [Next]_vars => [Atomic!Next]_(Atomic!vars)
  <2> SUFFICES ASSUME TypeInv, TypeInv', SerialInv, [Next]_vars PROVE AtomicStep
    BY DEF AtomicStep, Atomic!vars
  <2>1. CASE UNCHANGED vars
    <3>0. history' = history /\ audit' = audit /\ thread' = thread
      BY <2>1 DEF vars
    <3>1. ShownHistory' = ShownHistory /\ ShownTrail' = ShownTrail
      BY <3>0 DEF ShownHistory, PendingSnapshot, Worker, ShownTrail, PendingEvent
    <3> QED
      BY <2>1, <3>1 DEF vars, AtomicStep
  <2>2. CASE Next
    <3>1. Arrive(t) \/ Serve(t)
      BY <1>1, <2>2 DEF Next, Restart, Healthy
    <3>2. ~ AuditFails(t)
      BY DEF AuditFails, Healthy
    <3> QED
      BY <1>1, <3>1, <3>2, CommitIsAtomic, ReadIsAtomic, OthersAreHidden DEF Serve
  <2> QED
    BY <2>1, <2>2
<1> QED
  BY <1>2, <1>3, SerialInvariant, PTL DEF Spec, ImplementsAtomicCatalog, Atomic!Spec
=============================================================================
