---------------------------- MODULE CatalogService ----------------------------
(***************************************************************************)
(* The catalog's mutating endpoints (sdp/api.py), the in-process catalog     *)
(* they change (sdp/catalog.py) and the evidence they leave (sdp/evidence.py,*)
(* sdp_core/stores.py).                                                     *)
(*                                                                         *)
(* The handlers are plain functions, so the web server runs each request in *)
(* a thread of its pool and no lock protects the module-level dictionaries.  *)
(* A request is therefore a sequence of steps, one per access to shared      *)
(* state:                                                                   *)
(*   Evaluate   the policy decision, recorded in the evidence log           *)
(*   Read       get the dataset (or check that the id is free), build the   *)
(*              new copy, or answer with an error                           *)
(*   Commit     _DATA[id] = copy                                            *)
(*   TakeSnapshot   _SCHEMA_HISTORY[id].append(...)                         *)
(*   Audit      append the audit event, answer                              *)
(* Steps of different threads interleave freely.                            *)
(***************************************************************************)
EXTENDS CatalogData

CONSTANTS
  Threads,         \* threads of the server's pool
  Subjects,        \* actor names found in request bodies
  Seed,            \* the demo datasets _DATA starts with: a partial map id -> Dataset
  CreateRequests,  \* create requests clients send
  PatchRequests,   \* patch requests clients send
  StoreMayFail,    \* an evidence store is configured and may raise
  StoreIsDurable,  \* an evidence store is configured and outlives the process
  MayRestart,      \* the process may be restarted
  MaxDecisions     \* bound: decisions recorded in a behaviour

ASSUME ServiceAssumption ==
  /\ Subjects # {}
  /\ DOMAIN Seed \subseteq DatasetIds
  /\ \A d \in DOMAIN Seed : Seed[d] \in Dataset
  /\ CreateRequests \subseteq CreateRequest
  /\ PatchRequests \subseteq PatchRequest
  /\ StoreMayFail \in BOOLEAN
  /\ StoreIsDurable \in BOOLEAN
  /\ MayRestart \in BOOLEAN
  /\ MaxDecisions \in Nat

VARIABLES
  data,        \* _DATA: id -> Dataset, or Missing
  history,     \* _SCHEMA_HISTORY: id -> sequence of snapshots
  decisions,   \* policy decision log; a decision's id is its position
  audit,       \* audit event log
  thread       \* per thread: the request it serves and how far it got

vars == <<data, history, decisions, audit, thread>>

Ops == {"create", "patch", "publish", "deprecate"}
NoPayload == [well_formed |-> TRUE]

-----------------------------------------------------------------------------
(* Initial state: the module-level code of catalog.py *)

SeedData == [d \in DatasetIds |-> IF d \in DOMAIN Seed THEN Seed[d] ELSE Missing]

\* _initialize_schema_history
SeedHistory ==
  [d \in DatasetIds |->
     IF d \in DOMAIN Seed THEN <<make_schema_snapshot(Seed[d])>> ELSE <<>>]

IdleThread ==
  [stage |-> "idle", op |-> "create", actor |-> CHOOSE s \in Subjects : TRUE,
   resource |-> NoId, payload |-> NoPayload, decision |-> 0,
   copy |-> Missing, reply |-> "none"]

Init ==
  /\ data = SeedData
  /\ history = SeedHistory
  /\ decisions = <<>>
  /\ audit = <<>>
  /\ thread = [t \in Threads |-> IdleThread]

-----------------------------------------------------------------------------
(* Shared-state accessors *)

get_dataset(id) == IF id \in DatasetIds THEN data[id] ELSE Missing

Catalog == {d \in DatasetIds : data[d] # Missing}

\* record_policy_decision: SQLite, Postgres or the in-process list.
record_policy_decision(decision) == decisions' = Append(decisions, decision)

\* _record_audit_event: one log, wherever it is kept.
record_audit_event(event) == audit' = Append(audit, event)

\* The event _build_dataset_payload makes; noop marks the publish that found
\* the dataset already published.
AuditEventOf(th) ==
  [actor       |-> th.actor,
   action      |-> th.op,
   resource    |-> th.resource,
   decision_id |-> th.decision,
   noop        |-> th.stage = "noop"]

-----------------------------------------------------------------------------
(* Where a thread goes next *)

Answered(th, code) ==
  [th EXCEPT !.stage = "idle", !.payload = NoPayload, !.copy = Missing, !.reply = code]

Prepared(th, id, copy) ==
  [th EXCEPT !.stage = "commit", !.resource = id, !.payload = NoPayload, !.copy = copy]

At(t, stage, op) == thread[t].stage = stage /\ thread[t].op = op

-----------------------------------------------------------------------------
(* evaluate(subject, resource, action, purpose="catalog"), then the 403 *)

\* Mutant: the handler does not look at the effect.
Request_Unchecked(op, actor, id, payload, decision, effect) ==
  [stage |-> "read", op |-> op, actor |-> actor, resource |-> id, payload |-> payload,
   decision |-> decision, copy |-> Missing, reply |-> "none"]

Request(op, actor, id, payload, decision, effect) ==
  [stage    |-> IF effect = "allow" THEN "read" ELSE "idle",
   op       |-> op,
   actor    |-> actor,
   resource |-> id,
   payload  |-> IF effect = "allow" THEN payload ELSE NoPayload,
   decision |-> decision,
   copy     |-> Missing,
   reply    |-> IF effect = "allow" THEN "none" ELSE "403"]

Evaluate(t, op, actor, id, payload) ==
  LET decision == evaluate(actor, id, op, "catalog", get_dataset(id))
  IN  /\ thread[t].stage = "idle"
      /\ Len(decisions) < MaxDecisions
      /\ record_policy_decision(decision)
      /\ thread' = [thread EXCEPT ![t] =
                      Request(op, actor, id, payload, Len(decisions) + 1, decision.effect)]
      /\ UNCHANGED <<data, history, audit>>

\* create_dataset: a payload DatasetCreateRequest refuses is answered before
\* anything is decided.
CreateMalformed(t) ==
  /\ thread[t].stage = "idle"
  /\ thread' = [thread EXCEPT ![t] = [IdleThread EXCEPT !.reply = "400"]]
  /\ UNCHANGED <<data, history, decisions, audit>>

\* create_dataset: the resource is the requested id, or "new"
EvaluateCreate(t) ==
  \E actor \in Subjects, request \in CreateRequests :
     Evaluate(t, "create", actor, request.id, request)

EvaluatePatch(t) ==
  \E actor \in Subjects, id \in DatasetIds, request \in PatchRequests :
     Evaluate(t, "patch", actor, id, request)

EvaluatePublish(t) ==
  \E actor \in Subjects, id \in DatasetIds : Evaluate(t, "publish", actor, id, NoPayload)

EvaluateDeprecate(t) ==
  \E actor \in Subjects, id \in DatasetIds : Evaluate(t, "deprecate", actor, id, NoPayload)

\* The store raises while the decision is recorded: nobody catches it.
EvaluateFails(t) ==
  /\ StoreMayFail
  /\ thread[t].stage = "idle"
  /\ Len(decisions) < MaxDecisions
  /\ thread' = [thread EXCEPT ![t] = [IdleThread EXCEPT !.reply = "500"]]
  /\ UNCHANGED <<data, history, decisions, audit>>

-----------------------------------------------------------------------------
(* The read half of register_dataset, patch_dataset, publish_dataset and    *)
(* deprecate_dataset: everything up to the assignment to _DATA[id].         *)
(* The 404s cannot be reached: evaluate has already denied a missing id, and *)
(* nothing removes one.                                                     *)

RegisterId(request) ==
  IF request.id = NoId THEN AutoId[Cardinality(Catalog) + 1] ELSE request.id

IdTaken(id) == data[id] # Missing

\* register_dataset: "dataset already exists" is a ValueError no handler maps.
Register(t) ==
  LET th == thread[t]
      id == RegisterId(th.payload)
  IN  /\ At(t, "read", "create")
      /\ thread' = [thread EXCEPT ![t] =
                      IF IdTaken(id) THEN Answered(th, "500")
                                     ELSE Prepared(th, id, Registered(th.payload))]
      /\ UNCHANGED <<data, history, decisions, audit>>

\* patch_dataset: whatever is wrong with the request is a 400.
Patch(t) ==
  LET th == thread[t]
      dataset == get_dataset(th.resource)
  IN  /\ At(t, "read", "patch")
      /\ thread' = [thread EXCEPT ![t] =
                      IF dataset = Missing THEN Answered(th, "404")
                      ELSE IF ~ th.payload.well_formed THEN Answered(th, "400")
                      ELSE Prepared(th, th.resource, Patched(dataset, th.payload))]
      /\ UNCHANGED <<data, history, decisions, audit>>

\* Mutant: publication without validation.
MayPublish_Always(dataset) == TRUE

MayPublish(dataset) == validate_metadata(dataset)

\* publish_dataset: an already published dataset is only audited.
Publish(t) ==
  LET th == thread[t]
      dataset == get_dataset(th.resource)
  IN  /\ At(t, "read", "publish")
      /\ thread' = [thread EXCEPT ![t] =
                      IF dataset = Missing THEN Answered(th, "404")
                      ELSE IF ~ MayPublish(dataset) THEN Answered(th, "400")
                      ELSE IF dataset.status = "published" THEN [th EXCEPT !.stage = "noop"]
                      ELSE Prepared(th, th.resource, Published(dataset))]
      /\ UNCHANGED <<data, history, decisions, audit>>

Deprecate(t) ==
  LET th == thread[t]
      dataset == get_dataset(th.resource)
  IN  /\ At(t, "read", "deprecate")
      /\ thread' = [thread EXCEPT ![t] =
                      IF dataset = Missing THEN Answered(th, "404")
                                           ELSE Prepared(th, th.resource, Deprecated(dataset))]
      /\ UNCHANGED <<data, history, decisions, audit>>

-----------------------------------------------------------------------------
(* The write half, the same in all four *)

\* _DATA[id] = copy
Commit(t) ==
  /\ thread[t].stage = "commit"
  /\ data' = [data EXCEPT ![thread[t].resource] = thread[t].copy]
  /\ thread' = [thread EXCEPT ![t].stage = "snapshot"]
  /\ UNCHANGED <<history, decisions, audit>>

\* Mutant: a version number that is already in the history is skipped.
TakeSnapshot_NewVersions(t) ==
  LET th == thread[t]
  IN  /\ th.stage = "snapshot"
      /\ history' = IF \E i \in DOMAIN history[th.resource] :
                          history[th.resource][i].version = th.copy.version
                    THEN history
                    ELSE [history EXCEPT ![th.resource] = Append(@, make_schema_snapshot(th.copy))]
      /\ thread' = [thread EXCEPT ![t].stage = "audit", ![t].copy = Missing]
      /\ UNCHANGED <<data, decisions, audit>>

\* _record_schema_snapshot(copy)
TakeSnapshot(t) ==
  /\ thread[t].stage = "snapshot"
  /\ history' = [history EXCEPT ![thread[t].resource] =
                   Append(@, make_schema_snapshot(thread[t].copy))]
  /\ thread' = [thread EXCEPT ![t].stage = "audit", ![t].copy = Missing]
  /\ UNCHANGED <<data, decisions, audit>>

AtAudit(t) == thread[t].stage \in {"audit", "noop"}

Audit(t) ==
  /\ AtAudit(t)
  /\ record_audit_event(AuditEventOf(thread[t]))
  /\ thread' = [thread EXCEPT ![t] = Answered(thread[t], "ok")]
  /\ UNCHANGED <<data, history, decisions>>

\* Mutant: the exception of the store is swallowed.
AuditFails_Swallowed(t) ==
  /\ StoreMayFail
  /\ AtAudit(t)
  /\ thread' = [thread EXCEPT ![t] = Answered(thread[t], "ok")]
  /\ UNCHANGED <<data, history, decisions, audit>>

\* The store raises after the change is made; patch turns that into a 400.
AuditFails(t) ==
  /\ StoreMayFail
  /\ AtAudit(t)
  /\ thread' = [thread EXCEPT ![t] =
                  Answered(thread[t], IF thread[t].op = "patch" THEN "400" ELSE "500")]
  /\ UNCHANGED <<data, history, decisions, audit>>

-----------------------------------------------------------------------------
\* A new process opens the configured store, whose tables it creates and migrates
\* in place; the in-process logs are gone.
Reopened(log) == IF StoreIsDurable THEN log ELSE <<>>

\* A restart forgets the catalog and the requests in flight.
Restart ==
  /\ MayRestart
  /\ data' = SeedData
  /\ history' = SeedHistory
  /\ decisions' = Reopened(decisions)
  /\ audit' = Reopened(audit)
  /\ thread' = [t \in Threads |-> IdleThread]

Arrive(t) ==
  \/ CreateMalformed(t)
  \/ EvaluateCreate(t)
  \/ EvaluatePatch(t)
  \/ EvaluatePublish(t)
  \/ EvaluateDeprecate(t)
  \/ EvaluateFails(t)

Serve(t) ==
  \/ Register(t)
  \/ Patch(t)
  \/ Publish(t)
  \/ Deprecate(t)
  \/ Commit(t)
  \/ TakeSnapshot(t)
  \/ Audit(t)
  \/ AuditFails(t)

Next == (\E t \in Threads : Arrive(t) \/ Serve(t)) \/ Restart

Spec == Init /\ [][Next]_vars

-----------------------------------------------------------------------------
(* Types *)

Event == [actor : Subjects, action : Ops, resource : DatasetIds,
          decision_id : Nat, noop : BOOLEAN]

Decision == [subject : Subjects, resource : DatasetIds \cup {NoId}, action : Ops,
             effect : {"allow", "deny"}, masking : SUBSET ColumnNames,
             row_filter : BOOLEAN]

Stages == {"idle", "read", "commit", "snapshot", "audit", "noop"}

Thread == [stage    : Stages,
           op       : Ops,
           actor    : Subjects,
           resource : DatasetIds \cup {NoId},
           payload  : CreateRequests \cup PatchRequests \cup {NoPayload},
           decision : Nat,
           copy     : Dataset \cup {Missing},
           reply    : {"none", "ok", "400", "403", "404", "500"}]

\* The type invariant.
TypeOK ==
  /\ data \in [DatasetIds -> Dataset \cup {Missing}]
  /\ history \in [DatasetIds -> Seq(Snapshot)]
  /\ decisions \in Seq(Decision)
  /\ audit \in Seq(Event)
  /\ thread \in [Threads -> Thread]

-----------------------------------------------------------------------------
(* What holds for any number of threads *)

\* In this decision log, the decision with this id lets this actor do this to this resource; a create
\* without an id is decided before its id is known.
Licenses(log, k, actor, action, resource) ==
  /\ k \in DOMAIN log
  /\ log[k].effect = "allow"
  /\ log[k].subject = actor
  /\ log[k].action = action
  /\ log[k].resource \in {resource} \cup (IF action = "create" THEN {NoId} ELSE {})

\* Every success event in the audit log names a decision in the decision log
\* that allowed exactly what was done, and no decision is used for two changes:
\* whatever the interleaving, wherever the store fails or the process restarts.
AuditTraceable ==
  /\ \A i \in DOMAIN audit :
        Licenses(decisions, audit[i].decision_id, audit[i].actor, audit[i].action, audit[i].resource)
  /\ \A i, j \in DOMAIN audit : audit[i].decision_id = audit[j].decision_id => i = j

\* A client that was told "registered", "updated", "published" or "deprecated"
\* finds its event in the audit log: the success reply comes after the append.
SuccessIsAudited ==
  \A t \in Threads : thread[t].reply = "ok" =>
     \E i \in DOMAIN audit :
        /\ audit[i].decision_id = thread[t].decision
        /\ audit[i].actor = thread[t].actor
        /\ audit[i].action = thread[t].op
        /\ audit[i].resource = thread[t].resource

\* What GET /catalog/datasets/{id} shows is in the schema history, or the thread
\* that wrote it is about to put it there: racing writers cannot lose the
\* snapshot of the version that won.
CurrentIsSnapshotted ==
  \A d \in DatasetIds : data[d] # Missing =>
     \/ \E i \in DOMAIN history[d] : history[d][i] = make_schema_snapshot(data[d])
     \/ \E t \in Threads : /\ thread[t].stage = "snapshot"
                          /\ thread[t].resource = d
                          /\ thread[t].copy = data[d]

AuditedChanges(d) == {i \in DOMAIN audit : audit[i].resource = d /\ ~ audit[i].noop}

\* No version of a dataset goes without its audit event: the entries its schema
\* history gained are matched by change events, up to the threads still on their
\* way to the log.
ChangesAreAudited ==
  \A d \in DatasetIds :
     Len(history[d]) - Len(SeedHistory[d])
       <= Cardinality(AuditedChanges(d))
            + Cardinality({t \in Threads : thread[t].stage = "audit" /\ thread[t].resource = d})

\* The RBAC matrix served by /enterprise/rbac-matrix is honoured: some role of
\* the actor behind every audited change lists the action.
MatrixIsHonoured ==
  \A i \in DOMAIN audit :
     \E role \in RolesOf(audit[i].actor) : audit[i].action \in MatrixActions(role)

-----------------------------------------------------------------------------
(* What a thread carries between its steps: the strengthening that makes the *)
(* invariants above inductive.                                              *)

\* A request keeps what its next step needs.
RequestInOrder(th) ==
  /\ th.stage # "idle" => th.reply = "none"
  /\ th.stage = "read" =>
       /\ th.op = "create" => th.payload \in CreateRequests /\ th.resource = th.payload.id
       /\ th.op = "patch" => th.payload \in PatchRequests
       /\ th.op # "create" => th.resource \in DatasetIds
  /\ th.stage \in {"commit", "snapshot"} => th.copy \in Dataset
  /\ th.stage \in {"commit", "snapshot", "audit", "noop"} => th.resource \in DatasetIds

\* A request past its decision was allowed to do what it is doing.
RequestsLicensed ==
  \A t \in Threads : thread[t].stage # "idle" =>
     Licenses(decisions, thread[t].decision, thread[t].actor, thread[t].op, thread[t].resource)

\* A decision is held by one request at most, and not yet audited while it is.
DecisionsUnspent ==
  /\ \A t \in Threads, i \in DOMAIN audit :
        thread[t].stage # "idle" => audit[i].decision_id # thread[t].decision
  /\ \A t, u \in Threads :
        thread[t].stage # "idle" /\ thread[u].stage # "idle" /\ t # u
          => thread[t].decision # thread[u].decision

TypeInv == TypeOK /\ \A t \in Threads : RequestInOrder(thread[t])

EvidenceInv == RequestsLicensed /\ DecisionsUnspent /\ AuditTraceable /\ SuccessIsAudited

\* The inductive invariant.
IInv == TypeInv /\ EvidenceInv /\ CurrentIsSnapshotted

-----------------------------------------------------------------------------
(* What holds when requests are served one at a time *)

\* One schema version of a dataset names one schema, so that a diff between two
\* versions means something.
SchemaVersionNamesOneSchema ==
  \A d \in DatasetIds : \A i, j \in DOMAIN history[d] :
     history[d][i].schema_version = history[d][j].schema_version
       => RoundTrip(history[d][i].schema) = RoundTrip(history[d][j].schema)

\* The history is the list of the dataset's versions, in order and without gaps,
\* and ends with the current one unless a thread is about to append it.
HistoryIsVersionLog ==
  \A d \in DatasetIds :
     /\ \A i \in DOMAIN history[d] : history[d][i].version = i - 1
     /\ data[d] # Missing =>
          data[d].version = Len(history[d]) - 1
            + Cardinality({t \in Threads : thread[t].stage = "snapshot" /\ thread[t].resource = d})

\* This schema version was stored by two changes at least.
Settled(d, version) ==
  \E i, j \in DOMAIN history[d] :
     i # j /\ history[d][i].schema_version = version /\ history[d][j].schema_version = version

\* The diff the service reports between two schema versions does not miss a column
\* whose PII flag differs.  It may call a column changed that is the same, because
\* the first snapshot of a version leaves the fields out that nobody gave, but not
\* once another change has stored each of the two versions again.
DiffShowsRealChanges ==
  \A d \in DatasetIds : \A from, to \in SchemaVersions(history[d]) :
     \A b \in SchemaAt(history[d], from), c \in SchemaAt(history[d], to) : b.name = c.name =>
        LET reported == <<b, c>> \in schema_diff(history[d], from, to).changed
        IN  /\ b.pii # c.pii => reported
            /\ reported /\ Settled(d, from) /\ Settled(d, to) => b.pii # c.pii

\* sdp_core/rbac.py:69: the tenant scope of role admin is "own_tenant_only".  A
\* patch, publish or deprecate by an actor without a role for all tenants changes
\* a dataset of the actor's own tenant.
ChangesStayInTenant ==
  [][\A t \in Threads :
        /\ thread[t].stage = "commit"
        /\ thread'[t].stage = "snapshot"
        /\ thread[t].op # "create"
        /\ ~ \E role \in RolesOf(thread[t].actor) : MatrixAllTenants(role)
        => thread[t].copy.tenant_id = TenantOf(thread[t].actor)]_vars

=============================================================================
