---------------------------- MODULE GovernedReads ----------------------------
(***************************************************************************)
(* The read endpoints that go through policy: preview and schema            *)
(* (sdp/browse.py), query execution and query drafting (sdp/orchestrator.py) *)
(* with the HTTP mapping of sdp/api.py, and the previews of the source       *)
(* connectors (sdp/connectors.py), while the catalog changes under them and  *)
(* the evidence store may fail.  The SQL connector's preview is preview with *)
(* the actor "analyst"; the other three are the kind "connector", and what   *)
(* they raise is given as the code the API uses for that exception.          *)
(*                                                                         *)
(* A reader touches shared state up to four times, and anything may happen   *)
(* in between:                                                              *)
(*   Receive          checks the request and looks the dataset up; the       *)
(*                    handler keeps what it found for its answer             *)
(*   Evaluate         policy.evaluate looks the dataset up again             *)
(*   RecordDecision   appends the decision                                  *)
(*   AppendEvent      appends the audit event; only then does the answer go  *)
(* Writers are reduced to what a reader can see of them: at any time a       *)
(* dataset may be replaced by another version (CatalogService says which).   *)
(***************************************************************************)
EXTENDS CatalogData

CONSTANTS
  Readers,         \* threads serving read requests
  Subjects,        \* actor names found in requests
  Purposes,
  Versions,        \* Versions[d]: what writers may put under id d
  RowColumns,      \* columns of the sample rows that previews serve
  StoreMayFail,    \* an evidence store is configured and may raise
  MaxDecisions,    \* bound: no request arrives once so many are recorded
  MaxEvents        \* bound: no request arrives once so many are appended

ASSUME ReadsAssumption ==
  /\ Subjects # {} /\ Purposes # {} /\ DatasetIds # {}
  /\ DOMAIN Versions = DatasetIds
  /\ \A d \in DatasetIds : Versions[d] \subseteq Dataset
  /\ RowColumns \subseteq ColumnNames
  /\ StoreMayFail \in BOOLEAN
  /\ MaxDecisions \in Nat
  /\ MaxEvents \in Nat

VARIABLES
  data,        \* _DATA as readers see it
  decisions,   \* policy decision log; a decision's id is its position
  audit,       \* browse.* events of the audit log
  reader,      \* per reader: the request it serves and how far it got
  seen         \* history variable: the versions the reader's dataset has had
               \* since its request arrived

vars == <<data, decisions, audit, reader, seen>>

Kinds == {"preview", "schema", "query", "draft", "connector"}

\* What is wrong with the request itself.  unparsable does not make a request of
\* the endpoint's model; malformed is found before any state is read (a limit or a
\* window out of range, a language other than SQL, a forbidden keyword, several
\* datasets); unsafe after the decision (a warning of validate_sql_query; for a
\* draft an unknown column or a forbidden word); foreign is a dataset whose source
\* is not the connector's.
Faults == {"none", "unparsable", "malformed", "unsafe", "foreign"}

FaultsOf(kind) ==
  CASE kind = "preview"   -> {"none", "malformed"}
    [] kind = "schema"    -> {"none"}
    [] kind = "connector" -> {"none", "foreign"}
    [] OTHER              -> {"none", "unparsable", "malformed", "unsafe"}

\* A connector asks in the name of "analyst", for "analysis".
ActorsOf(kind) == IF kind = "connector" THEN Subjects \cap {"analyst"} ELSE Subjects

PurposesOf(kind) == IF kind = "connector" THEN Purposes \cap {"analysis"} ELSE Purposes

\* The action name the handler gives to evaluate.
PolicyAction(kind) ==
  CASE kind = "draft"     -> "query"
    [] kind = "connector" -> "preview"
    [] OTHER              -> kind

NoVerdict == [effect |-> "none"]

\* What an answer tells: from is the version whose fields it carries, columns the
\* names it lists, flagged those it calls personal, clear the columns of rows that
\* are not starred out.
NoAnswer == [from |-> Missing, columns |-> {}, flagged |-> {}, clear |-> {}]

IdleReader ==
  [stage |-> "idle", kind |-> "schema", actor |-> CHOOSE s \in Subjects : TRUE,
   resource |-> CHOOSE d \in DatasetIds : TRUE, purpose |-> CHOOSE p \in Purposes : TRUE,
   fault |-> "none", dataset |-> Missing, verdict |-> NoVerdict, decision |-> 0,
   result |-> "none", next |-> "none", reply |-> "none", answer |-> NoAnswer]

Init ==
  /\ data \in [DatasetIds -> {Missing} \cup UNION {Versions[d] : d \in DatasetIds}]
  /\ decisions = <<>>
  /\ audit = <<>>
  /\ reader = [r \in Readers |-> IdleReader]
  /\ seen = [r \in Readers |-> {}]

-----------------------------------------------------------------------------
Replied(rd, code) ==
  [rd EXCEPT !.stage = "idle", !.fault = "none", !.dataset = Missing,
             !.verdict = NoVerdict, !.result = "none", !.next = "none", !.reply = code]

\* Append the event with this result first, then reply.
ThenAudit(rd, result, code) ==
  [rd EXCEPT !.stage = "audit", !.fault = "none", !.dataset = Missing,
             !.verdict = NoVerdict, !.result = result, !.next = code]

\* QueryExecutionRequest(**payload) or QueryDraftRequest(**payload) raises.
OnUnparsable(rd) == Replied(rd, "400")

\* Checked on arrival, before the dataset is read.
OnMalformed(rd) ==
  CASE rd.kind = "query" -> ThenAudit(rd, "rejected", "400")
    [] rd.kind = "draft" -> Replied(rd, "error")
    [] OTHER             -> Replied(rd, "400")

OnMissing(rd) ==
  CASE rd.kind = "preview" -> ThenAudit(rd, "denied", "404")
    [] rd.kind = "query"   -> ThenAudit(rd, "rejected", "400")
    [] rd.kind = "draft"   -> Replied(rd, "error")
    [] OTHER               -> Replied(rd, "404")

\* The connector looks at the scheme of source_system before it asks for a decision.
OnForeign(rd) == Replied(rd, "400")

Draftable(dataset) == dataset.status = "published" /\ dataset.schema # {}

\* dataset = get_dataset(dataset_id), and what is checked of it
OnRequest(rd, dataset) ==
  IF rd.fault = "unparsable" THEN OnUnparsable(rd)
  ELSE IF rd.fault = "malformed" THEN OnMalformed(rd)
  ELSE IF dataset = Missing THEN OnMissing(rd)
  ELSE IF rd.kind = "draft" /\ ~ Draftable(dataset) THEN Replied(rd, "error")
  ELSE IF rd.fault = "foreign" THEN OnForeign(rd)
  ELSE [rd EXCEPT !.stage = "evaluate", !.dataset = dataset]

Receive(r) ==
  \E kind \in Kinds, d \in DatasetIds :
  \E actor \in ActorsOf(kind), purpose \in PurposesOf(kind), fault \in FaultsOf(kind) :
     LET rd == [IdleReader EXCEPT !.kind = kind, !.actor = actor, !.resource = d,
                                  !.purpose = purpose, !.fault = fault]
     IN  /\ reader[r].stage = "idle"
         /\ Len(decisions) < MaxDecisions
         /\ Len(audit) < MaxEvents
         /\ reader' = [reader EXCEPT ![r] = OnRequest(rd, data[d])]
         /\ seen' = [seen EXCEPT ![r] = {data[d]}]
         /\ UNCHANGED <<data, decisions, audit>>

\* policy.evaluate looks the dataset up by itself.
DecisionDataset(r) == data[reader[r].resource]

Evaluate(r) ==
  LET rd == reader[r]
      verdict == evaluate(rd.actor, rd.resource, PolicyAction(rd.kind), rd.purpose,
                          DecisionDataset(r))
  IN  /\ rd.stage = "evaluate"
      /\ reader' = [reader EXCEPT ![r] = [rd EXCEPT !.stage = "record", !.verdict = verdict]]
      /\ UNCHANGED <<data, decisions, audit, seen>>

-----------------------------------------------------------------------------
OnDenied(rd) ==
  IF rd.kind = "draft" THEN Replied(rd, "error") ELSE ThenAudit(rd, "denied", "403")

OnUnsafe(rd) ==
  IF rd.kind = "draft" THEN Replied(rd, "error") ELSE ThenAudit(rd, "rejected", "400")

\* Mutant: nothing is starred out.
apply_mask_Ignored(columns, masking) == columns

\* apply_mask: the masked columns are starred out, the others show.
apply_mask(columns, masking) == columns \ masking

\* rows[offset : offset + limit]: a connector serves its rows as they are,
\* whatever the decision masks.
ConnectorRows == RowColumns

\* The kinds whose answer lists the columns of the dataset; a draft uses no others.
ListsColumns(kind) == kind \in {"preview", "schema", "draft"}

\* The answer is put together from the dataset of the first lookup (its schema,
\* mappings, scores, profile and source) and from the decision, which was made on
\* the dataset of the second one.  execute_query returns a count and no columns;
\* only previews and connectors serve rows.
Answer(rd) ==
  [from    |-> IF rd.kind = "connector" THEN Missing ELSE rd.dataset,
   columns |-> IF ListsColumns(rd.kind) THEN Names(rd.dataset.schema) ELSE {},
   flagged |-> IF rd.kind = "schema" \/ (rd.kind = "draft" /\ rd.purpose = "analysis")
               THEN PiiColumns(rd.dataset.schema) ELSE {},
   clear   |-> CASE rd.kind = "preview"   -> apply_mask(RowColumns, rd.verdict.masking)
                 [] rd.kind = "connector" -> ConnectorRows
                 [] OTHER                 -> {}]

OnAllowed(rd) ==
  [IF rd.kind = "draft" THEN Replied(rd, "200") ELSE ThenAudit(rd, "allowed", "200")
     EXCEPT !.answer = Answer(rd)]

OnDecision(rd) ==
  IF rd.verdict.effect # "allow" THEN OnDenied(rd)
  ELSE IF rd.fault = "unsafe" THEN OnUnsafe(rd)
  ELSE OnAllowed(rd)

RecordDecision(r) ==
  /\ reader[r].stage = "record"
  /\ decisions' = Append(decisions, reader[r].verdict)
  /\ reader' = [reader EXCEPT ![r] =
                  OnDecision([reader[r] EXCEPT !.decision = Len(decisions) + 1])]
  /\ UNCHANGED <<data, audit, seen>>

\* Drafting maps every exception to a 400.
RecordDecisionFails(r) ==
  /\ StoreMayFail
  /\ reader[r].stage = "record"
  /\ reader' = [reader EXCEPT ![r] =
                  Replied(reader[r], IF reader[r].kind = "draft" THEN "400" ELSE "500")]
  /\ UNCHANGED <<data, decisions, audit, seen>>

\* Mutant: the event names the latest decision there is.
EventOf_Latest(rd) ==
  [actor |-> rd.actor, action |-> rd.kind, resource |-> rd.resource,
   result |-> rd.result, decision_id |-> Len(decisions)]

\* ingest_event
EventOf(rd) ==
  [actor |-> rd.actor, action |-> rd.kind, resource |-> rd.resource,
   result |-> rd.result, decision_id |-> rd.decision]

AppendEvent(r) ==
  /\ reader[r].stage = "audit"
  /\ audit' = Append(audit, EventOf(reader[r]))
  /\ reader' = [reader EXCEPT ![r] = Replied(reader[r], reader[r].next)]
  /\ UNCHANGED <<data, decisions, seen>>

\* Mutant: the exception of the store is swallowed.
AppendEventFails_Swallowed(r) ==
  /\ StoreMayFail
  /\ reader[r].stage = "audit"
  /\ reader' = [reader EXCEPT ![r] = Replied(reader[r], reader[r].next)]
  /\ UNCHANGED <<data, decisions, audit, seen>>

AppendEventFails(r) ==
  /\ StoreMayFail
  /\ reader[r].stage = "audit"
  /\ reader' = [reader EXCEPT ![r] = [Replied(reader[r], "500") EXCEPT !.answer = NoAnswer]]
  /\ UNCHANGED <<data, decisions, audit, seen>>

-----------------------------------------------------------------------------
\* A writer's commit: nothing ever removes a dataset.
CatalogChanges ==
  \E d \in DatasetIds : \E new \in Versions[d] :
     /\ data' = [data EXCEPT ![d] = new]
     /\ seen' = [r \in Readers |->
                   IF reader[r].stage # "idle" /\ reader[r].resource = d
                   THEN seen[r] \cup {new} ELSE seen[r]]
     /\ UNCHANGED <<decisions, audit, reader>>

Serve(r) ==
  \/ Evaluate(r)
  \/ RecordDecision(r)
  \/ RecordDecisionFails(r)
  \/ AppendEvent(r)
  \/ AppendEventFails(r)

Next == (\E r \in Readers : Receive(r) \/ Serve(r)) \/ CatalogChanges

Spec == Init /\ [][Next]_vars

-----------------------------------------------------------------------------
Verdict == [subject : Subjects, resource : DatasetIds, action : {"preview", "schema", "query"},
            effect : {"allow", "deny"}, masking : SUBSET ColumnNames, row_filter : BOOLEAN]

Audited(r, result) ==
  \E i \in DOMAIN audit :
     /\ audit[i].decision_id = reader[r].decision
     /\ audit[i].result = result
     /\ audit[i].actor = reader[r].actor
     /\ audit[i].action = reader[r].kind
     /\ audit[i].resource = reader[r].resource

DecidedAs(r, effect) ==
  /\ reader[r].decision \in DOMAIN decisions
  /\ decisions[reader[r].decision].effect = effect
  /\ decisions[reader[r].decision].subject = reader[r].actor
  /\ decisions[reader[r].decision].resource = reader[r].resource
  /\ decisions[reader[r].decision].action = PolicyAction(reader[r].kind)

\* No preview, schema or query result leaves the service before an allow decision
\* for that very request is in the decision log and an "allowed" event naming it
\* is in the audit log, even when the store fails half way; and a refusal by policy
\* is evidenced in the same way.
AnswersAreEvidenced ==
  \A r \in Readers :
     /\ reader[r].reply = "200" =>
          /\ DecidedAs(r, "allow")
          /\ reader[r].kind # "draft" => Audited(r, "allowed")
     /\ reader[r].reply = "403" => DecidedAs(r, "deny") /\ Audited(r, "denied")

\* Version v is the one the answer of reader r tells about.
TellsOf(r, v) ==
  /\ v # Missing
  /\ reader[r].answer.from \in {Missing, v}
  /\ ListsColumns(reader[r].kind) => reader[r].answer.columns = Names(v.schema)
  /\ reader[r].answer.flagged \subseteq PiiColumns(v.schema)

Masking(r) == decisions[reader[r].decision].masking

\* Version v is the one reader r was allowed to read, and masked for.  Connectors
\* leave the masking out.
DecidedOn(r, v) ==
  /\ v # Missing
  /\ Allowed(reader[r].actor, PolicyAction(reader[r].kind), reader[r].purpose, v)
  /\ Masking(r) = PiiColumns(v.schema)
  /\ reader[r].kind # "connector" => reader[r].answer.clear \cap PiiColumns(v.schema) = {}

\* What is released was allowed by, and masked for, a version the dataset had while
\* the request was being served, and tells about a version it had then: however
\* writers interleave with the two lookups (sdp/browse.py:29 and 102,
\* sdp/orchestrator.py:84), neither works from a version older than the request.
\* They need not be one and the same version.
ReleaseFitsAVersion ==
  \A r \in Readers : reader[r].reply = "200" =>
     /\ \E v \in seen[r] : TellsOf(r, v)
     /\ \E v \in seen[r] : DecidedOn(r, v)

\* Every version of the dataset since the request arrived has the same schema.
SchemaKept(r) == \A v, w \in seen[r] \ {Missing} : v.schema = w.schema

\* An answer contradicts itself (it calls a column personal that it does not mask, or
\* masks one that it does not list) only if the schema was changed between the
\* request and its reply: the handler answers from its own copy of the dataset
\* (sdp/browse.py:80 and 131, sdp/orchestrator.py:135) and masks by the decision, which
\* looked at another.
ContradictionMeansChange ==
  \A r \in Readers : reader[r].reply = "200" /\ SchemaKept(r) =>
     /\ reader[r].answer.flagged \subseteq Masking(r)
     /\ ListsColumns(reader[r].kind) => Masking(r) \subseteq reader[r].answer.columns

\* Readers do not use each other's evidence: an audit event that carries a
\* decision names the one made for its own actor, action and dataset, and says
\* "allowed" only if the decision does.
EventsMatchDecisions ==
  \A i \in DOMAIN audit : audit[i].decision_id # 0 =>
     /\ audit[i].decision_id \in DOMAIN decisions
     /\ LET d == decisions[audit[i].decision_id]
        IN  /\ d.subject = audit[i].actor
            /\ d.resource = audit[i].resource
            /\ d.action = PolicyAction(audit[i].action)
            /\ audit[i].result = "denied" <=> d.effect = "deny"

\* docs/prd-trd.md:402 (BRW-003): previews apply the column-level masking policy.
\* So no preview, a connector's included, shows a column its decision masks.
PreviewsAreMasked ==
  \A r \in Readers : reader[r].reply = "200" =>
     reader[r].answer.clear \cap Masking(r) = {}

=============================================================================
