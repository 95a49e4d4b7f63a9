------------------------- MODULE GovernedReadsProofs -------------------------
(***************************************************************************)
(* What the governed reads promise, for every set of readers and requests,   *)
(* every catalog and every way writers change it, and a store that may fail  *)
(* at any point.                                                           *)
(***************************************************************************)
EXTENDS GovernedReads, TLAPS

-----------------------------------------------------------------------------
(* The inductive invariant *)

Results == {"none", "allowed", "denied", "rejected"}
Codes == {"none", "200", "400", "403", "404", "500", "error"}

AnswerType == [from    : Dataset \cup {Missing},
               columns : SUBSET ColumnNames,
               flagged : SUBSET ColumnNames,
               clear   : SUBSET ColumnNames]

Reader == [stage    : {"idle", "evaluate", "record", "audit"},
           kind     : Kinds,
           actor    : Subjects,
           resource : DatasetIds,
           purpose  : Purposes,
           fault    : Faults,
           dataset  : Dataset \cup {Missing},
           verdict  : Verdict \cup {NoVerdict},
           decision : Nat,
           result   : Results,
           next     : Codes,
           reply    : Codes,
           answer   : AnswerType]

Event == [actor : Subjects, action : Kinds, resource : DatasetIds, result : Results,
          decision_id : Nat]

TypeOK ==
  /\ data \in [DatasetIds -> Dataset \cup {Missing}]
  /\ decisions \in Seq(Verdict)
  /\ audit \in Seq(Event)
  /\ reader \in [Readers -> Reader]
  /\ seen \in [Readers -> SUBSET (Dataset \cup {Missing})]

\* What reader r has in hand tells of a version it has seen, and was allowed for one.
Released(r) ==
  /\ \E v \in seen[r] : TellsOf(r, v)
  /\ \E v \in seen[r] : DecidedOn(r, v)

\* While it is served, a request has no reply yet and has "seen" the dataset as it is.
InService(r) ==
  reader[r].stage # "idle" =>
     /\ reader[r].reply = "none"
     /\ data[reader[r].resource] \in seen[r]

\* Before the decision is recorded, the handler holds a version it has seen and
\* nothing yet to be released.
NothingYet(r) ==
  reader[r].stage \in {"evaluate", "record"} =>
     /\ reader[r].answer = NoAnswer
     /\ reader[r].dataset \in seen[r]
     /\ reader[r].dataset # Missing

VerdictOn(r, v) ==
  evaluate(reader[r].actor, reader[r].resource, PolicyAction(reader[r].kind), reader[r].purpose, v)

\* A verdict on its way to the log is about a version the request has seen.
VerdictFits(r) ==
  reader[r].stage = "record" =>
     /\ reader[r].verdict \in Verdict
     /\ \E v \in seen[r] : reader[r].verdict = VerdictOn(r, v)

\* An event on its way to the log says what the decision says, and the answer that
\* waits for it is covered by both.
EventFits(r) ==
  reader[r].stage = "audit" =>
     /\ reader[r].decision # 0 =>
          DecidedAs(r, IF reader[r].result = "denied" THEN "deny" ELSE "allow")
     /\ reader[r].next = "200" =>
          DecidedAs(r, "allow") /\ reader[r].result = "allowed" /\ Released(r)
     /\ reader[r].next = "403" => DecidedAs(r, "deny") /\ reader[r].result = "denied"

\* An answer is covered by the logs and by a version.
AnswerFits(r) ==
  /\ reader[r].reply = "200" =>
       /\ DecidedAs(r, "allow")
       /\ reader[r].kind # "draft" => Audited(r, "allowed")
       /\ Released(r)
  /\ reader[r].reply = "403" => DecidedAs(r, "deny") /\ Audited(r, "denied")

ReaderInv(r) ==
  InService(r) /\ NothingYet(r) /\ VerdictFits(r) /\ EventFits(r) /\ AnswerFits(r)

ReadersInv == \A r \in Readers : ReaderInv(r)

Inv == TypeOK /\ ReadersInv /\ EventsMatchDecisions

-----------------------------------------------------------------------------
(* Operators *)

\* policy.evaluate decides on exactly the request it is given, by the version of the
\* dataset it is given: an allow means that the rules hold and that all columns with
\* personal data are masked.
LEMMA EvaluateDecides ==
  ASSUME NEW subject \in Subjects, NEW resource \in DatasetIds, NEW kind \in Kinds,
         NEW purpose, NEW v \in Dataset \cup {Missing}
  PROVE  LET d == evaluate(subject, resource, PolicyAction(kind), purpose, v)
         IN  /\ d \in Verdict
             /\ d.subject = subject
             /\ d.resource = resource
             /\ d.action = PolicyAction(kind)
             /\ d.effect = "allow" => /\ v # Missing
                                      /\ Allowed(subject, PolicyAction(kind), purpose, v)
                                      /\ d.masking = PiiColumns(v.schema)
<1> DEFINE action == PolicyAction(kind)
           allow == Allowed(subject, action, purpose, v)
           d == evaluate(subject, resource, action, purpose, v)
<1>1. action \in {"preview", "schema", "query"}
  BY DEF PolicyAction, Kinds
<1>2. LooksAtDataset(action) /\ (allow => v # Missing)
  BY <1>1 DEF LooksAtDataset, Discovery, Allowed, DatasetRules
<1>3. ASSUME allow PROVE PiiColumns(v.schema) \in SUBSET ColumnNames
  <2>1. v.schema \in SUBSET Column
    BY <1>2, <1>3 DEF Dataset, Schema
  <2> QED
    BY <2>1 DEF PiiColumns, Column
<1> HIDE DEF action, allow
<1>4. d = [subject |-> subject, resource |-> resource, action |-> action,
           effect |-> IF allow THEN "allow" ELSE "deny",
           masking |-> IF allow /\ LooksAtDataset(action) THEN PiiColumns(v.schema) ELSE {},
           row_filter |-> (allow /\ LooksAtDataset(action)) /\ RowFiltered(action, purpose, v)]
  BY DEF evaluate, allow
<1>5. /\ (IF allow /\ LooksAtDataset(action) THEN PiiColumns(v.schema) ELSE {}) \in SUBSET ColumnNames
      /\ ((allow /\ LooksAtDataset(action)) /\ RowFiltered(action, purpose, v)) \in BOOLEAN
      /\ (IF allow THEN "allow" ELSE "deny") \in {"allow", "deny"}
  BY <1>3 DEF RowFiltered
<1>6. d \in Verdict
  BY <1>1, <1>4, <1>5 DEF Verdict
<1>7. d.subject = subject /\ d.resource = resource /\ d.action = action
  BY <1>4
<1>8. d.effect = "allow" => allow /\ d.masking = PiiColumns(v.schema)
  BY <1>2, <1>4
<1> QED
  BY <1>2, <1>6, <1>7, <1>8 DEF action, allow

\* The logs are append-only: what is there stays where it is, and the new entry is
\* the last one.
LEMMA AppendExtends ==
  ASSUME NEW S, NEW log \in Seq(S), NEW e \in S
  PROVE  /\ Append(log, e) \in Seq(S)
         /\ \A i \in DOMAIN log : i \in DOMAIN Append(log, e) /\ Append(log, e)[i] = log[i]
         /\ Len(log) + 1 \in DOMAIN Append(log, e)
         /\ Append(log, e)[Len(log) + 1] = e
         /\ Len(log) \in Nat
         /\ \A i \in DOMAIN Append(log, e) : i \in DOMAIN log \/ i = Len(log) + 1
<1>1. /\ Len(log) \in Nat
      /\ DOMAIN log = 1..Len(log)
      /\ DOMAIN Append(log, e) = 1..(Len(log) + 1)
  OBVIOUS
<1>2. ASSUME NEW i \in DOMAIN log
      PROVE  i \in DOMAIN Append(log, e) /\ Append(log, e)[i] = log[i]
  BY <1>1
<1>3. Len(log) + 1 \in DOMAIN Append(log, e)
  BY <1>1
<1>4. Append(log, e)[Len(log) + 1] = e
  OBVIOUS
<1>5. \A i \in DOMAIN Append(log, e) : i \in DOMAIN log \/ i = Len(log) + 1
  BY <1>1
<1>6. Append(log, e) \in Seq(S)
  OBVIOUS
<1> QED
  BY <1>1, <1>2, <1>3, <1>4, <1>5, <1>6

\* The reader x is rd after some step: it still serves the same request.
SameRequest(x, rd) ==
  /\ x.actor = rd.actor
  /\ x.kind = rd.kind
  /\ x.resource = rd.resource
  /\ x.purpose = rd.purpose

\* A reader that has replied is idle and keeps its request, its decision and its answer.
LEMMA RepliedType ==
  ASSUME NEW rd \in Reader, NEW code \in Codes
  PROVE  /\ Replied(rd, code) \in Reader
         /\ Replied(rd, code).stage = "idle"
         /\ Replied(rd, code).reply = code
         /\ Replied(rd, code).decision = rd.decision
         /\ SameRequest(Replied(rd, code), rd)
         /\ Replied(rd, code).answer = rd.answer
<1>1. "none" \in Faults /\ "none" \in Results /\ "none" \in Codes
  BY DEF Faults, Results, Codes
<1>2. Replied(rd, code) \in Reader
  BY <1>1 DEF Replied, Reader
<1>3. Replied(rd, code).stage = "idle" /\ Replied(rd, code).reply = code
  BY DEF Replied, Reader
<1> QED
  BY <1>2, <1>3 DEF Replied, Reader, SameRequest

\* A reader on its way to the audit log keeps the same.
LEMMA ThenAuditType ==
  ASSUME NEW rd \in Reader, NEW result \in Results, NEW code \in Codes
  PROVE  /\ ThenAudit(rd, result, code) \in Reader
         /\ ThenAudit(rd, result, code).stage = "audit"
         /\ ThenAudit(rd, result, code).reply = rd.reply
         /\ ThenAudit(rd, result, code).result = result
         /\ ThenAudit(rd, result, code).next = code
         /\ ThenAudit(rd, result, code).decision = rd.decision
         /\ SameRequest(ThenAudit(rd, result, code), rd)
         /\ ThenAudit(rd, result, code).answer = rd.answer
<1>1. ThenAudit(rd, result, code) \in Reader
  BY DEF ThenAudit, Reader, Faults
<1> QED
  BY <1>1 DEF ThenAudit, Reader, SameRequest

\* A reader without a request.
LEMMA IdleReaderType == IdleReader \in Reader
<1>1. /\ (CHOOSE s \in Subjects : TRUE) \in Subjects
      /\ (CHOOSE p \in Purposes : TRUE) \in Purposes
      /\ (CHOOSE d \in DatasetIds : TRUE) \in DatasetIds
  BY ReadsAssumption
<1>2. NoAnswer \in AnswerType
  BY DEF NoAnswer, AnswerType
<1> QED
  BY <1>1, <1>2 DEF IdleReader, Reader, Kinds, Faults, Results, Codes

\* A request that arrives is refused, goes to the audit log with a refusal that no
\* decision stands for, or goes on to its decision.
LEMMA OnRequestType ==
  ASSUME NEW rd \in Reader, NEW dataset \in Dataset \cup {Missing},
         rd.reply = "none", rd.decision = 0, rd.answer = NoAnswer
  PROVE  LET x == OnRequest(rd, dataset)
         IN  /\ x \in Reader
             /\ SameRequest(x, rd)
             /\ x.decision = 0
             /\ x.answer = NoAnswer
             /\ \/ x.stage = "idle" /\ x.reply \in {"400", "404", "error"}
                \/ x.stage = "audit" /\ x.reply = "none" /\ x.next \in {"400", "404"}
                \/ x.stage = "evaluate" /\ x.reply = "none" /\ x.dataset = dataset /\ dataset # Missing
<1> DEFINE Out(x) == /\ x \in Reader
                     /\ SameRequest(x, rd)
                     /\ x.decision = 0
                     /\ x.answer = NoAnswer
                     /\ \/ x.stage = "idle" /\ x.reply \in {"400", "404", "error"}
                        \/ x.stage = "audit" /\ x.reply = "none" /\ x.next \in {"400", "404"}
                        \/ x.stage = "evaluate" /\ x.reply = "none" /\ x.dataset = dataset /\ dataset # Missing
<1>1. {"400", "404", "error"} \subseteq Codes /\ {"rejected", "denied"} \subseteq Results
  BY DEF Codes, Results
<1>2. ASSUME NEW code \in {"400", "404", "error"} PROVE Out(Replied(rd, code))
  <2> DEFINE x == Replied(rd, code)
  <2>1. x \in Reader /\ x.stage = "idle" /\ x.reply = code
    BY <1>1, RepliedType
  <2>2. SameRequest(x, rd) /\ x.decision = rd.decision /\ x.answer = rd.answer
    BY <1>1, RepliedType
  <2> HIDE DEF x
  <2>3. Out(x)
    BY <2>1, <2>2
  <2> QED
    BY <2>3 DEF x
<1>3. ASSUME NEW result \in {"rejected", "denied"}, NEW code \in {"400", "404"}
      PROVE  Out(ThenAudit(rd, result, code))
  <2> DEFINE x == ThenAudit(rd, result, code)
  <2>1. x \in Reader /\ x.stage = "audit" /\ x.reply = rd.reply /\ x.result = result /\ x.next = code
    BY <1>1, ThenAuditType
  <2>2. SameRequest(x, rd) /\ x.decision = rd.decision /\ x.answer = rd.answer
    BY <1>1, ThenAuditType
  <2> HIDE DEF x
  <2>3. Out(x)
    BY <2>1, <2>2
  <2> QED
    BY <2>3 DEF x
<1>4. ASSUME dataset # Missing PROVE Out([rd EXCEPT !.stage = "evaluate", !.dataset = dataset])
  <2> DEFINE x == [rd EXCEPT !.stage = "evaluate", !.dataset = dataset]
  <2>1. x \in Reader
    BY DEF Reader
  <2>2. x.actor = rd.actor /\ x.kind = rd.kind /\ x.resource = rd.resource /\ x.purpose = rd.purpose
    BY DEF Reader
  <2>3. /\ x.stage = "evaluate" /\ x.reply = rd.reply /\ x.decision = rd.decision
        /\ x.answer = rd.answer /\ x.dataset = dataset
    BY DEF Reader
  <2> QED
    BY <1>4, <2>1, <2>2, <2>3 DEF SameRequest
<1> HIDE DEF Out
<1>5. Out(OnUnparsable(rd)) /\ Out(OnMalformed(rd)) /\ Out(OnMissing(rd)) /\ Out(OnForeign(rd))
  BY <1>2, <1>3 DEF OnUnparsable, OnMalformed, OnMissing, OnForeign
<1>6. Out(OnRequest(rd, dataset))
  BY <1>2, <1>4, <1>5 DEF OnRequest
<1> QED
  BY <1>6 DEF Out

\* What a handler makes of the first lookup and of its decision: the answer lists and
\* flags the columns of the former, and shows no column that the latter masks.
LEMMA AnswerOf ==
  ASSUME NEW rd \in Reader, rd.dataset # Missing, rd.verdict \in Verdict
  PROVE  /\ Answer(rd) \in AnswerType
         /\ Answer(rd).from \in {Missing, rd.dataset}
         /\ ListsColumns(rd.kind) => Answer(rd).columns = Names(rd.dataset.schema)
         /\ Answer(rd).flagged \subseteq PiiColumns(rd.dataset.schema)
         /\ rd.kind # "connector" => Answer(rd).clear \cap rd.verdict.masking = {}
<1>1. rd.dataset \in Dataset
  BY DEF Reader
<1>2. PICK schema : schema = rd.dataset.schema
  OBVIOUS
<1>3. schema \in SUBSET Column
  BY <1>1, <1>2 DEF Dataset, Schema
<1>4. Names(schema) \in SUBSET ColumnNames /\ PiiColumns(schema) \in SUBSET ColumnNames
  BY <1>3 DEF Names, PiiColumns, Column
<1>5. PICK clear : clear = CASE rd.kind = "preview"   -> apply_mask(RowColumns, rd.verdict.masking)
                             [] rd.kind = "connector" -> ConnectorRows
                             [] OTHER                 -> {}
  OBVIOUS
<1>6. clear \in SUBSET ColumnNames /\ (rd.kind # "connector" => clear \cap rd.verdict.masking = {})
  BY <1>5, ReadsAssumption DEF apply_mask, ConnectorRows
<1>7. PICK from : from = IF rd.kind = "connector" THEN Missing ELSE rd.dataset
  OBVIOUS
<1>8. PICK columns : columns = IF ListsColumns(rd.kind) THEN Names(schema) ELSE {}
  OBVIOUS
<1>9. PICK flagged : flagged = IF rd.kind = "schema" \/ (rd.kind = "draft" /\ rd.purpose = "analysis")
                               THEN PiiColumns(schema) ELSE {}
  OBVIOUS
<1>10. Answer(rd) = [from |-> from, columns |-> columns, flagged |-> flagged, clear |-> clear]
  BY <1>2, <1>5, <1>7, <1>8, <1>9, Zenon DEF Answer
<1>11. from \in Dataset \cup {Missing} /\ from \in {Missing, rd.dataset}
  BY <1>1, <1>7
<1>12. columns \in SUBSET ColumnNames /\ (ListsColumns(rd.kind) => columns = Names(schema))
  BY <1>4, <1>8
<1>13. flagged \in SUBSET ColumnNames /\ flagged \subseteq PiiColumns(schema)
  BY <1>4, <1>9
<1>14. Answer(rd) \in AnswerType
  BY <1>6, <1>10, <1>11, <1>12, <1>13 DEF AnswerType
<1> QED
  BY <1>2, <1>6, <1>10, <1>11, <1>12, <1>13, <1>14

\* A reader that is about to reply, or has replied: an audit event that repeats the
\* effect, with 200 only for an allow and 403 only for a deny; drafts reply at once.
Concluded(x, rd) ==
  /\ x \in Reader
  /\ SameRequest(x, rd)
  /\ x.decision = rd.decision
  /\ \/ /\ x.stage = "idle"
        /\ \/ x.reply = "error"
           \/ /\ x.reply = "200" /\ x.kind = "draft" /\ rd.verdict.effect = "allow"
              /\ x.answer = Answer(rd)
     \/ /\ x.stage = "audit"
        /\ x.reply = "none"
        /\ \/ x.result = "denied" /\ x.next = "403" /\ rd.verdict.effect = "deny"
           \/ x.result = "rejected" /\ x.next = "400" /\ rd.verdict.effect = "allow"
           \/ /\ x.result = "allowed" /\ x.next = "200" /\ rd.verdict.effect = "allow"
              /\ x.answer = Answer(rd)

\* What a handler makes of its decision.
LEMMA OnDecisionType ==
  ASSUME NEW rd \in Reader, rd.reply = "none", rd.dataset # Missing, rd.verdict \in Verdict
  PROVE  Concluded(OnDecision(rd), rd)
<1>1. /\ "200" \in Codes /\ "400" \in Codes /\ "403" \in Codes /\ "error" \in Codes
      /\ "rejected" \in Results /\ "denied" \in Results /\ "allowed" \in Results
  BY DEF Codes, Results
<1>2. rd.verdict.effect \in {"allow", "deny"}
  BY DEF Verdict
<1>3. Concluded(Replied(rd, "error"), rd)
  <2>1. PICK x : x = Replied(rd, "error")
    OBVIOUS
  <2>2. x \in Reader /\ x.stage = "idle" /\ x.reply = "error" /\ SameRequest(x, rd) /\ x.decision = rd.decision
    BY <1>1, <2>1, RepliedType
  <2>3. Concluded(x, rd)
    BY <2>2 DEF Concluded
  <2> QED
    BY <2>1, <2>3
<1>4. ASSUME NEW result \in Results, NEW code \in Codes,
             \/ result = "denied" /\ code = "403" /\ rd.verdict.effect = "deny"
             \/ result = "rejected" /\ code = "400" /\ rd.verdict.effect = "allow"
      PROVE  Concluded(ThenAudit(rd, result, code), rd)
  <2>1. PICK x : x = ThenAudit(rd, result, code)
    OBVIOUS
  <2>2. /\ x \in Reader /\ x.stage = "audit" /\ x.reply = rd.reply /\ x.result = result /\ x.next = code
        /\ SameRequest(x, rd) /\ x.decision = rd.decision
    BY <2>1, ThenAuditType
  <2>3. Concluded(x, rd)
    BY <1>4, <2>2 DEF Concluded
  <2> QED
    BY <2>1, <2>3
<1>5. ASSUME NEW y \in Reader, SameRequest(y, rd), y.decision = rd.decision, rd.verdict.effect = "allow",
             \/ y.stage = "idle" /\ y.reply = "200" /\ rd.kind = "draft"
             \/ y.stage = "audit" /\ y.reply = "none" /\ y.result = "allowed" /\ y.next = "200"
      PROVE  Concluded([y EXCEPT !.answer = Answer(rd)], rd)
  <2>1. PICK a : a = Answer(rd)
    OBVIOUS
  <2>2. a \in AnswerType
    BY <2>1, AnswerOf
  <2>3. PICK x : x = [y EXCEPT !.answer = a]
    OBVIOUS
  <2>4. x \in Reader /\ x.answer = a
    BY <2>2, <2>3 DEF Reader
  <2>5. x.kind = y.kind /\ x.actor = y.actor /\ x.resource = y.resource /\ x.purpose = y.purpose
    BY <2>3 DEF Reader
  <2>6. x.decision = y.decision /\ x.stage = y.stage /\ x.reply = y.reply /\ x.result = y.result /\ x.next = y.next
    BY <2>3 DEF Reader
  <2>7. Concluded(x, rd)
    BY <1>5, <2>1, <2>4, <2>5, <2>6 DEF Concluded, SameRequest
  <2> QED
    BY <2>1, <2>3, <2>7
<1>6. ASSUME rd.verdict.effect = "allow" PROVE Concluded(OnAllowed(rd), rd)
  <2>1. PICK y : y = IF rd.kind = "draft" THEN Replied(rd, "200") ELSE ThenAudit(rd, "allowed", "200")
    OBVIOUS
  <2>2. CASE rd.kind = "draft"
    <3>1. /\ y \in Reader /\ y.stage = "idle" /\ y.reply = "200"
          /\ SameRequest(y, rd) /\ y.decision = rd.decision
      BY <1>1, <2>1, <2>2, RepliedType
    <3> QED
      BY <1>5, <1>6, <2>1, <2>2, <3>1 DEF OnAllowed
  <2>3. CASE rd.kind # "draft"
    <3>a. y = ThenAudit(rd, "allowed", "200")
      BY <2>1, <2>3
    <3>1. \A result \in Results, code \in Codes :
             LET x == ThenAudit(rd, result, code)
             IN  /\ x \in Reader /\ x.stage = "audit" /\ x.reply = rd.reply
                 /\ x.result = result /\ x.next = code
                 /\ SameRequest(x, rd) /\ x.decision = rd.decision
      BY ThenAuditType
    <3>2. /\ y \in Reader /\ y.stage = "audit" /\ y.reply = rd.reply /\ y.result = "allowed" /\ y.next = "200"
          /\ SameRequest(y, rd) /\ y.decision = rd.decision
      BY <1>1, <3>a, <3>1
    <3> QED
      BY <1>5, <1>6, <2>1, <2>3, <3>2 DEF OnAllowed
  <2> QED
    BY <2>2, <2>3
<1>7. rd.verdict.effect = "deny" => Concluded(OnDenied(rd), rd)
  BY <1>1, <1>3, <1>4 DEF OnDenied
<1>8. rd.verdict.effect = "allow" => Concluded(OnUnsafe(rd), rd)
  BY <1>1, <1>3, <1>4 DEF OnUnsafe
<1> QED
  BY <1>2, <1>6, <1>7, <1>8 DEF OnDecision

-----------------------------------------------------------------------------
(* Readers that do not move *)

\* Neither a longer log nor a writer disturbs a reader between two of its steps.
LEMMA ReaderStays ==
  ASSUME NEW u \in Readers, ReaderInv(u),
         reader'[u] = reader[u], seen[u] \subseteq seen'[u],
         reader[u].stage # "idle" => data'[reader[u].resource] \in seen'[u],
         \A i \in DOMAIN decisions : i \in DOMAIN decisions' /\ decisions'[i] = decisions[i],
         \A i \in DOMAIN audit : i \in DOMAIN audit' /\ audit'[i] = audit[i]
  PROVE  ReaderInv(u)'
<1>1. \A effect : DecidedAs(u, effect) => DecidedAs(u, effect)'
  BY DEF DecidedAs
<1>2. \A result : Audited(u, result) => Audited(u, result)'
  BY DEF Audited
<1>3. \A v : TellsOf(u, v) => TellsOf(u, v)'
  BY DEF TellsOf
<1>4. Released(u) /\ DecidedAs(u, "allow") => Released(u)'
  <2>1. DecidedAs(u, "allow") => Masking(u)' = Masking(u)
    BY DEF DecidedAs, Masking
  <2>2. DecidedAs(u, "allow") => \A v : DecidedOn(u, v) => DecidedOn(u, v)'
    BY <2>1 DEF DecidedOn
  <2> QED
    BY <1>3, <2>2 DEF Released
<1>5. InService(u)' /\ NothingYet(u)'
  BY DEF ReaderInv, InService, NothingYet
<1>6. VerdictFits(u)'
  BY DEF ReaderInv, VerdictFits, VerdictOn
<1>7. EventFits(u)'
  BY <1>1, <1>4 DEF ReaderInv, EventFits
<1>8. AnswerFits(u)'
  BY <1>1, <1>2, <1>4 DEF ReaderInv, AnswerFits
<1> QED
  BY <1>5, <1>6, <1>7, <1>8 DEF ReaderInv

\* A longer decision log does not change what the events stand for.
LEMMA EventsStay ==
  ASSUME EventsMatchDecisions, audit' = audit,
         \A i \in DOMAIN decisions : i \in DOMAIN decisions' /\ decisions'[i] = decisions[i]
  PROVE  EventsMatchDecisions'
BY DEF EventsMatchDecisions

-----------------------------------------------------------------------------
(* Steps *)

\* The service starts with empty logs and no request.
LEMMA InvInit == Init => Inv
<1> SUFFICES ASSUME Init PROVE Inv
  OBVIOUS
<1>1. data \in [DatasetIds -> Dataset \cup {Missing}]
  BY ReadsAssumption DEF Init
<1>2. TypeOK
  BY <1>1, IdleReaderType DEF Init, TypeOK
<1>3. \A r \in Readers : reader[r].stage = "idle" /\ reader[r].reply = "none"
  BY DEF Init, IdleReader
<1>4. ReadersInv
  BY <1>3 DEF ReadersInv, ReaderInv, InService, NothingYet, VerdictFits, EventFits, AnswerFits
<1>5. EventsMatchDecisions
  BY DEF Init, EventsMatchDecisions
<1> QED
  BY <1>2, <1>4, <1>5 DEF Inv

\* Only reader r moves, and the logs do not get shorter.
LEMMA ReaderMoves ==
  ASSUME Inv, NEW r \in Readers, NEW x \in Reader,
         reader' = [reader EXCEPT ![r] = x], data' = data, TypeOK',
         \A u \in Readers \ {r} : seen'[u] = seen[u],
         \A i \in DOMAIN decisions : i \in DOMAIN decisions' /\ decisions'[i] = decisions[i],
         \A i \in DOMAIN audit : i \in DOMAIN audit' /\ audit'[i] = audit[i],
         ReaderInv(r)'
  PROVE  ReadersInv'
<1> SUFFICES ASSUME NEW u \in Readers, u # r PROVE ReaderInv(u)'
  BY DEF ReadersInv
<1>1. ReaderInv(u) /\ reader'[u] = reader[u] /\ seen'[u] = seen[u]
  BY DEF Inv, ReadersInv, TypeOK
<1>2. reader[u].stage # "idle" => data'[reader[u].resource] \in seen'[u]
  BY <1>1 DEF ReaderInv, InService
<1> QED
  BY <1>1, <1>2, ReaderStays

\* A request that arrives.
LEMMA ReceiveStep == ASSUME Inv, NEW r \in Readers, Receive(r) PROVE Inv'
<1>1. PICK kind \in Kinds, d \in DatasetIds :
        \E actor \in ActorsOf(kind), purpose \in PurposesOf(kind), fault \in FaultsOf(kind) :
          LET rd == [IdleReader EXCEPT !.kind = kind, !.actor = actor, !.resource = d,
                                       !.purpose = purpose, !.fault = fault]
          IN  /\ reader[r].stage = "idle"
              /\ Len(decisions) < MaxDecisions
              /\ Len(audit) < MaxEvents
              /\ reader' = [reader EXCEPT ![r] = OnRequest(rd, data[d])]
              /\ seen' = [seen EXCEPT ![r] = {data[d]}]
              /\ UNCHANGED <<data, decisions, audit>>
  BY Zenon DEF Receive
<1>2. PICK actor \in ActorsOf(kind), purpose \in PurposesOf(kind), fault \in FaultsOf(kind) :
          LET rd == [IdleReader EXCEPT !.kind = kind, !.actor = actor, !.resource = d,
                                       !.purpose = purpose, !.fault = fault]
          IN  /\ reader[r].stage = "idle"
              /\ Len(decisions) < MaxDecisions
              /\ Len(audit) < MaxEvents
              /\ reader' = [reader EXCEPT ![r] = OnRequest(rd, data[d])]
              /\ seen' = [seen EXCEPT ![r] = {data[d]}]
              /\ UNCHANGED <<data, decisions, audit>>
  BY <1>1
<1> DEFINE rd == [IdleReader EXCEPT !.kind = kind, !.actor = actor, !.resource = d,
                                    !.purpose = purpose, !.fault = fault]
           x == OnRequest(rd, data[d])
<1>3. actor \in Subjects /\ purpose \in Purposes /\ fault \in Faults
  BY DEF ActorsOf, PurposesOf, FaultsOf, Faults, Kinds
<1>4. /\ rd \in Reader
      /\ rd.resource = d /\ rd.reply = "none" /\ rd.decision = 0 /\ rd.answer = NoAnswer
  <2>1. rd \in Reader
    BY <1>3, IdleReaderType DEF Reader
  <2>2. rd.resource = d /\ rd.reply = "none" /\ rd.decision = 0 /\ rd.answer = NoAnswer
    BY DEF IdleReader
  <2> QED
    BY <2>1, <2>2
<1> HIDE DEF rd
<1>5. /\ x \in Reader
      /\ x.resource = d /\ x.decision = 0 /\ x.answer = NoAnswer
      /\ \/ x.stage = "idle" /\ x.reply \in {"400", "404", "error"}
         \/ x.stage = "audit" /\ x.reply = "none" /\ x.next \in {"400", "404"}
         \/ x.stage = "evaluate" /\ x.reply = "none" /\ x.dataset = data[d] /\ data[d] # Missing
  <2>1. data[d] \in Dataset \cup {Missing}
    BY DEF Inv, TypeOK
  <2> QED
    BY <1>4, <2>1, OnRequestType DEF SameRequest
<1>6. /\ reader' = [reader EXCEPT ![r] = x]
      /\ seen' = [seen EXCEPT ![r] = {data[d]}]
      /\ UNCHANGED <<data, decisions, audit>>
  BY <1>2 DEF rd
<1> HIDE DEF x
<1>7. TypeOK'
  <2>1. data[d] \in Dataset \cup {Missing}
    BY DEF Inv, TypeOK
  <2>2. seen' \in [Readers -> SUBSET (Dataset \cup {Missing})]
    BY <1>6, <2>1 DEF Inv, TypeOK
  <2>3. reader' \in [Readers -> Reader]
    BY <1>5, <1>6 DEF Inv, TypeOK
  <2> QED
    BY <1>6, <2>2, <2>3 DEF Inv, TypeOK
<1>8. reader'[r] = x /\ seen'[r] = {data[d]} /\ data' = data
  BY <1>6 DEF Inv, TypeOK
<1>9. ReaderInv(r)'
  <2>1. InService(r)' /\ NothingYet(r)' /\ VerdictFits(r)'
    BY <1>5, <1>8 DEF InService, NothingYet, VerdictFits
  <2>2. EventFits(r)' /\ AnswerFits(r)'
    BY <1>5, <1>8 DEF EventFits, AnswerFits
  <2> QED
    BY <2>1, <2>2 DEF ReaderInv
<1>10. \A u \in Readers \ {r} : seen'[u] = seen[u]
  BY <1>6 DEF Inv, TypeOK
<1>11. ReadersInv'
  BY <1>5, <1>6, <1>7, <1>9, <1>10, ReaderMoves
<1>12. EventsMatchDecisions'
  BY <1>6, EventsStay DEF Inv
<1> QED
  BY <1>7, <1>11, <1>12 DEF Inv

\* policy.evaluate reads the dataset as it is then, which is one of the versions the
\* request has seen.
LEMMA EvaluateStep == ASSUME Inv, NEW r \in Readers, Evaluate(r) PROVE Inv'
<1> DEFINE rd == reader[r]
           v == data[rd.resource]
           verdict == VerdictOn(r, v)
           x == [rd EXCEPT !.stage = "record", !.verdict = verdict]
<1>1. /\ rd.stage = "evaluate"
      /\ reader' = [reader EXCEPT ![r] = x]
      /\ UNCHANGED <<data, decisions, audit, seen>>
  BY DEF Evaluate, DecisionDataset, VerdictOn
<1>2. /\ rd \in Reader /\ rd.reply = "none" /\ v \in seen[r]
      /\ rd.answer = NoAnswer /\ rd.dataset \in seen[r] /\ rd.dataset # Missing
  BY <1>1 DEF Inv, ReadersInv, ReaderInv, InService, NothingYet, TypeOK
<1>3. verdict \in Verdict
  <2>1. /\ rd.actor \in Subjects /\ rd.resource \in DatasetIds /\ rd.kind \in Kinds
        /\ v \in Dataset \cup {Missing}
    BY <1>2 DEF Reader, Inv, TypeOK
  <2> QED
    BY <2>1, EvaluateDecides DEF VerdictOn
<1> HIDE DEF verdict
<1>4. x \in Reader
  BY <1>2, <1>3 DEF Reader
<1>5. /\ x.stage = "record" /\ x.verdict = verdict /\ x.reply = rd.reply
      /\ x.answer = rd.answer /\ x.dataset = rd.dataset
      /\ SameRequest(x, rd)
  BY <1>2 DEF Reader, SameRequest
<1>6. reader'[r] = x /\ reader' \in [Readers -> Reader]
  BY <1>1, <1>4 DEF Inv, TypeOK
<1> HIDE DEF x
<1>7. TypeOK'
  BY <1>1, <1>6 DEF Inv, TypeOK
<1>8. ReaderInv(r)'
  <2>1. InService(r)' /\ NothingYet(r)'
    BY <1>1, <1>2, <1>5, <1>6 DEF InService, NothingYet, SameRequest
  <2>2. verdict = evaluate(x.actor, x.resource, PolicyAction(x.kind), x.purpose, v)
    BY <1>5 DEF VerdictOn, SameRequest, verdict
  <2>3. VerdictFits(r)'
    BY <1>1, <1>2, <1>3, <1>5, <1>6, <2>2 DEF VerdictFits, VerdictOn
  <2>4. EventFits(r)' /\ AnswerFits(r)'
    BY <1>2, <1>5, <1>6 DEF EventFits, AnswerFits
  <2> QED
    BY <2>1, <2>3, <2>4 DEF ReaderInv
<1>9. ReadersInv'
  BY <1>1, <1>4, <1>7, <1>8, ReaderMoves
<1>10. EventsMatchDecisions'
  BY <1>1, EventsStay DEF Inv
<1> QED
  BY <1>7, <1>9, <1>10 DEF Inv

\* The decision goes into the log, and the handler acts on it.
LEMMA RecordStep == ASSUME Inv, NEW r \in Readers, RecordDecision(r) PROVE Inv'
<1> DEFINE rd == reader[r]
           n == Len(decisions) + 1
           y == [rd EXCEPT !.decision = n]
           x == OnDecision(y)
<1>1. /\ rd.stage = "record"
      /\ decisions' = Append(decisions, rd.verdict)
      /\ reader' = [reader EXCEPT ![r] = x]
      /\ UNCHANGED <<data, audit, seen>>
  BY DEF RecordDecision
<1>2. /\ rd \in Reader /\ rd.reply = "none" /\ rd.verdict \in Verdict
      /\ rd.dataset \in seen[r] /\ rd.dataset # Missing
      /\ data[rd.resource] \in seen[r]
  BY <1>1 DEF Inv, ReadersInv, ReaderInv, InService, NothingYet, VerdictFits, TypeOK
<1>3. PICK v \in seen[r] : rd.verdict = VerdictOn(r, v)
  BY <1>1 DEF Inv, ReadersInv, ReaderInv, VerdictFits
<1>4. v \in Dataset \cup {Missing}
  BY DEF Inv, TypeOK
<1>5. /\ rd.verdict.subject = rd.actor
      /\ rd.verdict.resource = rd.resource
      /\ rd.verdict.action = PolicyAction(rd.kind)
      /\ rd.verdict.effect = "allow" =>
           /\ v # Missing
           /\ Allowed(rd.actor, PolicyAction(rd.kind), rd.purpose, v)
           /\ rd.verdict.masking = PiiColumns(v.schema)
  <2>1. rd.actor \in Subjects /\ rd.resource \in DatasetIds /\ rd.kind \in Kinds
    BY <1>2 DEF Reader
  <2> QED
    BY <1>3, <1>4, <2>1, EvaluateDecides DEF VerdictOn
<1>6. /\ n \in Nat
      /\ decisions' \in Seq(Verdict)
      /\ n \in DOMAIN decisions'
      /\ decisions'[n] = rd.verdict
      /\ \A i \in DOMAIN decisions : i \in DOMAIN decisions' /\ decisions'[i] = decisions[i]
  <2>1. decisions \in Seq(Verdict)
    BY DEF Inv, TypeOK
  <2> QED
    BY <1>1, <1>2, <2>1, AppendExtends
<1>7. y \in Reader
  BY <1>2, <1>6 DEF Reader
<1>8. /\ y.reply = "none" /\ y.dataset = rd.dataset /\ y.verdict = rd.verdict /\ y.decision = n
      /\ SameRequest(y, rd)
  BY <1>2 DEF Reader, SameRequest
<1> HIDE DEF n, y
<1>9. /\ x \in Reader
      /\ SameRequest(x, rd)
      /\ x.decision = n
      /\ \/ /\ x.stage = "idle"
            /\ \/ x.reply = "error"
               \/ /\ x.reply = "200" /\ x.kind = "draft" /\ rd.verdict.effect = "allow"
                  /\ x.answer = Answer(y)
         \/ /\ x.stage = "audit"
            /\ x.reply = "none"
            /\ \/ x.result = "denied" /\ x.next = "403" /\ rd.verdict.effect = "deny"
               \/ x.result = "rejected" /\ x.next = "400" /\ rd.verdict.effect = "allow"
               \/ /\ x.result = "allowed" /\ x.next = "200" /\ rd.verdict.effect = "allow"
                  /\ x.answer = Answer(y)
  <2>1. Concluded(x, y)
    BY <1>2, <1>7, <1>8, OnDecisionType
  <2> HIDE DEF x
  <2> QED
    BY <1>8, <2>1 DEF SameRequest, Concluded
<1> HIDE DEF x
<1>10. reader'[r] = x /\ reader' \in [Readers -> Reader]
  BY <1>1, <1>9 DEF Inv, TypeOK
<1>11. TypeOK'
  BY <1>1, <1>6, <1>10 DEF Inv, TypeOK
<1>12. \A effect : effect = rd.verdict.effect => DecidedAs(r, effect)'
  BY <1>5, <1>6, <1>9, <1>10 DEF DecidedAs, SameRequest
<1>13. ASSUME rd.verdict.effect = "allow", x.answer = Answer(y) PROVE Released(r)'
  <2>1. PICK a, first : a = Answer(y) /\ first = rd.dataset
    OBVIOUS
  <2>2. /\ first \in seen[r] /\ first # Missing
        /\ a.from \in {Missing, first}
        /\ ListsColumns(x.kind) => a.columns = Names(first.schema)
        /\ a.flagged \subseteq PiiColumns(first.schema)
        /\ x.kind # "connector" => a.clear \cap rd.verdict.masking = {}
    BY <1>2, <1>7, <1>8, <1>9, <2>1, AnswerOf DEF SameRequest
  <2>3. TellsOf(r, first)'
    BY <1>10, <1>13, <2>1, <2>2 DEF TellsOf
  <2>4. Masking(r)' = rd.verdict.masking
    BY <1>6, <1>9, <1>10 DEF Masking
  <2>5. /\ v # Missing
        /\ Allowed(x.actor, PolicyAction(x.kind), x.purpose, v)
        /\ rd.verdict.masking = PiiColumns(v.schema)
    BY <1>5, <1>9, <1>13 DEF SameRequest
  <2>6. DecidedOn(r, v)'
    BY <1>1, <1>10, <1>13, <2>1, <2>2, <2>4, <2>5 DEF DecidedOn
  <2> QED
    BY <1>1, <2>2, <2>3, <2>6 DEF Released
<1>14. ReaderInv(r)'
  <2>1. rd.verdict.effect \in {"allow", "deny"}
    BY <1>2 DEF Verdict
  <2>3. InService(r)' /\ NothingYet(r)' /\ VerdictFits(r)'
    BY <1>1, <1>2, <1>9, <1>10 DEF InService, NothingYet, VerdictFits, SameRequest
  <2>4. EventFits(r)'
    BY <1>9, <1>10, <1>12, <1>13 DEF EventFits
  <2>5. AnswerFits(r)'
    BY <1>9, <1>10, <1>12, <1>13 DEF AnswerFits
  <2> QED
    BY <2>3, <2>4, <2>5 DEF ReaderInv
<1>15. ReadersInv'
  BY <1>1, <1>6, <1>9, <1>11, <1>14, ReaderMoves
<1>16. EventsMatchDecisions'
  BY <1>1, <1>6, EventsStay DEF Inv
<1> QED
  BY <1>11, <1>15, <1>16 DEF Inv

\* Reader r gives an answer that claims nothing.
LEMMA FailStep ==
  ASSUME Inv, NEW r \in Readers, NEW x \in Reader,
         x.stage = "idle", x.reply \in {"400", "500"},
         reader' = [reader EXCEPT ![r] = x],
         UNCHANGED <<data, decisions, audit, seen>>
  PROVE  Inv'
<1>1. reader'[r] = x /\ reader' \in [Readers -> Reader]
  BY DEF Inv, TypeOK
<1>2. TypeOK'
  BY <1>1 DEF Inv, TypeOK
<1>3. ReaderInv(r)'
  BY <1>1 DEF ReaderInv, InService, NothingYet, VerdictFits, EventFits, AnswerFits
<1>4. ReadersInv'
  BY <1>2, <1>3, ReaderMoves
<1>5. EventsMatchDecisions'
  BY EventsStay DEF Inv
<1> QED
  BY <1>2, <1>4, <1>5 DEF Inv

\* The evidence store fails, before the decision or before the event is stored.
LEMMA StoreFailsStep ==
  ASSUME Inv, NEW r \in Readers, RecordDecisionFails(r) \/ AppendEventFails(r)
  PROVE  Inv'
<1>1. reader[r] \in Reader /\ "400" \in Codes /\ "500" \in Codes
  BY DEF Inv, TypeOK, Codes
<1>2. CASE RecordDecisionFails(r)
  <2>1. PICK code \in {"400", "500"} : reader' = [reader EXCEPT ![r] = Replied(reader[r], code)]
    BY <1>2 DEF RecordDecisionFails
  <2> DEFINE x == Replied(reader[r], code)
  <2>2. x \in Reader /\ x.stage = "idle" /\ x.reply = code
    BY <1>1, RepliedType
  <2> HIDE DEF x
  <2>3. reader' = [reader EXCEPT ![r] = x] /\ UNCHANGED <<data, decisions, audit, seen>>
    BY <1>2, <2>1 DEF RecordDecisionFails, x
  <2> QED
    BY <2>2, <2>3, FailStep
<1>3. CASE AppendEventFails(r)
  <2> DEFINE y == Replied(reader[r], "500")
             x == [y EXCEPT !.answer = NoAnswer]
  <2>1. y \in Reader /\ y.stage = "idle" /\ y.reply = "500"
    BY <1>1, RepliedType
  <2> HIDE DEF y
  <2>2. x \in Reader /\ x.stage = "idle" /\ x.reply = "500"
    BY <2>1 DEF Reader, NoAnswer, AnswerType
  <2>3. reader' = [reader EXCEPT ![r] = x] /\ UNCHANGED <<data, decisions, audit, seen>>
    BY <1>3 DEF AppendEventFails, y
  <2> QED
    BY <2>2, <2>3, FailStep
<1> QED
  BY <1>2, <1>3

\* The event goes into the log, and the answer out.
LEMMA AppendStep == ASSUME Inv, NEW r \in Readers, AppendEvent(r) PROVE Inv'
<1> DEFINE rd == reader[r]
           e == EventOf(rd)
           n == Len(audit) + 1
           x == Replied(rd, rd.next)
<1>1. /\ rd.stage = "audit"
      /\ audit' = Append(audit, e)
      /\ reader' = [reader EXCEPT ![r] = x]
      /\ UNCHANGED <<data, decisions, seen>>
  BY DEF AppendEvent
<1>2. rd \in Reader /\ EventFits(r)
  BY DEF Inv, ReadersInv, ReaderInv, TypeOK
<1>3. e \in Event
  BY <1>2 DEF EventOf, Event, Reader
<1>4. /\ e.decision_id = rd.decision /\ e.result = rd.result
      /\ e.actor = rd.actor /\ e.action = rd.kind /\ e.resource = rd.resource
  BY DEF EventOf
<1> HIDE DEF e
<1>5. /\ audit' \in Seq(Event)
      /\ n \in DOMAIN audit'
      /\ audit'[n] = e
      /\ \A i \in DOMAIN audit : i \in DOMAIN audit' /\ audit'[i] = audit[i]
      /\ \A i \in DOMAIN audit' : i \in DOMAIN audit \/ i = n
  <2>1. audit \in Seq(Event)
    BY DEF Inv, TypeOK
  <2> QED
    BY <1>1, <1>3, <2>1, AppendExtends
<1> HIDE DEF n
<1>6. /\ x \in Reader /\ x.stage = "idle" /\ x.reply = rd.next
      /\ x.decision = rd.decision /\ x.answer = rd.answer /\ SameRequest(x, rd)
  <2>1. rd.next \in Codes
    BY <1>2 DEF Reader
  <2> QED
    BY <1>2, <2>1, RepliedType
<1> HIDE DEF x
<1>7. reader'[r] = x /\ reader' \in [Readers -> Reader]
  BY <1>1, <1>6 DEF Inv, TypeOK
<1>8. TypeOK'
  BY <1>1, <1>5, <1>7 DEF Inv, TypeOK
<1>9. \A effect : DecidedAs(r, effect) => DecidedAs(r, effect)'
  BY <1>1, <1>6, <1>7 DEF DecidedAs, SameRequest
<1>10. \A result : result = rd.result => Audited(r, result)'
  BY <1>4, <1>5, <1>6, <1>7 DEF Audited, SameRequest
<1>11. Released(r) => Released(r)'
  <2>1. \A v : TellsOf(r, v) => TellsOf(r, v)'
    BY <1>6, <1>7 DEF TellsOf, SameRequest
  <2>2. Masking(r)' = Masking(r)
    BY <1>1, <1>6, <1>7 DEF Masking
  <2>3. \A v : DecidedOn(r, v) => DecidedOn(r, v)'
    BY <1>6, <1>7, <2>2 DEF DecidedOn, SameRequest
  <2> QED
    BY <1>1, <2>1, <2>3 DEF Released
<1>12. ReaderInv(r)'
  <2>1. InService(r)' /\ NothingYet(r)' /\ VerdictFits(r)' /\ EventFits(r)'
    BY <1>6, <1>7 DEF InService, NothingYet, VerdictFits, EventFits
  <2>3. AnswerFits(r)'
    BY <1>1, <1>2, <1>6, <1>7, <1>9, <1>10, <1>11 DEF AnswerFits, EventFits
  <2> QED
    BY <2>1, <2>3 DEF ReaderInv
<1>13. ReadersInv'
  BY <1>1, <1>5, <1>6, <1>8, <1>12, ReaderMoves
<1>14. EventsMatchDecisions'
  <2> SUFFICES ASSUME NEW i \in DOMAIN audit', audit'[i].decision_id # 0
               PROVE  /\ audit'[i].decision_id \in DOMAIN decisions
                      /\ decisions[audit'[i].decision_id].subject = audit'[i].actor
                      /\ decisions[audit'[i].decision_id].resource = audit'[i].resource
                      /\ decisions[audit'[i].decision_id].action = PolicyAction(audit'[i].action)
                      /\ audit'[i].result = "denied" <=> decisions[audit'[i].decision_id].effect = "deny"
    BY <1>1 DEF EventsMatchDecisions
  <2>1. CASE i \in DOMAIN audit
    BY <1>5, <2>1 DEF Inv, EventsMatchDecisions
  <2>2. CASE i = n
    <3>1. DecidedAs(r, IF rd.result = "denied" THEN "deny" ELSE "allow")
      BY <1>1, <1>2, <1>4, <1>5, <2>2 DEF EventFits
    <3> QED
      BY <1>4, <1>5, <2>2, <3>1 DEF DecidedAs
  <2> QED
    BY <1>5, <2>1, <2>2
<1> QED
  BY <1>8, <1>13, <1>14 DEF Inv

\* A writer commits while requests are served.
LEMMA WriterStep == ASSUME Inv, CatalogChanges PROVE Inv'
<1>0. PICK d \in DatasetIds : \E new \in Versions[d] :
          /\ data' = [data EXCEPT ![d] = new]
          /\ seen' = [r \in Readers |->
                        IF reader[r].stage # "idle" /\ reader[r].resource = d
                        THEN seen[r] \cup {new} ELSE seen[r]]
          /\ UNCHANGED <<decisions, audit, reader>>
  BY DEF CatalogChanges
<1>1. PICK new \in Versions[d] :
          /\ data' = [data EXCEPT ![d] = new]
          /\ seen' = [r \in Readers |->
                        IF reader[r].stage # "idle" /\ reader[r].resource = d
                        THEN seen[r] \cup {new} ELSE seen[r]]
          /\ UNCHANGED <<decisions, audit, reader>>
  BY <1>0
<1>2. new \in Dataset
  BY ReadsAssumption
<1>3. TypeOK'
  BY <1>1, <1>2 DEF Inv, TypeOK
<1>4. ASSUME NEW u \in Readers PROVE ReaderInv(u)'
  <2>1. ReaderInv(u) /\ reader'[u] = reader[u] /\ reader[u] \in Reader
    BY <1>1 DEF Inv, ReadersInv, TypeOK
  <2>2. seen[u] \subseteq seen'[u]
    BY <1>1
  <2>3. reader[u].stage # "idle" => data'[reader[u].resource] \in seen'[u]
    BY <1>1, <2>1 DEF ReaderInv, InService, Inv, TypeOK, Reader
  <2> QED
    BY <1>1, <2>1, <2>2, <2>3, ReaderStays
<1>5. EventsMatchDecisions'
  BY <1>1, EventsStay DEF Inv
<1> QED
  BY <1>3, <1>4, <1>5 DEF Inv, ReadersInv

\* Every step keeps the invariant.
LEMMA InvNext == Inv /\ [Next]_vars => Inv'
<1> SUFFICES ASSUME Inv, [Next]_vars PROVE Inv'
  OBVIOUS
<1>1. ASSUME NEW r \in Readers, Receive(r) \/ Serve(r) PROVE Inv'
  BY <1>1, ReceiveStep, EvaluateStep, RecordStep, StoreFailsStep, AppendStep DEF Serve
<1>2. CASE CatalogChanges
  BY <1>2, WriterStep
<1>3. CASE UNCHANGED vars
  <2>1. TypeOK' /\ EventsMatchDecisions'
    BY <1>3 DEF vars, Inv, TypeOK, EventsMatchDecisions
  <2>2. ASSUME NEW u \in Readers PROVE ReaderInv(u)'
    <3>1. ReaderInv(u) /\ reader'[u] = reader[u] /\ seen'[u] = seen[u]
      BY <1>3 DEF vars, Inv, ReadersInv
    <3>2. reader[u].stage # "idle" => data'[reader[u].resource] \in seen'[u]
      BY <1>3, <3>1 DEF vars, ReaderInv, InService
    <3> QED
      BY <1>3, <3>1, <3>2, ReaderStays DEF vars
  <2> QED
    BY <2>1, <2>2 DEF Inv, ReadersInv
<1> QED
  BY <1>1, <1>2, <1>3 DEF Next

-----------------------------------------------------------------------------
(* What the service promises *)

\* Every reachable state of the governed reads satisfies the invariant.
THEOREM ReadsAreInOrder == Spec => []Inv
BY InvInit, InvNext, PTL DEF Spec

\* No preview, schema or query result, and no refusal by policy, leaves the service
\* (sdp/browse.py, sdp/orchestrator.py) before its decision and its audit event are
\* in the logs, whenever the store fails and however readers interleave.
THEOREM AnswersCarryEvidence == Spec => []AnswersAreEvidenced
<1>1. Inv => AnswersAreEvidenced
  BY DEF Inv, ReadersInv, ReaderInv, AnswerFits, AnswersAreEvidenced
<1> QED
  BY <1>1, ReadsAreInOrder, PTL

\* What is released was allowed for, and masked by, a version that the dataset had
\* while the request was being served, and tells of one it had then, although the
\* handler and policy.evaluate each look the dataset up.
THEOREM ReleasesFitVersions == Spec => []ReleaseFitsAVersion
<1>1. Inv => ReleaseFitsAVersion
  BY DEF Inv, ReadersInv, ReaderInv, AnswerFits, Released, ReleaseFitsAVersion
<1> QED
  BY <1>1, ReadsAreInOrder, PTL

\* An answer whose flags or columns do not fit its masking (sdp/browse.py:80-86 and
\* 131-133, sdp/orchestrator.py:135) means that the schema was changed while the request
\* was being served.
THEOREM ContradictionsMeanChanges == Spec => []ContradictionMeansChange
<1>1. ASSUME Inv, NEW r \in Readers, reader[r].reply = "200", SchemaKept(r)
      PROVE  /\ reader[r].answer.flagged \subseteq Masking(r)
             /\ ListsColumns(reader[r].kind) => Masking(r) \subseteq reader[r].answer.columns
  <2>1. Released(r)
    BY <1>1 DEF Inv, ReadersInv, ReaderInv, AnswerFits
  <2>2. PICK v \in seen[r] : TellsOf(r, v)
    BY <2>1 DEF Released
  <2>3. PICK w \in seen[r] : DecidedOn(r, w)
    BY <2>1 DEF Released
  <2>5. v.schema = w.schema
    BY <1>1, <2>2, <2>3 DEF SchemaKept, TellsOf, DecidedOn
  <2>6. PiiColumns(v.schema) \subseteq Names(v.schema)
    BY DEF PiiColumns, Names
  <2> QED
    BY <2>2, <2>3, <2>5, <2>6 DEF TellsOf, DecidedOn
<1>2. Inv => ContradictionMeansChange
  BY <1>1 DEF ContradictionMeansChange
<1> QED
  BY <1>2, ReadsAreInOrder, PTL

\* No audit event names a decision that was made for somebody else's request, or says
\* "allowed" of a deny.
THEOREM EventsNameTheirDecisions == Spec => []EventsMatchDecisions
<1>1. Inv => EventsMatchDecisions
  BY DEF Inv
<1> QED
  BY <1>1, ReadsAreInOrder, PTL

=============================================================================
