--------------------------- MODULE CatalogReports ---------------------------
(***************************************************************************)
(* Reports over the catalog and the ontology patches while both change: the   *)
(* catalog search and its kin (sdp/catalog.py), term resolution              *)
(* (sdp/ontology.py), semantic validation (sdp/semantic_validation.py), the    *)
(* steward's review queue (sdp/steward_review.py) and the evidence pack       *)
(* (sdp/enterprise_evidence.py).  Patches and their reviews are those of      *)
(* OntologyReview.                                                          *)
(*                                                                         *)
(* A report is a request that reads shared state many times without a lock.   *)
(* list_datasets copies the dictionary in one go; search, facets and join     *)
(* candidates iterate over the dictionary itself, and Python's iterator       *)
(* raises when it has grown; a validation looks each dataset up again; the    *)
(* patches are dumped one by one from the live list.  A dataset is a card:    *)
(* what the reports read of it.  Datasets are replaced as a whole and never   *)
(* removed (CatalogService says by whom).                                    *)
(***************************************************************************)
EXTENDS OntologyReview, Ranking, SequencesExt

CONSTANTS
  Cards,            \* [valid, approved, mappings, terms, score] as below
  InitialCatalog,   \* a sequence of [id, card]: _DATA at import, in its order
  NewIds,           \* ids clients may register
  Concepts,         \* concepts a card may list among its terms
  Limits,           \* values of limit
  StoreMayFail,     \* an evidence store is configured and may raise
  MaxWrites         \* bound: catalog changes in a behaviour

ASSUME ReportsAssumption ==
  /\ \A c \in Cards : c.valid \in BOOLEAN     \* no required field is empty
  /\ \A c \in Cards : c.mappings \in Nat /\ c.approved \in 0..c.mappings
  /\ \A c \in Cards : c.terms \subseteq Concepts
  /\ \A c \in Cards : c.score \in Nat         \* what it scores, 0 if filtered out
  /\ InitialCatalog \in Seq([id : {InitialCatalog[i].id : i \in DOMAIN InitialCatalog}, card : Cards])
  /\ InitialCatalog # <<>>                     \* the seed datasets
  /\ \A i, j \in DOMAIN InitialCatalog : InitialCatalog[i].id = InitialCatalog[j].id => i = j
  /\ IsFiniteSet(Concepts)
  /\ Limits \subseteq Nat \ {0}
  /\ StoreMayFail \in BOOLEAN
  /\ MaxWrites \in Nat

VARIABLES
  catalog,   \* _DATA, in the order of its keys
  writes,    \* how many changes it has seen
  report,    \* the request
  past       \* history variable: of the time since the request began

reportVars == <<catalog, writes, report, past>>
allVars == <<vars, reportVars>>

CardIds == {catalog[i].id : i \in DOMAIN catalog}
CardOf(id) == catalog[CHOOSE i \in DOMAIN catalog : catalog[i].id = id].card
AllIds == NewIds \cup {InitialCatalog[i].id : i \in DOMAIN InitialCatalog}

Endpoints == {"search", "resolve", "shacl", "steward", "pack"}

\* The reads a request makes, in order.  The pack's dataset_count is one more copy
\* of the catalog, before "events", that nothing is compared with.
Plan(endpoint) ==
  CASE endpoint = "search"  -> <<"scan">>
    [] endpoint = "resolve" -> <<"resolve">>
    [] endpoint = "shacl"   -> <<"list", "validate">>
    [] endpoint = "steward" -> <<"list", "validate", "patches">>
    [] endpoint = "pack"    -> <<"list", "validate", "list", "validate", "patches",
                                 "events", "decisions",
                                 "metadata", "coverage", "metadata_gate", "coverage_gate">>

NoReport ==
  [stage |-> "idle", endpoint |-> "none", limit |-> 0, plan |-> <<>>,
   todo |-> <<>>, pos |-> 1, size |-> 0, rows |-> <<>>, open |-> <<>>,
   pass_rate |-> 0, shacl |-> 0, ready |-> FALSE, metadata |-> 0, coverage |-> 0,
   metadata_gate |-> FALSE, coverage_gate |-> FALSE]

NoPast == [cards |-> [id \in AllIds |-> {}], open |-> {}, patches |-> 0, writes |-> 0]

ReportsInit ==
  /\ Init
  /\ catalog = InitialCatalog
  /\ writes = 0
  /\ report = NoReport
  /\ past = NoPast

-----------------------------------------------------------------------------
(* Writers *)

Noted(id, c) ==
  IF report.stage = "run" THEN [past EXCEPT !.cards[id] = @ \cup {c}] ELSE past

\* _DATA[id] = dataset, by a registration or by a change of a dataset
Register ==
  \E id \in NewIds \ CardIds, c \in Cards :
     /\ writes < MaxWrites
     /\ catalog' = Append(catalog, [id |-> id, card |-> c])
     /\ writes' = writes + 1
     /\ past' = Noted(id, c)
     /\ UNCHANGED <<vars, report>>

\* Mutant: a deprecated dataset is dropped from the dictionary.
Replace_Drops ==
  \E i \in DOMAIN catalog :
     /\ writes < MaxWrites
     /\ catalog' = RemoveAt(catalog, i)
     /\ writes' = writes + 1
     /\ UNCHANGED <<vars, report, past>>

Replace ==
  \E i \in DOMAIN catalog, c \in Cards :
     /\ writes < MaxWrites
     /\ catalog' = [catalog EXCEPT ![i].card = c]
     /\ writes' = writes + 1
     /\ past' = Noted(catalog[i].id, c)
     /\ UNCHANGED <<vars, report>>

-----------------------------------------------------------------------------
(* Pure parts *)

\* Mutant: the shapes look at the mappings only.
conforms_Mapped(c) == c.approved > 0

\* validate_dataset_semantics: a missing field or no approved mapping is a
\* violation, no terms only a warning.
conforms(c) == c.valid /\ c.approved > 0

\* round(n / d, 3), in thousandths.  Ties do not occur with fewer than 16 datasets.
ratio(n, d) == IF d = 0 THEN 0 ELSE (2000 * n + d) \div (2 * d)

CountIf(seq, Test(_)) == Cardinality({i \in DOMAIN seq : Test(seq[i])})

\* _metadata_validation_pass_rate, on a copy of the catalog
metadata_validation_pass_rate ==
  LET valid(entry) == entry.card.valid IN ratio(CountIf(catalog, valid), Len(catalog))

\* The mappings of all datasets: of which dataset, and which one of its mappings.
Pooled(counts) == UNION {{i} \X (1..counts[i]) : i \in DOMAIN counts}

\* _ontology_mapping_coverage
ontology_mapping_coverage ==
  ratio(Cardinality(Pooled([i \in DOMAIN catalog |-> catalog[i].card.approved])),
        Cardinality(Pooled([i \in DOMAIN catalog |-> catalog[i].card.mappings])))

PassRate(rows) ==
  LET passes(row) == row.conforms IN ratio(CountIf(rows, passes), Len(rows))

\* _build_index, at import: where in the catalog the concept is listed
Indexed(concept) ==
  {i \in DOMAIN InitialCatalog : concept \in InitialCatalog[i].card.terms}

\* The id a concept's list begins with.
FirstIndexed(concept) ==
  InitialCatalog[CHOOSE i \in Indexed(concept) : \A j \in Indexed(concept) : i <= j].id

IndexedConcepts == SetToSeq({c \in Concepts : Indexed(c) # {}})

-----------------------------------------------------------------------------
(* The request *)

Begin ==
  \E endpoint \in Endpoints, limit \in Limits :
     /\ report.stage = "idle"
     /\ endpoint # "search" => limit = 1
     /\ report' = [NoReport EXCEPT !.stage = "run", !.endpoint = endpoint, !.limit = limit,
                                   !.plan = Plan(endpoint), !.size = Len(catalog),
                                   !.todo = IF endpoint = "resolve" THEN IndexedConcepts ELSE <<>>]
     /\ past' = [cards   |-> [id \in AllIds |-> IF id \in CardIds THEN {CardOf(id)} ELSE {}],
                 open    |-> Open,
                 patches |-> Len(patches),
                 writes  |-> writes]
     /\ UNCHANGED <<vars, catalog, writes>>

\* On to the next read, or to the reply.
Advanced(r) ==
  [r EXCEPT !.plan = Tail(@), !.pos = 1, !.stage = IF Len(r.plan) = 1 THEN "done" ELSE "run"]

Failed(r) == [r EXCEPT !.stage = "500"]

Step(name) == report.stage = "run" /\ Head(report.plan) = name

\* The iterator compares the size of the dictionary with the one it started from.
Grown == Len(catalog) # report.size

\* The row of an entry, if it passes the filters and scores at all.
Matching(entry) ==
  IF entry.card.score = 0 THEN <<>> ELSE <<[id |-> entry.id, score |-> entry.card.score]>>

\* for dataset in _DATA.values(): search_catalog, list_facet_counts and
\* get_join_candidates differ in the filter and in what they make of the row.
Scan ==
  /\ Step("scan")
  /\ report' =
       IF Grown THEN Failed(report)
       ELSE IF report.pos > report.size
       THEN Advanced([report EXCEPT !.rows = TopRows(@, report.limit)])
       ELSE [report EXCEPT !.pos = @ + 1, !.rows = @ \o Matching(catalog[report.pos])]

\* resolve_terms: the first dataset of each indexed concept is looked up anew, and
\* next() raises if it is not there.
Resolve ==
  /\ Step("resolve")
  /\ report' =
       IF report.todo = <<>> THEN Advanced(report)
       ELSE LET first == FirstIndexed(Head(report.todo))
            IN  IF first \notin CardIds THEN Failed(report)
                ELSE [report EXCEPT !.todo = Tail(@),
                                    !.rows = Append(@, [concept |-> Head(report.todo),
                                                        terms |-> CardOf(first).terms])]

\* list_datasets(), of which only the ids are used
List ==
  /\ Step("list")
  /\ report' = Advanced([report EXCEPT !.todo = [i \in DOMAIN catalog |-> catalog[i].id],
                                       !.rows = <<>>])

\* enterprise_shacl_validation_summary; in a pack the first one is the one reported
Summarised(r) ==
  [r EXCEPT !.pass_rate = PassRate(r.rows),
            !.shacl = IF "list" \in ToSet(r.plan) \/ r.endpoint # "pack" THEN PassRate(r.rows) ELSE @]

\* validate_dataset_semantics for one id after the other
Validate ==
  /\ Step("validate")
  /\ report' =
       IF report.todo = <<>> THEN Advanced(Summarised(report))
       ELSE LET id == Head(report.todo)
            IN  IF id \notin CardIds THEN Failed(report)
                ELSE [report EXCEPT !.todo = Tail(@),
                                    !.rows = Append(@, [id |-> id, conforms |-> conforms(CardOf(id))])]

\* Mutant: the last patch is left out.
PatchesEnd_Early == report.pos >= Len(patches)

PatchesEnd == report.pos > Len(patches)

Unconforming(rows) == {rows[i].id : i \in {j \in DOMAIN rows : ~ rows[j].conforms}}

TargetPassRate == 950

\* buyer_handoff_ready
HandoffReady(r) ==
  Unconforming(r.rows) = {} /\ r.open = <<>> /\ r.pass_rate >= TargetPassRate

\* list_patches(status="proposed"): each patch is dumped on its own.
\* The queue is put together at the end of the list.
ListPatches ==
  /\ Step("patches")
  /\ report' =
       IF PatchesEnd THEN Advanced([report EXCEPT !.ready = HandoffReady(report)])
       ELSE [report EXCEPT !.pos = @ + 1,
                           !.open = IF patches[report.pos].status = "proposed"
                                    THEN Append(@, report.pos) ELSE @]

\* list_audit_events and list_policy_decisions: read from the evidence store if
\* there is one, and nobody catches what it raises.  The pack counts the rows.
ReadEvidence ==
  /\ Step("events") \/ Step("decisions")
  /\ \/ report' = Advanced(report)
     \/ StoreMayFail /\ report' = Failed(report)

Metadata ==
  \/ /\ Step("metadata")
     /\ report' = Advanced([report EXCEPT !.metadata = metadata_validation_pass_rate])
  \/ /\ Step("metadata_gate")
     /\ report' = Advanced([report EXCEPT !.metadata_gate = metadata_validation_pass_rate >= 950])

CoverageGate == ontology_mapping_coverage >= 700

Coverage ==
  \/ /\ Step("coverage")
     /\ report' = Advanced([report EXCEPT !.coverage = ontology_mapping_coverage])
  \/ /\ Step("coverage_gate")
     /\ report' = Advanced([report EXCEPT !.coverage_gate = CoverageGate])

Report ==
  /\ \/ Scan \/ Resolve \/ List \/ Validate \/ ListPatches \/ ReadEvidence \/ Metadata \/ Coverage
  /\ UNCHANGED <<vars, catalog, writes, past>>

ReportsNext ==
  \/ Next /\ UNCHANGED reportVars
  \/ Register
  \/ Replace
  \/ Begin
  \/ Report

ReportsSpec == ReportsInit /\ [][ReportsNext]_allVars

-----------------------------------------------------------------------------
Answered(endpoint) == report.stage = "done" /\ report.endpoint = endpoint

StewardAnswered == report.stage = "done" /\ report.endpoint \in {"steward", "pack"}

\* The datasets there were when the request began.
Before == {id \in AllIds : id \in {catalog[i].id : i \in 1..report.size}}

\* A search that answers has looked at every dataset there was when it began: it is
\* listed with a score it had meanwhile, or was filtered out at some moment, or the
\* list is full of datasets no worse than it was at some moment.
CatalogSearchIsWhole == Answered("search") =>
  LET found == ToSet(report.rows)
  IN  /\ \A row \in found : \E c \in past.cards[row.id] : c.score = row.score
      /\ \A id \in Before :
            \/ \E row \in found : row.id = id
            \/ \E c \in past.cards[id] :
                  \/ c.score = 0
                  \/ Len(report.rows) = report.limit /\ \A row \in found : row.score >= c.score

\* A report fails only if it iterates over the dictionary and a dataset is
\* registered meanwhile, or when it asks an evidence store that raises.  Looking
\* ids up again, from an index built at import or from a list taken earlier in the
\* request, never fails: datasets only come.
ReportFailsForCause == report.stage = "500" =>
  \/ report.endpoint = "search" /\ Len(catalog) > report.size
  \/ StoreMayFail /\ report.endpoint = "pack" /\ Head(report.plan) \in {"events", "decisions"}

\* There is something to hand over, and nothing that waited for a steward all along.
HandoffEarned ==
  /\ Before # {}
  /\ \A id \in Before : \E c \in past.cards[id] : conforms(c)
  /\ past.open \cap Open = {}

\* The steward's queue lists what was open during the whole request (a dataset that
\* never conformed, a patch that nobody decided) and nothing that was not open at
\* some moment of it, each patch once, whatever was changed, proposed or decided
\* while the queue was being put together; and "buyer_handoff_ready" is not said of
\* an empty catalog, nor while one and the same dataset or patch was open all along.
QueueIsFaithful == StewardAnswered =>
  /\ \A id \in Before : (\A c \in past.cards[id] : ~ conforms(c)) => id \in Unconforming(report.rows)
  /\ \A id \in Unconforming(report.rows) : \E c \in past.cards[id] : ~ conforms(c)
  /\ past.open \cap Open \subseteq ToSet(report.open)
  /\ ToSet(report.open) \subseteq past.open \cup (past.patches + 1)..Len(patches)
  /\ Cardinality(ToSet(report.open)) = Len(report.open)
  /\ report.ready => HandoffEarned

\* An evidence pack puts together what two validators say, the one of the metadata
\* and the one of the shapes, each asked several times.  Unless the catalog changed
\* meanwhile, a pack that claims readiness has no gap in the metadata and the
\* shapes and some approved mapping, and its gates fit the rates it shows.
PackIsCoherent == Answered("pack") /\ writes = past.writes =>
  /\ report.ready => report.metadata_gate /\ report.shacl >= 950 /\ report.coverage > 0
  /\ report.metadata_gate <=> report.metadata >= 950
  /\ report.coverage_gate <=> report.coverage >= 700
=============================================================================
