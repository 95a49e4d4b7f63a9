# A TLA+ verification of the semantic data portal

The semantic data portal (`src/src/sdp`, `src/src/sdp_core`) is a FastAPI
service. It keeps a catalog of datasets, decides by policy who may change and
read them, leaves evidence of every decision, and keeps an ontology graph either
in memory or in Postgres with Apache AGE. This directory models the parts of it
that keep state, checks them with TLC on small instances, and proves with TLAPS
their safety properties for any number of threads, datasets, requests, nodes and
patches.

What makes the program hard is one fact: its handlers are plain functions, so the
web server runs each request in a thread of its pool, and nothing in the process
takes a lock. Every "read, build, store" of the code is a window in which other
requests act. The second hard fact is that evidence may go to a database, so any
append of evidence may raise in the middle of a handler.

## 1. Inventory

| Component | Source | State | Operations | Correct when |
|---|---|---|---|---|
| Catalog | `sdp/catalog.py`, endpoints in `sdp/api.py` | `_DATA`, `_SCHEMA_HISTORY` (dictionaries of the module) | register, patch, publish, deprecate; search, profile, schema history and diff | versions succeed one another, the history is the list of versions, only complete metadata is published, each change is decided and audited |
| Policy | `sdp/policy.py`, `sdp/authz.py` | none (reads the catalog, appends a decision) | `evaluate`, actor lookup | nobody acts beyond the role matrix or outside the tenant |
| Role matrix | `sdp_core/rbac.py` | constant | served to clients | agrees with `evaluate` |
| Evidence | `sdp/evidence.py`, `sdp_core/stores.py` | decision log, audit log: lists, SQLite or Postgres | append, list | events name the decision that allowed them |
| Governed reads | `sdp/browse.py`, `sdp/orchestrator.py`, `sdp/connectors.py` | none of their own | preview, schema, query, draft, connector previews | nothing is released without evidence, nor unmasked |
| Graph store in memory | `sdp/graph_store.py` | nodes, edge list, concepts, aliases, embeddings | upserts, traverse, concept lookup, semantic search | a traversal returns the ball of the given radius |
| Graph store in Postgres | `sdp/graph_store.py` | rows, vectors and an AGE graph | the same | answers like the one in memory |
| Start-up | `sdp/config.py`, `sdp/seed.py`, import of `sdp/api.py`, `get_store` | cached configuration, `_STORE` | load, build, seed | a configured database is never silently left aside |
| Migrations | `migrations/run_migrations.py`, `docker/entrypoint.sh` | tables, `config_entries`, the seeded graph | apply, load defaults, seed; retry, give up | a run that succeeds is complete, one that fails harms nothing, the deployment ends |
| Ontology patches | `sdp/ontology.py` | list of patches | propose, review, list | a decision is signed and final |
| Reports | `sdp/catalog.py`, `sdp/ontology.py`, `sdp/semantic_validation.py`, `sdp/steward_review.py`, `sdp/enterprise_evidence.py` | none (an index built at import) | search, facets, term resolution, validation, steward queue, evidence pack | they say of the catalog only what was so while they read it |
| Observability | `sdp/observability.py`, middleware of `sdp/api.py` | two ring buffers | record, export, scrape | an observation is exported or its failure reported |
| Connector probes, other manifests, console, demo script | the remaining files | none that changes after import, or outside the process | | |

How they interact: every mutating or governed endpoint calls `policy.evaluate`,
which looks the dataset up in the catalog (a second time, if the handler has done
so already) and appends to the decision log; the handler then acts and appends to
the audit log. The graph endpoints go through `get_store`. The middleware
surrounds all of them and runs on the event loop, while the handlers run in
threads.

What is hard, in the terms of `PROJECT.json`: races between copying and storing a
dataset; a store that fails after the change is made; a restart that forgets the
catalog and keeps the evidence; a policy decision about an older version than the
one acted on; a traversal over a list that grows under it; two graph backends that
must agree, one of which is written in several transactions; building the store
twice; a database that is away at the wrong moment, from the first migration to a
health probe; a report that reads the catalog many times while it changes, or
iterates over a dictionary that grows; a review written field by field; a log sink
that hangs, with the event loop.

## 2. Modules

Modules marked with * are instances for TLC.

**Policy** has the actor directory of `authz.py`, the rules of `evaluate` in the
order of the code, and the matrix of `rbac.py`, as pure operators. Case folding is
kept where it matters: `" Admin"` is a subject that is looked up as `admin` and
written down as it came, and the two purpose rules differ in whether they fold
case.

**CatalogData** is one catalog entry and what each mutation makes of it. A
dataset keeps the fields handlers decide on. `explicit` on a column is pydantic's
`fields_set`: the first snapshot of a registered dataset leaves unset fields out
(`catalog.py:40`), a copy made through `model_dump` has them all set (`RoundTrip`).
A patch distinguishes a field that is missing from one that is null.

**CatalogService** runs the four mutations in threads. One action per access to
shared state: `Evaluate…` (decision and its record, `api.py`), the read halves
`Register`, `Patch`, `Publish`, `Deprecate` (lookup, checks, building the copy),
`Commit` (`_DATA[id] = …`), `TakeSnapshot` (`_SCHEMA_HISTORY[id].append`), `Audit`,
and the failures of the store where it is called. Errors are answered with the
code the API gives for the exception; a create whose payload is no request
(`CreateMalformed`) is a 400 before anything is decided. `Restart` puts the catalog back to its seed
and keeps the logs only if a store is configured.

**AtomicCatalog** is the abstract specification: each mutation is one step that
checks, replaces, snapshots and logs. **SerialCatalog** gives the refinement
mapping from CatalogService with one thread: a mutation takes effect at its
commit, and what the thread still has to append counts as appended.
**MCCatalog*** has the small catalogs.

**GovernedReads** has the five kinds of governed reads, as up to four accesses to
shared state (receive, evaluate, record the decision, append the event). The handler
keeps the dataset it looked up on arrival and puts its answer together from that copy
(`Answer`: the version whose fields it carries, the columns it lists, those it calls
personal, those of rows it shows in clear), while the policy decides on a lookup of its
own. A query or draft whose body is no request is a 400 without an event. Writers
are reduced to replacing a dataset by another version. The connectors that read
their own sample data are the kind "connector". **MCReads*** instantiates it.

**GraphOps** is what an edge means to a traversal, and the ball of radius k as
reference. **GraphTraversal** is `InMemoryGraphStore.traverse`, one action per
entry of the edge list, against threads that run `upsert_edge` in two steps (search, append).
**SemanticSearch** is `semantic_search` over the live dictionary of embeddings, one
action per turn of its loop, against threads that run `upsert_node` in two steps
(node, embedding). A vector is known by the text it embeds, and its similarity to the
query is a constant. **Ranking** is the sort by score and the cut at the limit that
this search and the search of the catalog end with: Python's sort keeps rows of equal
score in their order, in reverse as well. **MemoryStore** puts the two together as the requests of one
store, for which **MCGraph*** has small instances.

**GraphBackends** feeds the same requests to the in-memory store and to the
Postgres one. A request is a list of upserts on both (`Upserts`: a concept is its
record, the node that mirrors it and its edges, in this order; the seed is the upserts of
its requests in a row), and each upsert is a transaction in Postgres (`commit` applies
one): any may fail, which ends the request half way, and the client, or the next start,
sends it again, from the first upsert on. Traversal and concept lookup are functions of the store's contents;
AGE is external and modelled from the openCypher the code sends (variable-length
patterns match paths that repeat no relationship). **MCBackends*** instantiates it.

**Migrations** is the database, the operator who edits `config_entries`, and
`run_migrations.py` under `entrypoint.sh`: `ReadDimension`, `ApplyMigrations`,
`LoadConfig`, `OpenStore`, `SeedGraph` are the parts of a run, `JobFails` is an
exception in one of them (the seed stays as far as it got, everything else is rolled
back), and `JobKilled` a container that stops. **Bootstrap** extends it by what
follows: import of `sdp/api.py` (`Start`, `SeedAtImport`), the startup hook, and
requests that go through `get_store` in its separate accesses to `_STORE` (`Arrive`,
`Build`, `Assign`, `Return`, `Use`), writes of nodes and `GET /healthz` alike. The
database comes and goes at any time, and `Stop` forgets the process. **MCBootstrap***
instantiates both.

**OntologyReview** is proposals and reviews in threads: check, signature, verdict and
reply are separate accesses to the shared patch, and the reply dumps the patch as it is
then. **CatalogReports** extends it
by the catalog as reports see it (a dataset is a card: the fields reports read) and
by the reports. Each is a plan of reads, as many as the code makes: search iterates
over the live dictionary and fails if it has grown, `list_datasets` copies it at once,
a validation looks every id up again, patches are read one by one, and the evidence
pack does most of these twice, asks the evidence store for events and decisions, which
may raise, and recomputes the rates for its gates. Its `dataset_count`, one more copy of
the catalog, is left out.
**MCReports*** instantiates it.

**Observability** is the middleware on the event loop, the two ring buffers, the sink
and the scrape.

The theorems are in modules of their own: **CatalogServiceProofs** (with SerialCatalog),
**GovernedReadsProofs**, **CatalogReportsProofs** (with OntologyReview),
**BootstrapProofs** (with Migrations), **ObservabilityProofs**, **MemoryStoreProofs**
(with GraphTraversal and SemanticSearch) and **GraphBackendsProofs**. **OperatorProofs**
has what several of them use: Ranking, the balls of GraphOps, and induction.

`PROJECT.json` maps every definition to the lines it models.

## 3. Runs

All runs but those named as violations pass. `CHECK_DEADLOCK FALSE` is set where
the bound on requests makes the model stop; the service itself waits for requests.

| Run | Instance | Shows |
|---|---|---|
| `catalog_serial` | 1 thread, 3 decisions, 3 actors (one spelt with blank and capital), 4 ids, 2 creations, 5 patches | `SchemaVersionNamesOneSchema`, `HistoryIsVersionLog`, `DiffShowsRealChanges`, `ChangesStayInTenant` when requests do not overlap, and `ImplementsAtomicCatalog` |
| `catalog_threads` | 2 threads, a durable store that may fail at each write, restarts, 2 decisions | `AuditTraceable`, `SuccessIsAudited`, `MatrixIsHonoured`, `CurrentIsSnapshotted` |
| `reads` | 2 readers (symmetric), 3 versions of a dataset replaced at any time, failing store | `AnswersAreEvidenced`, `ReleaseFitsAVersion`, `ContradictionMeansChange`, `EventsMatchDecisions` |
| `graph_walk` | 3 nodes. Either a traversal among 2 writers of 4 edges over two types and one of a refused type, all directions and filters, depths to 2; or a search, with and without kind, of limit 1 and 2, among 2 writers of nodes | `FindsTheBall`, `EdgesFitNodes`; `SearchIsWhole`, `FailsOnlyForNewNodes` |
| `backends_parity` | 4 ids, up to 5 requests, every transaction of which may fail any number of times, depths to 3, two types that share a label, an alias that changes hands | once a request is confirmed `NodesAndEdgesAgree`, `ReachAgrees`, `LookupAgrees`; at every moment `TablesFollowGraph`, `SeedIsIdempotent` |
| `review` | 2 reviewing threads, 2 reviewers, 2 patches, 2 datasets and a third one to be registered, 4 cards, an evidence store that may raise, every report | `CatalogSearchIsWhole`, `ReportFailsForCause`, `QueueIsFaithful`, `PackIsCoherent`, and of the reviews `DecidedIsSigned`, `ConfirmedIsFinal` |
| `bootstrap` | a database, 3 wishes of the operator for the backend and 2 for the dimension, a seed of 2 items, 2 attempts, 2 threads, a write, an edit of a seeded node and probes; outages, kills and restarts at any moment | `ConfirmedIsVisible`, `NoSilentDowngrade`, `ConfirmedSurvives`, `MigratedIsComplete`, and the liveness `DeploymentEnds`, `ServiceRecovers` |
| `observability` | 3 requests, buffers of 2, a web sink | `DeliveredOrReported`, `SinkFollowsRing`, `NoErrorsMeansDelivered`, `EveryRequestIsRecorded` |
| `catalog_racing_patches` (violation) | 2 threads, 2 patches | `SchemaVersionNamesOneSchema` fails: the lost update of `catalog.py:427` gives one schema version to two schemas |
| `catalog_lost_audit` (violation) | 1 thread, failing store | `ChangesAreAudited` fails: the change of `catalog.py:447` stays without its event |
| `reads_connector_rows` (violation) | 1 reader | `PreviewsAreMasked` fails: `connectors.py:106` ignores the masking of the decision |
| `bootstrap_dimension` (violation) | 1 thread, an operator who changes the dimension | `MigrationFitsInserts` fails: `run_migrations.py:48` renders the dimension into a statement that leaves an existing column alone, so the seed of the run and all later writes of nodes fail |

Each violation is a finding in `PROJECT.json`, with the sentence of the
repository it goes against.

### Bounds, and why they are enough

- `MaxDecisions` ends a behaviour of the catalog. Two overlapping requests show
  each race between copy and store; three in a row reach register, change, publish
  or deprecate, and the automatic id that runs into a chosen one (a create with
  `dataset-002`, another without an id, a patch of the result).
- In `reads`, no request arrives once a decision and an event are recorded; the
  requests under way finish, so each reader has one request with evidence, next to
  another at every stage, and requests without evidence before it.
- In `graph_walk`, a behaviour has a traversal or a search. A search does not read the
  edges; a traversal does not read embeddings, and that nodes come into being while it
  runs is an action of its own module (`UpsertNode`). `MaxUpserts` lets a node be new, changed, or changed twice
  at any two turns of the search. `MaxEdges` bounds the list a writer may start on: two writers
  that have found it short enough both append, so lists of four edges and an edge
  listed twice occur during the walk. Depth 2 over three nodes has an inner node, a
  last level, a cycle and a self loop.
- In `backends_parity`, `ClampDepth` bounds the depth in the properties too: above
  it the backends differ by design (`graph_store.py:692` clamps, memory does not).
  `MaxRequests` 5 is two requests about each of two concepts and a seed on top.
- In `observability`, the sizes 2, 2 and 1 stand for 500, 50 and 25: the ring
  overflows with the third request.
- In `review`, the constraint `Explored` ends a behaviour at the reply of the report,
  and bounds changes, proposals and reviews to four together: two reviews of one
  patch overlap, and a report meets them, or up to two changes of the catalog, at
  any of its reads. The threads are symmetric, and so are the reviewers: they are only
  compared, and no property names one.
- In `bootstrap`, `MaxAttempts` 2 stands for the 30 of the script, so that a run is
  repeated and that it is given up; the two items of the seed give it a middle. There
  is one monitor, whose probes do not overlap.

### Fairness

- `Bootstrap!FairSpec`: weak fairness of the scripts and the import, and of every
  thread that has taken a request, neither of which waits for anyone; and strong
  fairness of the arrival of probes, since a monitor keeps asking and its request
  may find all threads busy again and again. Nothing is assumed of the database,
  the operator, other clients or restarts.
- `Observability!FairSpec`: weak fairness of every request's steps. Handlers end,
  the loop gets to every ready coroutine, and an export ends, by
  `SDP_LOG_SINK_TIMEOUT_MS` (`observability.py:140`) for the web sink.

## 4. Proofs

TLC's runs are small; the theorems hold for every value of the constants that
satisfies the assumptions of the modules: every set of threads, subjects, datasets,
nodes, requests and patches, every size of a buffer and every bound, with or without
failures and restarts unless the table says otherwise. A theorem that names a
property of a run states exactly the definition the run checks.

| Module | Theorems | Under |
|---|---|---|
| CatalogServiceProofs | `TypeCorrect`; `AuditIsTraceable` (`AuditTraceable`), `SuccessesAreAudited` (`SuccessIsAudited`), `CurrentVersionIsKept` (`CurrentIsSnapshotted`), `AuditedChangesAreListed` (`MatrixIsHonoured`) | nothing more |
| | `SchemaVersionsAreNames` (`SchemaVersionNamesOneSchema`), `DiffsShowRealChanges` (`DiffShowsRealChanges`), `ChangesAreInTenant` (`ChangesStayInTenant`) | `OneAtATime` |
| | `HistoriesAreVersionLogs` (`HistoryIsVersionLog`) | `OneAtATime`, `FirstVersions` |
| | `ServiceIsAtomic`: the service implements AtomicCatalog | `OneAtATime`, `Healthy` |
| GovernedReadsProofs | `AnswersCarryEvidence` (`AnswersAreEvidenced`), `ReleasesFitVersions` (`ReleaseFitsAVersion`), `ContradictionsMeanChanges` (`ContradictionMeansChange`), `EventsNameTheirDecisions` (`EventsMatchDecisions`) | |
| CatalogReportsProofs | `CatalogSearchesAreWhole` (`CatalogSearchIsWhole`), `ReportsFailForCause` (`ReportFailsForCause`), `QueuesAreFaithful` (`QueueIsFaithful`); `VerdictsAreSigned` (`DecidedIsSigned`), `ConfirmedStaysFinal` (`ConfirmedIsFinal`), and `ReportsReviewPatches`: what is proved of OntologyReview holds beside the reports | |
| | `PacksAreCoherent` (`PackIsCoherent`) | `MappingsMatter` |
| BootstrapProofs | `RacesLoseNothing` (`ConfirmedIsVisible`), `DowngradesAreExplicit` (`NoSilentDowngrade`), `WritesAndRowsSurvive` (`ConfirmedSurvives`), `SuccessMeansComplete` (`MigratedIsComplete`) | |
| ObservabilityProofs | `NothingIsLostUnseen` (`DeliveredOrReported`), `SilentMetricsCanBeTrusted` (`NoErrorsMeansDelivered`), `SinkKeepsTheOrder` (`SinkFollowsRing`) | |
| OperatorProofs | `TopRowsAreTheBest`: the sort by score and the cut lose no better row | |
| MemoryStoreProofs | `TraverseFindsTheBall` (`FindsTheBall`), `TraverseReportsEdges` (`EdgesFitNodes`), `SearchesAreWhole` (`SearchIsWhole`), `SearchesFailOnlyForNewNodes` (`FailsOnlyForNewNodes`) | |
| GraphBackendsProofs | `NodesAndEdgesDoAgree` (`NodesAndEdgesAgree`), `TraversalsFindTheSame` (`ReachAgrees`), `LookupsAgree` (`LookupAgrees`), `TablesAreInStep` (`TablesFollowGraph`), `SeedingIsIdempotent` (`SeedIsIdempotent`) | |

### The inductive invariants

Each module proves one invariant by induction (`…AreInOrder`, `IInv` for the catalog)
and takes the properties from it. Every proof goes action by action. What the
invariants add to the properties is what an actor carries between two accesses to
shared state:

- Catalog, `IInv` (end of CatalogService). `RequestInOrder`: a thread past a step has
  what the next one reads (the payload of its kind, a copy that is a dataset, an id
  that exists), and no reply yet. `RequestsLicensed`: a thread past its decision holds
  an allow decision for what it is doing; without it `Audit` does not preserve
  `AuditTraceable`. `DecisionsUnspent`: no two requests in flight hold the same
  decision and no event names the decision of one in flight; without it the
  uniqueness in `AuditTraceable` is lost. `ReadStep` summarises the four read halves
  as one kind of step. `Restart` is the case in which the log may stay while the
  threads vanish, so the invariant speaks of present threads and logged events only.
- `DecisionsFitMatrix`, for the matrix: every decision that allows is listed, which
  takes `evaluate` and the matrix apart role by role.
- One request at a time, `SerialInv`: what the request has checked and copied is still
  so when it stores it. This is the fact that overlapping requests destroy (run
  `catalog_racing_patches`). `VersionsInv` and `SchemasInv` follow the version and
  the schema version through the moment between `Commit` and `TakeSnapshot`.
  `SettledInv`, for the diffs: a schema version that comes back in the history comes back
  with all fields of its columns, since all changes but a registration go through a dump.
  A store
  that fails, and a restart, are covered: a thread whose evidence fails has
  stored and snapshotted its change.
- The refinement. `Commit`, and a `Read` that finds the dataset published, are steps
  of AtomicCatalog (`CommitIsAtomic`, `ReadIsAtomic`); all others leave catalog,
  shown history and shown trail alone (`OthersAreHidden`), since what `TakeSnapshot`
  and `Audit` append was shown already.
- Reads, `ReaderInv`: `seen` is the set of versions the dataset had since the request
  came, and the handler's copy is one of them; a verdict on its way to the log is about
  one of them, an event on its way says what its decision says, and an answer tells about
  one of them and was decided on one.
- Reviews, `PatchesInv`: a review past its checks is of a patch there is, past its
  signature of a signed one, past its verdict of a decided one; a patch with an answered
  review is open no more; what a patch or an answer shows was given by a review of that
  patch, answered or under way; and a decided patch with no review under way is what the
  last answer showed.
- Reports, `ReportsInv`: datasets keep their places and only come; `past` holds what
  was so since the request began; a row goes back to a card its dataset had meanwhile;
  of the patches before the position of the listing, those open all along are listed.
  `Follows` says which read follows which for each endpoint.
- Evidence packs, `PackInv`: what a pack has after each read of its plan, as long as
  the catalog has not moved: every row judged as its dataset deserves, the rate of the
  shapes that of the rows, a claim of readiness only if all rows conform, and rates
  and gates that are the catalog's. Counting goes by cardinalities, so that a share
  is never above one and all conform where the count is full.
- Start-up, `BootInv`: `OneStore`, in memory there is one store, built by the import, so
  that no request builds another, and otherwise the only store is the database; what
  a thread holds between its accesses to `_STORE` is the store in use; `JobInv`, how
  far a run of the migrations has come.
- Observability, `ObsInv`: while the buffer of errors has room it tells of every
  failure; a request whose export holds the loop is the last in the ring; a scrape
  has counted no more than was answered.
- Traversal, `TraversalInv`: there is a labelling of the visited nodes by the depth at
  which they were met such that the frontier is sorted by it and spans two depths,
  the labels are honest, and from every node no longer pending all edges of the start
  have been followed. The labels exist in the proof only; the code keeps
  them in the frontier and forgets them. Without "spans two depths" a node might be
  met too late and be cut off.
- Search, `SearchInv`: a node the loop is past has its row or was of another kind, rows
  are honest, and no embedding is without its node.
- Graph backends, `StoresInv`: while a request is under way there is a database (`base`)
  from which its upserts done so far lead to the present one and all of them lead to
  agreement with the memory, which has them already. A retry starts from a database that
  has some of the upserts, and must become the new `base`: `PgResent`, upserts that were
  begun and are sent again in full leave what they would have left at once. It rests on
  `commit` being associative, and on a write that is covered by a later one being lost
  without trace (`CommitCovered`). The agreement itself (`Agree`) is kept
  upsert by upsert. `Findable`, for the lookups: all that a concept lists is in the index
  of aliases, and the index leads to concepts only.
- A seed that runs again: on the memory, the upserts of the seed put on top of any store
  what they make of the empty one (`Over`), and putting the same on top twice is putting
  it once; on Postgres, they are one `commit` of what they write together.
- Two traversals: `TraversalsFindTheSame` is about the graph, not about steps. No path of
  n relationships leaves the ball of radius n (`TrailsStay`). A node first reached in
  n + 1 steps is the end of a path that repeats no relationship, because the relationships
  of the path to its predecessor have both ends in the ball of radius n and the last one
  has not (`TrailsReach`).

### Induction over data

Induction over numbers is had from the first-order form of well-foundedness: `WFMin`
and `NatLessThanWellFounded` give a least counterexample. `OperatorProofs` proves so
that the table of balls exists and grows with the radius and with the edges,
`GraphBackendsProofs` the same of the tables of the stores after each upsert, of paths
by their length and of the lists that `FlattenSeq` joins,
`CatalogServiceProofs` that a schema version of the history has a last entry, and
`CatalogReportsProofs` that a concept has a first dataset.

### Assumptions and hypotheses

The modules assume of their constants what the code has: types, finiteness of the sets
of threads and concepts, model values such as `Missing`, `NoReviewer` or `Nobody` that are
none of the others, an id for the next automatic registration, seed items that are no
edits, edges of concepts whose types are identifiers, an import catalog that is not empty and repeats no id. `NoReviewer \notin Reviewers` rests
on the type of the request's body (`dict[str, str]`, `api.py:665`), which leaves no room
for a null, and on the default "anonymous". TLC evaluates all of
these in the runs. Six theorems have hypotheses of their own:

- `OneAtATime`: the service has one thread. The properties under it fail when requests
  overlap, which is a finding; they say what the code guarantees to
  clients that wait for each other.
- `FirstVersions`: seed datasets are at the default version 1.0.0, as in `catalog.py`.
- `Healthy`: the store does not fail and the process does not restart; a change
  without its event (run `catalog_lost_audit`) and a forgotten catalog are no
  behaviours of AtomicCatalog.
- `MappingsMatter`: no dataset has more than 2000 mappings to an approved one. `_ratio`
  rounds to three digits (`enterprise_evidence.py:20`), and one approved
  mapping among more than 2000 is a coverage of 0.0.

### Only model-checked

- Liveness, which with `ENABLED` is outside the prover's reach:
  `EveryRequestIsRecorded`, `DeploymentEnds`, `ServiceRecovers`.
- The four properties of the runs that show a violation.

## 5. Where the code differs from what one may expect

Apart from the four findings, these were met while modelling. They are stated
here because no sentence of the repository rules them out in so many words, or
because the property that holds is the one checked.

- A patch may empty a required field of a published dataset, which stays published
  (`catalog.py:432`); `AtomicCatalog` asks for
  complete metadata in the step that publishes.
- The diff between two schema versions may list columns as changed whose values are the
  same, since the snapshot of a registration leaves defaults out (`catalog.py:40`);
  `DiffShowsRealChanges` says from when on it does not. Of columns that came or went a
  diff has only the names (`catalog.py:316`), and of columns that share a name, which
  nothing rejects, only the last.
- A read answers from one version of the dataset and is decided and masked by another if
  a change comes between the two lookups (`browse.py:102`, `orchestrator.py:84`): a schema
  may be shown under a decision about its successor, and a column called personal in it
  may be missing from the masked ones. `ReleaseFitsAVersion` says that both versions are
  of the time of the request, `ContradictionMeansChange` that nothing else has this effect.
- `create` checks no tenant, and with racing registrations a decision made about one
  dataset may be used on another under the same id (`api.py:549`);
  `ChangesStayInTenant` holds for requests that do not overlap.
- A read that is refused before the policy is asked leaves an event without a
  decision id, or no event at all (`orchestrator.py:212`).
- Two writers of one edge may both append it (`graph_store.py:238`); the traversal
  reports it once.
- An edge written twice merges its properties in memory and replaces them in
  Postgres; Postgres reports all edges between the nodes it found, memory the ones
  it walked. `NodesAndEdgesAgree` and `ReachAgrees` say what is common to both.
- An alias a concept no longer lists still resolves in memory, and memory folds case
  and underscores where Postgres compares spellings (`graph_store.py:263`, `:645`);
  `LookupAgrees` says where both give the same answer. A term its store does not know is
  answered from the constant vocabulary (`api.py:684`), on either backend.
- Types that differ only in case share a label in AGE: a traversal filtered by one of
  them finds in Postgres nodes that the other leads to, without the edge.
- A list of edges that is appended to faster than it is walked would hold a traversal
  in its loop (`graph_store.py:346`); `MaxEdges` leaves that out of the runs, and no
  property speaks of the end of a traversal.
- A new node makes a semantic search that is under way answer 500
  (`graph_store.py:379`), and a registration does so to searches of the catalog,
  facets and join candidates (`catalog.py:242`). An evidence pack is a 500 when the
  evidence store raises (`enterprise_evidence.py:47`). `FailsOnlyForNewNodes` and
  `ReportFailsForCause` say that nothing else does.
- A request to Postgres that fails half way leaves a concept without its node or its
  edges until it is sent again (`graph_store.py:577`); `TablesFollowGraph` says what
  holds even then. Relations a concept drops keep their edges (`graph_store.py:283`).
- Every start writes the seed again, so an edit of a seeded node is lost with it
  (`seed.py:40`); `ConfirmedSurvives` is about everything else.
- A store in Postgres that could not be seeded at start is built, unseeded, by the
  first request or probe after the outage, and serves so until the next start.
- After a change of the dimension `/healthz` says the store is ready while every
  write of a node fails.
- The steward's queue may mix moments, and a hand-off may be "ready" although no
  single moment was: each dataset conformed at some moment of the request, not all at
  the same one. The gates of an evidence pack may disagree with the rates beside them
  if the catalog changes between the two computations (`enterprise_evidence.py:86`).
- A pack may claim readiness beside a coverage of 0.0: readiness asks that every
  dataset has an approved mapping, and a share below one in 2000 is rounded away.
- Term resolution knows the datasets of the import only (`ontology.py:68`), and shows
  their present terms.
- `sdp_request_observations_total` stops at the 25 observations a manifest reads
  (`observability.py:183`), while its help text speaks of the ring buffer of 500.
- Overlapping reviews of one patch may both be answered with success (`ontology.py:247`),
  and since each returns the shared patch, an answer may carry the name or the verdict of
  the other; the patch may end with the verdict of one reviewer under the name of the
  other. `ConfirmedIsFinal` and `DecidedIsSigned` say what is left.
- With the database away while the configuration is loaded, a configured "memory"
  is forgotten for the life of the process (`config.py:45`).
- `sdp_observability_export_errors` stops at 50, the length of its buffer.

## 6. Not modelled, and the plan

Not modelled:

- the verification of OIDC tokens and the mapping of their claims (cryptography,
  network), and connector probes and secret references (read-only, environment);
- hashing of texts into vectors and their cosine (floating point), and the KNN query
  of Postgres, whose index is approximate by design;
- the text of generated queries and the tokeniser of `validate_sql_query`, which
  GovernedReads reduces to fault or no fault, and the matching of strings in the
  catalog and the vocabulary, which CatalogReports reduces to a score;
- profile, lineage and recommendations, which read one dataset;
- the SQL inside the evidence stores;
- concurrent writers of Postgres: GraphBackends sends one request at a time, and two
  upserts of one concept whose transactions alternate may mix;
- HTML, design tokens, the other manifests and demo data (constant), and the smoke
  script (a client).

Plan: every safety property of a passing run is proved. What could be said next is about
what is left out above: concurrent writers of Postgres, and what readers see of a request
that is under way.

## 7. Running

    tlc -workers 2 -config MCCatalog_threads.cfg MCCatalog
    tlapm CatalogServiceProofs.tla

`PROJECT.json` names the module and the configuration of every run.
