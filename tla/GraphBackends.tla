---------------------------- MODULE GraphBackends ----------------------------
(***************************************************************************)
(* The two implementations of GraphStore in sdp/graph_store.py, fed the same *)
(* requests: InMemoryGraphStore keeps dictionaries and a list of edges,     *)
(* PostgresGraphStore keeps relational rows and, beside them, an AGE graph   *)
(* of vertices and labelled relationships.  A property graph is asked       *)
(* through openCypher, whose variable-length patterns match paths that       *)
(* repeat no relationship; that part stands for AGE, which is external.      *)
(*                                                                         *)
(* A write to Postgres is a sequence of transactions, any of which may fail; *)
(* the client is told and sends its request again.  Requests come one at a    *)
(* time, from actors the policy lets write (Policy).                        *)
(***************************************************************************)
EXTENDS GraphOps, SequencesExt, FiniteSetsExt

CONSTANTS
  Ids,            \* node ids, concept keys among them
  UpperCase,      \* from the relationship types that are identifiers to their labels
  Folded,         \* from the spellings _normalize changes to what it makes of them
  NodeRequests,   \* [upsert = "node", kind, id, props]
  EdgeRequests,   \* [upsert = "edge", edge, props]
  ConceptRequests,\* [upsert = "concept", concept], where a concept is [concept, definition,
                  \* aliases, multilingual, links] and links are its edges to broader,
                  \* narrower and related concepts, in this order
  Terms,          \* spellings concepts are looked up by, aliases among them
  SeedRequests,   \* what seed_store sends, in its order
  ClampDepth,     \* AppConfig.traversal_max_depth
  MaxRequests     \* bound: requests in a behaviour

\* A dictionary, and a list.
IsMap(d) == d = [x \in DOMAIN d |-> d[x]]
IsList(s) == s \in Seq(ToSet(s))

\* _relationship_label accepts identifiers only.
Identifiers == DOMAIN UpperCase

Requests == NodeRequests \cup EdgeRequests \cup ConceptRequests \cup ToSet(SeedRequests)

\* A concept's edges are of the types "broader", "narrower" and "related".
ASSUME BackendsAssumption ==
  /\ ClampDepth \in Nat
  /\ MaxRequests \in Nat
  /\ IsList(SeedRequests)
  /\ \A r \in Requests :
        /\ r.upsert = "edge" => IsMap(r.props)
        /\ r.upsert = "concept" =>
             IsList(r.concept.links) /\ \A e \in ToSet(r.concept.links) : e.edge_type \in Identifiers

VARIABLES
  memory,     \* InMemoryGraphStore: maps nodes, concepts and alias, list edges
  postgres,   \* PostgresGraphStore: maps rows, vectors (to kinds), edges, concepts;
              \* sets vertices and rels, in AGE
  call,       \* the upserts Postgres is asked for, how many are done, and whether one failed
  requests    \* how many requests were sent

vars == <<memory, postgres, call, requests>>

\* old.update(new)
Merge(old, new) ==
  [x \in DOMAIN old \cup DOMAIN new |-> IF x \in DOMAIN new THEN new[x] ELSE old[x]]

\* {k: v}
Entry(k, v) == [x \in {k} |-> v]

\* d[k] = v
Put(d, k, v) == Merge(d, Entry(k, v))

Empty == <<>>

-----------------------------------------------------------------------------
(* InMemoryGraphStore *)

EmptyMemory == [nodes |-> Empty, edges |-> Empty, concepts |-> Empty, alias |-> Empty]

mem_upsert_node(m, id, kind, props) ==
  [m EXCEPT !.nodes = Put(@, id, [kind |-> kind, props |-> props])]

MemEdges(m) == {m.edges[i].edge : i \in DOMAIN m.edges}

\* Mutant: the list is not searched.
mem_upsert_edge_Append(m, e, props) ==
  [m EXCEPT !.edges = Append(@, [edge |-> e, props |-> props])]

\* An edge that is in the list keeps the properties the request does not name.
mem_upsert_edge(m, e, props) ==
  IF e \in MemEdges(m)
  THEN LET updated(entry) ==
             IF entry.edge = e THEN [entry EXCEPT !.props = Merge(@, props)] ELSE entry
       IN  [m EXCEPT !.edges = [i \in DOMAIN @ |-> updated(@[i])]]
  ELSE [m EXCEPT !.edges = Append(@, [edge |-> e, props |-> props])]

\* _normalize: blanks, underscores and case.
normalize(term) == IF term \in DOMAIN Folded THEN Folded[term] ELSE term

\* The terms a concept lists.
ListedBy(c) == {c.concept} \cup c.aliases \cup c.multilingual

\* Mutant: the index keeps the spelling of the request.
Indexed_Verbatim(alias, c) ==
  [k \in DOMAIN alias \cup ListedBy(c) |-> IF k \in ListedBy(c) THEN c.concept ELSE alias[k]]

\* _alias_to_concept: what a concept no longer lists stays, what another one
\* lists goes over to the concept written last.
Indexed(alias, c) ==
  LET keys == {normalize(t) : t \in ListedBy(c)}
  IN  [k \in DOMAIN alias \cup keys |-> IF k \in keys THEN c.concept ELSE alias[k]]

mem_record(m, c) == [m EXCEPT !.concepts = Put(@, c.concept, c), !.alias = Indexed(@, c)]

\* The node that mirrors a concept.
mem_mirror(m, c) ==
  mem_upsert_node(m, c.concept, "concept",
    [definition |-> c.definition, aliases |-> c.aliases, multilingual |-> c.multilingual])

NotFound == [nodes |-> {}, edges |-> {}]

\* traverse, by what GraphTraversal shows of it: an edge is reported when it
\* leads on from a node that is expanded.
mem_traverse(m, start, types, dir, k) ==
  IF start \notin DOMAIN m.nodes THEN NotFound
  ELSE [nodes |-> BallOf(MemEdges(m), types, dir, start, k),
        edges |-> {e \in MemEdges(m) :
                     /\ Allows(types, e)
                     /\ \E n \in BallOf(MemEdges(m), types, dir, start, k - 1) :
                           Neighbor(e, n, dir) # {}}]

\* The concepts concept_graph may answer with, at most one here.
mem_canonical(m, term) ==
  IF normalize(term) \in DOMAIN m.alias THEN {m.alias[normalize(term)]} ELSE {}

mem_concept_graph(m, canonical) ==
  [record      |-> m.concepts[canonical],
   dataset_ids |-> {e.source_id : e \in {f \in MemEdges(m) :
                      f.edge_type = "mapping" /\ f.target_id = canonical}}]

-----------------------------------------------------------------------------
(* PostgresGraphStore *)

EmptyPostgres ==
  [rows |-> Empty, vectors |-> Empty, edges |-> Empty, concepts |-> Empty,
   vertices |-> {}, rels |-> {}]

\* A transaction is what it writes, all of it or nothing.
NoWrites == EmptyPostgres

commit(p, tx) ==
  [rows |-> Merge(p.rows, tx.rows), vectors |-> Merge(p.vectors, tx.vectors),
   edges |-> Merge(p.edges, tx.edges), concepts |-> Merge(p.concepts, tx.concepts),
   vertices |-> p.vertices \cup tx.vertices, rels |-> p.rels \cup tx.rels]

\* _relationship_label: the identifier in upper case.
relationship_label(type) == UpperCase[type]

Rel(e) == <<relationship_label(e.edge_type), e.source_id, e.target_id>>

\* MERGE of the vertex, the row and the vector.
pg_upsert_node(id, kind, props) ==
  [NoWrites EXCEPT !.vertices = {id}, !.rows = Entry(id, [kind |-> kind, props |-> props]),
                   !.vectors = Entry(id, kind)]

\* Mutant: the relationship is created from the target to the source.
MergedRels_Reversed(e) == {<<relationship_label(e.edge_type), e.target_id, e.source_id>>}

\* MERGE (a) MERGE (b) MERGE (a)-[r:LABEL]->(b): the ends get vertices, no rows.
MergedRels(e) == {Rel(e)}

\* Mutant: the row is written and the graph is left alone.
pg_upsert_edge_RowOnly(e, props) == [NoWrites EXCEPT !.edges = Entry(e, props)]

\* The relationship, and the row, whose properties are replaced.
pg_upsert_edge(e, props) ==
  [NoWrites EXCEPT !.vertices = {e.source_id, e.target_id}, !.rels = MergedRels(e),
                   !.edges = Entry(e, props)]

pg_record(c) == [NoWrites EXCEPT !.concepts = Entry(c.concept, c)]

\* Mutant: the concept's node is left to the seed.
pg_mirror_Later(c) == NoWrites

\* The properties of the node leave out multilingual.
pg_mirror(c) ==
  pg_upsert_node(c.concept, "concept", [definition |-> c.definition, aliases |-> c.aliases])

\* WHERE concept_key = :key OR concept_aliases ? :key OR ... LIMIT 1: one of the
\* rows that list the term as it is spelt, and the database chooses which.
pg_canonical(p, term) ==
  {key \in DOMAIN p.concepts : term \in ListedBy(p.concepts[key])}

pg_concept_graph(p, canonical) ==
  [record      |-> p.concepts[canonical],
   dataset_ids |-> {e.source_id : e \in {f \in DOMAIN p.edges :
                      f.edge_type = "mapping" /\ f.target_id = canonical}}]

EdgeOf(rel) == [edge_type |-> rel[1], source_id |-> rel[2], target_id |-> rel[3]]

\* Paths made longer by a relationship, those of n different ones.
Longer(paths, rels, dir, n) ==
  {path \in UNION {{[at |-> x, used |-> path.used \cup {rel}] : x \in Neighbor(EdgeOf(rel), path.at, dir)} :
                     path \in paths, rel \in rels} : Cardinality(path.used) = n}

\* MATCH p = (a)-[:LABELS*1..depth]-(b) RETURN DISTINCT b: where a path from
\* start that repeats no relationship can end.
Matched(p, start, labels, dir, depth) ==
  LET rels == {r \in p.rels : labels = {} \/ r[1] \in labels}
      trails[n \in 0..depth] ==
        IF n = 0 THEN {[at |-> start, used |-> {}]} ELSE Longer(trails[n - 1], rels, dir, n)
  IN  {path.at : path \in UNION {trails[n] : n \in 1..depth}}

\* max(1, min(int(max_depth), traversal_max_depth))
clamped(k) == Max({1, Min({k, ClampDepth})})

pg_traverse(p, start, types, dir, k) ==
  LET labels == {relationship_label(t) : t \in types}
      found  == {start} \cup Matched(p, start, labels, dir, clamped(k))
  IN  IF start \notin DOMAIN p.rows THEN NotFound
      ELSE [nodes |-> found,
            edges |-> {e \in DOMAIN p.edges :
                         {e.source_id, e.target_id} \subseteq found /\ Allows(types, e)}]

-----------------------------------------------------------------------------
(* The ingestion endpoints, and the seed *)

\* The upserts a request leads to, in their order, the same on both backends.  An
\* edge whose type is no identifier is refused before anything is written.
Upserts(r) ==
  CASE r.upsert = "concept" ->
         <<[op |-> "record", concept |-> r.concept], [op |-> "mirror", concept |-> r.concept]>>
           \o [i \in DOMAIN r.concept.links |->
                 [op |-> "edge", edge |-> r.concept.links[i], props |-> Empty]]
    [] r.upsert = "edge" ->
         IF r.edge.edge_type \in Identifiers
         THEN <<[op |-> "edge", edge |-> r.edge, props |-> r.props]>> ELSE <<>>
    [] OTHER -> <<[op |-> "node", id |-> r.id, kind |-> r.kind, props |-> r.props]>>

mem_upsert(m, u) ==
  CASE u.op = "record" -> mem_record(m, u.concept)
    [] u.op = "mirror" -> mem_mirror(m, u.concept)
    [] u.op = "edge"   -> mem_upsert_edge(m, u.edge, u.props)
    [] u.op = "node"   -> mem_upsert_node(m, u.id, u.kind, u.props)

\* Each upsert is a transaction of its own.
pg_upsert(u) ==
  CASE u.op = "record" -> pg_record(u.concept)
    [] u.op = "mirror" -> pg_mirror(u.concept)
    [] u.op = "edge"   -> pg_upsert_edge(u.edge, u.props)
    [] u.op = "node"   -> pg_upsert_node(u.id, u.kind, u.props)

\* The stores after the first k of the upserts.
mem_after(m, upserts, k) ==
  LET after[i \in 0..k] == IF i = 0 THEN m ELSE mem_upsert(after[i - 1], upserts[i])
  IN  after[k]

pg_after(p, upserts, k) ==
  LET after[i \in 0..k] == IF i = 0 THEN p ELSE commit(after[i - 1], pg_upsert(upserts[i]))
  IN  after[k]

SeedUpserts == FlattenSeq([i \in DOMAIN SeedRequests |-> Upserts(SeedRequests[i])])

SeededMemory(m) == mem_after(m, SeedUpserts, Len(SeedUpserts))

SeededPostgres(p) == pg_after(p, SeedUpserts, Len(SeedUpserts))

NoCall == [upserts |-> <<>>, done |-> 0, failed |-> FALSE]

Init ==
  /\ memory = EmptyMemory
  /\ postgres = EmptyPostgres
  /\ call = NoCall
  /\ requests = 0

Send(upserts) ==
  /\ call = NoCall
  /\ requests < MaxRequests
  /\ memory' = mem_after(memory, upserts, Len(upserts))
  /\ call' = [NoCall EXCEPT !.upserts = upserts]
  /\ requests' = requests + 1
  /\ UNCHANGED postgres

IngestNode == \E r \in NodeRequests : Send(Upserts(r))

IngestEdge == \E r \in EdgeRequests : Send(Upserts(r))

IngestConcept == \E r \in ConceptRequests : Send(Upserts(r))

\* seed_store: on every start of the process, or by hand.
SeedStore == Send(SeedUpserts)

Serving == call # NoCall /\ ~ call.failed

\* The next transaction commits; the last one completes the request.
Transact ==
  /\ Serving
  /\ postgres' = commit(postgres, pg_upsert(call.upserts[call.done + 1]))
  /\ call' = IF call.done + 1 = Len(call.upserts) THEN NoCall ELSE [call EXCEPT !.done = @ + 1]
  /\ UNCHANGED <<memory, requests>>

\* The next transaction raises and is rolled back, and the request with it: a 500.
TransactionFails ==
  /\ Serving
  /\ call' = [call EXCEPT !.done = 0, !.failed = TRUE]
  /\ UNCHANGED <<memory, postgres, requests>>

\* The client, or the next start of the service, sends it again.
Retry ==
  /\ call.failed
  /\ call' = [call EXCEPT !.failed = FALSE]
  /\ UNCHANGED <<memory, postgres, requests>>

Next ==
  IngestNode \/ IngestEdge \/ IngestConcept \/ SeedStore \/ Transact \/ TransactionFails \/ Retry

Spec == Init /\ [][Next]_vars

-----------------------------------------------------------------------------
Directions == {"out", "in", "both"}

Types == {e.edge_type : e \in MemEdges(memory)}

\* Filters that name every type in the store whose label they name.
WholeFilters ==
  {types \in SUBSET Types :
     \A t \in Types : (\E u \in types : relationship_label(t) = relationship_label(u)) => t \in types}

\* Whatever was ingested, in whatever order, wherever transactions failed and
\* requests were sent again, both backends have the same nodes and the same edges
\* once a request is confirmed, and call each node the same kind.  The in-memory
\* store merges the properties of an edge and Postgres replaces them, so the former
\* has at least what the latter has.
NodesAndEdgesAgree == call = NoCall =>
  /\ DOMAIN memory.nodes = DOMAIN postgres.rows
  /\ \A n \in DOMAIN memory.nodes : memory.nodes[n].kind = postgres.rows[n].kind
  /\ MemEdges(memory) = DOMAIN postgres.edges
  /\ \A i \in DOMAIN memory.edges :
        LET kept == postgres.edges[memory.edges[i].edge]
        IN  \A key \in DOMAIN kept :
               key \in DOMAIN memory.edges[i].props /\ memory.edges[i].props[key] = kept[key]

\* POST /graph/query finds the same nodes on both backends up to the configured
\* depth: a breadth-first search over the list of edges, and the ends of the
\* matched paths in an AGE graph that is written beside the edge table.  The
\* edges Postgres reports, all those between the nodes, include the walked ones.
ReachAgrees == call = NoCall =>
  \A start \in Ids, dir \in Directions, types \in WholeFilters, k \in 1..ClampDepth :
     LET mem == mem_traverse(memory, start, types, dir, k)
         pg  == pg_traverse(postgres, start, types, dir, k)
     IN  mem.nodes = pg.nodes /\ mem.edges \subseteq pg.edges

\* GET /ontology/term/{term}/graph means the same on both backends wherever an
\* alias is not stale: a term that Postgres knows is known to memory; when the
\* concept memory answers with still lists the term so spelt, Postgres may answer
\* with it too; and a concept has the same record and the same datasets on both.
\* This is about the stores: for a term its store does not know the endpoint falls
\* back to the vocabulary of sdp/ontology.py (api.py:684).
LookupAgrees == call = NoCall =>
  \A term \in Terms :
     /\ pg_canonical(postgres, term) # {} => mem_canonical(memory, term) # {}
     /\ \A c \in mem_canonical(memory, term) :
           term \in ListedBy(memory.concepts[c]) => c \in pg_canonical(postgres, term)
     /\ \A c \in mem_canonical(memory, term) \cup pg_canonical(postgres, term) :
           mem_concept_graph(memory, c) = pg_concept_graph(postgres, c)

\* At every moment, a request under way or given up half way included, the tables
\* and the AGE graph tell the same: every row of a node has its vertex and its
\* vector, of its kind, every row of an edge its relationship, and the other way
\* round.  Types that differ only in case share a label, so a filter by one of them
\* still finds a node whose edge, of the other, it leaves out.
TablesFollowGraph ==
  /\ DOMAIN postgres.rows \subseteq postgres.vertices
  /\ postgres.vectors = [id \in DOMAIN postgres.rows |-> postgres.rows[id].kind]
  /\ postgres.rels = {Rel(e) : e \in DOMAIN postgres.edges}

\* sdp/seed.py:4: the seed is safe to run repeatedly.  On both backends, and on
\* top of any edits, a second run changes nothing the first has done.
SeedIsIdempotent ==
  /\ SeededMemory(SeededMemory(memory)) = SeededMemory(memory)
  /\ SeededPostgres(SeededPostgres(postgres)) = SeededPostgres(postgres)

=============================================================================
