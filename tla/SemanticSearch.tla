--------------------------- MODULE SemanticSearch ---------------------------
(***************************************************************************)
(* InMemoryGraphStore.semantic_search and upsert_node (sdp/graph_store.py),   *)
(* in threads of their own on two dictionaries without a lock.               *)
(*                                                                         *)
(* The search iterates over the live dictionary of embeddings and looks each  *)
(* node up in the dictionary of nodes; upsert_node writes the node first and  *)
(* its embedding next.  Python's iterator raises RuntimeError when the        *)
(* dictionary has grown since it began, and does not notice that a value was  *)
(* replaced.  A vector is known by the text it embeds, and Score is what its  *)
(* cosine similarity to the query comes to.  Nothing removes a node.          *)
(***************************************************************************)
EXTENDS Ranking, SequencesExt

CONSTANTS
  Payloads,     \* [kind, text]: what a node may be upserted with
  NodeIds,      \* ids of nodes
  Present,      \* initial contents: a sequence of [id, payload]
  Score,        \* Score[text]: similarity to the query
  NoKind,       \* no kind in the request
  Limits,       \* values of limit
  NodeWriters,  \* threads serving POST /graph/nodes
  MaxUpserts    \* bound: upserts in a behaviour

SearchKinds == {p.kind : p \in Payloads} \cup {NoKind}

ASSUME SearchAssumption ==
  /\ \A p \in Payloads : Score[p.text] \in Nat
  /\ Present \in Seq([id : NodeIds, payload : Payloads])
  /\ \A i, j \in DOMAIN Present : Present[i].id = Present[j].id => i = j
  /\ Limits \subseteq Nat \ {0}
  /\ NoKind \notin {p.kind : p \in Payloads}
  /\ MaxUpserts \in Nat

VARIABLES
  payload,    \* _nodes
  vectors,    \* _embeddings, in the order of its keys: [id, text]
  upsert,     \* per writer: the vector it is about to store
  upserts,    \* how many upserts began
  search,     \* the search
  had         \* history variable: the kinds and texts each node has had since the
              \* search began

searchVars == <<payload, vectors, upsert, upserts, search, had>>

NoVector == <<>>

NoSearch == [stage |-> "idle", kind |-> NoKind, limit |-> 0, size |-> 0, pos |-> 0, scored |-> <<>>]

InitialPayload ==
  [id \in {Present[i].id : i \in DOMAIN Present} |->
     Present[CHOOSE i \in DOMAIN Present : Present[i].id = id].payload]

SearchInit ==
  /\ payload = InitialPayload
  /\ vectors = [i \in DOMAIN Present |-> [id |-> Present[i].id, text |-> Present[i].payload.text]]
  /\ upsert = [w \in NodeWriters |-> NoVector]
  /\ upserts = 0
  /\ search = NoSearch
  /\ had = [id \in NodeIds |-> [kinds |-> {}, texts |-> {}]]

-----------------------------------------------------------------------------
(* Ingestion *)

Searching == search.stage = "scan"

TextsOf(id) == {vectors[i].text : i \in {j \in DOMAIN vectors : vectors[j].id = id}}

\* Mutant: the embedding gets ahead of the node.
PutNode_Later(w) ==
  \E id \in NodeIds, p \in Payloads :
     /\ upsert[w] = NoVector
     /\ upserts < MaxUpserts
     /\ TextsOf(id) = {}
     /\ vectors' = Append(vectors, [id |-> id, text |-> p.text])
     /\ upserts' = upserts + 1
     /\ UNCHANGED <<payload, upsert, search, had>>

\* self._nodes[node_id] = node
PutNode(w) ==
  \E id \in NodeIds, p \in Payloads :
     /\ upsert[w] = NoVector
     /\ upserts < MaxUpserts
     /\ payload' = [x \in DOMAIN payload \cup {id} |-> IF x = id THEN p ELSE payload[x]]
     /\ upsert' = [upsert EXCEPT ![w] = <<[id |-> id, text |-> p.text]>>]
     /\ upserts' = upserts + 1
     /\ had' = IF Searching THEN [had EXCEPT ![id].kinds = @ \cup {p.kind}] ELSE had
     /\ UNCHANGED <<vectors, search>>

\* d[k] = v: a key that is there keeps its place.
Stored(v) ==
  IF TextsOf(v.id) = {} THEN Append(vectors, v)
  ELSE [i \in DOMAIN vectors |-> IF vectors[i].id = v.id THEN v ELSE vectors[i]]

\* self._embeddings[node_id] = embed_text(...)
PutVector(w) ==
  /\ upsert[w] # NoVector
  /\ vectors' = Stored(upsert[w][1])
  /\ upsert' = [upsert EXCEPT ![w] = NoVector]
  /\ had' = IF Searching
            THEN [had EXCEPT ![upsert[w][1].id].texts = @ \cup {upsert[w][1].text}] ELSE had
  /\ UNCHANGED <<payload, upserts, search>>

-----------------------------------------------------------------------------
(* The search *)

BeginSearch ==
  \E kind \in SearchKinds, limit \in Limits :
     /\ search.stage = "idle"
     /\ search' = [NoSearch EXCEPT !.stage = "scan", !.kind = kind, !.limit = limit,
                                   !.size = Len(vectors), !.pos = 1]
     /\ had' = [id \in NodeIds |->
                  [kinds |-> IF id \in DOMAIN payload THEN {payload[id].kind} ELSE {},
                   texts |-> TextsOf(id)]]
     /\ UNCHANGED <<payload, vectors, upsert, upserts>>

\* The iterator compares the size of the dictionary with the one it started from.
Grown == Len(vectors) # search.size

\* self._nodes[node_id] and the filter: the row of vector v, or none.
RowOf(v) ==
  IF search.kind \in {NoKind, payload[v.id].kind}
  THEN <<[node_id |-> v.id, kind |-> payload[v.id].kind, score |-> Score[v.text]]>>
  ELSE <<>>

\* One turn of the loop, or what follows it.
SearchStep ==
  /\ search.stage = "scan"
  /\ search' =
       IF Grown THEN [search EXCEPT !.stage = "500"]
       ELSE IF search.pos > search.size
       THEN [search EXCEPT !.stage = "done",
                           !.scored = TopRows(@, search.limit)]
       ELSE IF vectors[search.pos].id \notin DOMAIN payload
       THEN [search EXCEPT !.stage = "500"]
       ELSE [search EXCEPT !.pos = @ + 1, !.scored = @ \o RowOf(vectors[search.pos])]
  /\ UNCHANGED <<payload, vectors, upsert, upserts, had>>

SearchNext == (\E w \in NodeWriters : PutNode(w) \/ PutVector(w)) \/ BeginSearch \/ SearchStep

-----------------------------------------------------------------------------
Results == {search.scored[i] : i \in DOMAIN search.scored}

\* A search that answers has looked at every node there was when it began.  Each of
\* them is reported, as something it was meanwhile; or it was, at some moment, of
\* another kind than the one asked for; or the list is full of nodes no worse than
\* it was at some moment.  And nothing else is reported.
SearchIsWhole ==
  search.stage = "done" =>
     /\ \A row \in Results :
           /\ row.kind \in had[row.node_id].kinds
           /\ search.kind \in {NoKind, row.kind}
           /\ \E t \in had[row.node_id].texts : row.score = Score[t]
     /\ \A i \in 1..search.size :
           LET id == vectors[i].id
           IN  \/ \E row \in Results : row.node_id = id
               \/ search.kind # NoKind /\ had[id].kinds # {search.kind}
               \/ /\ Len(search.scored) = search.limit
                  /\ \E t \in had[id].texts : \A row \in Results : row.score >= Score[t]

\* A search fails only when a node that was not there has been ingested meanwhile;
\* nodes that change, and a node ingested half before and half after the search
\* began, do no harm: an embedding never gets ahead of its node.
FailsOnlyForNewNodes == search.stage = "500" => Len(vectors) > search.size
=============================================================================
