----------------------------- MODULE MCBackends -----------------------------
(* Small instances of GraphBackends. *)
EXTENDS GraphBackends, TLC

Link(type, from, to) == [edge_type |-> type, source_id |-> from, target_id |-> to]

NoProps == <<>>

MCUpperCase ==
  [t \in {"related", "RELATED", "mapping", "broader", "narrower"} |->
     CASE t \in {"related", "RELATED"} -> "RELATED"
       [] t = "mapping"                -> "MAPPING"
       [] t = "broader"                -> "BROADER"
       [] t = "narrower"               -> "NARROWER"]

MCFolded == "Client" :> "client"

MCNodes ==
  {[upsert |-> "node", kind |-> "dataset", id |-> "a", props |-> [owner |-> "x"]],
   [upsert |-> "node", kind |-> "concept", id |-> "c", props |-> NoProps]}

\* A cycle, a second type under the first one's label, a refused type, and one
\* edge with two sets of properties.
MCEdges ==
  {[upsert |-> "edge", edge |-> Link("related", "a", "b"), props |-> NoProps],
   [upsert |-> "edge", edge |-> Link("RELATED", "c", "b"), props |-> NoProps],
   [upsert |-> "edge", edge |-> Link("related", "c", "a"), props |-> NoProps],
   [upsert |-> "edge", edge |-> Link("mapping", "a", "c"), props |-> [origin |-> "term"]],
   [upsert |-> "edge", edge |-> Link("mapping", "a", "c"), props |-> [status |-> "approved"]],
   [upsert |-> "edge", edge |-> Link("no label", "a", "b"), props |-> NoProps]}

Concept(key, aliases, multilingual, links) ==
  [concept |-> key, definition |-> "d", aliases |-> aliases, multilingual |-> multilingual,
   links |-> links]

Client == Concept("b", {}, {"Client"}, <<Link("broader", "b", "d"), Link("related", "b", "a")>>)

\* A concept that loses its alias to another, and one that drops it.
MCConcepts ==
  {[upsert |-> "concept", concept |-> c] :
     c \in {Client, Concept("b", {}, {}, <<Link("related", "b", "c")>>), Concept("d", {"client"}, {}, <<>>)}}

\* A concept, a dataset that maps to it by term and by business mapping.
MCSeedRequests ==
  <<[upsert |-> "concept", concept |-> Client],
    [upsert |-> "node", kind |-> "dataset", id |-> "a", props |-> NoProps],
    [upsert |-> "edge", edge |-> Link("mapping", "a", "b"), props |-> [origin |-> "term"]],
    [upsert |-> "edge", edge |-> Link("mapping", "a", "b"),
     props |-> [origin |-> "business_mapping", status |-> "approved"]]>>
=============================================================================
