---------------------------- MODULE MemoryStore ----------------------------
(***************************************************************************)
(* The concurrent requests of InMemoryGraphStore: a traversal among writers   *)
(* of edges (GraphTraversal), or a semantic search among writers of nodes     *)
(* (SemanticSearch).  A traversal reads the edges and asks which nodes there   *)
(* are, a search reads nodes and embeddings, so neither can tell what only    *)
(* the other's writers do; a behaviour has one of the two.                    *)
(***************************************************************************)
EXTENDS GraphTraversal, SemanticSearch

VARIABLE serving   \* the request of this behaviour: "query" or "search"

storeVars == <<vars, searchVars, serving>>

StoreInit ==
  /\ Init
  /\ SearchInit
  /\ serving \in {"query", "search"}
  /\ serving = "search" => edges = <<>>

Query == serving = "query" /\ Next /\ UNCHANGED <<searchVars, serving>>

Search == serving = "search" /\ SearchNext /\ UNCHANGED <<vars, serving>>

StoreSpec == StoreInit /\ [][Query \/ Search]_storeVars
=============================================================================
