--------------------------- MODULE GraphTraversal ---------------------------
(***************************************************************************)
(* InMemoryGraphStore.traverse and upsert_edge (sdp/graph_store.py), running *)
(* in threads of their own on one edge list without a lock.                 *)
(*                                                                         *)
(* traverse walks the list once for each node it takes from its frontier.    *)
(* An edge that another thread appends in the middle of such a walk is met    *)
(* at the end of it, so the walk is one step per list entry here.  Nothing   *)
(* removes an edge.  Node payloads are left out: traverse only copies them.  *)
(***************************************************************************)
EXTENDS GraphOps, Sequences, FiniteSets

CONSTANTS
  Nodes,          \* node ids
  EdgeTypes,      \* relationship types found in requests
  Identifiers,    \* the ones _relationship_label accepts
  Registered,     \* ids that have a node before the first request
  InitialEdges,   \* edge lists the store may hold before the first request
  EdgeRequests,   \* edges clients send
  Writers,        \* threads serving POST /graph/edges
  MaxDepth,       \* upper limit of max_depth in a request
  MaxEdges        \* bound: length of the edge list

Edge == [edge_type : EdgeTypes, source_id : Nodes, target_id : Nodes]

ASSUME GraphAssumption ==
  /\ Identifiers \subseteq EdgeTypes
  /\ Registered \subseteq Nodes
  /\ InitialEdges \subseteq Seq(Edge)
  /\ EdgeRequests \subseteq Edge
  /\ MaxDepth \in Nat
  /\ MaxEdges \in Nat

VARIABLES
  nodes,    \* the keys of _nodes
  edges,    \* _edges
  writer,   \* per writer: the edge it is about to append, or Nothing
  walk,     \* the traversal
  base      \* history variable: the edges there were when the traversal began

vars == <<nodes, edges, writer, walk, base>>

Directions == {"out", "in", "both"}
Nothing == <<>>
NoNode == "no node"

NoWalk ==
  [stage |-> "idle", start |-> NoNode, edge_types |-> {}, direction |-> "both",
   max_depth |-> 0, frontier |-> <<>>, current |-> NoNode, depth |-> 0, pos |-> 0,
   visited |-> {}, taken |-> <<>>]

Init ==
  /\ nodes = Registered
  /\ edges \in InitialEdges
  /\ writer = [w \in Writers |-> Nothing]
  /\ walk = NoWalk
  /\ base = {}

Listed(list) == {list[i] : i \in DOMAIN list}

-----------------------------------------------------------------------------
(* Writers *)

UpsertNode ==
  \E n \in Nodes :
     /\ nodes' = nodes \cup {n}
     /\ UNCHANGED <<edges, writer, walk, base>>

\* upsert_edge up to the end of its search: a type that is no identifier is
\* refused, and an edge that is found has its properties merged.
FindEdge(w) ==
  \E e \in EdgeRequests :
     /\ writer[w] = Nothing
     /\ Len(edges) < MaxEdges
     /\ e.edge_type \in Identifiers
     /\ e \notin Listed(edges)
     /\ writer' = [writer EXCEPT ![w] = <<e>>]
     /\ UNCHANGED <<nodes, edges, walk, base>>

\* self._edges.append(edge)
AppendEdge(w) ==
  /\ writer[w] # Nothing
  /\ edges' = edges \o writer[w]
  /\ writer' = [writer EXCEPT ![w] = Nothing]
  /\ UNCHANGED <<nodes, walk, base>>

-----------------------------------------------------------------------------
(* The traversal *)

\* POST /graph/query: an unknown start is a 404, a type that is no identifier a 400.
graph_query(start, types) ==
  IF start \notin nodes THEN "404"
  ELSE IF ~ types \subseteq Identifiers THEN "400"
  ELSE "pop"

Begin ==
  \E start \in Nodes, types \in SUBSET EdgeTypes, dir \in Directions, k \in 1..MaxDepth :
     /\ walk.stage = "idle"
     /\ walk' = [NoWalk EXCEPT
                   !.stage = graph_query(start, types), !.start = start, !.edge_types = types, !.direction = dir, !.max_depth = k,
                   !.frontier = <<<<start, 0>>>>, !.visited = {start}]
     /\ base' = Listed(edges)
     /\ UNCHANGED <<nodes, edges, writer>>

\* Mutant: a node at the depth limit is expanded as well.
DepthReached_Late(depth, max_depth) == depth > max_depth

DepthReached(depth, max_depth) == depth >= max_depth

\* current, depth = frontier.popleft()
Pop ==
  /\ walk.stage = "pop"
  /\ walk.frontier # <<>>
  /\ LET node  == Head(walk.frontier)[1]
         depth == Head(walk.frontier)[2]
     IN  walk' = [walk EXCEPT
                    !.frontier = Tail(@), !.current = node, !.depth = depth, !.pos = 1,
                    !.stage = IF DepthReached(depth, walk.max_depth) THEN "pop" ELSE "scan"]
  /\ UNCHANGED <<nodes, edges, writer, base>>

Enqueue(frontier, node, depth) == Append(frontier, <<node, depth>>)

\* Mutant: the edge is taken each time the list shows it.
TakeEdge_Always(taken, e) == Append(taken, e)

\* key not in seen_edge_keys
TakeEdge(taken, e) == IF e \in Listed(taken) THEN taken ELSE Append(taken, e)

Meet(w, e, node) ==
  [w EXCEPT
     !.pos = @ + 1,
     !.taken = TakeEdge(@, e),
     !.visited = @ \cup {node},
     !.frontier = IF node \in w.visited THEN @ ELSE Enqueue(@, node, w.depth + 1)]

\* One turn of the loop over the edge list.
Scan ==
  /\ walk.stage = "scan"
  /\ walk.pos <= Len(edges)
  /\ LET e == edges[walk.pos]
         found == IF Allows(walk.edge_types, e)
                  THEN Neighbor(e, walk.current, walk.direction) ELSE {}
     IN  \/ /\ found = {}
            /\ walk' = [walk EXCEPT !.pos = @ + 1]
         \/ \E node \in found : walk' = Meet(walk, e, node)
  /\ UNCHANGED <<nodes, edges, writer, base>>

EndScan ==
  /\ walk.stage = "scan"
  /\ walk.pos > Len(edges)
  /\ walk' = [walk EXCEPT !.stage = "pop"]
  /\ UNCHANGED <<nodes, edges, writer, base>>

Finish ==
  /\ walk.stage = "pop"
  /\ walk.frontier = <<>>
  /\ walk' = [walk EXCEPT !.stage = "done"]
  /\ UNCHANGED <<nodes, edges, writer, base>>

Traverse == Pop \/ Scan \/ EndScan \/ Finish

Next == UpsertNode \/ (\E w \in Writers : FindEdge(w) \/ AppendEdge(w)) \/ Begin \/ Traverse

Spec == Init /\ [][Next]_vars

-----------------------------------------------------------------------------
(* The nodes within k steps of the start over a set of edges *)

Ball(es, k) == BallOf(es, walk.edge_types, walk.direction, walk.start, k)

\* A finished traversal has found every node within max_depth steps over the
\* edges there were when it began, and none beyond that many steps over the edges
\* there are: edges appended during the walk neither hide a node nor let the walk
\* go too far.
FindsTheBall ==
  walk.stage = "done" =>
     /\ Ball(base, walk.max_depth) \subseteq walk.visited
     /\ walk.visited \subseteq Ball(Listed(edges), walk.max_depth)

\* The reported edges have both their ends among the reported nodes, no edge is
\* reported twice even when two writers have put it in the list twice, and every
\* edge that leads out of an inner node of the ball is reported.
EdgesFitNodes ==
  /\ \A i \in DOMAIN walk.taken :
        {walk.taken[i].source_id, walk.taken[i].target_id} \subseteq walk.visited
  /\ \A i, j \in DOMAIN walk.taken : walk.taken[i] = walk.taken[j] => i = j
  /\ walk.stage = "done" =>
       \A e \in base : \A n \in Ball(base, walk.max_depth - 1) :
          Allows(walk.edge_types, e) /\ Neighbor(e, n, walk.direction) # {}
            => e \in Listed(walk.taken)

=============================================================================
