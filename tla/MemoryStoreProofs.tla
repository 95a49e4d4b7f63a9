-------------------------- MODULE MemoryStoreProofs --------------------------
(***************************************************************************)
(* What a traversal and a semantic search of InMemoryGraphStore answer while  *)
(* other threads write, for every graph, every number of writers and every   *)
(* depth.                                                                    *)
(***************************************************************************)
EXTENDS MemoryStore, OperatorProofs

-----------------------------------------------------------------------------
(* The traversal: the inductive invariant *)

Stages == {"idle", "404", "400", "pop", "scan", "done"}

WalkRecord ==
  [stage : Stages, start : Nodes \cup {NoNode}, edge_types : SUBSET EdgeTypes, direction : Directions,
   max_depth : Nat, frontier : Seq(Nodes \X Nat), current : Nodes \cup {NoNode}, depth : Nat, pos : Nat,
   visited : SUBSET Nodes, taken : Seq(Edge)]

TraversalTypeOK ==
  /\ edges \in Seq(Edge)
  /\ writer \in [Writers -> {Nothing} \cup {<<e>> : e \in EdgeRequests}]
  /\ walk \in WalkRecord
  /\ base \subseteq Listed(edges)

\* The traversal will still look at the edges of n, or does so now.
Pending(n) ==
  \/ \E i \in DOMAIN walk.frontier : walk.frontier[i][1] = n
  \/ walk.stage = "scan" /\ walk.current = n

\* Edge e has been followed from n, under the labels level.
Followed(e, n, level) ==
  Allows(walk.edge_types, e) =>
     \A m \in Neighbor(e, n, walk.direction) :
        m \in walk.visited /\ level[m] <= level[n] + 1 /\ e \in Listed(walk.taken)

\* level[n] is the depth at which the traversal has met n.  The frontier is sorted by
\* it and spans two depths at most; the labels are honest, and what is no longer
\* pending has been followed.
FrontierLabelled(level) ==
  /\ \A i \in DOMAIN walk.frontier :
        walk.frontier[i][1] \in walk.visited /\ walk.frontier[i][2] = level[walk.frontier[i][1]]
  /\ \A i, j \in DOMAIN walk.frontier : i < j => walk.frontier[i][2] <= walk.frontier[j][2]
  /\ \A i \in DOMAIN walk.frontier : \A n \in walk.visited : level[n] <= walk.frontier[i][2] + 1

ScanLabelled(level) ==
  walk.stage = "scan" =>
     /\ walk.current \in walk.visited
     /\ walk.depth = level[walk.current]
     /\ walk.depth < walk.max_depth
     /\ \A i \in DOMAIN walk.frontier : walk.depth <= walk.frontier[i][2]
     /\ \A n \in walk.visited : level[n] <= walk.depth + 1
     /\ walk.pos \in 1..(Len(edges) + 1)
     /\ \A p \in 1..(walk.pos - 1) : Followed(edges[p], walk.current, level)

HonestlyLabelled(level) == \A n \in walk.visited : n \in Ball(Listed(edges), level[n])

SettledBy(level) ==
  \A n \in walk.visited :
     ~ Pending(n) /\ level[n] < walk.max_depth => \A e \in base : Followed(e, n, level)

Labelled(level) ==
  /\ walk.start \in walk.visited
  /\ level[walk.start] = 0
  /\ FrontierLabelled(level)
  /\ ScanLabelled(level)
  /\ HonestlyLabelled(level)
  /\ SettledBy(level)

\* The reported edges, at every moment.
TakenInv ==
  /\ \A i \in DOMAIN walk.taken :
        {walk.taken[i].source_id, walk.taken[i].target_id} \subseteq walk.visited
  /\ \A i, j \in DOMAIN walk.taken : walk.taken[i] = walk.taken[j] => i = j

LevelsInv ==
  walk.stage \in {"pop", "scan"} =>
     /\ walk.max_depth # 0
     /\ \E level \in [walk.visited -> 0..walk.max_depth] : Labelled(level)

TraversalInv ==
  /\ TraversalTypeOK
  /\ TakenInv
  /\ LevelsInv
  /\ EdgesFitNodes
  /\ FindsTheBall

-----------------------------------------------------------------------------
(* The traversal: the steps *)

\* No traversal yet.
LEMMA TraversalInit == Init => TraversalInv
<1> SUFFICES ASSUME Init PROVE TraversalInv
  OBVIOUS
<1> USE DEF Init
<1>1. edges \in Seq(Edge)
  BY GraphAssumption
<1>2. walk \in WalkRecord
  BY DEF NoWalk, WalkRecord, Stages, Directions
<1>3. writer \in [Writers -> {Nothing} \cup {<<e>> : e \in EdgeRequests}]
  OBVIOUS
<1>4. walk.stage = "idle" /\ walk.taken = <<>> /\ base = {}
  BY DEF NoWalk
<1> QED
  BY <1>1, <1>2, <1>3, <1>4
     DEF TraversalInv, TraversalTypeOK, TakenInv, LevelsInv, EdgesFitNodes, FindsTheBall

\* Other threads write: the list of edges grows at its end, if at all.
LEMMA EdgesGrow ==
  ASSUME TraversalInv, UNCHANGED <<walk, base>>,
         edges' \in Seq(Edge), Len(edges) <= Len(edges'),
         \A i \in 1..Len(edges) : edges'[i] = edges[i],
         writer' \in [Writers -> {Nothing} \cup {<<e>> : e \in EdgeRequests}]
  PROVE  TraversalInv'
<1>1. edges \in Seq(Edge) /\ walk \in WalkRecord /\ base \subseteq Listed(edges)
  BY DEF TraversalInv, TraversalTypeOK
<1>2. /\ Len(edges) \in Nat /\ Len(edges') \in Nat
      /\ DOMAIN edges = 1..Len(edges) /\ DOMAIN edges' = 1..Len(edges')
  BY <1>1
<1>3. Listed(edges) \subseteq Listed(edges')
  BY <1>2 DEF Listed
<1>4. TraversalTypeOK'
  BY <1>1, <1>3 DEF TraversalInv, TraversalTypeOK
<1>5. TakenInv' /\ EdgesFitNodes'
  BY DEF TraversalInv, TakenInv, EdgesFitNodes, Ball, Listed
<1>6. \A k \in Nat : Ball(Listed(edges), k) \subseteq Ball(Listed(edges'), k)
  BY <1>3, BallFollowsEdges DEF Ball
<1>7. walk.max_depth \in Nat
  BY <1>1 DEF WalkRecord
<1>8. FindsTheBall'
  BY <1>6, <1>7 DEF TraversalInv, FindsTheBall, Ball
<1>9. LevelsInv'
  <2> SUFFICES ASSUME walk.stage \in {"pop", "scan"}
               PROVE  /\ walk.max_depth # 0
                      /\ \E level \in [walk.visited -> 0..walk.max_depth] : Labelled(level)'
    BY DEF LevelsInv
  <2>1. PICK level \in [walk.visited -> 0..walk.max_depth] : Labelled(level)
    BY DEF TraversalInv, LevelsInv
  <2>2. \A n \in walk.visited : level[n] \in Nat
    BY <1>7
  <2>3. FrontierLabelled(level)'
    BY <2>1 DEF Labelled, FrontierLabelled
  <2>4. HonestlyLabelled(level)'
    BY <1>6, <2>1, <2>2 DEF Labelled, HonestlyLabelled, Ball
  <2>5. SettledBy(level)'
    BY <2>1 DEF Labelled, SettledBy, Followed, Pending, Listed
  <2>6. ScanLabelled(level)'
    <3>1. \A e, n : Followed(e, n, level)' <=> Followed(e, n, level)
      BY DEF Followed, Listed
    <3>2. SUFFICES ASSUME walk.stage = "scan"
                   PROVE  /\ walk.pos \in 1..(Len(edges') + 1)
                          /\ \A p \in 1..(walk.pos - 1) : Followed(edges'[p], walk.current, level)
      BY <2>1, <3>1 DEF Labelled, ScanLabelled
    <3>3. /\ walk.pos \in 1..(Len(edges) + 1)
          /\ \A p \in 1..(walk.pos - 1) : Followed(edges[p], walk.current, level)
      BY <2>1, <3>2 DEF Labelled, ScanLabelled
    <3>4. \A p \in 1..(walk.pos - 1) : p \in 1..Len(edges)
      BY <1>2, <3>3
    <3> QED
      BY <1>2, <3>3, <3>4
  <2>7. Labelled(level)'
    BY <2>1, <2>3, <2>4, <2>5, <2>6 DEF Labelled
  <2> QED
    BY <2>7 DEF TraversalInv, LevelsInv
<1> QED
  BY <1>4, <1>5, <1>8, <1>9 DEF TraversalInv

\* Writers of nodes and edges, and stuttering.
LEMMA WriterStep ==
  ASSUME TraversalInv, UpsertNode \/ (\E w \in Writers : FindEdge(w) \/ AppendEdge(w)) \/ UNCHANGED vars
  PROVE  TraversalInv'
<1>1. /\ edges \in Seq(Edge) /\ writer \in [Writers -> {Nothing} \cup {<<e>> : e \in EdgeRequests}]
      /\ Len(edges) \in Nat
  BY DEF TraversalInv, TraversalTypeOK
<1>2. CASE UpsertNode \/ UNCHANGED vars
  BY <1>1, <1>2, EdgesGrow DEF UpsertNode, vars
<1>3. ASSUME NEW w \in Writers, FindEdge(w) PROVE TraversalInv'
  <2>1. PICK e \in EdgeRequests : writer' = [writer EXCEPT ![w] = <<e>>]
    BY <1>3 DEF FindEdge
  <2>2. UNCHANGED <<edges, walk, base>>
    BY <1>3 DEF FindEdge
  <2>3. writer' \in [Writers -> {Nothing} \cup {<<x>> : x \in EdgeRequests}]
    BY <1>1, <2>1
  <2> QED
    BY <1>1, <2>2, <2>3, EdgesGrow
<1>4. ASSUME NEW w \in Writers, AppendEdge(w) PROVE TraversalInv'
  <2>1. /\ writer[w] # Nothing /\ edges' = edges \o writer[w]
        /\ writer' = [writer EXCEPT ![w] = Nothing] /\ UNCHANGED <<walk, base>>
    BY <1>4 DEF AppendEdge
  <2>2. PICK e \in EdgeRequests : writer[w] = <<e>>
    BY <1>1, <2>1
  <2>3. e \in Edge
    BY GraphAssumption
  <2>4. /\ edges' \in Seq(Edge) /\ Len(edges) <= Len(edges')
        /\ \A i \in 1..Len(edges) : edges'[i] = edges[i]
    BY <1>1, <2>1, <2>2, <2>3
  <2>5. writer' \in [Writers -> {Nothing} \cup {<<x>> : x \in EdgeRequests}]
    BY <1>1, <2>1
  <2> QED
    BY <2>1, <2>4, <2>5, EdgesGrow
<1> QED
  BY <1>2, <1>3, <1>4

\* A query is refused, or it starts from its node alone, at depth 0.
LEMMA BeginStep ==
  ASSUME TraversalInv, Begin
  PROVE  TraversalInv'
<1>1. PICK start \in Nodes, types \in SUBSET EdgeTypes, dir \in Directions, k \in 1..MaxDepth :
        /\ walk' = [NoWalk EXCEPT
                      !.stage = graph_query(start, types), !.start = start, !.edge_types = types,
                      !.direction = dir, !.max_depth = k,
                      !.frontier = <<<<start, 0>>>>, !.visited = {start}]
        /\ base' = Listed(edges)
        /\ UNCHANGED <<nodes, edges, writer>>
  BY DEF Begin
<1>2. graph_query(start, types) \in {"404", "400", "pop"}
  BY DEF graph_query
<1>3. /\ walk'.stage = graph_query(start, types) /\ walk'.start = start /\ walk'.edge_types = types
      /\ walk'.direction = dir /\ walk'.max_depth = k /\ walk'.frontier = <<<<start, 0>>>>
      /\ walk'.visited = {start} /\ walk'.taken = <<>>
  BY <1>1 DEF NoWalk
<1>4. k \in Nat /\ k # 0 /\ 0 \in 0..k
  BY GraphAssumption
<1>5. walk' \in WalkRecord
  <2>1. <<<<start, 0>>>> \in Seq(Nodes \X Nat)
    OBVIOUS
  <2>2. walk' = [stage |-> graph_query(start, types), start |-> start, edge_types |-> types,
                 direction |-> dir, max_depth |-> k, frontier |-> <<<<start, 0>>>>, current |-> NoNode,
                 depth |-> 0, pos |-> 0, visited |-> {start}, taken |-> <<>>]
    BY <1>1 DEF NoWalk
  <2>3. graph_query(start, types) \in Stages /\ <<>> \in Seq(Edge) /\ {start} \in SUBSET Nodes
    BY <1>2 DEF Stages
  <2> QED
    BY <1>4, <2>1, <2>2, <2>3 DEF WalkRecord
<1>6. TraversalTypeOK'
  BY <1>1, <1>5 DEF TraversalInv, TraversalTypeOK, Listed
<1>7. TakenInv' /\ EdgesFitNodes' /\ FindsTheBall'
  BY <1>2, <1>3 DEF TakenInv, EdgesFitNodes, FindsTheBall
<1>8. LevelsInv'
  <2> DEFINE level == [n \in {start} |-> 0]
  <2>1. level \in [walk'.visited -> 0..walk'.max_depth]
    BY <1>3, <1>4
  <2>2. /\ DOMAIN walk'.frontier = {1} /\ walk'.frontier[1][1] = start /\ walk'.frontier[1][2] = 0
    BY <1>3
  <2>3. level[start] = 0
    OBVIOUS
  <2> HIDE DEF level
  <2>4. FrontierLabelled(level)'
    BY <1>3, <2>2, <2>3 DEF FrontierLabelled
  <2>5. ScanLabelled(level)'
    BY <1>2, <1>3 DEF ScanLabelled
  <2>6. HonestlyLabelled(level)'
    BY <1>3, <2>3, BallZero DEF HonestlyLabelled, Ball
  <2>7. SettledBy(level)'
    BY <1>3, <2>2 DEF SettledBy, Pending
  <2>8. Labelled(level)'
    BY <1>3, <2>3, <2>4, <2>5, <2>6, <2>7 DEF Labelled
  <2> QED
    BY <1>3, <1>4, <2>1, <2>8 DEF LevelsInv
<1> QED
  BY <1>6, <1>7, <1>8 DEF TraversalInv

\* What the head of a frontier and its rest are.
LEMMA HeadAndTail ==
  ASSUME NEW S, NEW s \in Seq(S), s # <<>>
  PROVE  /\ Len(s) \in Nat \ {0} /\ DOMAIN s = 1..Len(s)
         /\ 1 \in DOMAIN s /\ Head(s) = s[1] /\ Head(s) \in S
         /\ Tail(s) \in Seq(S) /\ DOMAIN Tail(s) = 1..(Len(s) - 1)
         /\ \A i \in DOMAIN Tail(s) : i + 1 \in DOMAIN s /\ Tail(s)[i] = s[i + 1]
<1> QED
  OBVIOUS

\* The next node of the frontier: one at the limit is done with, another one is
\* scanned.
LEMMA PopStep ==
  ASSUME TraversalInv, Pop
  PROVE  TraversalInv'
<1> DEFINE f == walk.frontier
           node == Head(f)[1]
           dep == Head(f)[2]
<1>1. /\ walk.stage = "pop" /\ f # <<>>
      /\ walk' = [walk EXCEPT !.frontier = Tail(@), !.current = node, !.depth = dep, !.pos = 1,
                              !.stage = IF DepthReached(dep, walk.max_depth) THEN "pop" ELSE "scan"]
      /\ UNCHANGED <<nodes, edges, writer, base>>
  BY DEF Pop
<1>2. walk \in WalkRecord /\ f \in Seq(Nodes \X Nat) /\ walk.max_depth \in Nat
  BY DEF TraversalInv, TraversalTypeOK, WalkRecord
<1>3. /\ DOMAIN f = 1..Len(f) /\ Len(f) \in Nat \ {0} /\ 1 \in DOMAIN f /\ Head(f) = f[1]
      /\ node \in Nodes /\ dep \in Nat
      /\ Tail(f) \in Seq(Nodes \X Nat) /\ DOMAIN Tail(f) = 1..(Len(f) - 1)
      /\ \A i \in DOMAIN Tail(f) : i + 1 \in DOMAIN f /\ Tail(f)[i] = f[i + 1]
  BY <1>1, <1>2, HeadAndTail
<1>4. node = f[1][1] /\ dep = f[1][2]
  BY <1>3
<1> HIDE DEF node, dep
<1>5. /\ walk'.frontier = Tail(f) /\ walk'.current = node /\ walk'.depth = dep /\ walk'.pos = 1
      /\ walk'.stage = IF dep >= walk.max_depth THEN "pop" ELSE "scan"
      /\ walk'.start = walk.start /\ walk'.edge_types = walk.edge_types
      /\ walk'.direction = walk.direction /\ walk'.max_depth = walk.max_depth
      /\ walk'.visited = walk.visited /\ walk'.taken = walk.taken
  BY <1>1, <1>2 DEF WalkRecord, DepthReached
<1>6. walk' \in WalkRecord
  BY <1>1, <1>2, <1>3 DEF WalkRecord, Stages
<1> HIDE DEF f
<1>7. TraversalTypeOK'
  BY <1>1, <1>6 DEF TraversalInv, TraversalTypeOK, Listed
<1>8. TakenInv' /\ EdgesFitNodes' /\ FindsTheBall'
  BY <1>5 DEF TraversalInv, TakenInv, EdgesFitNodes, FindsTheBall
<1>9. LevelsInv'
  <2>1. walk.max_depth # 0
    BY <1>1 DEF TraversalInv, LevelsInv
  <2>2. PICK level \in [walk.visited -> 0..walk.max_depth] : Labelled(level)
    BY <1>1 DEF TraversalInv, LevelsInv
  <2>3. \A n \in walk.visited : level[n] \in Nat /\ level[n] <= walk.max_depth
    BY <1>2
  <2>4. /\ \A i \in DOMAIN f : f[i][1] \in walk.visited /\ f[i][2] = level[f[i][1]]
        /\ \A i, j \in DOMAIN f : i < j => f[i][2] <= f[j][2]
        /\ \A i \in DOMAIN f : \A n \in walk.visited : level[n] <= f[i][2] + 1
    BY <2>2 DEF Labelled, FrontierLabelled, f
  <2>5. node \in walk.visited /\ dep = level[node]
    BY <1>3, <1>4, <2>4
  <2>6. FrontierLabelled(level)'
    <3>1. \A i \in DOMAIN Tail(f) :
             Tail(f)[i][1] \in walk.visited /\ Tail(f)[i][2] = level[Tail(f)[i][1]]
      BY <1>3, <2>4
    <3>2. ASSUME NEW i \in DOMAIN Tail(f), NEW j \in DOMAIN Tail(f), i < j
          PROVE  Tail(f)[i][2] <= Tail(f)[j][2]
      <4>1. i + 1 \in DOMAIN f /\ j + 1 \in DOMAIN f /\ i + 1 < j + 1
        BY <1>3, <3>2
      <4> QED
        BY <1>3, <2>4, <4>1
    <3>3. \A i \in DOMAIN Tail(f) : \A n \in walk.visited : level[n] <= Tail(f)[i][2] + 1
      BY <1>3, <2>4
    <3> QED
      BY <1>5, <3>1, <3>2, <3>3 DEF FrontierLabelled
  <2>7. ScanLabelled(level)'
    <3>1. SUFFICES ASSUME walk'.stage = "scan"
                   PROVE  /\ dep < walk.max_depth
                          /\ \A i \in DOMAIN Tail(f) : dep <= Tail(f)[i][2]
                          /\ \A n \in walk.visited : level[n] <= dep + 1
                          /\ 1 \in 1..(Len(edges) + 1)
                          /\ \A p \in 1..(1 - 1) : FALSE
      BY <1>1, <1>5, <2>5 DEF ScanLabelled
    <3>2. dep < walk.max_depth
      BY <1>2, <1>3, <1>5, <3>1
    <3>3. ASSUME NEW i \in DOMAIN Tail(f) PROVE dep <= Tail(f)[i][2]
      <4>1. i + 1 \in DOMAIN f /\ 1 < i + 1 /\ Tail(f)[i] = f[i + 1]
        BY <1>3
      <4> QED
        BY <1>3, <1>4, <2>4, <4>1
    <3>4. \A n \in walk.visited : level[n] <= dep + 1
      BY <1>3, <1>4, <2>4
    <3>5. Len(edges) \in Nat
      BY DEF TraversalInv, TraversalTypeOK
    <3> QED
      BY <3>2, <3>3, <3>4, <3>5
  <2>8. HonestlyLabelled(level)'
    BY <1>1, <1>5, <2>2 DEF Labelled, HonestlyLabelled, Ball
  <2>9. SettledBy(level)'
    <3> SUFFICES ASSUME NEW n \in walk.visited, ~ Pending(n)', level[n] < walk.max_depth, NEW e \in base
                 PROVE  Followed(e, n, level)'
      BY <1>1, <1>5 DEF SettledBy
    <3>1. n # node
      <4> SUFFICES ASSUME n = node PROVE FALSE
        OBVIOUS
      <4>1. walk'.stage = "scan"
        BY <1>2, <1>3, <1>5, <2>5
      <4> QED
        BY <1>5, <4>1 DEF Pending
    <3>2. ~ Pending(n)
      <4> SUFFICES ASSUME NEW i \in DOMAIN f, f[i][1] = n PROVE FALSE
        BY <1>1 DEF Pending, f
      <4>1. i # 1
        BY <1>4, <3>1
      <4>2. i - 1 \in DOMAIN Tail(f) /\ (i - 1) + 1 = i
        BY <1>3, <4>1
      <4>3. Tail(f)[i - 1][1] = n
        BY <1>3, <4>2
      <4> QED
        BY <1>5, <4>2, <4>3 DEF Pending
    <3>3. Followed(e, n, level)
      BY <2>2, <3>2 DEF Labelled, SettledBy
    <3> QED
      BY <1>5, <3>3 DEF Followed, Listed
  <2>10. Labelled(level)'
    BY <1>5, <2>2, <2>6, <2>7, <2>8, <2>9 DEF Labelled
  <2> QED
    BY <1>5, <2>1, <2>10 DEF LevelsInv
<1> QED
  BY <1>7, <1>8, <1>9 DEF TraversalInv

\* What has been followed stays so while more is visited and taken.
LEMMA FollowedStays ==
  ASSUME NEW e, NEW n \in walk.visited, NEW level, NEW new, Followed(e, n, level),
         walk'.edge_types = walk.edge_types, walk'.direction = walk.direction,
         walk.visited \subseteq walk'.visited,
         Listed(walk.taken) \subseteq Listed(walk'.taken),
         \A m \in walk.visited : new[m] = level[m]
  PROVE  Followed(e, n, new)'
<1> SUFFICES ASSUME Allows(walk.edge_types, e), NEW m \in Neighbor(e, n, walk.direction)
             PROVE  m \in walk'.visited /\ new[m] <= new[n] + 1 /\ e \in Listed(walk'.taken)
  BY DEF Followed
<1>1. m \in walk.visited /\ level[m] <= level[n] + 1 /\ e \in Listed(walk.taken)
  BY DEF Followed
<1> QED
  BY <1>1

\* An edge that leads nowhere from the current node, or is not asked for.
LEMMA SkipStep ==
  ASSUME TraversalInv, walk.stage = "scan", walk.pos <= Len(edges),
         ~ Allows(walk.edge_types, edges[walk.pos])
            \/ Neighbor(edges[walk.pos], walk.current, walk.direction) = {},
         walk' = [walk EXCEPT !.pos = @ + 1], UNCHANGED <<nodes, edges, writer, base>>
  PROVE  TraversalInv'
<1>1. walk \in WalkRecord /\ edges \in Seq(Edge) /\ Len(edges) \in Nat
  BY DEF TraversalInv, TraversalTypeOK
<1>2. /\ walk'.pos = walk.pos + 1 /\ walk.pos \in Nat /\ walk'.stage = "scan" /\ walk'.start = walk.start
      /\ walk'.edge_types = walk.edge_types /\ walk'.direction = walk.direction
      /\ walk'.max_depth = walk.max_depth /\ walk'.frontier = walk.frontier
      /\ walk'.current = walk.current /\ walk'.depth = walk.depth
      /\ walk'.visited = walk.visited /\ walk'.taken = walk.taken
  BY <1>1 DEF WalkRecord
<1>3. walk' \in WalkRecord
  <2>1. walk.pos + 1 \in Nat
    BY <1>2
  <2> QED
    BY <1>1, <2>1 DEF WalkRecord
<1>4. TraversalTypeOK'
  BY <1>3 DEF TraversalInv, TraversalTypeOK, Listed
<1>5. TakenInv' /\ EdgesFitNodes' /\ FindsTheBall'
  BY <1>2 DEF TraversalInv, TakenInv, EdgesFitNodes, FindsTheBall
<1>6. LevelsInv'
  <2>1. walk.max_depth # 0
    BY DEF TraversalInv, LevelsInv
  <2>2. PICK level \in [walk.visited -> 0..walk.max_depth] : Labelled(level)
    BY DEF TraversalInv, LevelsInv
  <2>3. FrontierLabelled(level)' /\ HonestlyLabelled(level)'
    BY <1>2, <2>2 DEF Labelled, FrontierLabelled, HonestlyLabelled, Ball
  <2>4. \A e, n : Followed(e, n, level)' <=> Followed(e, n, level)
    BY <1>2 DEF Followed, Listed
  <2>5. SettledBy(level)'
    BY <1>2, <2>2, <2>4 DEF Labelled, SettledBy, Pending
  <2>6. ScanLabelled(level)'
    <3>1. /\ walk.current \in walk.visited
          /\ walk.depth = level[walk.current]
          /\ walk.depth < walk.max_depth
          /\ \A i \in DOMAIN walk.frontier : walk.depth <= walk.frontier[i][2]
          /\ \A n \in walk.visited : level[n] <= walk.depth + 1
          /\ walk.pos \in 1..(Len(edges) + 1)
          /\ \A p \in 1..(walk.pos - 1) : Followed(edges[p], walk.current, level)
      BY <2>2 DEF Labelled, ScanLabelled
    <3>2. Followed(edges[walk.pos], walk.current, level)
      BY DEF Followed
    <3>3. walk'.pos \in 1..(Len(edges) + 1)
      BY <1>1, <1>2, <3>1
    <3>4. \A p \in 1..(walk'.pos - 1) : Followed(edges[p], walk.current, level)
      <4>1. \A p \in 1..(walk'.pos - 1) : p = walk.pos \/ p \in 1..(walk.pos - 1)
        BY <1>2
      <4> QED
        BY <3>1, <3>2, <4>1
    <3> QED
      BY <1>2, <2>4, <3>1, <3>3, <3>4 DEF ScanLabelled
  <2>7. Labelled(level)'
    BY <1>2, <2>2, <2>3, <2>5, <2>6 DEF Labelled
  <2> QED
    BY <1>2, <2>1, <2>7 DEF LevelsInv
<1> QED
  BY <1>4, <1>5, <1>6 DEF TraversalInv

\* The seen keys: an edge is in the list of reported ones once.
LEMMA TakeEdgeProperties ==
  ASSUME NEW taken \in Seq(Edge), NEW e \in Edge,
         \A i, j \in DOMAIN taken : taken[i] = taken[j] => i = j
  PROVE  /\ TakeEdge(taken, e) \in Seq(Edge)
         /\ Listed(TakeEdge(taken, e)) = Listed(taken) \cup {e}
         /\ \A i, j \in DOMAIN TakeEdge(taken, e) :
               TakeEdge(taken, e)[i] = TakeEdge(taken, e)[j] => i = j
<1>1. CASE e \in Listed(taken)
  <2>1. TakeEdge(taken, e) = taken
    BY <1>1 DEF TakeEdge
  <2> QED
    BY <1>1, <2>1
<1>2. CASE e \notin Listed(taken)
  <2> DEFINE t == Append(taken, e)
  <2>1. TakeEdge(taken, e) = t
    BY <1>2 DEF TakeEdge
  <2>2. /\ t \in Seq(Edge) /\ Len(taken) \in Nat /\ DOMAIN taken = 1..Len(taken)
        /\ DOMAIN t = 1..(Len(taken) + 1)
        /\ t[Len(taken) + 1] = e /\ \A i \in 1..Len(taken) : t[i] = taken[i]
    OBVIOUS
  <2> HIDE DEF t
  <2>3. \A i \in DOMAIN t : i = Len(taken) + 1 \/ i \in DOMAIN taken
    BY <2>2
  <2>4. \A i \in DOMAIN taken : taken[i] # e
    BY <1>2 DEF Listed
  <2>5. \A i, j \in DOMAIN t : t[i] = t[j] => i = j
    BY <2>2, <2>3, <2>4
  <2>6. Listed(t) = Listed(taken) \cup {e}
    <3>1. Len(taken) + 1 \in DOMAIN t /\ \A i \in DOMAIN taken : i \in DOMAIN t
      BY <2>2
    <3> QED
      BY <2>2, <2>3, <3>1 DEF Listed
  <2> QED
    BY <2>1, <2>2, <2>5, <2>6
<1> QED
  BY <1>1, <1>2

\* One more element at the end of a list.
LEMMA AppendProperties ==
  ASSUME NEW S, NEW s \in Seq(S), NEW x \in S
  PROVE  /\ Append(s, x) \in Seq(S) /\ Len(s) \in Nat /\ DOMAIN s = 1..Len(s)
         /\ DOMAIN Append(s, x) = 1..(Len(s) + 1)
         /\ Append(s, x)[Len(s) + 1] = x
         /\ \A i \in DOMAIN s : Append(s, x)[i] = s[i]
<1> QED
  OBVIOUS

\* An edge to a node seen before, or to a new one, which gets the next depth.
LEMMA MeetStep ==
  ASSUME TraversalInv, walk.stage = "scan", walk.pos <= Len(edges),
         Allows(walk.edge_types, edges[walk.pos]),
         NEW node \in Neighbor(edges[walk.pos], walk.current, walk.direction),
         walk' = Meet(walk, edges[walk.pos], node), UNCHANGED <<nodes, edges, writer, base>>
  PROVE  TraversalInv'
<1>0. PICK e : e = edges[walk.pos]
  OBVIOUS
<1> DEFINE f == walk.frontier
           met == Append(f, <<node, walk.depth + 1>>)
<1>1. /\ walk \in WalkRecord /\ edges \in Seq(Edge) /\ Len(edges) \in Nat /\ DOMAIN edges = 1..Len(edges)
      /\ walk.max_depth \in Nat /\ f \in Seq(Nodes \X Nat) /\ walk.depth \in Nat /\ walk.pos \in Nat
      /\ walk.taken \in Seq(Edge) /\ walk.visited \in SUBSET Nodes
  BY DEF TraversalInv, TraversalTypeOK, WalkRecord
<1>2. walk.max_depth # 0
  BY DEF TraversalInv, LevelsInv
<1>3. PICK level \in [walk.visited -> 0..walk.max_depth] : Labelled(level)
  BY DEF TraversalInv, LevelsInv
<1>4. /\ walk.current \in walk.visited
      /\ walk.depth = level[walk.current]
      /\ walk.depth < walk.max_depth
      /\ \A i \in DOMAIN f : walk.depth <= f[i][2]
      /\ \A n \in walk.visited : level[n] <= walk.depth + 1
      /\ walk.pos \in 1..(Len(edges) + 1)
      /\ \A p \in 1..(walk.pos - 1) : Followed(edges[p], walk.current, level)
  BY <1>3 DEF Labelled, ScanLabelled
<1>5. walk.pos \in DOMAIN edges /\ e \in Edge /\ e \in Listed(edges)
  <2>1. walk.pos \in DOMAIN edges
    BY <1>1, <1>4
  <2> QED
    BY <1>0, <1>1, <2>1 DEF Listed
<1>6. /\ node \in Nodes
      /\ {e.source_id, e.target_id} = {walk.current, node}
      /\ \A m \in Neighbor(e, walk.current, walk.direction) : m = node
  <2>1. e.source_id \in Nodes /\ e.target_id \in Nodes
    BY <1>5 DEF Edge
  <2>2. node \in Neighbor(e, walk.current, walk.direction)
    BY <1>0
  <2> QED
    BY <2>1, <2>2 DEF Neighbor
<1>7. /\ walk'.pos = walk.pos + 1 /\ walk'.taken = TakeEdge(walk.taken, e)
      /\ walk'.visited = walk.visited \cup {node}
      /\ walk'.frontier = IF node \in walk.visited THEN f ELSE met
      /\ walk'.stage = "scan" /\ walk'.start = walk.start
      /\ walk'.edge_types = walk.edge_types /\ walk'.direction = walk.direction
      /\ walk'.max_depth = walk.max_depth
      /\ walk'.current = walk.current /\ walk'.depth = walk.depth
  BY <1>0, <1>1 DEF WalkRecord, Meet, Enqueue
<1>8. /\ TakeEdge(walk.taken, e) \in Seq(Edge)
      /\ Listed(TakeEdge(walk.taken, e)) = Listed(walk.taken) \cup {e}
      /\ \A i, j \in DOMAIN TakeEdge(walk.taken, e) :
            TakeEdge(walk.taken, e)[i] = TakeEdge(walk.taken, e)[j] => i = j
  BY <1>1, <1>5, TakeEdgeProperties DEF TraversalInv, TakenInv
<1>9. /\ met \in Seq(Nodes \X Nat) /\ Len(f) \in Nat /\ DOMAIN f = 1..Len(f)
      /\ DOMAIN met = 1..(Len(f) + 1)
      /\ met[Len(f) + 1][1] = node /\ met[Len(f) + 1][2] = walk.depth + 1
      /\ \A i \in DOMAIN f : met[i] = f[i]
  <2>1. <<node, walk.depth + 1>> \in Nodes \X Nat
    BY <1>1, <1>6
  <2>2. f \in Seq(Nodes \X Nat)
    BY <1>1
  <2> HIDE DEF f
  <2>3. /\ met \in Seq(Nodes \X Nat) /\ Len(f) \in Nat /\ DOMAIN f = 1..Len(f)
        /\ DOMAIN met = 1..(Len(f) + 1)
        /\ met[Len(f) + 1] = <<node, walk.depth + 1>>
        /\ \A i \in DOMAIN f : met[i] = f[i]
    BY <2>1, <2>2, AppendProperties
  <2> QED
    BY <2>3
<1> HIDE DEF met
<1>10. TraversalTypeOK'
  <2>1. walk' = [walk EXCEPT !.pos = walk.pos + 1, !.taken = walk'.taken, !.visited = walk'.visited,
                             !.frontier = walk'.frontier]
    BY <1>0, <1>7 DEF Meet, Enqueue, met
  <2>2. /\ walk.pos + 1 \in Nat /\ walk'.taken \in Seq(Edge) /\ walk'.visited \in SUBSET Nodes
        /\ walk'.frontier \in Seq(Nodes \X Nat)
    <3>1. walk.pos + 1 \in Nat
      BY <1>1
    <3>2. walk'.taken \in Seq(Edge)
      BY <1>7, <1>8
    <3>3. walk'.visited \in SUBSET Nodes
      BY <1>1, <1>6, <1>7
    <3>4. walk'.frontier \in Seq(Nodes \X Nat)
      BY <1>1, <1>7, <1>9
    <3> QED
      BY <3>1, <3>2, <3>3, <3>4
  <2>3. walk' \in WalkRecord
    BY <1>1, <2>1, <2>2 DEF WalkRecord
  <2> QED
    BY <2>3 DEF TraversalInv, TraversalTypeOK, Listed
<1>11. TakenInv'
  <2>1. ASSUME NEW i \in DOMAIN walk'.taken
        PROVE  {walk'.taken[i].source_id, walk'.taken[i].target_id} \subseteq walk'.visited
    <3>1. walk'.taken[i] \in Listed(walk.taken) \cup {e}
      BY <1>7, <1>8 DEF Listed
    <3>2. CASE walk'.taken[i] = e
      BY <1>4, <1>6, <1>7, <3>2
    <3>3. CASE walk'.taken[i] \in Listed(walk.taken)
      BY <1>7, <3>3 DEF TraversalInv, TakenInv, Listed
    <3> QED
      BY <3>1, <3>2, <3>3
  <2>2. \A i, j \in DOMAIN walk'.taken : walk'.taken[i] = walk'.taken[j] => i = j
    BY <1>7, <1>8
  <2> QED
    BY <2>1, <2>2 DEF TakenInv
<1>12. EdgesFitNodes' /\ FindsTheBall'
  BY <1>7, <1>11 DEF TakenInv, EdgesFitNodes, FindsTheBall
<1>13. LevelsInv'
  <2>0. PICK new : new = [n \in walk.visited \cup {node} |->
                            IF n \in walk.visited THEN level[n] ELSE walk.depth + 1]
    OBVIOUS
  <2>1. new \in [walk'.visited -> 0..walk'.max_depth]
    BY <1>1, <1>4, <1>7, <2>0
  <2>2. /\ \A n \in walk.visited : new[n] = level[n] /\ level[n] \in Nat
        /\ node \notin walk.visited => new[node] = walk.depth + 1
    BY <1>1, <2>0
  <2>c. PICK c : c = walk.current
    OBVIOUS
  <2>3. /\ \A i \in DOMAIN f : f[i][1] \in walk.visited /\ f[i][2] = level[f[i][1]]
        /\ \A i, j \in DOMAIN f : i < j => f[i][2] <= f[j][2]
        /\ \A i \in DOMAIN f : \A n \in walk.visited : level[n] <= f[i][2] + 1
    BY <1>3 DEF Labelled, FrontierLabelled
  <2>4. \A n \in walk'.visited : new[n] \in Nat /\ new[n] <= walk.depth + 1
    BY <1>1, <1>4, <1>7, <2>2
  <2>5. /\ \A i \in DOMAIN f : f[i][2] \in Nat /\ f[i][2] <= walk.depth + 1
        /\ \A i \in DOMAIN f : f[i][1] \in walk'.visited /\ f[i][2] = new[f[i][1]]
        /\ \A i \in DOMAIN f : \A n \in walk'.visited : new[n] <= f[i][2] + 1
    <3>1. \A i \in DOMAIN f : /\ f[i][1] \in walk.visited /\ f[i][2] = level[f[i][1]]
                              /\ f[i][2] \in Nat /\ f[i][2] <= walk.depth + 1
      BY <1>4, <2>2, <2>3
    <3>2. \A i \in DOMAIN f : f[i][1] \in walk'.visited /\ f[i][2] = new[f[i][1]]
      BY <1>7, <2>2, <3>1
    <3>3. ASSUME NEW i \in DOMAIN f, NEW n \in walk'.visited PROVE new[n] <= f[i][2] + 1
      <4>1. walk.depth <= f[i][2] /\ f[i][2] \in Nat /\ new[n] \in Nat /\ new[n] <= walk.depth + 1
        BY <1>4, <2>4, <3>1
      <4>2. walk.depth \in Nat
        BY <1>1
      <4> QED
        BY <4>1, <4>2
    <3> QED
      BY <3>1, <3>2, <3>3
  <2>6. FrontierLabelled(new)' /\ \A i \in DOMAIN walk'.frontier : walk.depth <= walk'.frontier[i][2]
    <3>1. CASE node \in walk.visited
      <4>1. walk'.frontier = f
        BY <1>7, <3>1
      <4> QED
        BY <1>4, <2>3, <2>5, <4>1 DEF FrontierLabelled
    <3>2. CASE node \notin walk.visited
      <4>1. walk'.frontier = met
        BY <1>7, <3>2
      <4>2. \A i \in DOMAIN met : i = Len(f) + 1 \/ i \in DOMAIN f
        BY <1>9
      <4>3. ASSUME NEW i \in DOMAIN met PROVE met[i][1] \in walk'.visited /\ met[i][2] = new[met[i][1]]
        <5>1. CASE i \in DOMAIN f
          <6>1. met[i] = f[i]
            BY <1>9, <5>1
          <6> QED
            BY <2>5, <5>1, <6>1
        <5>2. CASE i = Len(f) + 1
          <6>1. met[i][1] = node /\ met[i][2] = walk.depth + 1
            BY <1>9, <5>2
          <6> QED
            BY <1>7, <2>2, <3>2, <6>1
        <5> QED
          BY <4>2, <5>1, <5>2
      <4>4. ASSUME NEW i \in DOMAIN met, NEW j \in DOMAIN met, i < j PROVE met[i][2] <= met[j][2]
        <5>1. i \in DOMAIN f
          BY <1>9, <4>4
        <5>2. CASE j \in DOMAIN f
          BY <1>9, <2>3, <4>4, <5>1, <5>2
        <5>3. CASE j = Len(f) + 1
          BY <1>9, <2>5, <5>1, <5>3
        <5> QED
          BY <4>2, <5>2, <5>3
      <4>5. ASSUME NEW i \in DOMAIN met, NEW n \in walk'.visited PROVE new[n] <= met[i][2] + 1
        <5>1. CASE i \in DOMAIN f
          <6>1. met[i] = f[i]
            BY <1>9, <5>1
          <6> QED
            BY <2>5, <5>1, <6>1
        <5>2. CASE i = Len(f) + 1
          <6>1. met[i][2] = walk.depth + 1
            BY <1>9, <5>2
          <6> QED
            BY <1>1, <2>4, <6>1
        <5> QED
          BY <4>2, <5>1, <5>2
      <4>6. \A i \in DOMAIN met : walk.depth <= met[i][2]
        BY <1>1, <1>4, <1>9, <4>2
      <4> QED
        BY <4>1, <4>3, <4>4, <4>5, <4>6 DEF FrontierLabelled
    <3> QED
      BY <3>1, <3>2
  <2>7. /\ walk.visited \subseteq walk'.visited /\ Listed(walk.taken) \subseteq Listed(walk'.taken)
        /\ e \in Listed(walk'.taken) /\ node \in walk'.visited
    BY <1>7, <1>8
  <2>8. ASSUME NEW x, NEW n \in walk.visited, Followed(x, n, level) PROVE Followed(x, n, new)'
    BY <1>7, <2>2, <2>7, <2>8, FollowedStays
  <2>9. ScanLabelled(new)'
    <3>1. Followed(e, c, new)'
      BY <2>c, <1>4, <1>6, <1>7, <2>2, <2>4, <2>7 DEF Followed
    <3>2. ASSUME NEW p \in 1..(walk'.pos - 1) PROVE Followed(edges[p], c, new)'
      <4>1. CASE p = walk.pos
        BY <1>0, <3>1, <4>1
      <4>2. CASE p # walk.pos
        <5>1. p \in 1..(walk.pos - 1)
          BY <1>1, <1>7, <4>2
        <5>2. PICK x : x = edges[p]
          OBVIOUS
        <5>3. Followed(x, c, level) /\ c \in walk.visited
          BY <1>4, <2>c, <5>1, <5>2
        <5>4. Followed(x, c, new)'
          BY <2>8, <5>3
        <5> QED
          BY <5>2, <5>4
      <4> QED
        BY <4>1, <4>2
    <3>3. walk'.pos \in 1..(Len(edges) + 1)
      BY <1>1, <1>7
    <3>4. walk.depth = new[walk.current] /\ walk.current \in walk'.visited
      BY <1>4, <2>2, <2>7
    <3> QED
      BY <1>4, <1>7, <2>c, <2>4, <2>6, <3>2, <3>3, <3>4 DEF ScanLabelled
  <2>10. HonestlyLabelled(new)'
    <3>1. ASSUME NEW n \in walk'.visited PROVE n \in Ball(Listed(edges), new[n])
      <4>1. CASE n \in walk.visited
        BY <1>3, <2>2, <4>1 DEF Labelled, HonestlyLabelled
      <4>2. CASE n \notin walk.visited
        <5>1. n = node /\ new[n] = walk.depth + 1
          BY <1>7, <2>2, <4>2
        <5>2. walk.current \in Ball(Listed(edges), walk.depth)
          BY <1>3, <1>4 DEF Labelled, HonestlyLabelled
        <5>3. node \in Ball(Listed(edges), walk.depth + 1)
          BY <1>1, <1>5, <5>2, <1>0, BallStep DEF Ball
        <5> QED
          BY <5>1, <5>3
      <4> QED
        BY <4>1, <4>2
    <3> QED
      BY <1>7, <3>1 DEF HonestlyLabelled, Ball
  <2>11. SettledBy(new)'
    <3> SUFFICES ASSUME NEW n \in walk'.visited, ~ Pending(n)', new[n] < walk.max_depth, NEW x \in base
                 PROVE  Followed(x, n, new)'
      BY <1>7 DEF SettledBy
    <3>1. n \in walk.visited
      <4> SUFFICES ASSUME n \notin walk.visited PROVE FALSE
        OBVIOUS
      <4>1. n = node /\ walk'.frontier = met
        BY <1>7
      <4>2. Len(f) + 1 \in DOMAIN met /\ met[Len(f) + 1][1] = node
        BY <1>9
      <4> QED
        BY <4>1, <4>2 DEF Pending
    <3>2. ~ Pending(n)
      <4>0. \A i \in DOMAIN f : i \in DOMAIN met /\ met[i] = f[i]
        BY <1>9
      <4>1. \A i \in DOMAIN f : i \in DOMAIN walk'.frontier /\ walk'.frontier[i] = f[i]
        BY <1>7, <4>0
      <4> QED
        BY <1>7, <4>1 DEF Pending
    <3>3. Followed(x, n, level)
      BY <1>3, <2>2, <3>1, <3>2 DEF Labelled, SettledBy
    <3> QED
      BY <2>8, <3>1, <3>3
  <2>12. Labelled(new)'
    BY <1>3, <1>7, <2>2, <2>6, <2>9, <2>10, <2>11 DEF Labelled
  <2> QED
    BY <1>2, <1>7, <2>1, <2>12 DEF LevelsInv
<1> QED
  BY <1>10, <1>11, <1>12, <1>13 DEF TraversalInv

\* One turn of the loop over the list.
LEMMA ScanStep ==
  ASSUME TraversalInv, Scan
  PROVE  TraversalInv'
<1> DEFINE e == edges[walk.pos]
           found == IF Allows(walk.edge_types, e) THEN Neighbor(e, walk.current, walk.direction) ELSE {}
<1>1. /\ walk.stage = "scan" /\ walk.pos <= Len(edges) /\ UNCHANGED <<nodes, edges, writer, base>>
      /\ \/ found = {} /\ walk' = [walk EXCEPT !.pos = @ + 1]
         \/ \E node \in found : walk' = Meet(walk, e, node)
  BY DEF Scan
<1>2. CASE found = {} /\ walk' = [walk EXCEPT !.pos = @ + 1]
  BY <1>1, <1>2, SkipStep
<1>3. CASE \E node \in found : walk' = Meet(walk, e, node)
  <2>1. PICK node \in found : walk' = Meet(walk, e, node)
    BY <1>3
  <2>2. Allows(walk.edge_types, e) /\ node \in Neighbor(e, walk.current, walk.direction)
    OBVIOUS
  <2> QED
    BY <1>1, <2>1, <2>2, MeetStep
<1> QED
  BY <1>1, <1>2, <1>3

\* The list is through: the current node is settled.
LEMMA EndScanStep ==
  ASSUME TraversalInv, EndScan
  PROVE  TraversalInv'
<1>1. /\ walk.stage = "scan" /\ walk.pos > Len(edges) /\ walk' = [walk EXCEPT !.stage = "pop"]
      /\ UNCHANGED <<nodes, edges, writer, base>>
  BY DEF EndScan
<1>2. /\ walk \in WalkRecord /\ edges \in Seq(Edge) /\ Len(edges) \in Nat /\ DOMAIN edges = 1..Len(edges)
      /\ base \subseteq Listed(edges) /\ walk.pos \in Nat
  BY DEF TraversalInv, TraversalTypeOK, WalkRecord
<1>3. /\ walk'.pos = walk.pos /\ walk'.stage = "pop" /\ walk'.start = walk.start
      /\ walk'.edge_types = walk.edge_types /\ walk'.direction = walk.direction
      /\ walk'.max_depth = walk.max_depth /\ walk'.frontier = walk.frontier
      /\ walk'.visited = walk.visited /\ walk'.taken = walk.taken
  BY <1>1, <1>2 DEF WalkRecord
<1>4. walk' \in WalkRecord
  BY <1>1, <1>2 DEF WalkRecord, Stages
<1>5. TraversalTypeOK'
  BY <1>1, <1>4 DEF TraversalInv, TraversalTypeOK, Listed
<1>6. TakenInv' /\ EdgesFitNodes' /\ FindsTheBall'
  BY <1>3 DEF TraversalInv, TakenInv, EdgesFitNodes, FindsTheBall
<1>7. LevelsInv'
  <2>1. walk.max_depth # 0
    BY <1>1 DEF TraversalInv, LevelsInv
  <2>2. PICK level \in [walk.visited -> 0..walk.max_depth] : Labelled(level)
    BY <1>1 DEF TraversalInv, LevelsInv
  <2>3. FrontierLabelled(level)' /\ HonestlyLabelled(level)' /\ ScanLabelled(level)'
    BY <1>1, <1>3, <2>2 DEF Labelled, FrontierLabelled, HonestlyLabelled, ScanLabelled, Ball
  <2>4. \A e, n : Followed(e, n, level)' <=> Followed(e, n, level)
    BY <1>3 DEF Followed, Listed
  <2>5. \A e \in base : Followed(e, walk.current, level)
    <3>1. /\ walk.pos \in 1..(Len(edges) + 1)
          /\ \A p \in 1..(walk.pos - 1) : Followed(edges[p], walk.current, level)
      BY <1>1, <2>2 DEF Labelled, ScanLabelled
    <3>2. \A p \in DOMAIN edges : p \in 1..(walk.pos - 1)
      BY <1>1, <1>2, <3>1
    <3> QED
      BY <1>2, <3>1, <3>2 DEF Listed
  <2>6. SettledBy(level)'
    <3> SUFFICES ASSUME NEW n \in walk.visited, ~ Pending(n)', level[n] < walk.max_depth, NEW e \in base
                 PROVE  Followed(e, n, level)
      BY <1>1, <1>3, <2>4 DEF SettledBy
    <3>1. CASE n = walk.current
      BY <2>5, <3>1
    <3>2. CASE n # walk.current
      <4>1. ~ Pending(n)
        BY <1>3, <3>2 DEF Pending
      <4> QED
        BY <2>2, <4>1 DEF Labelled, SettledBy
    <3> QED
      BY <3>1, <3>2
  <2>7. Labelled(level)'
    BY <1>3, <2>2, <2>3, <2>6 DEF Labelled
  <2> QED
    BY <1>3, <2>1, <2>7 DEF LevelsInv
<1> QED
  BY <1>5, <1>6, <1>7 DEF TraversalInv

\* With nothing pending, the traversal has met every node of the ball over the edges of
\* the beginning, no deeper than it is.
LEMMA NothingMissed ==
  ASSUME TraversalTypeOK, NEW level \in [walk.visited -> 0..walk.max_depth], Labelled(level),
         \A n \in walk.visited : ~ Pending(n)
  PROVE  \A d \in 0..walk.max_depth : \A n \in Ball(base, d) : n \in walk.visited /\ level[n] <= d
<1> DEFINE T == {d \in Nat : d <= walk.max_depth =>
                    \A n \in Ball(base, d) : n \in walk.visited /\ level[n] <= d}
<1>1. walk.max_depth \in Nat
  BY DEF TraversalTypeOK, WalkRecord
<1>2. \A n \in walk.visited : level[n] \in Nat
  BY <1>1
<1>3. 0 \in T
  <2>1. Ball(base, 0) = {walk.start}
    BY BallZero DEF Ball
  <2> QED
    BY <2>1 DEF Labelled
<1>4. ASSUME NEW d \in T PROVE d + 1 \in T
  <2> SUFFICES ASSUME d + 1 <= walk.max_depth, NEW m \in Ball(base, d + 1)
               PROVE  m \in walk.visited /\ level[m] <= d + 1
    OBVIOUS
  <2>1. d \in Nat /\ \A n \in Ball(base, d) : n \in walk.visited /\ level[n] <= d
    BY <1>1
  <2>2. CASE m \in Ball(base, d)
    BY <1>2, <2>1, <2>2
  <2>3. CASE m \notin Ball(base, d)
    <3>1. PICK n \in Ball(base, d) : \E e \in base :
             Allows(walk.edge_types, e) /\ m \in Neighbor(e, n, walk.direction)
      BY <2>1, <2>3, BallStepBack DEF Ball
    <3>2. PICK e \in base : Allows(walk.edge_types, e) /\ m \in Neighbor(e, n, walk.direction)
      BY <3>1
    <3>3. n \in walk.visited /\ level[n] <= d /\ level[n] \in Nat
      BY <1>2, <2>1
    <3>4. level[n] < walk.max_depth
      BY <1>1, <2>1, <3>3
    <3>5. Followed(e, n, level)
      BY <3>3, <3>4 DEF Labelled, SettledBy
    <3>6. m \in walk.visited /\ level[m] <= level[n] + 1
      BY <3>2, <3>5 DEF Followed
    <3> QED
      BY <1>2, <2>1, <3>3, <3>6
  <2> QED
    BY <2>2, <2>3
<1>5. T = Nat
  <2>1. T \in SUBSET Nat
    OBVIOUS
  <2> HIDE DEF T
  <2> QED
    BY <1>3, <1>4, <2>1, Induction
<1>6. ASSUME NEW d \in 0..walk.max_depth
      PROVE  \A n \in Ball(base, d) : n \in walk.visited /\ level[n] <= d
  <2>1. d \in Nat /\ d <= walk.max_depth
    BY <1>1
  <2>2. d \in T
    BY <1>5, <2>1
  <2> QED
    BY <2>1, <2>2
<1> QED
  BY <1>6

\* The frontier is empty.
LEMMA FinishStep ==
  ASSUME TraversalInv, Finish
  PROVE  TraversalInv'
<1>1. /\ walk.stage = "pop" /\ walk.frontier = <<>> /\ walk' = [walk EXCEPT !.stage = "done"]
      /\ UNCHANGED <<nodes, edges, writer, base>>
  BY DEF Finish
<1>2. walk \in WalkRecord /\ walk.max_depth \in Nat
  BY DEF TraversalInv, TraversalTypeOK, WalkRecord
<1>3. /\ walk'.stage = "done" /\ walk'.start = walk.start
      /\ walk'.edge_types = walk.edge_types /\ walk'.direction = walk.direction
      /\ walk'.max_depth = walk.max_depth
      /\ walk'.visited = walk.visited /\ walk'.taken = walk.taken
  BY <1>1, <1>2 DEF WalkRecord
<1>4. walk' \in WalkRecord
  BY <1>1, <1>2 DEF WalkRecord, Stages
<1>5. TraversalTypeOK' /\ TakenInv' /\ LevelsInv'
  BY <1>1, <1>3, <1>4 DEF TraversalInv, TraversalTypeOK, TakenInv, LevelsInv, Listed
<1>6. walk.max_depth # 0
  BY <1>1 DEF TraversalInv, LevelsInv
<1>7. PICK level \in [walk.visited -> 0..walk.max_depth] : Labelled(level)
  BY <1>1 DEF TraversalInv, LevelsInv
<1>8. \A n \in walk.visited : ~ Pending(n)
  BY <1>1 DEF Pending
<1>9. \A d \in 0..walk.max_depth : \A n \in Ball(base, d) : n \in walk.visited /\ level[n] <= d
  BY <1>7, <1>8, NothingMissed DEF TraversalInv
<1>10. walk.visited \subseteq Ball(Listed(edges), walk.max_depth)
  <2> SUFFICES ASSUME NEW n \in walk.visited PROVE n \in Ball(Listed(edges), walk.max_depth)
    OBVIOUS
  <2>1. level[n] \in Nat /\ level[n] <= walk.max_depth
    BY <1>2
  <2>2. n \in Ball(Listed(edges), level[n])
    BY <1>7 DEF Labelled, HonestlyLabelled
  <2> QED
    BY <1>2, <2>1, <2>2, BallGrows DEF Ball
<1>11. FindsTheBall'
  <2>1. Ball(base, walk.max_depth) \subseteq walk.visited
    BY <1>2, <1>9
  <2> QED
    BY <1>1, <1>3, <1>10, <2>1 DEF FindsTheBall, Ball
<1>12. EdgesFitNodes'
  <2>1. ASSUME NEW e \in base, NEW n \in Ball(base, walk.max_depth - 1),
               Allows(walk.edge_types, e), Neighbor(e, n, walk.direction) # {}
        PROVE  e \in Listed(walk.taken)
    <3>1. walk.max_depth - 1 \in 0..walk.max_depth
      BY <1>2, <1>6
    <3>2. n \in walk.visited /\ level[n] <= walk.max_depth - 1
      BY <1>9, <3>1
    <3>3. level[n] < walk.max_depth
      BY <1>2, <3>2
    <3>4. Followed(e, n, level)
      BY <1>7, <1>8, <3>2, <3>3 DEF Labelled, SettledBy
    <3> QED
      BY <2>1, <3>4 DEF Followed
  <2> QED
    BY <1>1, <1>3, <1>5, <2>1 DEF TakenInv, EdgesFitNodes, Ball, Listed
<1> QED
  BY <1>5, <1>11, <1>12 DEF TraversalInv

\* Every step of a traversal and of the writers.
LEMMA TraversalNext == TraversalInv /\ [Next]_vars => TraversalInv'
<1> SUFFICES ASSUME TraversalInv, [Next]_vars PROVE TraversalInv'
  OBVIOUS
<1> QED
  BY WriterStep, BeginStep, PopStep, ScanStep, EndScanStep, FinishStep DEF Next, Traverse

-----------------------------------------------------------------------------
(* The theorems on traversals *)

\* A traversal and the writers of edges beside it.
THEOREM TraversalsAreInOrder == StoreSpec => []TraversalInv
<1>1. StoreInit => TraversalInv
  BY TraversalInit DEF StoreInit
<1>2. TraversalInv /\ [Query \/ Search]_storeVars => TraversalInv'
  BY TraversalNext DEF Query, Search, storeVars
<1> QED
  BY <1>1, <1>2, PTL DEF StoreSpec

\* traverse returns every node within max_depth steps over the edges there were when it
\* began, and none beyond that many steps over the edges there are, whatever other
\* threads append to the list during the walk.
THEOREM TraverseFindsTheBall == StoreSpec => []FindsTheBall
<1>1. TraversalInv => FindsTheBall
  BY DEF TraversalInv
<1> QED
  BY <1>1, TraversalsAreInOrder, PTL

\* The edges traverse returns join nodes it returns, come once each although upsert_edge
\* may have stored one twice, and include every edge met on the way.
THEOREM TraverseReportsEdges == StoreSpec => []EdgesFitNodes
<1>1. TraversalInv => EdgesFitNodes
  BY DEF TraversalInv
<1> QED
  BY <1>1, TraversalsAreInOrder, PTL

-----------------------------------------------------------------------------
(* Searches *)

Kinds == {p.kind : p \in Payloads}

Texts == {p.text : p \in Payloads}

VectorRows == [id : NodeIds, text : Texts]

SearchRows == [node_id : NodeIds, kind : Kinds, score : Nat]

SearchTypeOK ==
  /\ DOMAIN payload \subseteq NodeIds /\ payload \in [DOMAIN payload -> Payloads]
  /\ vectors \in Seq(VectorRows)
  /\ upsert \in [NodeWriters -> {NoVector} \cup {<<v>> : v \in VectorRows}]
  /\ search \in [stage : {"idle", "scan", "done", "500"}, kind : SearchKinds, limit : Nat,
                 size : Nat, pos : Nat, scored : Seq(SearchRows)]
  /\ had \in [NodeIds -> [kinds : SUBSET Kinds, texts : SUBSET Texts]]

\* A node has one embedding at most; no embedding, stored or about to be, is without
\* its node.
VectorsInv ==
  /\ \A i, j \in DOMAIN vectors : vectors[i].id = vectors[j].id => i = j
  /\ \A i \in DOMAIN vectors : vectors[i].id \in DOMAIN payload
  /\ \A w \in NodeWriters : upsert[w] # NoVector => upsert[w][1].id \in DOMAIN payload

\* A row tells what its node was at some moment of the search, and is of the kind asked for.
Honest(row) ==
  /\ row.kind \in had[row.node_id].kinds
  /\ search.kind \in {NoKind, row.kind}
  /\ \E t \in had[row.node_id].texts : row.score = Score[t]

\* A node the loop is past has its row, or was of another kind.
Seen(id) ==
  \/ \E p \in DOMAIN search.scored : search.scored[p].node_id = id
  \/ search.kind # NoKind /\ \E k \in had[id].kinds : k # search.kind

\* While the loop runs.
SearchingInv ==
  Searching =>
     /\ 1 <= search.pos /\ search.pos <= search.size + 1
     /\ \A id \in DOMAIN payload : payload[id].kind \in had[id].kinds
     /\ \A i \in DOMAIN vectors : vectors[i].text \in had[vectors[i].id].texts
     /\ \A p \in DOMAIN search.scored : Honest(search.scored[p])
     /\ \A i \in 1..search.size : i < search.pos => Seen(vectors[i].id)

SizeInv == search.stage # "idle" => search.size <= Len(vectors)

SearchInv ==
  /\ SearchTypeOK
  /\ VectorsInv
  /\ SearchingInv
  /\ SizeInv
  /\ FailsOnlyForNewNodes
  /\ SearchIsWhole

\* The stores as they start: some nodes, each with its embedding.
LEMMA SearchStart == SearchInit => SearchInv
<1> SUFFICES ASSUME SearchInit PROVE SearchInv
  OBVIOUS
<1>1. /\ Len(Present) \in Nat /\ DOMAIN Present = 1..Len(Present)
      /\ \A i \in DOMAIN Present : Present[i].id \in NodeIds /\ Present[i].payload \in Payloads
  <2> DEFINE R == [id : NodeIds, payload : Payloads]
  <2>1. Present \in Seq(R)
    BY SearchAssumption
  <2>2. \A r \in R : r.id \in NodeIds /\ r.payload \in Payloads
    OBVIOUS
  <2> HIDE DEF R
  <2> QED
    BY <2>1, <2>2
<1> USE SearchAssumption DEF SearchInit
<1>2. vectors \in Seq(VectorRows) /\ DOMAIN vectors = DOMAIN Present
      /\ \A i \in DOMAIN Present : vectors[i].id = Present[i].id
  BY <1>1 DEF VectorRows, Texts
<1>3. /\ DOMAIN payload = {Present[i].id : i \in DOMAIN Present}
      /\ \A id \in DOMAIN payload : payload[id] \in Payloads
  BY <1>1 DEF InitialPayload
<1>4. DOMAIN payload \subseteq NodeIds /\ payload \in [DOMAIN payload -> Payloads]
  BY <1>1, <1>3 DEF InitialPayload
<1>5. NoSearch \in [stage : {"idle", "scan", "done", "500"}, kind : SearchKinds, limit : Nat,
                    size : Nat, pos : Nat, scored : Seq(SearchRows)]
  BY DEF NoSearch, SearchKinds
<1>6. had \in [NodeIds -> [kinds : SUBSET Kinds, texts : SUBSET Texts]]
  OBVIOUS
<1>7. SearchTypeOK
  BY <1>2, <1>4, <1>5, <1>6 DEF SearchTypeOK
<1>8. VectorsInv
  BY <1>1, <1>2, <1>3 DEF VectorsInv
<1> QED
  BY <1>7, <1>8 DEF SearchInv, SearchingInv, SizeInv, Searching, FailsOnlyForNewNodes, SearchIsWhole, NoSearch

\* The embeddings stored.
LEMMA VectorTypes ==
  ASSUME SearchTypeOK
  PROVE  /\ Len(vectors) \in Nat /\ DOMAIN vectors = 1..Len(vectors)
         /\ \A i \in DOMAIN vectors : /\ vectors[i] \in VectorRows
                                      /\ vectors[i].id \in NodeIds /\ vectors[i].text \in Texts
<1>1. /\ Len(vectors) \in Nat /\ DOMAIN vectors = 1..Len(vectors)
      /\ \A i \in DOMAIN vectors : vectors[i] \in VectorRows
  BY DEF SearchTypeOK
<1> QED
  BY <1>1 DEF VectorRows

\* What a search has promised once it has stopped looking stays true: embeddings keep
\* their places, and what the nodes were meanwhile is no longer added to.
LEMMA AnswerStays ==
  ASSUME SearchInv, ~ Searching, UNCHANGED <<search, had>>,
         Len(vectors') >= Len(vectors), Len(vectors') \in Nat,
         \A i \in DOMAIN vectors : vectors'[i].id = vectors[i].id
  PROVE  SearchingInv' /\ SizeInv' /\ FailsOnlyForNewNodes' /\ SearchIsWhole'
<1>1. /\ search.size \in Nat /\ Len(vectors) \in Nat /\ DOMAIN vectors = 1..Len(vectors)
  BY DEF SearchInv, SearchTypeOK
<1>2. SearchingInv'
  BY DEF SearchingInv, Searching
<1>3. SizeInv' /\ FailsOnlyForNewNodes'
  BY <1>1 DEF SearchInv, SizeInv, FailsOnlyForNewNodes
<1>4. SearchIsWhole'
  <2> SUFFICES ASSUME search.stage = "done" PROVE SearchIsWhole'
    BY DEF SearchIsWhole
  <2>1. \A i \in 1..search.size : vectors'[i].id = vectors[i].id
    BY <1>1 DEF SearchInv, SizeInv
  <2>2. Results' = Results
    BY DEF Results
  <2> QED
    BY <2>1, <2>2 DEF SearchInv, SearchIsWhole
<1> QED
  BY <1>2, <1>3, <1>4

\* While the loop runs there is only the loop's own part to keep.
LEMMA LoopOnly ==
  ASSUME SearchInv, Searching, search' = search
  PROVE  FailsOnlyForNewNodes' /\ SearchIsWhole'
<1> QED
  BY DEF Searching, FailsOnlyForNewNodes, SearchIsWhole

\* Rows and seen nodes stay so when what the nodes have been grows.
LEMMA SeenStays ==
  ASSUME search' = search,
         \A id \in NodeIds : had[id].kinds \subseteq had'[id].kinds /\ had[id].texts \subseteq had'[id].texts
  PROVE  /\ \A row \in SearchRows : Honest(row) => Honest(row)'
         /\ \A id \in NodeIds : Seen(id) => Seen(id)'
<1>1. ASSUME NEW row \in SearchRows, Honest(row) PROVE Honest(row)'
  <2>1. row.node_id \in NodeIds
    BY DEF SearchRows
  <2> QED
    BY <1>1, <2>1 DEF Honest
<1>2. ASSUME NEW id \in NodeIds, Seen(id) PROVE Seen(id)'
  BY <1>2 DEF Seen
<1> QED
  BY <1>1, <1>2

\* upsert_node writes the node.
LEMMA PutNodeStep == ASSUME SearchInv, NEW w \in NodeWriters, PutNode(w) PROVE SearchInv'
<1>1. PICK id \in NodeIds, p \in Payloads :
        /\ payload' = [x \in DOMAIN payload \cup {id} |-> IF x = id THEN p ELSE payload[x]]
        /\ upsert' = [upsert EXCEPT ![w] = <<[id |-> id, text |-> p.text]>>]
        /\ had' = IF Searching THEN [had EXCEPT ![id].kinds = @ \cup {p.kind}] ELSE had
        /\ UNCHANGED <<vectors, search>>
  BY DEF PutNode
<1>2. SearchTypeOK /\ VectorsInv /\ SizeInv
  BY DEF SearchInv
<1>3. [id |-> id, text |-> p.text] \in VectorRows /\ p.kind \in Kinds
  BY DEF VectorRows, Texts, Kinds
<1>4. had' \in [NodeIds -> [kinds : SUBSET Kinds, texts : SUBSET Texts]]
  BY <1>1, <1>2, <1>3 DEF SearchTypeOK
<1>5. upsert' \in [NodeWriters -> {NoVector} \cup {<<v>> : v \in VectorRows}]
  BY <1>1, <1>2, <1>3 DEF SearchTypeOK
<1>6. DOMAIN payload' = DOMAIN payload \cup {id} /\ DOMAIN payload' \subseteq NodeIds
      /\ payload' \in [DOMAIN payload' -> Payloads]
  BY <1>1, <1>2 DEF SearchTypeOK
<1>7. SearchTypeOK'
  BY <1>1, <1>2, <1>4, <1>5, <1>6 DEF SearchTypeOK
<1>8. VectorsInv'
  <2>1. ASSUME NEW v \in NodeWriters, upsert'[v] # NoVector PROVE upsert'[v][1].id \in DOMAIN payload'
    <3>1. CASE v = w
      BY <1>1, <1>2, <1>6, <3>1 DEF SearchTypeOK
    <3>2. CASE v # w
      BY <1>1, <1>2, <1>6, <2>1, <3>2 DEF SearchTypeOK, VectorsInv
    <3> QED
      BY <3>1, <3>2
  <2> QED
    BY <1>1, <1>2, <1>6, <2>1 DEF VectorsInv
<1>9. CASE ~ Searching
  <2>1. had' = had
    BY <1>1, <1>9
  <2>2. Len(vectors) \in Nat
    BY <1>2 DEF SearchTypeOK
  <2>3. SearchingInv' /\ SizeInv' /\ FailsOnlyForNewNodes' /\ SearchIsWhole'
    BY <1>1, <1>9, <2>1, <2>2, AnswerStays
  <2> QED
    BY <1>7, <1>8, <2>3 DEF SearchInv
<1>10. CASE Searching
  <2>1. FailsOnlyForNewNodes' /\ SearchIsWhole' /\ SizeInv'
    BY <1>1, <1>2, <1>10, LoopOnly DEF SizeInv
  <2>2. had' = [had EXCEPT ![id].kinds = @ \cup {p.kind}]
    BY <1>1, <1>10
  <2>3. \A x \in NodeIds : had[x].kinds \subseteq had'[x].kinds /\ had[x].texts \subseteq had'[x].texts
    BY <1>2, <2>2 DEF SearchTypeOK
  <2>4. /\ \A row \in SearchRows : Honest(row) => Honest(row)'
        /\ \A x \in NodeIds : Seen(x) => Seen(x)'
    BY <1>1, <2>3, SeenStays
  <2>5. p.kind \in had'[id].kinds
    BY <1>2, <2>2 DEF SearchTypeOK
  <2>6. \A x \in DOMAIN payload' : payload'[x].kind \in had'[x].kinds
    <3> SUFFICES ASSUME NEW x \in DOMAIN payload' PROVE payload'[x].kind \in had'[x].kinds
      OBVIOUS
    <3>1. CASE x = id
      BY <1>1, <1>6, <2>5, <3>1
    <3>2. CASE x # id
      <4>1. x \in DOMAIN payload /\ x \in NodeIds /\ payload'[x] = payload[x]
        BY <1>1, <1>6, <3>2
      <4>2. payload[x].kind \in had[x].kinds
        BY <1>10, <4>1 DEF SearchInv, SearchingInv
      <4> QED
        BY <2>3, <4>1, <4>2
    <3> QED
      BY <3>1, <3>2
  <2>7. \A i \in DOMAIN vectors : vectors[i].id \in NodeIds /\ vectors[i].text \in had'[vectors[i].id].texts
    <3>1. \A i \in DOMAIN vectors : vectors[i].id \in NodeIds
      BY <1>2, VectorTypes
    <3> QED
      BY <1>10, <2>3, <3>1 DEF SearchInv, SearchingInv
  <2>8. \A q \in DOMAIN search.scored : Honest(search.scored[q])'
    <3>1. \A q \in DOMAIN search.scored : search.scored[q] \in SearchRows
      BY <1>2 DEF SearchTypeOK
    <3> QED
      BY <1>1, <1>10, <2>4, <3>1 DEF SearchInv, SearchingInv
  <2>9. \A i \in 1..search.size : i < search.pos => Seen(vectors[i].id)'
    <3>1. \A i \in 1..search.size : i \in DOMAIN vectors
      BY <1>2, <1>10 DEF SearchTypeOK, SizeInv, Searching
    <3> QED
      BY <1>1, <1>10, <2>4, <2>7, <3>1 DEF SearchInv, SearchingInv
  <2>10. SearchingInv'
    BY <1>1, <1>10, <2>6, <2>7, <2>8, <2>9 DEF SearchInv, SearchingInv
  <2> QED
    BY <1>7, <1>8, <2>1, <2>10 DEF SearchInv
<1> QED
  BY <1>9, <1>10

\* The embedding dictionary after d[k] = v: the keys keep their places, and v is where
\* its key is, or last.
LEMMA StoredProperties ==
  ASSUME SearchTypeOK, VectorsInv, NEW v \in VectorRows
  PROVE  /\ Stored(v) \in Seq(VectorRows) /\ Len(Stored(v)) >= Len(vectors)
         /\ \A i \in DOMAIN vectors : Stored(v)[i].id = vectors[i].id
         /\ \A i, j \in DOMAIN Stored(v) : Stored(v)[i].id = Stored(v)[j].id => i = j
         /\ \A i \in DOMAIN Stored(v) : Stored(v)[i] = v \/ (i \in DOMAIN vectors /\ Stored(v)[i] = vectors[i])
<1>1. /\ Len(vectors) \in Nat /\ DOMAIN vectors = 1..Len(vectors)
      /\ \A i \in DOMAIN vectors : vectors[i] \in VectorRows
  BY VectorTypes
<1>2. CASE TextsOf(v.id) = {}
  <2>1. \A i \in DOMAIN vectors : vectors[i].id # v.id
    BY <1>2 DEF TextsOf
  <2>2. /\ Stored(v) \in Seq(VectorRows) /\ Len(Stored(v)) = Len(vectors) + 1
        /\ DOMAIN Stored(v) = 1..(Len(vectors) + 1)
        /\ \A i \in DOMAIN vectors : Stored(v)[i] = vectors[i]
        /\ Stored(v)[Len(vectors) + 1] = v
    <3>1. Stored(v) = Append(vectors, v)
      BY <1>2 DEF Stored
    <3> QED
      BY <1>1, <3>1 DEF SearchTypeOK
  <2>3. \A i \in DOMAIN Stored(v) : i = Len(vectors) + 1 \/ i \in DOMAIN vectors
    BY <1>1, <2>2
  <2>4. \A i, j \in DOMAIN vectors : vectors[i].id = vectors[j].id => i = j
    BY DEF VectorsInv
  <2>5. Len(Stored(v)) >= Len(vectors)
    BY <1>1, <2>2
  <2> HIDE DEF Stored
  <2>6. ASSUME NEW i \in DOMAIN Stored(v), NEW j \in DOMAIN Stored(v), Stored(v)[i].id = Stored(v)[j].id
        PROVE  i = j
    BY <2>1, <2>2, <2>3, <2>4, <2>6
  <2> QED
    BY <2>2, <2>3, <2>5, <2>6
<1>3. CASE TextsOf(v.id) # {}
  <2>1. Stored(v) = [i \in DOMAIN vectors |-> IF vectors[i].id = v.id THEN v ELSE vectors[i]]
    BY <1>3 DEF Stored
  <2>2. Stored(v) \in Seq(VectorRows) /\ Len(Stored(v)) = Len(vectors) /\ DOMAIN Stored(v) = DOMAIN vectors
    BY <1>1, <2>1
  <2>3. \A i \in DOMAIN vectors : Stored(v)[i].id = vectors[i].id
    BY <2>1
  <2> QED
    BY <1>1, <2>1, <2>2, <2>3 DEF VectorsInv
<1> QED
  BY <1>2, <1>3

\* upsert_node stores the embedding.
LEMMA PutVectorStep == ASSUME SearchInv, NEW w \in NodeWriters, PutVector(w) PROVE SearchInv'
<1>1. SearchTypeOK /\ VectorsInv /\ SizeInv
  BY DEF SearchInv
<1>2. PICK v \in VectorRows : upsert[w] = <<v>>
  BY <1>1 DEF PutVector, SearchTypeOK
<1>3. /\ vectors' = Stored(v)
      /\ upsert' = [upsert EXCEPT ![w] = NoVector]
      /\ had' = IF Searching THEN [had EXCEPT ![v.id].texts = @ \cup {v.text}] ELSE had
      /\ UNCHANGED <<payload, upserts, search>>
  <2>1. upsert[w][1] = v
    BY <1>2
  <2> QED
    BY <2>1 DEF PutVector
<1>4. v.id \in NodeIds /\ v.text \in Texts /\ v.id \in DOMAIN payload
  <2>1. upsert[w] # NoVector /\ upsert[w][1] = v
    BY <1>2 DEF NoVector
  <2> QED
    BY <1>1, <2>1 DEF VectorRows, VectorsInv
<1>5. /\ vectors' \in Seq(VectorRows) /\ Len(vectors') >= Len(vectors)
      /\ \A i \in DOMAIN vectors : vectors'[i].id = vectors[i].id
      /\ \A i, j \in DOMAIN vectors' : vectors'[i].id = vectors'[j].id => i = j
      /\ \A i \in DOMAIN vectors' : vectors'[i] = v \/ (i \in DOMAIN vectors /\ vectors'[i] = vectors[i])
  BY <1>1, <1>3, StoredProperties
<1>6. had' \in [NodeIds -> [kinds : SUBSET Kinds, texts : SUBSET Texts]]
  BY <1>1, <1>3, <1>4 DEF SearchTypeOK
<1>7. upsert' \in [NodeWriters -> {NoVector} \cup {<<u>> : u \in VectorRows}]
  BY <1>1, <1>3 DEF SearchTypeOK
<1>8. SearchTypeOK'
  BY <1>1, <1>3, <1>5, <1>6, <1>7 DEF SearchTypeOK
<1>9. VectorsInv'
  <2>1. \A i \in DOMAIN vectors' : vectors'[i].id \in DOMAIN payload'
    BY <1>1, <1>3, <1>4, <1>5 DEF VectorsInv
  <2>2. ASSUME NEW u \in NodeWriters, upsert'[u] # NoVector PROVE upsert'[u][1].id \in DOMAIN payload'
    <3>1. u # w /\ upsert'[u] = upsert[u]
      BY <1>1, <1>3, <2>2 DEF SearchTypeOK
    <3> QED
      BY <1>1, <1>3, <2>2, <3>1 DEF VectorsInv
  <2> QED
    BY <1>5, <2>1, <2>2 DEF VectorsInv
<1>10. Len(vectors) \in Nat /\ Len(vectors') \in Nat /\ DOMAIN vectors = 1..Len(vectors)
  BY <1>1, <1>8, <1>5, VectorTypes
<1>11. CASE ~ Searching
  <2>1. had' = had
    BY <1>3, <1>11
  <2>2. SearchingInv' /\ SizeInv' /\ FailsOnlyForNewNodes' /\ SearchIsWhole'
    BY <1>3, <1>5, <1>10, <1>11, <2>1, AnswerStays
  <2> QED
    BY <1>8, <1>9, <2>2 DEF SearchInv
<1>12. CASE Searching
  <2>1. search.size \in Nat /\ search.size <= Len(vectors)
    BY <1>1, <1>12 DEF SearchTypeOK, SizeInv, Searching
  <2>2. FailsOnlyForNewNodes' /\ SearchIsWhole' /\ SizeInv'
    <3>1. FailsOnlyForNewNodes' /\ SearchIsWhole'
      BY <1>3, <1>12, LoopOnly
    <3> QED
      BY <1>3, <1>5, <1>10, <2>1, <3>1 DEF SizeInv
  <2>3. had' = [had EXCEPT ![v.id].texts = @ \cup {v.text}]
    BY <1>3, <1>12
  <2>4. \A x \in NodeIds : had[x].kinds \subseteq had'[x].kinds /\ had[x].texts \subseteq had'[x].texts
    BY <1>1, <2>3 DEF SearchTypeOK
  <2>5. /\ \A row \in SearchRows : Honest(row) => Honest(row)'
        /\ \A x \in NodeIds : Seen(x) => Seen(x)'
    BY <1>3, <2>4, SeenStays
  <2>6. v.text \in had'[v.id].texts
    BY <1>1, <1>4, <2>3 DEF SearchTypeOK
  <2>7. \A x \in DOMAIN payload' : payload'[x].kind \in had'[x].kinds
    BY <1>1, <1>3, <1>12, <2>4 DEF SearchTypeOK, SearchInv, SearchingInv
  <2>8. \A i \in DOMAIN vectors' : vectors'[i].text \in had'[vectors'[i].id].texts
    <3> SUFFICES ASSUME NEW i \in DOMAIN vectors' PROVE vectors'[i].text \in had'[vectors'[i].id].texts
      OBVIOUS
    <3>1. CASE vectors'[i] = v
      BY <2>6, <3>1
    <3>2. CASE i \in DOMAIN vectors /\ vectors'[i] = vectors[i]
      <4>1. vectors[i].id \in NodeIds /\ vectors[i].text \in had[vectors[i].id].texts
        BY <1>1, <1>12, <3>2, VectorTypes DEF SearchInv, SearchingInv
      <4> QED
        BY <2>4, <3>2, <4>1
    <3> QED
      BY <1>5, <3>1, <3>2
  <2>9. \A q \in DOMAIN search.scored : Honest(search.scored[q])'
    <3>1. \A q \in DOMAIN search.scored : search.scored[q] \in SearchRows
      BY <1>1 DEF SearchTypeOK
    <3> QED
      BY <1>3, <1>12, <2>5, <3>1 DEF SearchInv, SearchingInv
  <2>10. \A i \in 1..search.size : i < search.pos => Seen(vectors[i].id)'
    <3> SUFFICES ASSUME NEW i \in 1..search.size, i < search.pos PROVE Seen(vectors[i].id)'
      OBVIOUS
    <3>1. i \in DOMAIN vectors
      BY <1>10, <2>1
    <3>2. vectors[i].id \in NodeIds /\ Seen(vectors[i].id) /\ vectors'[i].id = vectors[i].id
      BY <1>1, <1>5, <1>12, <3>1, VectorTypes DEF SearchInv, SearchingInv
    <3>3. PICK x \in NodeIds : x = vectors[i].id
      BY <3>2
    <3>4. Seen(x)'
      BY <2>5, <3>2, <3>3
    <3> QED
      BY <3>2, <3>3, <3>4 DEF Seen
  <2>11. SearchingInv'
    BY <1>3, <1>12, <2>7, <2>8, <2>9, <2>10 DEF SearchInv, SearchingInv
  <2> QED
    BY <1>8, <1>9, <2>2, <2>11 DEF SearchInv
<1> QED
  BY <1>11, <1>12

\* A search begins.
LEMMA BeginSearchStep == ASSUME SearchInv, BeginSearch PROVE SearchInv'
<1>1. PICK kind \in SearchKinds, limit \in Limits :
        /\ search' = [NoSearch EXCEPT !.stage = "scan", !.kind = kind, !.limit = limit,
                                      !.size = Len(vectors), !.pos = 1]
        /\ had' = [id \in NodeIds |->
                     [kinds |-> IF id \in DOMAIN payload THEN {payload[id].kind} ELSE {},
                      texts |-> TextsOf(id)]]
        /\ UNCHANGED <<payload, vectors, upsert, upserts>>
  BY DEF BeginSearch
<1>2. SearchTypeOK /\ VectorsInv
  BY DEF SearchInv
<1>3. limit \in Nat /\ Len(vectors) \in Nat /\ DOMAIN vectors = 1..Len(vectors)
  BY <1>2, SearchAssumption, VectorTypes
<1>4. search' = [stage |-> "scan", kind |-> kind, limit |-> limit, size |-> Len(vectors),
                 pos |-> 1, scored |-> <<>>]
  BY <1>1 DEF NoSearch
<1>5. \A id \in NodeIds : TextsOf(id) \subseteq Texts
  BY <1>2, VectorTypes DEF TextsOf
<1>6. \A id \in NodeIds : id \in DOMAIN payload => payload[id].kind \in Kinds
  BY <1>2 DEF SearchTypeOK, Kinds
<1>7. had' \in [NodeIds -> [kinds : SUBSET Kinds, texts : SUBSET Texts]]
  BY <1>1, <1>5, <1>6
<1>8. SearchTypeOK'
  <2>1. search' \in [stage : {"idle", "scan", "done", "500"}, kind : SearchKinds, limit : Nat,
                     size : Nat, pos : Nat, scored : Seq(SearchRows)]
    BY <1>3, <1>4
  <2> QED
    BY <1>1, <1>2, <1>7, <2>1 DEF SearchTypeOK
<1>9. VectorsInv'
  BY <1>1, <1>2 DEF VectorsInv
<1>10. \A id \in DOMAIN payload : payload[id].kind \in had'[id].kinds
  BY <1>1, <1>2 DEF SearchTypeOK
<1>11. \A i \in DOMAIN vectors : vectors[i].text \in had'[vectors[i].id].texts
  <2> SUFFICES ASSUME NEW i \in DOMAIN vectors PROVE vectors[i].text \in had'[vectors[i].id].texts
    OBVIOUS
  <2>1. vectors[i].id \in NodeIds
    BY <1>2, VectorTypes
  <2>2. vectors[i].text \in TextsOf(vectors[i].id)
    BY DEF TextsOf
  <2> QED
    BY <1>1, <2>1, <2>2
<1>12. SearchingInv'
  <2>1. /\ search'.pos = 1 /\ search'.size = Len(vectors) /\ search'.scored = <<>>
    BY <1>4
  <2>2. 1 <= search'.pos /\ search'.pos <= search'.size + 1
    BY <1>3, <2>1
  <2>3. \A p \in DOMAIN search'.scored : FALSE
    BY <2>1
  <2>4. \A i \in 1..search'.size : ~ (i < search'.pos)
    BY <1>3, <2>1
  <2> QED
    BY <1>1, <1>10, <1>11, <2>2, <2>3, <2>4 DEF SearchingInv
<1>13. SizeInv' /\ FailsOnlyForNewNodes' /\ SearchIsWhole'
  BY <1>1, <1>3, <1>4 DEF SizeInv, FailsOnlyForNewNodes, SearchIsWhole
<1> QED
  BY <1>8, <1>9, <1>12, <1>13 DEF SearchInv

\* One turn of the loop, or what follows it.
LEMMA SearchStepStep == ASSUME SearchInv, SearchStep PROVE SearchInv'
<1>1. SearchTypeOK /\ VectorsInv /\ SizeInv /\ SearchingInv /\ Searching
  BY DEF SearchInv, SearchStep, Searching
<1>2. /\ Len(vectors) \in Nat /\ DOMAIN vectors = 1..Len(vectors)
      /\ \A i \in DOMAIN vectors : vectors[i].id \in NodeIds /\ vectors[i].text \in Texts
  BY <1>1, VectorTypes
<1>3. /\ search \in [stage : {"idle", "scan", "done", "500"}, kind : SearchKinds, limit : Nat,
                     size : Nat, pos : Nat, scored : Seq(SearchRows)]
      /\ search.size \in Nat /\ search.pos \in Nat /\ search.limit \in Nat /\ search.scored \in Seq(SearchRows)
  BY <1>1 DEF SearchTypeOK
<1>4. search.size <= Len(vectors) /\ 1 <= search.pos /\ search.pos <= search.size + 1
  BY <1>1 DEF SizeInv, SearchingInv, Searching
<1>5. UNCHANGED <<payload, vectors, upsert, upserts, had>> /\ VectorsInv'
  BY <1>1 DEF SearchStep, VectorsInv
<1>6. /\ \A p \in DOMAIN search.scored : search.scored[p] \in SearchRows /\ Honest(search.scored[p])
      /\ \A i \in 1..search.size : i < search.pos => Seen(vectors[i].id)
  BY <1>1, <1>3 DEF SearchingInv
<1>7. CASE Grown
  <2>1. search' = [search EXCEPT !.stage = "500"]
    BY <1>7 DEF SearchStep
  <2>2. SearchTypeOK'
    BY <1>1, <1>3, <1>5, <2>1 DEF SearchTypeOK
  <2>3. search'.stage = "500" /\ search'.size = search.size /\ Len(vectors) > search.size
    BY <1>2, <1>3, <1>4, <1>7, <2>1 DEF Grown
  <2> QED
    BY <1>4, <1>5, <2>2, <2>3
    DEF SearchInv, SizeInv, SearchingInv, Searching, FailsOnlyForNewNodes, SearchIsWhole
<1>8. CASE ~ Grown /\ search.pos > search.size
  <2> DEFINE top == TopRows(search.scored, search.limit)
  <2>1. search' = [search EXCEPT !.stage = "done", !.scored = top]
    BY <1>8 DEF SearchStep
  <2>2. IsRows(search.scored, SearchRows)
    BY <1>3 DEF IsRows, SearchRows
  <2>3. top \in Seq(SearchRows) /\ IsTop(top, search.scored, search.limit)
    BY <1>3, <2>2, TopRowsAreTheBest
  <2> HIDE DEF top
  <2>4. /\ search'.stage = "done" /\ search'.scored = top /\ search'.kind = search.kind
        /\ search'.size = search.size /\ search'.limit = search.limit
    BY <1>3, <2>1
  <2>5. SearchTypeOK'
    BY <1>1, <1>3, <1>5, <2>1, <2>3 DEF SearchTypeOK
  <2>6. /\ \A p \in DOMAIN top : \E i \in DOMAIN search.scored : top[p] = search.scored[i]
        /\ \A i \in DOMAIN search.scored :
              \/ \E p \in DOMAIN top : top[p] = search.scored[i]
              \/ Len(top) = search.limit /\ \A p \in DOMAIN top : top[p].score >= search.scored[i].score
    BY <2>3 DEF IsTop
  <2>7. Results' = {top[p] : p \in DOMAIN top}
    BY <2>4 DEF Results
  <2>8. ASSUME NEW row \in Results'
        PROVE  /\ row.kind \in had[row.node_id].kinds
               /\ search.kind \in {NoKind, row.kind}
               /\ \E t \in had[row.node_id].texts : row.score = Score[t]
    BY <1>6, <2>6, <2>7 DEF Honest
  <2>9. ASSUME NEW i \in 1..search.size, NEW id, id = vectors[i].id
        PROVE  \/ \E row \in Results' : row.node_id = id
               \/ search.kind # NoKind /\ had[id].kinds # {search.kind}
               \/ /\ Len(top) = search.limit
                  /\ \E t \in had[id].texts : \A row \in Results' : row.score >= Score[t]
    <3>1. Seen(vectors[i].id)
      BY <1>3, <1>6, <1>8
    <3>2. Seen(id)
      BY <2>9, <3>1
    <3>3. CASE search.kind # NoKind /\ \E k \in had[id].kinds : k # search.kind
      BY <3>3
    <3>4. CASE \E p \in DOMAIN search.scored : search.scored[p].node_id = id
      <4>1. PICK p \in DOMAIN search.scored : search.scored[p].node_id = id
        BY <3>4
      <4>2. CASE \E q \in DOMAIN top : top[q] = search.scored[p]
        BY <2>7, <4>1, <4>2
      <4>3. CASE Len(top) = search.limit /\ \A q \in DOMAIN top : top[q].score >= search.scored[p].score
        <5>1. PICK t \in had[id].texts : search.scored[p].score = Score[t]
          BY <1>6, <4>1 DEF Honest
        <5>2. \A row \in Results' : row.score >= Score[t]
          BY <2>7, <4>3, <5>1
        <5> QED
          BY <4>3, <5>2
      <4> QED
        BY <2>6, <4>2, <4>3
    <3> QED
      BY <3>2, <3>3, <3>4 DEF Seen
  <2>10. SearchIsWhole'
    BY <1>5, <2>4, <2>8, <2>9 DEF SearchIsWhole
  <2> QED
    BY <1>4, <1>5, <2>4, <2>5, <2>10
    DEF SearchInv, SizeInv, SearchingInv, Searching, FailsOnlyForNewNodes
<1>9. CASE ~ Grown /\ ~ (search.pos > search.size)
  <2> DEFINE v == vectors[search.pos]
             kind == payload[v.id].kind
             row == [node_id |-> v.id, kind |-> kind, score |-> Score[v.text]]
  <2>1. search.pos \in 1..search.size /\ search.pos \in DOMAIN vectors
    BY <1>2, <1>3, <1>4, <1>9
  <2>2. v.id \in DOMAIN payload /\ v.id \in NodeIds /\ v.text \in Texts
    BY <1>1, <1>2, <2>1 DEF VectorsInv
  <2>3. search' = [search EXCEPT !.pos = @ + 1, !.scored = @ \o RowOf(v)]
    BY <1>9, <2>2 DEF SearchStep
  <2>4. kind \in Kinds /\ kind \in had[v.id].kinds /\ v.text \in had[v.id].texts
    BY <1>1, <2>1, <2>2 DEF SearchTypeOK, SearchingInv, Kinds
  <2>5. Score[v.text] \in Nat
    BY <2>2, SearchAssumption DEF Texts
  <2>6. row \in SearchRows
    BY <2>2, <2>4, <2>5 DEF SearchRows
  <2> DEFINE scored == search.scored \o RowOf(v)
  <2>7. /\ search'.stage = search.stage /\ search'.kind = search.kind /\ search'.size = search.size
        /\ search'.limit = search.limit /\ search'.pos = search.pos + 1 /\ search'.scored = scored
    BY <1>3, <2>3
  <2>8. /\ scored \in Seq(SearchRows)
        /\ \A p \in DOMAIN scored : \/ scored[p] = row /\ search.kind \in {NoKind, kind}
                                    \/ p \in DOMAIN search.scored /\ scored[p] = search.scored[p]
        /\ \A p \in DOMAIN search.scored : p \in DOMAIN scored /\ scored[p] = search.scored[p]
        /\ search.kind \in {NoKind, kind} => \E p \in DOMAIN scored : scored[p] = row
    <3>1. CASE search.kind \in {NoKind, kind}
      <4>1. RowOf(v) = <<row>>
        BY <3>1 DEF RowOf
      <4> HIDE DEF row
      <4>2. /\ scored \in Seq(SearchRows) /\ Len(scored) = Len(search.scored) + 1
            /\ \A p \in 1..Len(search.scored) : scored[p] = search.scored[p]
            /\ scored[Len(search.scored) + 1] = row
        BY <1>3, <2>6, <4>1
      <4>3. /\ Len(search.scored) \in Nat /\ DOMAIN search.scored = 1..Len(search.scored)
            /\ DOMAIN scored = 1..(Len(search.scored) + 1)
        BY <1>3, <4>2
      <4> HIDE DEF scored
      <4>4. \A p \in DOMAIN scored : p = Len(search.scored) + 1 \/ p \in DOMAIN search.scored
        BY <4>3
      <4>5. Len(search.scored) + 1 \in DOMAIN scored /\ \A p \in DOMAIN search.scored : p \in DOMAIN scored
        BY <4>3
      <4>6. \A p \in DOMAIN search.scored : scored[p] = search.scored[p]
        BY <4>2, <4>3
      <4>7. \E p \in DOMAIN scored : scored[p] = row
        BY <4>2, <4>5
      <4>8. ASSUME NEW p \in DOMAIN scored
            PROVE  scored[p] = row \/ (p \in DOMAIN search.scored /\ scored[p] = search.scored[p])
        <5>1. CASE p = Len(search.scored) + 1
          BY <4>2, <5>1
        <5>2. CASE p \in DOMAIN search.scored
          BY <4>6, <5>2
        <5> QED
          BY <4>4, <5>1, <5>2
      <4> HIDE DEF kind, v
      <4> QED
        BY <3>1, <4>2, <4>5, <4>6, <4>7, <4>8
    <3>2. CASE ~ (search.kind \in {NoKind, kind})
      <4>1. RowOf(v) = <<>>
        BY <3>2 DEF RowOf
      <4>2. scored = search.scored
        BY <1>3, <4>1
      <4> HIDE DEF scored, row, kind
      <4> QED
        BY <1>3, <3>2, <4>2
    <3> QED
      BY <3>1, <3>2
  <2> HIDE DEF scored
  <2>9. SearchTypeOK'
    <3>1. search' \in [stage : {"idle", "scan", "done", "500"}, kind : SearchKinds, limit : Nat,
                       size : Nat, pos : Nat, scored : Seq(SearchRows)]
      <4> DEFINE S == [stage : {"idle", "scan", "done", "500"}, kind : SearchKinds, limit : Nat,
                       size : Nat, pos : Nat, scored : Seq(SearchRows)]
                 moved == [search EXCEPT !.pos = search.pos + 1]
      <4>1. search' = [moved EXCEPT !.scored = scored]
        BY <1>3, <2>3 DEF scored
      <4>2. moved \in S
        BY <1>3
      <4> HIDE DEF moved
      <4> QED
        BY <2>8, <4>1, <4>2
    <3> QED
      BY <1>1, <1>5, <3>1 DEF SearchTypeOK
  <2>10. \A p \in DOMAIN search'.scored : Honest(search.scored[p])'
    <3> SUFFICES ASSUME NEW p \in DOMAIN scored PROVE Honest(search.scored[p])'
      BY <2>7
    <3>1. CASE scored[p] = row /\ search.kind \in {NoKind, kind}
      <4>1. search'.scored[p].node_id = v.id /\ search'.scored[p].kind = kind /\ search'.scored[p].score = Score[v.text]
        BY <2>7, <3>1
      <4> HIDE DEF v, kind, row
      <4> QED
        BY <1>5, <2>4, <2>7, <3>1, <4>1 DEF Honest
    <3>2. CASE p \in DOMAIN search.scored /\ scored[p] = search.scored[p]
      BY <1>5, <1>6, <2>7, <3>2 DEF Honest
    <3> QED
      BY <2>8, <3>1, <3>2
  <2>11. \A i \in 1..search'.size : i < search'.pos => Seen(vectors[i].id)'
    <3> SUFFICES ASSUME NEW i \in 1..search.size, i < search.pos + 1 PROVE Seen(vectors[i].id)'
      BY <2>7
    <3>1. CASE i = search.pos
      <4>1. vectors'[i].id = v.id
        BY <1>5, <3>1
      <4>2. CASE search.kind \in {NoKind, kind}
        <5>1. PICK p \in DOMAIN scored : scored[p] = row
          BY <2>8, <4>2
        <5>2. scored[p].node_id = v.id
          BY <5>1
        <5> QED
          BY <2>7, <4>1, <5>2 DEF Seen
      <4>3. CASE ~ (search.kind \in {NoKind, kind})
        <5> HIDE DEF v, kind, row
        <5> QED
          BY <1>5, <2>4, <2>7, <4>1, <4>3 DEF Seen
      <4> QED
        BY <4>2, <4>3
    <3>2. CASE i # search.pos
      <4>1. i < search.pos
        BY <1>3, <3>2
      <4>2. Seen(vectors[i].id)
        BY <1>6, <4>1
      <4>3. (\E p \in DOMAIN search.scored : search.scored[p].node_id = vectors[i].id)
            => \E p \in DOMAIN scored : scored[p].node_id = vectors[i].id
        BY <2>8
      <4> HIDE DEF v, kind, row
      <4> QED
        BY <1>5, <2>7, <4>2, <4>3 DEF Seen
    <3> QED
      BY <3>1, <3>2
  <2>12. SearchingInv'
    <3>1. 1 <= search'.pos /\ search'.pos <= search'.size + 1
      BY <1>3, <1>4, <1>9, <2>7
    <3> QED
      BY <1>1, <1>5, <2>10, <2>11, <3>1 DEF SearchingInv
  <2>13. search'.stage = "scan"
    BY <1>1, <2>7 DEF Searching
  <2> QED
    BY <1>4, <1>5, <2>7, <2>9, <2>12, <2>13 DEF SearchInv, SizeInv, FailsOnlyForNewNodes, SearchIsWhole
<1> QED
  BY <1>7, <1>8, <1>9

\* Every step of the search and of the writers.
LEMMA SearchingNext == SearchInv /\ [SearchNext]_searchVars => SearchInv'
<1> SUFFICES ASSUME SearchInv, [SearchNext]_searchVars PROVE SearchInv'
  OBVIOUS
<1>1. CASE UNCHANGED searchVars
  <2> USE <1>1 DEF searchVars, SearchInv
  <2>1. SearchTypeOK'
    BY DEF SearchTypeOK
  <2>2. VectorsInv'
    BY DEF VectorsInv
  <2>3. SearchingInv'
    BY DEF SearchingInv, Searching, Honest, Seen
  <2>4. SizeInv' /\ FailsOnlyForNewNodes'
    BY DEF SizeInv, FailsOnlyForNewNodes
  <2>5. SearchIsWhole'
    BY DEF SearchIsWhole, Results
  <2> QED
    BY <2>1, <2>2, <2>3, <2>4, <2>5
<1> QED
  BY <1>1, PutNodeStep, PutVectorStep, BeginSearchStep, SearchStepStep DEF SearchNext

-----------------------------------------------------------------------------
(* The theorems on searches *)

\* A search and the writers of nodes beside it.
THEOREM SearchesAreInOrder == StoreSpec => []SearchInv
<1>1. StoreInit => SearchInv
  BY SearchStart DEF StoreInit
<1>2. SearchInv /\ [Query \/ Search]_storeVars => SearchInv'
  BY SearchingNext DEF Query, Search, storeVars
<1> QED
  BY <1>1, <1>2, PTL DEF StoreSpec

\* semantic_search returns the best rows of the nodes there were when it began, whatever
\* upsert_node changes in the two dictionaries under it: a node is left out only for its
\* kind, or for limit rows that are no worse.
THEOREM SearchesAreWhole == StoreSpec => []SearchIsWhole
<1>1. SearchInv => SearchIsWhole
  BY DEF SearchInv
<1> QED
  BY <1>1, SearchesAreInOrder, PTL

\* semantic_search raises (the dictionary changed size during iteration) only when a node
\* that had no embedding was ingested during the loop; it never meets an embedding
\* without its node, because upsert_node writes the node first.
THEOREM SearchesFailOnlyForNewNodes == StoreSpec => []FailsOnlyForNewNodes
<1>1. SearchInv => FailsOnlyForNewNodes
  BY DEF SearchInv
<1> QED
  BY <1>1, SearchesAreInOrder, PTL
=============================================================================
