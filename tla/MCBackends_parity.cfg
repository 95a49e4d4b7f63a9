SPECIFICATION Spec
CONSTANTS
  Ids = {"a", "b", "c", "d"}
  UpperCase <- MCUpperCase
  Folded <- MCFolded
  NodeRequests <- MCNodes
  EdgeRequests <- MCEdges
  ConceptRequests <- MCConcepts
  SeedRequests <- MCSeedRequests
  Terms = {"b", "d", "client", "Client", "a"}
  ClampDepth = 3
  MaxRequests = 5
INVARIANT NodesAndEdgesAgree
INVARIANT ReachAgrees
INVARIANT LookupAgrees
INVARIANT TablesFollowGraph
INVARIANT SeedIsIdempotent
CHECK_DEADLOCK FALSE
