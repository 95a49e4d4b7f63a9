SPECIFICATION StoreSpec
CONSTANTS
  Nodes = {"a", "b", "c"}
  EdgeTypes = {"related", "mapping", "no label"}
  Identifiers = {"related", "mapping"}
  Registered = {"a", "b"}
  InitialEdges <- ShortLists
  EdgeRequests <- FewLinks
  Writers = {w1, w2}
  MaxDepth = 2
  MaxEdges = 3
  Payloads <- MCPayloads
  NodeIds = {"a", "b", "c"}
  Present <- MCPresent
  Score <- MCScore
  NoKind = "any"
  Limits = {1, 2}
  NodeWriters = {n1, n2}
  MaxUpserts = 2
INVARIANT EdgesFitNodes
INVARIANT FindsTheBall
INVARIANT SearchIsWhole
INVARIANT FailsOnlyForNewNodes
CHECK_DEADLOCK FALSE
