----------------------------- MODULE MCReports -----------------------------
(* Small instances of CatalogReports. *)
EXTENDS CatalogReports

Card(valid, approved, mappings, terms, score) ==
  [valid |-> valid, approved |-> approved, mappings |-> mappings, terms |-> terms, score |-> score]

Good == Card(TRUE, 2, 2, {"customer"}, 2)

\* Conforming and of little relevance; without its approval; with a field emptied.
MCCards ==
  {Good, Card(TRUE, 1, 2, {}, 1), Card(TRUE, 0, 2, {"customer"}, 2), Card(FALSE, 2, 2, {}, 0)}

MCCatalog ==
  <<[id |-> "d1", card |-> Good], [id |-> "d2", card |-> Card(TRUE, 1, 2, {}, 1)]>>

\* What happens after the reply is of no interest to the request, and few of the
\* writers meet it: together they change the catalog, propose and review at most
\* four times.
Explored ==
  /\ report.stage \in {"idle", "run"}
  /\ writes + Len(patches) + Len(log) + Cardinality({t \in Threads : review[t] # Idle}) <= 4

\* The reviewing threads are alike, and so are the reviewers: no property names one.
AlikeThreadsAndReviewers == Permutations(Threads) \cup Permutations(Reviewers)
=============================================================================
