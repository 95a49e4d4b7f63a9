------------------------------ MODULE Ranking ------------------------------
(***************************************************************************)
(* rows.sort(key=lambda row: row.score, reverse=True), rows[:limit]: what the  *)
(* semantic search (sdp/graph_store.py) and the catalog search, which shares   *)
(* it with the join candidates (sdp/catalog.py), make of the rows they found. *)
(* Python's sort is stable, in reverse as well: rows of equal score keep      *)
(* their order.                                                             *)
(***************************************************************************)
EXTENDS Naturals, Sequences, FiniteSets

\* Row i comes before row j in the sorted list.
Ahead(rows, i, j) ==
  rows[i].score > rows[j].score \/ (rows[i].score = rows[j].score /\ i < j)

\* The place of row i in the sorted list.
Place(rows, i) == Cardinality({j \in DOMAIN rows : Ahead(rows, j, i)}) + 1

Ranked(rows) == [p \in DOMAIN rows |-> rows[CHOOSE i \in DOMAIN rows : Place(rows, i) = p]]

Shorter(n, rows) == IF n < Len(rows) THEN n ELSE Len(rows)

\* Mutant: the limit is applied before the sort.
TopRows_Early(rows, limit) == Ranked(SubSeq(rows, 1, Shorter(limit, rows)))

TopRows(rows, limit) == SubSeq(Ranked(rows), 1, Shorter(limit, rows))
=============================================================================
