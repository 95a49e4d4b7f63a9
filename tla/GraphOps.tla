------------------------------ MODULE GraphOps ------------------------------
(***************************************************************************)
(* What an edge means to a traversal of sdp/graph_store.py, as pure         *)
(* operators.  An edge is a record [edge_type, source_id, target_id].        *)
(***************************************************************************)
EXTENDS Naturals

\* allowed is None when the list of types is missing or empty.
Allows(types, e) == types = {} \/ e.edge_type \in types

\* The node at the other end of e, as far as the direction lets one see it:
\* a set of one node, or of none.
Neighbor(e, current, dir) ==
  IF dir \in {"out", "both"} /\ e.source_id = current THEN {e.target_id}
  ELSE IF dir \in {"in", "both"} /\ e.target_id = current THEN {e.source_id}
  ELSE {}

-----------------------------------------------------------------------------
(* The reference a traversal is measured against *)

Reach(es, types, dir, from) ==
  from \cup UNION {UNION {Neighbor(e, n, dir) : n \in from} : e \in {f \in es : Allows(types, f)}}

\* The nodes within k steps of start over the edges es.
BallOf(es, types, dir, start, k) ==
  LET ball[i \in 0..k] == IF i = 0 THEN {start} ELSE Reach(es, types, dir, ball[i - 1])
  IN  ball[k]
=============================================================================
