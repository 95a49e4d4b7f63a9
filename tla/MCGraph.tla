------------------------------- MODULE MCGraph -------------------------------
(* Small instances of MemoryStore. *)
EXTENDS MemoryStore, TLC

Link(type, from, to) == [edge_type |-> type, source_id |-> from, target_id |-> to]

\* A path, a cross link of another type, a loop, and a type that is refused.
FewLinks ==
  {Link("related", "a", "b"), Link("related", "b", "c"), Link("mapping", "a", "c"),
   Link("related", "c", "c"), Link("no label", "a", "b")}

\* Nothing, or one of them.
ShortLists ==
  {<<>>} \cup {<<e>> : e \in {f \in FewLinks : f.edge_type \in Identifiers}}

\* Two kinds; the dataset text is closest to the query.
MCPayloads ==
  {[kind |-> "dataset", text |-> "close"], [kind |-> "concept", text |-> "far"],
   [kind |-> "dataset", text |-> "far"]}

MCScore == [close |-> 2, far |-> 1]

MCPresent ==
  <<[id |-> "a", payload |-> [kind |-> "concept", text |-> "far"]],
    [id |-> "b", payload |-> [kind |-> "dataset", text |-> "close"]]>>
=============================================================================
