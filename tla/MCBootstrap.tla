---------------------------- MODULE MCBootstrap ----------------------------
(* Small instances of Bootstrap. *)
EXTENDS Bootstrap, TLC

\* A node of an ontology concept and one of a dataset.
MCSeedItems == <<"concept", "dataset">>
=============================================================================
