---------------------------- MODULE SerialCatalog ----------------------------
(***************************************************************************)
(* CatalogService with one thread and a healthy evidence store implements    *)
(* AtomicCatalog: a mutation takes effect at its Commit (a repeated publish  *)
(* at its Read), and what the thread has still to append counts as appended. *)
(***************************************************************************)
EXTENDS CatalogService

Worker == thread[CHOOSE t \in Threads : TRUE]

PendingSnapshot(d) ==
  IF Worker.stage = "snapshot" /\ Worker.resource = d
  THEN <<make_schema_snapshot(Worker.copy)>>
  ELSE <<>>

TrailEntry(event) ==
  [actor |-> event.actor, action |-> event.action, resource |-> event.resource]

PendingEvent ==
  IF Worker.stage \in {"snapshot", "audit", "noop"}
  THEN <<TrailEntry(AuditEventOf(Worker))>>
  ELSE <<>>

\* The history and the trail with what is on its way to them.
ShownHistory == [d \in DatasetIds |-> history[d] \o PendingSnapshot(d)]

ShownTrail == [i \in DOMAIN audit |-> TrailEntry(audit[i])] \o PendingEvent

Atomic == INSTANCE AtomicCatalog WITH history <- ShownHistory, trail <- ShownTrail

\* One request at a time, each mutation endpoint is atomic: check, new version,
\* history entry and audit entry happen as one step of AtomicCatalog.
ImplementsAtomicCatalog == Atomic!Spec
=============================================================================
