---------------------------- MODULE AtomicCatalog ----------------------------
(***************************************************************************)
(* What the catalog promises its clients: every mutation is one step that   *)
(* checks the actor against the dataset as it is, replaces the dataset by    *)
(* its next version, puts that version in the schema history and the change  *)
(* in the audit trail.  Nothing here knows of threads, copies or stages.     *)
(***************************************************************************)
EXTENDS CatalogData

CONSTANTS Subjects, Seed

VARIABLES
  data,      \* id -> Dataset, or Missing
  history,   \* id -> sequence of snapshots
  trail      \* sequence of [actor, action, resource]

vars == <<data, history, trail>>

Init ==
  /\ data = [d \in DatasetIds |-> IF d \in DOMAIN Seed THEN Seed[d] ELSE Missing]
  /\ history = [d \in DatasetIds |->
                  IF d \in DOMAIN Seed THEN <<make_schema_snapshot(Seed[d])>> ELSE <<>>]
  /\ trail = <<>>

Log(d, actor, action) ==
  trail' = Append(trail, [actor |-> actor, action |-> action, resource |-> d])

\* data'[d] is the only entry that moves, and it is snapshotted and logged.
Replace(d, actor, action) ==
  /\ data' = [data EXCEPT ![d] = data'[d]]
  /\ history' = [history EXCEPT ![d] = Append(@, make_schema_snapshot(data'[d]))]
  /\ Log(d, actor, action)

Authorised(actor, d) ==
  data[d] # Missing /\ is_admin(actor) /\ can_access_tenant(actor, data[d].tenant_id)

Register(d, actor) ==
  /\ is_admin(actor)
  /\ data[d] = Missing
  /\ data'[d] # Missing
  /\ Replace(d, actor, "create")
  /\ data'[d].status = "registered"
  /\ data'[d].version = 0
  /\ data'[d].schema_version = 0

\* A patch touches neither tenant, source nor status; the schema moves only with
\* its version, and a version moves by one.
Patch(d, actor) ==
  /\ Authorised(actor, d)
  /\ Replace(d, actor, "patch")
  /\ data'[d].tenant_id = data[d].tenant_id
  /\ data'[d].sourced = data[d].sourced
  /\ data'[d].status = data[d].status
  /\ data'[d].version = data[d].version + 1
  /\ \/ /\ data'[d].schema_version = data[d].schema_version
        /\ data'[d].schema = RoundTrip(data[d].schema)
     \/ data'[d].schema_version = data[d].schema_version + 1

Publish(d, actor) ==
  /\ Authorised(actor, d)
  /\ data[d].status # "published"
  /\ validate_metadata(data[d])
  /\ data' = [data EXCEPT ![d] = Published(@)]
  /\ Replace(d, actor, "publish")

PublishAgain(d, actor) ==
  /\ Authorised(actor, d)
  /\ data[d].status = "published"
  /\ validate_metadata(data[d])
  /\ Log(d, actor, "publish")
  /\ UNCHANGED <<data, history>>

Deprecate(d, actor) ==
  /\ Authorised(actor, d)
  /\ data' = [data EXCEPT ![d] = Deprecated(@)]
  /\ Replace(d, actor, "deprecate")

Next ==
  \E d \in DatasetIds, actor \in Subjects :
     \/ Register(d, actor)
     \/ Patch(d, actor)
     \/ Publish(d, actor)
     \/ PublishAgain(d, actor)
     \/ Deprecate(d, actor)

Spec == Init /\ [][Next]_vars
=============================================================================
