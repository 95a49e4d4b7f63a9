----------------------------- MODULE CatalogData -----------------------------
(***************************************************************************)
(* What one catalog entry is, and what each mutation of sdp/catalog.py makes *)
(* of it: pure operators, shared by the service and by its atomic contract.  *)
(*                                                                         *)
(* A Dataset keeps the fields the handlers decide on.  The six text fields  *)
(* a patch may rewrite and publishing requires (steward, title, description, *)
(* domain, update_frequency, source_system) are one flag, described: all of  *)
(* them are non-empty.  The two required fields no patch can reach (owner,   *)
(* distributions) are the flag sourced.  Version "1.0.n" is the number n:    *)
(* no request can set a version, and _bump_version only adds to the last     *)
(* part.  Scores are derived from the other fields and never read by a       *)
(* mutation.                                                               *)
(***************************************************************************)
EXTENDS Policy, Sequences

CONSTANTS
  DatasetIds,      \* dataset ids in play
  NoId,            \* a create request without an id
  AutoId,          \* AutoId[n]: the id "dataset-<n>" a request without one gets
  ColumnNames,
  Tenants,
  Sensitivities,   \* free text in the code; "" is the empty one
  Unset,           \* a field the patch request does not mention
  Null             \* a field the patch request sets to null

ASSUME IdsAssumption ==
  /\ IsFiniteSet(DatasetIds)
  /\ NoId \notin DatasetIds
  /\ AutoId \in [1..(Cardinality(DatasetIds) + 1) -> DatasetIds]

\* explicit: every field of the column was given by whoever built it.  The code
\* keeps that (pydantic's fields_set), and a snapshot leaves unset fields out.
Column == [name : ColumnNames, pii : BOOLEAN, explicit : BOOLEAN]

Schema == SUBSET Column

Statuses == {"registered", "published", "deprecated"}

Dataset == [tenant_id      : Tenants,
            sensitivity    : Sensitivities,
            schema         : Schema,
            described      : BOOLEAN,
            sourced        : BOOLEAN,
            status         : Statuses,
            version        : Nat,
            schema_version : Nat]

ASSUME MissingAssumption == Missing \notin Dataset

\* DatasetCreateRequest: every status and version is the service's to choose.
CreateRequest == [id          : DatasetIds \cup {NoId},
                  tenant_id   : Tenants,
                  sensitivity : Sensitivities,
                  schema      : Schema,
                  described   : BOOLEAN,
                  sourced     : BOOLEAN]

\* DatasetPatchRequest: owner, distributions, tenant_id and status are not in
\* it.  well_formed is FALSE when the request does not parse, or a score lies
\* outside 0..1 and Dataset.model_validate refuses the copy.
PatchRequest == [sensitivity : Sensitivities \cup {Unset, Null},
                 schema      : Schema \cup {Unset, Null},
                 described   : BOOLEAN \cup {Unset, Null},
                 well_formed : BOOLEAN]

-----------------------------------------------------------------------------
bump_version(version) == version + 1

\* No name in _REQUIRED_METADATA_FIELDS is empty.
validate_metadata(dataset) ==
  /\ dataset.sourced
  /\ dataset.described
  /\ dataset.sensitivity # ""
  /\ dataset.schema # {}

\* Mutant: a registration starts in a status the lifecycle does not know.
Registered_Draft(request) ==
  [tenant_id      |-> request.tenant_id,
   sensitivity    |-> request.sensitivity,
   schema         |-> request.schema,
   described      |-> request.described,
   sourced        |-> request.sourced,
   status         |-> "draft",
   version        |-> 0,
   schema_version |-> 0]

Registered(request) ==
  [tenant_id      |-> request.tenant_id,
   sensitivity    |-> request.sensitivity,
   schema         |-> request.schema,
   described      |-> request.described,
   sourced        |-> request.sourced,
   status         |-> "registered",
   version        |-> 0,
   schema_version |-> 0]

\* model_dump() of the whole dataset, then model_validate: a default that was
\* implicit comes back as a given value.
RoundTrip(schema) == {[c EXCEPT !.explicit = TRUE] : c \in schema}

Updated(old, update) == IF update \in {Unset, Null} THEN old ELSE update

\* Mutant: the truth value of the schema is tested, not its presence.
MentionsSchema_Truthy(patch) == patch.schema \notin {Unset, Null, {}}

\* "schema" in updates: a null schema is mentioned, changes nothing, and still
\* moves schema_version.
MentionsSchema(patch) == patch.schema # Unset

Patched(dataset, patch) ==
  [dataset EXCEPT
     !.sensitivity    = Updated(@, patch.sensitivity),
     !.schema         = Updated(RoundTrip(@), patch.schema),
     !.described      = Updated(@, patch.described),
     !.schema_version = IF MentionsSchema(patch) THEN bump_version(@) ELSE @,
     !.version        = bump_version(@)]

Published(dataset) ==
  [dataset EXCEPT !.status  = "published",
                  !.schema  = RoundTrip(@),
                  !.version = bump_version(@)]

\* Mutant: deprecation does not make a version.
Deprecated_SameVersion(dataset) ==
  [dataset EXCEPT !.status = "deprecated", !.schema = RoundTrip(@)]

\* Mutant: a copy of the model takes the place of dump and validate.
Deprecated_Copied(dataset) ==
  [dataset EXCEPT !.status = "deprecated", !.version = bump_version(@)]

Deprecated(dataset) ==
  [dataset EXCEPT !.status  = "deprecated",
                  !.schema  = RoundTrip(@),
                  !.version = bump_version(@)]

-----------------------------------------------------------------------------
(* Schema history *)

Snapshot == [version : Nat, schema_version : Nat, schema : Schema, status : Statuses]

make_schema_snapshot(dataset) ==
  [version        |-> dataset.version,
   schema_version |-> dataset.schema_version,
   schema         |-> dataset.schema,
   status         |-> dataset.status]

SchemaVersions(history) == {history[i].schema_version : i \in DOMAIN history}

\* _coerce_version_index: of the entries with one schema_version the last wins.
SchemaAt(history, version) ==
  LET entries == {i \in DOMAIN history : history[i].schema_version = version}
      last    == CHOOSE i \in entries : \A j \in entries : j <= i
  IN  history[last].schema

Names(schema) == {c.name : c \in schema}

\* get_dataset_schema_diff, for two versions that both exist and schemas that do
\* not repeat a column name.  A column only one side has is reported by its name.
\* The others are compared by what the snapshots keep of them, so explicit counts,
\* and a column that differs is reported as it was before and is after.
schema_diff(history, from, to) ==
  LET before == SchemaAt(history, from)
      after  == SchemaAt(history, to)
  IN  [added     |-> Names(after) \ Names(before),
       removed   |-> Names(before) \ Names(after),
       unchanged |-> Names(before \cap after),
       changed   |-> {ba \in before \X after : ba[1].name = ba[2].name /\ ba[1] # ba[2]}]

=============================================================================
