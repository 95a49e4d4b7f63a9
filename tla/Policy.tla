------------------------------- MODULE Policy -------------------------------
(***************************************************************************)
(* The authorisation kernel: actor contexts (sdp/authz.py), the policy      *)
(* function evaluate (sdp/policy.py) and the published RBAC matrix          *)
(* (sdp_core/rbac.py), all as pure operators.                               *)
(*                                                                         *)
(* A dataset is seen here through three of its fields: tenant_id,          *)
(* sensitivity and schema, a set of columns [name, pii].  The reason text   *)
(* of a decision is left out: no caller branches on it.                     *)
(***************************************************************************)
EXTENDS Naturals, FiniteSets

CONSTANT Missing     \* what get_dataset returns for an id the catalog lacks

-----------------------------------------------------------------------------
(* authz.py: who the actor is *)

\* subject.strip().lower(): one spelling that is not its own key is kept, so
\* that looking a subject up and writing it down are different things.
subject_key(subject) == IF subject = " Admin" THEN "admin" ELSE subject

RolesOf(subject) ==
  CASE subject_key(subject) = "admin"      -> {"admin", "data-analyst", "platform-admin"}
    [] subject_key(subject) = "security"   -> {"security", "platform-admin"}
    [] subject_key(subject) = "data-admin" -> {"admin", "data-analyst"}
    [] subject_key(subject) \in {"analyst", "data-analyst", "external-analyst"}
                                           -> {"data-analyst"}
    [] OTHER                               -> {}

TenantOf(subject) ==
  CASE subject_key(subject) \in {"admin", "security", "data-admin", "analyst", "data-analyst"} -> "demo"
    [] subject_key(subject) = "external-analyst" -> "external"
    [] OTHER -> ""

has_role(subject, roles) == RolesOf(subject) \cap roles # {}

can_access_tenant(subject, tenant_id) ==
  \/ "platform-admin" \in RolesOf(subject)
  \/ TenantOf(subject) = tenant_id

-----------------------------------------------------------------------------
(* policy.py: the decision *)

\* Mutant: analysts count as administrators.
is_admin_Analysts(subject) == has_role(subject, {"admin", "platform-admin", "data-analyst"})

is_admin(subject) == has_role(subject, {"admin", "platform-admin"})

has_reader_role(subject) ==
  has_role(subject, {"data-analyst", "admin", "platform-admin", "security"})

Mutations == {"publish", "patch", "deprecate"}
Discovery == {"search", "search_catalog", "discover"}
Reads     == {"query", "preview", "schema", "search", "list"}

can_mutate(subject, action) ==
  is_admin(subject) /\ action \in Mutations \cup {"create"}

\* purpose.lower(): the export rule folds case, the row filter rule does not.
purpose_key(purpose) ==
  CASE purpose = "Analysis"        -> "analysis"
    [] purpose = "External-Export" -> "external-export"
    [] OTHER                       -> purpose

\* The rules that look at the dataset, in the order evaluate tries them.
DatasetRules(subject, action, purpose, dataset) ==
  /\ dataset # Missing
  /\ can_access_tenant(subject, dataset.tenant_id)
  /\ dataset.sensitivity = "critical" => is_admin(subject)
  /\ purpose_key(purpose) = "external-export" => is_admin(subject)
  /\ action \in Mutations => can_mutate(subject, action)
  /\ action \in Reads => has_reader_role(subject)

Allowed(subject, action, purpose, dataset) ==
  CASE action = "create"     -> is_admin(subject)
    [] action \in Discovery  -> has_reader_role(subject)
    [] OTHER                 -> DatasetRules(subject, action, purpose, dataset)

\* [col.name for col in dataset.schema if col.pii]
PiiColumns(schema) == {c.name : c \in {k \in schema : k.pii}}

RowFiltered(action, purpose, dataset) ==
  action \in {"query", "preview"} /\ purpose = "analysis" /\ dataset.sensitivity = "high"

LooksAtDataset(action) == action # "create" /\ action \notin Discovery

\* Mutant: a decision about a schema masks nothing.
evaluate_RowsOnly(subject, resource, action, purpose, dataset) ==
  LET allow == Allowed(subject, action, purpose, dataset)
      onDataset == allow /\ LooksAtDataset(action)
  IN  [subject    |-> subject,
       resource   |-> resource,
       action     |-> action,
       effect     |-> IF allow THEN "allow" ELSE "deny",
       masking    |-> IF onDataset /\ action # "schema" THEN PiiColumns(dataset.schema) ELSE {},
       row_filter |-> onDataset /\ RowFiltered(action, purpose, dataset)]

\* The PolicyDecision evaluate builds; recording it is the caller's step.
evaluate(subject, resource, action, purpose, dataset) ==
  LET allow == Allowed(subject, action, purpose, dataset)
      onDataset == allow /\ LooksAtDataset(action)
  IN  [subject    |-> subject,
       resource   |-> resource,
       action     |-> action,
       effect     |-> IF allow THEN "allow" ELSE "deny",
       masking    |-> IF onDataset THEN PiiColumns(dataset.schema) ELSE {},
       row_filter |-> onDataset /\ RowFiltered(action, purpose, dataset)]

-----------------------------------------------------------------------------
(* rbac.py: the matrix served to buyers, which names evaluate as its source *)

MatrixActions(role) ==
  CASE role = "data-analyst"   -> {"discover", "schema", "preview", "query"}
    [] role = "admin"          -> {"discover", "schema", "preview", "query",
                                   "create", "patch", "publish", "deprecate"}
    [] role = "security"       -> {"discover", "schema"}
    [] role = "platform-admin" -> {"discover", "schema", "preview", "query",
                                   "create", "patch", "publish", "deprecate"}
    [] OTHER                   -> {}

MatrixAllTenants(role) == role = "platform-admin"

=============================================================================
