------------------------------ MODULE MCCatalog ------------------------------
(* Small catalogs for CatalogService and SerialCatalog. *)
EXTENDS SerialCatalog

MCDatasetIds == {"crm", "dataset-002", "dataset-003", "dataset-004"}

\* With one seed dataset and at most three creations the entries above 4 are
\* never looked up.
MCAutoId == <<"crm", "dataset-002", "dataset-003", "dataset-004", "dataset-004">>

Email(pii, explicit) == [name |-> "email", pii |-> pii, explicit |-> explicit]

Phone == [name |-> "phone", pii |-> TRUE, explicit |-> TRUE]

MCSeed ==
  [crm |-> [tenant_id |-> "demo", sensitivity |-> "high", schema |-> {Email(TRUE, FALSE)},
            described |-> TRUE, sourced |-> TRUE, status |-> "published",
            version |-> 0, schema_version |-> 0]]

Creation(id, tenant, schema, described) ==
  [id |-> id, tenant_id |-> tenant, sensitivity |-> "high", schema |-> schema,
   described |-> described, sourced |-> TRUE]

Edit(sensitivity, schema, described, well_formed) ==
  [sensitivity |-> sensitivity, schema |-> schema, described |-> described,
   well_formed |-> well_formed]

\* An automatic id, the id an automatic one runs into, and an incomplete entry
\* in another tenant under that same id.
MCCreates ==
  {Creation(NoId, "demo", {Email(FALSE, FALSE)}, TRUE),
   Creation("dataset-002", "external", {Phone}, FALSE)}

\* A new schema, a null one, blanked and refilled texts, a refused request.
MCPatches ==
  {Edit(Unset, {Email(FALSE, FALSE), Phone}, Unset, TRUE),
   Edit(Unset, {}, Unset, TRUE),
   Edit(Unset, Null, Unset, TRUE),
   Edit("critical", Unset, FALSE, TRUE),
   Edit(Unset, Unset, TRUE, FALSE)}

\* Two patches of one dataset that disagree.
TwoSchemas ==
  {Edit(Unset, {Email(FALSE, FALSE)}, Unset, TRUE),
   Edit(Unset, {Email(TRUE, FALSE)}, Unset, TRUE)}

NoRequests == {}
=============================================================================
