------------------------------- MODULE MCReads -------------------------------
(* Small instances of GovernedReads. *)
EXTENDS GovernedReads, TLC

MCAutoId == [n \in 1..2 |-> "crm"]

Column1(name, pii) == [name |-> name, pii |-> pii, explicit |-> TRUE]

Entry(tenant, sensitivity, status, schema) ==
  [tenant_id |-> tenant, sensitivity |-> sensitivity,
   schema |-> schema, described |-> TRUE, sourced |-> TRUE,
   status |-> status, version |-> 0, schema_version |-> 0]

\* The email column gains and loses its PII flag, a column with personal data is
\* added, the entry becomes critical, and is deprecated.
MCVersions ==
  [d \in DatasetIds |->
     {Entry("demo", "high", "published", {Column1("email", TRUE)}),
      Entry("demo", "low", "published", {Column1("email", FALSE), Column1("device", TRUE)}),
      Entry("demo", "critical", "deprecated", {Column1("email", FALSE)})}]

ReaderSymmetry == Permutations(Readers)
=============================================================================
