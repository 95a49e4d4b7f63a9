SPECIFICATION Spec
CONSTANTS
  Missing = Missing
  Unset = Unset
  Null = Null
  NoId = "new"
  DatasetIds = {"crm"}
  AutoId <- MCAutoId
  ColumnNames = {"email", "device"}
  Tenants = {"demo", "external"}
  Sensitivities = {"high", "low", "critical"}
  Readers = {r1, r2}
  Subjects = {"analyst", "external-analyst"}
  Purposes = {"analysis", "External-Export"}
  Versions <- MCVersions
  RowColumns = {"email", "device"}
  StoreMayFail = TRUE
  MaxDecisions = 1
  MaxEvents = 1
INVARIANT AnswersAreEvidenced
INVARIANT ReleaseFitsAVersion
INVARIANT ContradictionMeansChange
INVARIANT EventsMatchDecisions
SYMMETRY ReaderSymmetry
CHECK_DEADLOCK FALSE
