SPECIFICATION Spec
CONSTANTS
  Missing = Missing
  Unset = Unset
  Null = Null
  NoId = "new"
  DatasetIds = {"crm"}
  AutoId <- MCAutoId
  ColumnNames = {"email", "device"}
  Tenants = {"demo", "external"}
  Sensitivities = {"high", "low", "critical"}
  Readers = {r1}
  Subjects = {"data-admin", "analyst", "external-analyst"}
  Purposes = {"analysis", "External-Export"}
  Versions <- MCVersions
  RowColumns = {"email", "device"}
  StoreMayFail = FALSE
  MaxDecisions = 2
  MaxEvents = 2
INVARIANT PreviewsAreMasked
CHECK_DEADLOCK FALSE
