SPECIFICATION Spec
CONSTANTS
  Missing = Missing
  Unset = Unset
  Null = Null
  NoId = "new"
  DatasetIds <- MCDatasetIds
  AutoId <- MCAutoId
  ColumnNames = {"email", "phone"}
  Tenants = {"demo", "external"}
  Sensitivities = {"high", "critical", ""}
  Threads = {t1, t2}
  Subjects = {"data-admin"}
  Seed <- MCSeed
  CreateRequests <- NoRequests
  PatchRequests <- TwoSchemas
  StoreMayFail = FALSE
  StoreIsDurable = FALSE
  MayRestart = FALSE
  MaxDecisions = 2
INVARIANT SchemaVersionNamesOneSchema
CHECK_DEADLOCK FALSE
