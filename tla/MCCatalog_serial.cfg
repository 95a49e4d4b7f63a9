SPECIFICATION Spec
CONSTANTS
  Missing = Missing
  Unset = Unset
  Null = Null
  NoId = "new"
  DatasetIds <- MCDatasetIds
  AutoId <- MCAutoId
  ColumnNames = {"email", "phone"}
  Tenants = {"demo", "external"}
  Sensitivities = {"high", "critical", ""}
  Threads = {t1}
  Subjects = {" Admin", "data-admin", "analyst"}
  Seed <- MCSeed
  CreateRequests <- MCCreates
  PatchRequests <- MCPatches
  StoreMayFail = FALSE
  StoreIsDurable = FALSE
  MayRestart = FALSE
  MaxDecisions = 3
INVARIANT TypeOK
INVARIANT SchemaVersionNamesOneSchema
INVARIANT HistoryIsVersionLog
INVARIANT DiffShowsRealChanges
PROPERTY ChangesStayInTenant
PROPERTY ImplementsAtomicCatalog
CHECK_DEADLOCK FALSE
