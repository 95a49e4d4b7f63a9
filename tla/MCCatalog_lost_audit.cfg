SPECIFICATION Spec
CONSTANTS
  Missing = Missing
  Unset = Unset
  Null = Null
  NoId = "new"
  DatasetIds <- MCDatasetIds
  AutoId <- MCAutoId
  ColumnNames = {"email", "phone"}
  Tenants = {"demo", "external"}
  Sensitivities = {"high", "critical", ""}
  Threads = {t1}
  Subjects = {"data-admin"}
  Seed <- MCSeed
  CreateRequests <- MCCreates
  PatchRequests <- MCPatches
  StoreMayFail = TRUE
  StoreIsDurable = FALSE
  MayRestart = FALSE
  MaxDecisions = 2
INVARIANT ChangesAreAudited
CHECK_DEADLOCK FALSE
