SPECIFICATION Spec
CONSTANTS
  Missing = Missing
  Unset = Unset
  Null = Null
  NoId = "new"
  DatasetIds <- MCDatasetIds
  AutoId <- MCAutoId
  ColumnNames = {"email", "phone"}
  Tenants = {"demo", "external"}
  Sensitivities = {"high", "critical", ""}
  Threads = {t1, t2}
  Subjects = {" Admin", "data-admin", "analyst"}
  Seed <- MCSeed
  CreateRequests <- MCCreates
  PatchRequests <- MCPatches
  StoreMayFail = TRUE
  StoreIsDurable = TRUE
  MayRestart = TRUE
  MaxDecisions = 2
INVARIANT AuditTraceable
INVARIANT SuccessIsAudited
INVARIANT MatrixIsHonoured
INVARIANT CurrentIsSnapshotted
CHECK_DEADLOCK FALSE
