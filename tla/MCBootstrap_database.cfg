SPECIFICATION FairSpec
CONSTANTS
  HasDatabase = TRUE
  Backends = {"no row", "memory", "invalid"}
  Dimensions = {128, 256}
  SeedItems <- MCSeedItems
  Edits = {"edit"}
  MaxAttempts = 2
  Threads = {t1, t2}
  Writes = {"edit", "w1"}
INVARIANT ConfirmedIsVisible
INVARIANT NoSilentDowngrade
PROPERTY ConfirmedSurvives
INVARIANT MigratedIsComplete
PROPERTY DeploymentEnds
PROPERTY ServiceRecovers
CHECK_DEADLOCK FALSE
