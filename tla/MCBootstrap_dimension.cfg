SPECIFICATION Spec
CONSTANTS
  HasDatabase = TRUE
  Backends = {"no row"}
  Dimensions = {256}
  SeedItems <- MCSeedItems
  Edits = {"edit"}
  MaxAttempts = 2
  Threads = {t1}
  Writes = {"edit"}
INVARIANT MigrationFitsInserts
CHECK_DEADLOCK FALSE
