SPECIFICATION ReportsSpec
CONSTANTS
  Threads = {t1, t2}
  Reviewers = {steward, owner}
  MaxPatches = 2
  MaxReviews = 2
  Cards <- MCCards
  InitialCatalog <- MCCatalog
  NewIds = {"d3"}
  Concepts = {"customer", "churn"}
  Limits = {1, 2}
  StoreMayFail = TRUE
  MaxWrites = 2
INVARIANT DecidedIsSigned
INVARIANT CatalogSearchIsWhole
INVARIANT ReportFailsForCause
INVARIANT QueueIsFaithful
INVARIANT PackIsCoherent
PROPERTY ConfirmedIsFinal
CONSTRAINT Explored
SYMMETRY AlikeThreadsAndReviewers
CHECK_DEADLOCK FALSE
