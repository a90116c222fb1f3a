SPECIFICATION FairSpec
CONSTANTS
  Plan <- MixedPlan
  Dest0 <- MixedDest
  Cats0 <- MenuCats
  Workflow = "QA_RECONCILE"
  MaxCreateAttempts = 2
  MaxRuns = 2
  MaxLate = 1
CHECK_DEADLOCK FALSE
INVARIANTS VerifiedHolds
PROPERTIES RunEnds
