SPECIFICATION Spec
CONSTANTS
  Plan <- CreatePlan
  Dest0 <- CreateDest
  Cats0 <- MenuCats
  Workflow = "CREATE_MENU"
  MaxCreateAttempts = 2
  MaxRuns = 3
  MaxLate = 0
CHECK_DEADLOCK FALSE
INVARIANTS VerifiedHolds NeverDuplicated CompletedMeansComplete NothingHalfDone ReusableExists
PROPERTIES VerifiedIsFinal NeverRecreate BreakerHolds NeverForgotten
