SPECIFICATION Spec
CONSTANTS
  Plan <- LatePlan
  Dest0 <- Nothing
  Cats0 <- MenuCats
  Workflow = "CREATE_MENU"
  MaxCreateAttempts = 2
  MaxRuns = 2
  MaxLate = 1
CHECK_DEADLOCK FALSE
INVARIANTS NeverDuplicated
