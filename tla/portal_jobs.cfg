SPECIFICATION Spec
CONSTANTS
  j1 = j1
  j2 = j2
  Jobs = {j1, j2}
  Hosts = {h}
  HostOf <- SameHost
  WorkflowOf <- BothCreate
  TTL = 1
  MaxTime = 3
  MaxQuestions = 1
  MaxApprovals = 2
  MaxCrashes = 1
CHECK_DEADLOCK FALSE
INVARIANTS PlannedBeforeExecuted BootSettles NothingLeaks OneRunPerHost
PROPERTIES OnlyWritableIsWritten NoBlindReplay
