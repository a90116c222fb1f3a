SPECIFICATION Spec
CONSTANTS
  j1 = j1
  j2 = j2
  Jobs = {j1, j2}
  Hosts = {h}
  HostOf <- SameHost
  WorkflowOf <- BothCreate
  TTL = 1
  MaxTime = 3
  MaxQuestions = 0
  MaxApprovals = 1
  MaxCrashes = 0
CHECK_DEADLOCK FALSE
INVARIANTS OneWriterPerHost
