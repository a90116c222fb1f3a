SPECIFICATION FairSpec
CONSTANTS
  j1 = j1
  j2 = j2
  Jobs = {j1, j2}
  Hosts = {h}
  HostOf <- SameHost
  WorkflowOf <- OneOfEach
  TTL = 1
  MaxTime = 2
  MaxQuestions = 2
  MaxApprovals = 1
  MaxCrashes = 0
CHECK_DEADLOCK FALSE
INVARIANTS ReviewIsAnswerable
 
