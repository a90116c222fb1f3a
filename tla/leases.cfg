SPECIFICATION LeasesSpec
CONSTANTS
  j1 = j1
  j2 = j2
  o1 = o1
  o2 = o2
  o3 = o3
  Jobs = {j1, j2}
  Hosts = {h}
  Owners = {o1, o2, o3}
  JobOf <- TwoRunsOfOneJob
  TTL = 2
  MaxTime = 4
CHECK_DEADLOCK FALSE
INVARIANTS OneHolderPerJob
PROPERTIES OnlyItsJobLosesLock
