SPECIFICATION FairSpec
CONSTANTS
  j1 = j1
  j2 = j2
  n1 = n1
  n2 = n2
  c1 = c1
  Jobs = {j1, j2}
  Items = {n1, n2}
  CatNames = {c1}
  Want <- Overlapping
  CatOf <- OneCategory
  Starts <- EmptyOrOpened
  MaxEdits = 1
  MaxDeploys = 1
CHECK_DEADLOCK FALSE
INVARIANTS KnownGround OfflineNeverWrites
PROPERTIES PremisesHold LiveEnds
