SPECIFICATION Spec
CONSTANTS
  Cats = {"Burgers"}
  Menu <- ThreeProducts
  Good = {2, 3}
  NamedAs <- Qualified
  Kept = {"1"}
  Foreign = {"99"}
  MaxEdits = 1
  MaxRuns = 3
CHECK_DEADLOCK FALSE
INVARIANTS NoTwin ExposureBounded StagedAsApproved LiveMeansAll
PROPERTY OnlyTheOrphanGoes
