SPECIFICATION FairSpec
CONSTANTS
  Payloads <- Products
  Stored <- Menu
  Categories = {"1", "2"}
  Gated <- GateOf
  Shortened <- Cut
  Cap <- Caps
  Guard <- Guards
  MaxRuns = 2
  MaxLate = 1
CHECK_DEADLOCK FALSE
INVARIANTS OldOrPlanned
PROPERTIES NeverShown VerifiedWasWhole FormSettles
