SPECIFICATION Spec
CONSTANTS
  Cases <- SmallCases
  Feature <- SmallFeature
  Packs <- SmallPacks
  Options <- Everything
  Inventing = {"Combo"}
  Amounts = {"B"}
  None = "none"
  MaxHumans = 4
  MaxVersion = 3
  MaxStops = 1
CHECK_DEADLOCK FALSE
INVARIANTS AutoIsBacked OverruledStaysDown OverrideInForce
