SPECIFICATION Spec
CONSTANTS
  Cases <- SmallCases
  MaxRounds = 2
  Near <- Contained
  Short <- ShortNames
  Placeholder <- Sizzle
  Durum <- Breads
  Garlic <- Dips
  Values <- Texts
  Empty = ""
  Score <- Scores
  Polish <- Hygiene
  Alm = "neat"
  Topping = {"glued"}
  Forced <- Priors
  Refused <- Gate
CHECK_DEADLOCK FALSE
INVARIANTS NumbersUnique PlanIsPreflighted CategoryFirst
