SPECIFICATION Spec
\* A search ends.
CHECK_DEADLOCK FALSE
CONSTANTS
  Box = {1, 2, 3, 4}
  Objectives = {"f1", "f2"}
  Primary = "f1"
  Second = "f2"
  Settings <- MCSettings
  Cost <- MCCost
  Budget = 12
  BatchSize = 2
  PopulationSize = 3
  Weights <- MCWeights
  EvalBudget = 5
  Reference <- MCReference
INVARIANTS
  StopIsHonest
  BooksAgree
  SurrogateRanks
  SelectionIsPareto
  VolumeIsCells
PROPERTIES
  SearchEnds
