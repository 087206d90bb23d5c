SPECIFICATION Spec
\* A run ends.
CHECK_DEADLOCK FALSE
CONSTANTS
  Initial <- MCInitial
  Batches <- MCBatches
  Packs <- MCPacks
  Objectives <- MCObjectives
  MaxLever = 1
  BatchSize = 2
  MaxScenarios = 6
  MaxCompute = 2
  MaxStorage = 7
  Window = 4
  FinalistCount = 1
  Replicates = 1
  Salts <- MCSalts
  MaxAttempts = 3
  MaxFaults = 2
  MaxLate = 1
INVARIANTS
  StopReasonIsTrue
  OverrunIsBounded
  RankedAsStored
  TwiceOnlyIfOverlapping
  BestAgrees
PROPERTIES
  LoopEnds
