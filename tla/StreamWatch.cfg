SPECIFICATION StreamSpec
\* A run ends, and the browser stops listening.
CHECK_DEADLOCK FALSE
CONSTANTS
  MaxAttempts = 1
  MaxFaults = 1
  MaxLate = 0
  MaxEdits = 0
  ApiCrashes = FALSE
  LostContact = FALSE
  MaxDrops = 1
INVARIANTS
  UiStagesWereLogged
  CompletedViewIsFinal
PROPERTIES
  UiLearnsVerdict
