SPECIFICATION Spec
\* A run ends, and a workflow whose API has died before starting it never begins.
CHECK_DEADLOCK FALSE
CONSTANTS
  MaxAttempts = 1
  MaxFaults = 1
  MaxLate = 0
  MaxEdits = 0
  ApiCrashes = TRUE
  LostContact = FALSE
PROPERTY Settles
