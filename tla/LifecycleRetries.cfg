SPECIFICATION Spec
\* A run ends, and a workflow whose API has died before starting it never begins.
CHECK_DEADLOCK FALSE
CONSTANTS
  MaxAttempts = 3
  MaxFaults = 9
  MaxLate = 0
  MaxEdits = 0
  ApiCrashes = FALSE
  LostContact = FALSE
INVARIANTS
  TypeOK
  CompletedShowsResults
  FailureExplained
PROPERTIES
  ImplementsPromise
