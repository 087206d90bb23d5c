SPECIFICATION Spec
\* Nobody has to make calls.
CHECK_DEADLOCK FALSE
CONSTANTS
  Providers <- MCProviders
  Chains <- MCChains
  Calls = {c1, c2}
  CooldownBase = 1
  CooldownMax = 2
  StreakLimit = 4
  MaxFlips = 1
  MaxBegun = 3
INVARIANTS
  BreakerTypeOK
  CooldownFitsStreak
  FailsOnlyIfNoneCouldAnswer
