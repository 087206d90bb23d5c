SPECIFICATION Spec
CHECK_DEADLOCK FALSE
CONSTANTS
  Providers = {"p1", "p2", "p3"}
  Drivers = {"d1", "d2"}
  Tasks <- MCTasks
  Calls <- MCCalls
  MaxAttempts = 3
INVARIANTS
  CommitteeTypeOK
  NothingFabricated
  FailsOnlyOnBadReply
  DisagreementIsStakes
  SelectionIsTop
PROPERTY CommitteeEnds
