SPECIFICATION FairSpec
CONSTANTS
  None = None
  Steps = 3
  Body <- MCMixed
  Branches = 3
  Concurrency = 2
  MaxAttempts <- MCThrice
  Caught <- MCFirstBranch
  MaxCrashes = 1
INVARIANTS
  GroupIsSound
  EffectsUndone
PROPERTIES
  BackoffIsWaited
  RollbackSpec
  ScopeEnds
CHECK_DEADLOCK FALSE
