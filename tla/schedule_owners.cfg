SPECIFICATION FairSpec
CONSTANTS
  r1 = r1
  r2 = r2
  r3 = r3
  k1 = k1
  None = None
  Runtimes = {r1, r2, r3}
  Registers <- MCRolling
  Redefined <- MCToSkip
  Keys = {}
  Grace = 0
  PassLimit = 1
  Retention = FALSE
  SetsBack = FALSE
  Horizon = 2
  MaxSequence = 0
  MaxFaults = 1
INVARIANTS
  LatestIsNotMissed
PROPERTIES
  DecidedWhileActive
  DueIsDecided
  OrphanedAtLast
CHECK_DEADLOCK FALSE
