SPECIFICATION Spec
CONSTANTS
  r1 = r1
  r2 = r2
  r3 = r3
  k1 = k1
  None = None
  Runtimes = {r1}
  Registers <- MCAllCatchUp
  Redefined <- MCSame
  Keys = {k1}
  Grace = 0
  PassLimit = 3
  Retention = TRUE
  SetsBack = TRUE
  Horizon = 3
  MaxSequence = 1
  MaxFaults = 1
INVARIANTS
  NoInstantLost
  KeysHold
PROPERTIES
  OverlapSkipped
  TimelineSpec
CHECK_DEADLOCK FALSE
