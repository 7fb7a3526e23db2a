CONSTANTS
  Waits = {1, 2}
  After <- Parallel
  Timeout <- FirstExpires
  NoTimeout = NoTimeout
  MaxSignals = 2
  MaxTime = 2
  Dispatchers = {d1}
  MaxCrashes = 1
  NoWait = NoWait
  None = None
  TimedOut = TimedOut
SPECIFICATION FairSpec
CHECK_DEADLOCK FALSE
INVARIANTS
  EarlierSignalWins
  NoLostWakeup
PROPERTIES
  QueueSpec
  WaitIsAnswered
