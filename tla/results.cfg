SPECIFICATION FairSpec
CONSTANTS
  c1 = c1
  None = None
  Clients = {c1}
  Generations = 2
  MaxRevision = 2
  Storages <- MCStorages
  MaxTimeout = 2
  MaxLost = 1
INVARIANTS
  HintsSuffice
PROPERTIES
  ResultIsTold
CHECK_DEADLOCK FALSE
