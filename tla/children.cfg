SPECIFICATION FairSpec
CONSTANTS
  top = top
  sub = sub
  None = None
  Chains = {top, sub}
  Generations = 2
  Plans <- MCFamily
  Caller <- MCChild
  Detached = {}
  Awaited = {sub}
  Slots = {1, 4}
  Dispatchers = {d1}
  Controls = {"cancel"}
  MaxControls = 1
  MaxCrashes = 0
  ReadCommitted = FALSE
INVARIANTS
  ParentWaits
  ClosePolicyReachesLast
PROPERTIES
  ParentIsAnswered
  ChildrenAreClosed
CHECK_DEADLOCK FALSE
