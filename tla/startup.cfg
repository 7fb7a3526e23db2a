SPECIFICATION Spec
CONSTANTS
  p1 = p1
  p2 = p2
  f1 = f1
  f2 = f2
  f3 = f3
  module = module
  q = q
  other = other
  act = act
  act2 = act2
  act3 = act3
  wf = wf
  wf2 = wf2
  wf3 = wf3
  nightly = nightly
  Root = Root
  None = None
  Processes = {p1, p2}
  Limits = {1, 2}
  Situations <- MCSituations
  Orders <- MCOrders
SYMMETRY MCProcesses
CHECK_DEADLOCK FALSE
INVARIANTS
  ServingIsSound
  HealthyStarts
  CatalogIsSound
