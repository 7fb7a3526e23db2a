SPECIFICATION Spec
CONSTANTS
  top = top
  sub = sub
  None = None
  Chains = {top}
  Generations = 2
  Plans <- MCAny
  Caller <- MCNone
  Detached = {}
  Awaited = {}
  Slots = {2}
  Dispatchers = {d1, d2}
  Controls = {"run", "pause", "cancel"}
  MaxControls = 2
  MaxCrashes = 1
  ReadCommitted = FALSE
INVARIANTS
  FailureHasCause
PROPERTIES
  OutcomeSpec
SYMMETRY MCDispatchers
CHECK_DEADLOCK FALSE
