SPECIFICATION Spec
CONSTANTS
  o1 = o1
  o2 = o2
  parent = parent
  child = child
  Operators = {o1, o2}
  Chain <- MCChain
  Caller <- MCCaller
  Limit = 2
  MaxLate = 1
SYMMETRY MCOperators
INVARIANTS
  ReferencesHold
PROPERTIES
  LinksOutlive
  KeyIsReserved
