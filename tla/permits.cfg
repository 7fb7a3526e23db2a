CONSTANTS
  Runs = {r1}
  Acts = {a1, a2}
  Invocations = {i1, i2, i3}
  Nobody = Nobody
  NoAct = NoAct
  NoLimit = NoLimit
  GlobalLimit = 2
  KeyLimit = 1
  MaxAttempts = 1
  Lease = 2
  MaxRequeues = 0
  RunOf <- OneRun
  KeyOf <- OneKey
  Unroutable <- NoneUnroutable
SPECIFICATION FairWorkersSpec
CHECK_DEADLOCK FALSE
INVARIANTS
  AdmissionBound
PROPERTIES
  DeliveryEnds
