CONSTANTS
  Runs = {r1}
  Acts = {a1}
  Invocations = {i1, i2}
  Nobody = Nobody
  NoAct = NoAct
  NoLimit = NoLimit
  GlobalLimit = NoLimit
  KeyLimit = NoLimit
  MaxAttempts = 2
  Lease = 2
  MaxRequeues = 0
  RunOf <- OneRun
  KeyOf <- OneKey
  Unroutable = {}
SPECIFICATION HistorySpec
CHECK_DEADLOCK FALSE
PROPERTIES
  RenewedLeaseKeepsDelivery
