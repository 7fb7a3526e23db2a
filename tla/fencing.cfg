CONSTANTS
  Runs = {r1}
  Acts = {a1}
  Invocations = {i1, i2, i3}
  Nobody = Nobody
  NoAct = NoAct
  NoLimit = NoLimit
  GlobalLimit = NoLimit
  KeyLimit = NoLimit
  MaxAttempts = 2
  Lease = 2
  MaxRequeues = 1
  RunOf <- OneRun
  KeyOf <- OneKey
  Unroutable <- EveryAct
SPECIFICATION Spec
SYMMETRY Interchangeable
CHECK_DEADLOCK FALSE
INVARIANTS
  TypeOK
  HolderNeverStale
  AckAfterAnswer
  AnswerIsReceipt
  BlockedIffActiveLetter
  LettersTrackDeliveries
PROPERTIES
  ReceiptSpec
