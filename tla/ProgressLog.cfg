SPECIFICATION Spec
CONSTANTS
  a = a
  b = b
  Records <- TwoRecords
  MaxAppends = 3
  MaxLosses = 2
  MaxTail = 4
INVARIANTS
  FindsTheRecords
PROPERTIES
  ImplementsRecordLog
CHECK_DEADLOCK FALSE
