SPECIFICATION FairSpec
CONSTANTS
  Proc = {p1, p2}
  MaxCalls = 2
INVARIANTS
  NobodyInterferes
  OpenIsAlone
  InspectionIsSnapshot
PROPERTIES
  CallsReturn
CHECK_DEADLOCK FALSE
