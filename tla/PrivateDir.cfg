SPECIFICATION Spec
CONSTANT
  Scenarios <- PrivateDirUnsynced
INVARIANTS
  RecoveredIsAtomic
