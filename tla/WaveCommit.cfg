SPECIFICATION FairSpec
CONSTANTS
  t1 = t1
  t2 = t2
  t3 = t3
  Token <- Tokens3
  N = 4
  Moves <- Plan3
  BothNames <- Files3
INVARIANTS
  IInv
  Atomic
  NeverRefuses
PROPERTIES
  PotentialNeverRises
  Settles
  ImplementsAtomicCommit
  ImplementsRecordLog
