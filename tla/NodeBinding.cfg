SPECIFICATION FairSpec
CONSTANTS
  c1 = c1
  c2 = c2
  c3 = c3
  r1 = r1
  r2 = r2
  Call <- Calls3
  Root <- Roots2
  RootOf <- On
  Overlapping = FALSE
INVARIANTS
  NoLockIsLeaked
  ResultIsTrue
PROPERTIES
  CallsSettle
