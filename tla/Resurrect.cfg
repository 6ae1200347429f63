SPECIFICATION Spec
CONSTANTS
  Items <- DeepTree
  UserPaths <- LowPaths
  Texts = {"new"}
  Fold <- Folded
  MaxOps = 4
INVARIANT CommitYieldsTheView
CHECK_DEADLOCK FALSE
