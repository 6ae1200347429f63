SPECIFICATION SSpec
CONSTANTS
  Items <- SmallTree
  UserPaths <- SmallPaths
  Texts = {"new"}
  MaxOps = 6
  ChangeSets <- AllSets
  EditPaths <- SmallPaths
  MaxEdits = 2
  MaxFaults = 1
  Sources <- Trees
  Excluded = {".git"}
  MaxVanish = 1
INVARIANTS
  NoTraceUnlessApplied
  ApplyIsEverything
  OnlySeenIsRemoved
  SyncCopiesTheSource
CHECK_DEADLOCK FALSE
