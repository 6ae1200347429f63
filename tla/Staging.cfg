SPECIFICATION CaseSpec
CONSTANTS
  Items <- DeepTree
  UserPaths <- DeepPaths
  Texts = {"new"}
  Fold <- Folded
  MaxOps = 4
INVARIANTS
  WellFormed
  AcceptsWhatATreeAccepts
  CommitYieldsTheRest
  PlanIsNetDifference
  JournalIsReadBack
  ClassifiedUnlessLeftBehind
  RollbackRestores
  CommitMeetsNoSpelling
PROPERTIES
  ViewIsTheTree
CHECK_DEADLOCK FALSE
