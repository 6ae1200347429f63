SPECIFICATION Spec
CONSTANT
  Scenarios <- Ours
INVARIANTS
  EveryStateIsSound
  RecoveredIsAtomic
  OutcomeIsFinal
  NeverRefuses
  SettledIsClean
