SPECIFICATION FairSpec
CONSTANTS
  None = None
  Identities = {a, b, c}
  MaximumEntries = 2
  MaxGeneration = 5
INVARIANTS
  MembersCoherent
  ShownIsCurrent
  AnalyzingIsServed
  OnlyWantedWork
  NoLostWakeup
PROPERTIES
  NoLateCompletion
  AnalysisEnds
  DestructionEnds
CHECK_DEADLOCK FALSE
