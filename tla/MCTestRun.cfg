SPECIFICATION FairSpec
CONSTANTS
  Count = 3
  Disabled = {2}
  OwnTimeout <- MCOwnTimeout
  Options <- MCOptions
  Iterations = 2
  MaxSignals = 2
INVARIANTS
  TypeOK
  OneVerdictEach
  GreenMeansPassed
  TerminatedNotGreen
  LostOutputNotGreen
PROPERTY
  RunEnds
