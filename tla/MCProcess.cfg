SPECIFICATION Spec
CONSTANTS
  Procs = {p1, p2}
  Stashed = {p1}
  MaxCalls = 2
  MaxTerms = 2
  MaxAlarms = 1
  None = None
INVARIANTS
  TypeOK
  SweepSparesNone
  BlocksKill
  CheckedIsTrue
  StashSettled
PROPERTY
  SigtermEnds
