SPECIFICATION FairSpec
CONSTANTS
  Timeouts = {1, 2}
  MaxTimers = 3
  MaxClockSteps = 1
INVARIANTS
  TypeOK
  AlarmHasBlock
  ResumedWithRest
PROPERTIES
  TimeoutHasCause
  LeafBlockEnds
