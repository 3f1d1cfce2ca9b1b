SPECIFICATION Spec
CONSTANTS
  Timeouts = {1, 2}
  MaxTimers = 2
  MaxClockSteps = 0
INVARIANT
  NoBodyOverruns
