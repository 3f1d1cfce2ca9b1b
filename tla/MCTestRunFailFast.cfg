SPECIFICATION Spec
CONSTANTS
  Count = 2
  Disabled = {}
  OwnTimeout <- NoOwnTimeout
  Options <- MCFailFastOptions
  Iterations = 1
  MaxSignals = 0
INVARIANT
  FailFastStops
