SPECIFICATION Spec
CONSTANTS
  Commands <- MCCommands
  Name <- MCName
  Parent <- MCParent
  Bound <- MCBound
  Passthrough = {"tool"}
  Options <- MCOptions
  MaxCalls = 0
  MaxInterrupts = 0
  None = None
INVARIANT
  HelpRunsNothing
