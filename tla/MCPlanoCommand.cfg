SPECIFICATION Spec
CONSTANTS
  Commands <- MCCommands
  Name <- MCName
  Parent <- MCParent
  Bound <- MCBound
  Passthrough = {"tool"}
  Options <- MCOptions
  MaxCalls = 3
  MaxInterrupts = 1
  None = None
INVARIANTS
  TypeOK
  NestingShown
  GreenMeansAll
