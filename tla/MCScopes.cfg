SPECIFICATION Spec
CONSTANTS
  Vars = {"X", "Y"}
  Inherited = {"X"}
  Dirs = {"home", "a"}
  Temps = {"t"}
  Levels = {"info", "disabled"}
  MaxBlocks = 3
  MaxChanges = 1
  MaxStrikes = 1
INVARIANTS
  TypeOK
  FailuresHaveCause
PROPERTY
  ImplementsScoped
