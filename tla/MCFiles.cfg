SPECIFICATION Spec
CONSTANTS
  Words <- MCWords
  Names <- MCNames
  Trees <- MCTrees
  Targets <- MCTargets
  MaxDepth = 3
INVARIANTS
  TypeOK
  NothingElseLost
  CopyFaithful
  TextAsAsked
