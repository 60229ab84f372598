SPECIFICATION Spec
CONSTANTS
  Trees <- SomeTrees
INVARIANTS
  PrintedTellsTree
CHECK_DEADLOCK FALSE
