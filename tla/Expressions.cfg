SPECIFICATION Spec
CONSTANTS
  MaxTokens = 7
INVARIANTS
  GroupsByTable
  ErrorsExact
CHECK_DEADLOCK FALSE
