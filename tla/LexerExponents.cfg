SPECIFICATION Spec
CONSTANTS
  Sources <- Float
  Later <- Nothing
  MaxRestarts = 0
  MaxInteger = 91
  Places = 1
  MaxFloat = 915
INVARIANTS
  ExponentsDiagnosed
CHECK_DEADLOCK FALSE
