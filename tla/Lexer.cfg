SPECIFICATION Spec
CONSTANTS
  Sources <- MCSources
  Later <- MCLater
  MaxRestarts = 1
  MaxInteger = 91
  Places = 1
  MaxFloat = 915
INVARIANTS
  OfThisSource
  ValuesExact
  EndsOfLine
CHECK_DEADLOCK FALSE
