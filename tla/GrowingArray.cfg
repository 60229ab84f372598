SPECIFICATION Spec
CONSTANTS
  SizeMax = 1023
  ElementSize = 2
  Initial = 4
INVARIANTS
  NothingWraps
