SPECIFICATION Spec
CONSTANTS
  Inputs <- SilentInputs
  MaxFailures = 0
  MaxDepth = 20
INVARIANTS
  IndependentErrorsReported
