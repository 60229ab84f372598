SPECIFICATION FairSpec
CONSTANTS
  Inputs <- MCInputs
  MaxFailures = 1
  MaxDepth = 13
INVARIANTS
  Ownership
  VerdictTold
  ErrorsTrue
  NothingReportedTwice
  StackByNesting
PROPERTIES
  ParsingEnds
