SPECIFICATION Spec
CONSTANTS
  x = x
  y = y
  Names = {x, y}
  Types <- MCTypes
  Vocabularies <- MCVocabularies
  Failures = {"allocation", "output"}
  MaxVisits = 5
INVARIANTS
  TypeOK
  ScopingAsRead
  ScopesFollowBlocks
  NoCascade
  AcceptedIsWellScoped
PROPERTIES
  FailureStops
