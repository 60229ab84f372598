SPECIFICATION Spec
CONSTANTS
  Names <- MCNames
  Types <- MCTypes
  Vocabularies <- MCVocabularies
  Failures = {"allocation", "output"}
  MaxVisits = 5
  SizeMax = 20
INVARIANTS
  AcceptedIsGenerated
  UsesDenoted
  SameScopes
  TextsDistinct
  WholeProgram
