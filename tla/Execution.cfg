SPECIFICATION RunSpec
CONSTANTS
  Names <- MCNames
  Types <- MCTypes
  Programs <- MCPrograms
  Failures = {"allocation"}
  SizeMax = 9
  MaxBranches = 4
INVARIANTS
  TypeOK
  SuccessIsWellScoped
  LabelsResolve
  SameBehaviour
PROPERTIES
  GenerationEnds
