SPECIFICATION FairSpec
CONSTANTS
  Addresses <- Five
  Kinds <- MCKinds
  InitialCapacity = 1
INVARIANTS
  Ownership
  ChildrenFit
PROPERTIES
  ImplementsTrees
  CallsReturn
