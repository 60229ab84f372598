SPECIFICATION FairSpec
CONSTANTS
  x = x
  y = y
  Names <- MCNames
  Types = {int}
  NoName = NoName
  BadType = BadType
  Lines = {1}
  InitialCapacity = 2
  MaxScopes = 4
  MaxSymbols = 2
INVARIANTS
  TypeOK
  SearchAnswer
  SymbolIdentity
  MemoryAccounted
PROPERTIES
  BorrowedStable
  ImplementsScopes
  SearchEnds
