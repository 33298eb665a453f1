SPECIFICATION Spec
CONSTANTS
  Goroutines = {g1, g2}
  Keys <- MCKeys
  Fallible <- MCFallible
  Unique <- MCUnique
  None = None
  Failed = Failed
  Names <- MCNames
  Primary <- MCPrimary
  HostNames <- MCHostNames
  NoName <- MCNoName
  Local = Local
  MaxOverrides = 1
INVARIANTS
  CacheTypeOK
  OnePointer
  SameZoneSamePointer
PROPERTIES
  EveryCallReturns
  ImplementsTable
