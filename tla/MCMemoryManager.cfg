SPECIFICATION Spec
CONSTANTS
  PoolSize = 64
  WordSize = 128
  Requests <- MCRequests
INVARIANTS
  TypeOK
  Tiling
  Ownership
  ShortOnlyOnWrap
  EmptyHeapIsWhole
PROPERTIES
  MergeCoalesces
  MergeTerminates
  HeapContractHolds
