CONSTANTS
  d1 = d1
  d2 = d2
  b1 = b1
  b2 = b2
  b3 = b3
  h1 = h1
  h2 = h2
  h3 = h3
  Device <- MCDevice
  HostPtr <- MCHostPtr
  Buffer <- MCBuffer2
  Bytes <- MCBytes
  Layouts <- MCLayouts
  Capacity = 2
  MaxDepth = 3
  Scoped = TRUE
SYMMETRY Symmetry
SPECIFICATION Spec
INVARIANTS TypeOK ScopesOwnData NothingLeaks
PROPERTIES PopSucceeds ImplementsScopedStore
CHECK_DEADLOCK FALSE
