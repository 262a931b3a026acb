CONSTANTS
  d1 = d1
  d2 = d2
  b1 = b1
  b2 = b2
  b3 = b3
  h1 = h1
  h2 = h2
  h3 = h3
  Device <- MCDevice1
  HostPtr <- MCHostPtr3
  Buffer <- MCBuffer2
  Bytes <- MCBytes
  Layouts <- MCLayouts1
  Capacity = 2
  MaxDepth = 2
  Scoped = FALSE
SYMMETRY Symmetry
SPECIFICATION Spec
INVARIANTS Tracked NoAliases
PROPERTIES StablePointers
CHECK_DEADLOCK FALSE
