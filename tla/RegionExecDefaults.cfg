CONSTANTS
  d1 = d1
  d2 = d2
  b1 = b1
  b2 = b2
  h1 = h1
  h2 = h2
  Device <- MCDevice
  HostPtr <- MCHostPtr
  Buffer <- MCBuffer
  Bytes <- MCBytes
  Layouts <- MCLayouts
  Capacity = 2
  MaxDepth = 2
  Scoped = TRUE
  Gangs <- MCDefaulted
  DefaultGangs = 1
SYMMETRY Symmetry
SPECIFICATION RSpec
INVARIANTS WorkDimPositive
CHECK_DEADLOCK FALSE
