CONSTANTS
  d1 = d1
  d2 = d2
  b1 = b1
  b2 = b2
  h1 = h1
  h2 = h2
  Device <- MCDevice
  HostPtr <- MCHostPtr
  Buffer <- MCBuffer
  Bytes <- MCBytes
  Layouts <- MCLayouts
  Capacity = 2
  MaxDepth = 1
  Scoped = FALSE
  Gangs <- MCGangs
  DefaultGangs = 1

SPECIFICATION RSpec
INVARIANTS RegionTypeOK QuietBetweenCalls KernelsUseLiveBuffers ReadyToLaunch
PROPERTIES ImplementsOffload ExecutionsEnd
CHECK_DEADLOCK FALSE
