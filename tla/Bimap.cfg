CONSTANTS
  h1 = h1
  h2 = h2
  h3 = h3
  h4 = h4
  d1 = d1
  d2 = d2
  d3 = d3
  d4 = d4
  v1 = v1
  Key1 <- MCKey1
  Key2 <- MCKey2
  Val <- MCVal
  Size = 3
  Garbage = Garbage
SPECIFICATION Spec
INVARIANTS TypeOK Agree HalfFullStaysInside
PROPERTIES RemovalNeverAborts ImplementsPairTable
CHECK_DEADLOCK FALSE
