CONSTANTS
  Key <- MCKey
  Data = {x, y}
  NoKey = NoKey
  InitSize = 2
  MaxCount = 5
SPECIFICATION Spec
INVARIANTS FindsFloor SearchStaysInside
PROPERTIES SearchEnds ImplementsMap
CHECK_DEADLOCK FALSE
