CONSTANTS
  gang = gang
  worker = worker
  Unit <- MCUnit
  Launches <- MCStrided
  Word = 64
  RowBytes = {1, 3}
  Garbage = Garbage
SPECIFICATION Spec
INVARIANTS TileAssertHolds
CHECK_DEADLOCK FALSE
