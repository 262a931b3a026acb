CONSTANTS
  gang = gang
  worker = worker
  Unit <- MCUnit
  Launches <- MCLaunches
  Word = 64
  RowBytes = {1, 3}
  Garbage = Garbage
SPECIFICATION Spec
INVARIANTS EachIterationOnce SharesPartition DataFollowsLoop FirstSuitable
PROPERTIES LaunchesSucceed
CHECK_DEADLOCK FALSE
