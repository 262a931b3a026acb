CONSTANTS
  p1 = p1
  p2 = p2
  Process <- MCProcess
  File <- MCFile
  NumDevices <- MCNumDevices
  MaxSessions = 1
  MaxEvents <- MCMaxEvents
  MaxRuns = 1
  GenData <- MCGenData
  Compiled <- MCCompiled
  NumData <- MCNumData
  Spaces <- MCSpaces

SPECIFICATION TSpec
INVARIANTS DoneIsProfiled StuckOnlyByCrash GenerationComplete VersionsKept
CHECK_DEADLOCK FALSE
