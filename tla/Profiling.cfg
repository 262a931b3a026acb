CONSTANTS
  p1 = p1
  p2 = p2
  Process <- MCProcess
  File <- MCFile
  NumDevices <- MCNumDevices
  MaxSessions = 1
  MaxEvents <- MCMaxEvents
  MaxRuns = 1

SPECIFICATION PSpec
INVARIANTS PTypeOK EventsResolve MeasuredUnlessFailed
PROPERTY ImplementsEventLog
CHECK_DEADLOCK FALSE
