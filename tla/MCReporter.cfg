SPECIFICATION FairSpec
CONSTANTS
  Output <- ToolOutput
  TailLimit = 1
  MaxLines = 3
  OwnLines = 1
  MaxReports = 4
  Full = 1
  FlushAt = 2
  LogAttempts = 2
  FaultKinds <- AllFaults
  MaxFaults = 2
INVARIANTS TypeOK StoredOnce OnlyInHandLost TailIsLastLines
PROPERTIES ProgressInOrder CloseEnds
CHECK_DEADLOCK FALSE
