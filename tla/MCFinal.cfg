SPECIFICATION Spec
CONSTANTS
  t1 = t1
  Task = {t1}
  NoTask = NoTask
  FaultKinds <- NoFaults
  MaxFaults = 0
  Clicks <- StartCancel
  MaxConcurrent = 1
  MaxAttempts = 1
  MaxRestarts = 0
PROPERTIES ReportsLeaveTerminal
CHECK_DEADLOCK FALSE
