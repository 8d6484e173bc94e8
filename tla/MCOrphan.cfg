SPECIFICATION FairSpec
CONSTANTS
  t1 = t1
  Task = {t1}
  NoTask = NoTask
  FaultKinds <- NoFaults
  MaxFaults = 0
  Clicks <- StartOnce
  MaxConcurrent = 1
  MaxAttempts = 2
  MaxRestarts = 2
PROPERTIES DeadWorkerReconciled
CHECK_DEADLOCK FALSE
