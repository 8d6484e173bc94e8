SPECIFICATION FairSpec
CONSTANTS
  t1 = t1
  t2 = t2
  Task = {t1, t2}
  NoTask = NoTask
  FaultKinds <- LiveFaults
  MaxFaults = 2
  Clicks <- StartOnce
  MaxConcurrent = 1
  MaxAttempts = 1
  MaxRestarts = 0
PROPERTIES QueueDrains DeadWorkerSettles
CHECK_DEADLOCK FALSE
