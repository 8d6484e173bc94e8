SPECIFICATION Spec
CONSTANTS
  t1 = t1
  t2 = t2
  t3 = t3
  Task = {t1, t2, t3}
  NoTask = NoTask
  FaultKinds <- CalmFaults
  MaxFaults = 1
  Clicks <- StartOnce
  MaxConcurrent = 2
  MaxAttempts = 3
  MaxRestarts = 1
SYMMETRY Symmetry
INVARIANTS ActiveWithinLimit SuccessIsReal RunningIsWatched
PROPERTIES StatusMovesForward
CHECK_DEADLOCK FALSE
