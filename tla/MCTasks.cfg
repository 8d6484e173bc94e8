SPECIFICATION Spec
CONSTANTS
  t1 = t1
  Task = {t1}
  NoTask = NoTask
  FaultKinds <- AllFaults
  MaxFaults = 1
  Clicks <- EveryClick
  MaxConcurrent = 1
  MaxAttempts = 2
  MaxRestarts = 1
INVARIANTS TypeOK NothingRunsUnqueued TerminalRowsComplete
           StrandedWithinFaults SuccessIsWitnessed
PROPERTIES ImplementsLedger
CHECK_DEADLOCK FALSE
