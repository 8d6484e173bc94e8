SPECIFICATION FairSpec
CONSTANTS
  Task = {"t1"}
  EventKinds <- AllEvents
  MaxEvents = 3
INVARIANTS TypeOK SuccessIsReal
PROPERTIES ImplementsLedger JobSettles SecretsCleaned
CHECK_DEADLOCK FALSE
