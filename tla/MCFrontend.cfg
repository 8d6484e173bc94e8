SPECIFICATION FairSpec
CONSTANTS
  Connection = {"m1", "m2", "p1"}
  TypeOf <- Types
  Databases <- Lists
  Target = {"a", "b"}
  ClientInputs <- Inputs
  MaxEdits = 5
  MaxLosses = 1
  Writer = {"claim", "run", "end", "watch", "cancel", "retry"}
  StatusOf <- Statuses
  Announcer = {"run", "end", "watch"}
  Own = {"cancel", "retry"}
  Poll = {"poll"}
  EventBuffer = 2
  MaxFailures = 1
INVARIANTS WorkerGetsMapping SourcesBelong OneQueuedTask PageSettles
PROPERTIES CatchesUp
CHECK_DEADLOCK FALSE
