SPECIFICATION Spec
CONSTANTS
  Writer = {"watch"}
  Handler = {}
  Rows <- OneRow
  Silent = {}
  Announcer = {}
  Conn = {"c1"}
  Buffer = 2
  ReplayLimit = 4
INVARIANTS PublishSucceeds
CHECK_DEADLOCK FALSE
