SPECIFICATION Spec
CONSTANTS
  Writer = {"worker", "watch", "user"}
  Handler = {"worker", "user"}
  Rows <- RowCounts
  Silent = {"user"}
  Announcer = {"watch"}
  Conn = {c1, c2}
  c1 = c1
  c2 = c2
  Buffer = 1
  ReplayLimit = 3
SYMMETRY Symmetry
INVARIANTS TypeOK NothingMissed
CHECK_DEADLOCK FALSE
