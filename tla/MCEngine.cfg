SPECIFICATION FairSpec
CONSTANTS
  Task = {"my", "kept", "new", "rival"}
  DB = {"a", "b", "c", "e", "f", "g"}
  Existing = {"a", "b", "c", "e"}
  Pairs <- PairsOf
  Policy <- PolicyOf
  PostgreSQL = {"new", "rival"}
  MaxTables = 2
  MaxRuns <- RunsOf
  MaxFaults = 1
INVARIANTS TypeOK SuccessIsComplete WritesOnlyOwn DoneWithinTotal
PROPERTIES RetrySucceeds
CHECK_DEADLOCK FALSE
