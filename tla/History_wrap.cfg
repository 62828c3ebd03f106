SPECIFICATION Spec
CONSTANTS
  JOB_HISTORY_MAX = 3
  ID_MOD = 8
  NoEntry = NoEntry
  Garbage = Garbage
  Exits = {0}
  MaxJobs = 20
INVARIANTS HistoryWindow BoundedLeak
CHECK_DEADLOCK FALSE
