SPECIFICATION Spec
CONSTANTS
  Clients = {c1}
  Execs = {e1}
  MaxConnects = 2
  MAX_JOBS_QUEUE = 3
  IDX_MOD = 6
  JOB_HISTORY_MAX = 2
  ID_MOD = 3
  NoJob = NoJob
  NoEntry = NoEntry
  Garbage = Garbage
  AskedIds = {}
  UnsubIds = {0}
  NoAddr = NoAddr
  ConsoleStops = FALSE
  Kinds = {"submit"}
  Queues = {}
  MaxSubmits = 2
  ExitValues = {}
  Signals = {}
INVARIANTS UnsubmitSparesOthers
CHECK_DEADLOCK FALSE
