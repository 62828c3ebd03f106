SPECIFICATION Spec
CONSTANTS
  Clients = {c1}
  Execs = {e1}
  MaxConnects = 2
  MAX_JOBS_QUEUE = 2
  IDX_MOD = 4
  JOB_HISTORY_MAX = 1
  ID_MOD = 3
  NoJob = NoJob
  NoEntry = NoEntry
  Garbage = Garbage
  AskedIds = {}
  UnsubIds = {}
  NoAddr = NoAddr
  ConsoleStops = FALSE
  Kinds = {"submit"}
  Queues = {}
  MaxSubmits = 2
  ExitValues = {}
  Signals = {}
INVARIANTS QueuedIsLive
CHECK_DEADLOCK FALSE
