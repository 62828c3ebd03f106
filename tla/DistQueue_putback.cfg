SPECIFICATION FairSpec
CONSTANTS
  Clients = {c1}
  Execs = {e1}
  MaxConnects = 4
  MAX_JOBS_QUEUE = 1
  IDX_MOD = 2
  JOB_HISTORY_MAX = 2
  ID_MOD = 3
  NoJob = NoJob
  NoEntry = NoEntry
  Garbage = Garbage
  AskedIds = {}
  UnsubIds = {}
  NoAddr = NoAddr
  ConsoleStops = FALSE
  Kinds = {"submit"}
  Queues = {}
  MaxSubmits = 2
  ExitValues = {}
  Signals = {}
PROPERTIES PutBackEnds
CHECK_DEADLOCK FALSE
