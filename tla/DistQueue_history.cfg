SPECIFICATION Spec
CONSTANTS
  Clients = {c1, c2}
  Execs = {e1}
  MaxConnects = 3
  MAX_JOBS_QUEUE = 3
  IDX_MOD = 6
  JOB_HISTORY_MAX = 1
  ID_MOD = 2
  NoJob = NoJob
  NoEntry = NoEntry
  Garbage = Garbage
  AskedIds = {}
  UnsubIds = {1}
  NoAddr = NoAddr
  ConsoleStops = FALSE
  Kinds = {"submit"}
  Queues = {}
  MaxSubmits = 2
  ExitValues = {}
  Signals = {}
SYMMETRY PeerSymmetry
INVARIANTS NoDanglingJob
PROPERTIES QueueSpec HistorySpec
CHECK_DEADLOCK FALSE
