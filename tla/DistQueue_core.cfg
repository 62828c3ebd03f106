SPECIFICATION Spec
CONSTANTS
  Clients = {c1}
  Execs = {e1, e2}
  MaxConnects = 3
  MAX_JOBS_QUEUE = 1
  IDX_MOD = 2
  JOB_HISTORY_MAX = 2
  ID_MOD = 2
  NoJob = NoJob
  NoEntry = NoEntry
  Garbage = Garbage
  AskedIds = {1}
  UnsubIds = {}
  NoAddr = NoAddr
  ConsoleStops = TRUE
  Kinds = {"submit", "fails"}
  Queues = {}
  MaxSubmits = 2
  ExitValues = {}
  Signals = {}
SYMMETRY PeerSymmetry
INVARIANTS TypeOK ExitIsReported OnePlace AnswerIsDue StartedOnce HeldIsWaiting ExpectedMessages Accounted CleanStop
PROPERTIES QueueSpec StateAdvances
CHECK_DEADLOCK FALSE
