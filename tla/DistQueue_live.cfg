SPECIFICATION FairSpec
CONSTANTS
  Clients = {c1}
  Execs = {e1}
  MaxConnects = 4
  MAX_JOBS_QUEUE = 1
  IDX_MOD = 2
  JOB_HISTORY_MAX = 2
  ID_MOD = 2
  NoJob = NoJob
  NoEntry = NoEntry
  Garbage = Garbage
  AskedIds = {}
  UnsubIds = {}
  NoAddr = NoAddr
  ConsoleStops = FALSE
  Kinds = {"submiti"}
  Queues = {0}
  MaxSubmits = 2
  ExitValues = {}
  Signals = {9}
PROPERTIES HandedOver EndIsRecorded AcceptReturns
CHECK_DEADLOCK FALSE
