SPECIFICATION FairSpec
CONSTANTS
  MAX_JOBS_QUEUE = 3
  IDX_MOD = 6
  NoJob = NoJob
  Putters = {c1, c2}
  Getters = {e1, e2}
  Jobs <- MCJobs
  Removed <- MCIds
INVARIANTS TypeOK StateTellsFull NoLostWakeup
PROPERTIES FifoSpec RemovesRequestedOrNewest HeadIsTaken
CHECK_DEADLOCK FALSE
