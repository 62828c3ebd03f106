SPECIFICATION Spec
CONSTANTS
  check = check
  jobid = jobid
  job = job
  Messages = {check, jobid, job}
  Size <- MCSize
  HeaderSize = 3
  Capacity = 4
  MaxCalls = 4
  None = None
  Ended = Ended
  Corrupt = Corrupt
PROPERTIES ChannelSpec Transferred
CHECK_DEADLOCK FALSE
