SPECIFICATION Spec
CONSTANTS
  SelectTimeout = 5
  AckSleep = 6
  NetDelay = 1
  Jitter = 2
  MaxWait = 5
INVARIANTS RoundBound SidesAgree
CHECK_DEADLOCK FALSE
