SPECIFICATION Spec
CONSTANTS
  SelectTimeout = 5
  AckSleep = 6
  NetDelay = 1
  Jitter = 0
  MaxWait = 0
PROPERTIES Served
CHECK_DEADLOCK FALSE
