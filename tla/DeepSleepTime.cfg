SPECIFICATION Spec
CONSTANTS
  UINT8 = 7
  UINT32 = 4
  MICROS = 2
  SIZE_BUFFER = 5
  SIZE_QUEUE = 1
  TEST_CALLS = 1
  WAKEUP_AFTER = 1
  NIGHT = 3
  USE_WIFI = TRUE
  EPOCH = 100
  VALID = 50
  COUNT_LIMIT = 0
  BadFetch = {6}
  Behind = {}
  Overwritten = {6}
  MaxTime = 1
INVARIANTS DeepSleepTimeCorrect
CHECK_DEADLOCK FALSE
