SPECIFICATION FairSpec
CONSTANTS
  UINT8 = 7
  UINT32 = 4
  MICROS = 2
  SIZE_BUFFER = 5
  SIZE_QUEUE = 1
  TEST_CALLS = 1
  WAKEUP_AFTER = 1
  NIGHT = 3
  USE_WIFI = TRUE
  EPOCH = 100
  VALID = 50
  COUNT_LIMIT = 0
  BadFetch = {1}
  Behind = {"head"}
  Overwritten = {6}
  MaxTime = 1
INVARIANTS TypeOK RingInBounds OneWakeLost OneEventDropped
PROPERTIES SleepsAgain
CHECK_DEADLOCK FALSE
