SPECIFICATION Spec
CONSTANTS
  SEND_COUNT_DELAY = 5
  SLACK = 2
  BOOT = 1
  RESET_COUNT_HOUR = 5
  RESET_COUNT_HOUR2 = 23
  RESET_COUNT_MIN = 15
  REFRESH_MIN = 15
  MAX_TEST = 20
  MAX_AGE = 24
INVARIANTS
  TypeOK
  ResetsPerWindow
PROPERTIES
  WindowNeverMissed
