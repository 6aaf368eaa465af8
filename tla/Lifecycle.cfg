SPECIFICATION Spec
CONSTANTS
  MAXIMUM_RETRY = 1
  RETRY_COUNT = 2
  HEAP = 9
  MIN_HEAP = 7
  URL = 1
  HANDLE = 2
  CLIENT = 1
  OTHERS = 2
  MAX_VERSION = 2
INVARIANTS TypeOK 
PROPERTIES VersionsRise StartUpGoesOn
