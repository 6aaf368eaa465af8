SPECIFICATION FairSpec
CONSTANTS
  SIZE_QUEUE = 2
  SIZE_BUFFER = 5
  THRESHOLD_ANALIZER = 4
  COUNT_LIMIT = 0
INVARIANTS TypeOK RingHasRoom CountsPassages
PROPERTIES ShowsPassages
