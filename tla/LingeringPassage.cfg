SPECIFICATION FairSpec
CONSTANTS
  SIZE_QUEUE = 1
  SIZE_BUFFER = 2
  THRESHOLD_ANALIZER = 2
  BATCH = 2
  PUSH_DELAY = 3
  QUEUE_WAIT = 1
  ANALYZER_DELAY = 1
  COUNT_LIMIT = 0
  BadFetch = {}
PROPERTIES SilenceResetsMachine
