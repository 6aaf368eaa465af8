SPECIFICATION SilenceSpec
CONSTANTS
  SIZE_QUEUE = 1
  SIZE_BUFFER = 4
  THRESHOLD_ANALIZER = 4
  BATCH = 4
  PUSH_DELAY = 3
  QUEUE_WAIT = 1
  ANALYZER_DELAY = 1
  COUNT_LIMIT = 0
  BadFetch = {}
PROPERTIES PassageForgottenOnlyAfterSilence
