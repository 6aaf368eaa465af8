SPECIFICATION FairSpec
CONSTANTS
  SIZE_QUEUE = 1
  SIZE_BUFFER = 3
  THRESHOLD_ANALIZER = 2
  BATCH = 2
  PUSH_DELAY = 3
  QUEUE_WAIT = 1
  ANALYZER_DELAY = 1
  COUNT_LIMIT = 0
  BadFetch = {2}
INVARIANTS TypeOK MutualExclusion BatchBacked NoBufferOverflow PassageInRange
PROPERTIES CountStableWhileReported CountMovesByOne ImplementsPassageCounter NoEventStranded PassageFinished
