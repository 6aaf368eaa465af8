SPECIFICATION Spec
CONSTANTS
  NUM_KEY_WORDS = 3
  KEY_CAPACITY = 2
  MAX_EVENTS = 8
  NULL = NULL
INVARIANTS
  TypeOK
  LiveKeysHoldText
  HandleOpenWhenUsed
  SentOnceInOrder
PROPERTIES
  ImplementsEventLog
