SPECIFICATION Spec
CONSTANTS
  SIZE_QUEUE = 1
  SIZE_PENDING = 3
  COUNT_LIMIT = 0
INVARIANTS TypeOK InPhase CountsPassages AllBackAtWork
PROPERTIES TestModeIsSilent
