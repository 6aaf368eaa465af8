SPECIFICATION Spec
CONSTANTS
  MAX_FAILURES = 4
  MAX_FETCHES = 3
  NULL = NULL
INVARIANTS
  TypeOK
  OwnParametersLast
  ValueOfOwnRequest
  LostByReportsOnly
