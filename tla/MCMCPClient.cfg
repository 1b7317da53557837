SPECIFICATION Spec
CONSTANTS
  t1 = t1
  t2 = t2
  None = None
  Callers <- MCCallers
  MaxCalls <- MCMaxCalls
  MaxLines = 2
INVARIANTS
  AnswersMatched
PROPERTIES
  CallsEnd
  CloseReleases
CHECK_DEADLOCK FALSE
