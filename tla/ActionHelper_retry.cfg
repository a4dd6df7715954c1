\* Three connections: duplicates and retries of one operation around another.
CONSTANTS
  c1 = c1
  c2 = c2
  c3 = c3
  o1 = o1
  o2 = o2
  u1 = u1
  noValue = noValue
  anyInvocation = anyInvocation
  None = noValue
  Unstated = anyInvocation
  Conn <- ThreeConn
  Op <- MCOp
  Unit <- MCUnit
  Body <- RetryBody
  Keep = 1
  SyncsDirectories = TRUE
  MaxCrashes = 1
  MaxInvocation = 0
SPECIFICATION Spec
SYMMETRY Symmetry
CHECK_DEADLOCK FALSE
INVARIANTS
  AtMostOnce
  AnswerSurvives
  SuccessIsReal
PROPERTIES
  NotStartedIsTrue
