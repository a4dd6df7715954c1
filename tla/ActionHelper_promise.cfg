\* Two connections, an operation id reused with other arguments, services that change
\* on their own, everything that settles fairly.
CONSTANTS
  c1 = c1
  c2 = c2
  c3 = c3
  o1 = o1
  o2 = o2
  u1 = u1
  noValue = noValue
  anyInvocation = anyInvocation
  None = noValue
  Unstated = anyInvocation
  Conn <- TwoConn
  Op <- MCOp
  Unit <- MCUnit
  Body <- ReuseBody
  Keep = 1
  SyncsDirectories = TRUE
  MaxCrashes = 1
  MaxInvocation = 1
SPECIFICATION FairSpec
CHECK_DEADLOCK FALSE
PROPERTIES
  KeepsPromise
  EveryRequestAnswered
