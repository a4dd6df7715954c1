\* A control plane that accepts a connection and never answers its upgrade.
CONSTANTS
  q1 = q1
  noValue = noValue
  None = noValue
  Request <- OneRequest
  WriteEnabled = TRUE
  MaxSocket = 2
  MaxCrash = 0
SPECIFICATION FairSpec
CHECK_DEADLOCK FALSE
PROPERTY
  Reconnects
