\* A session ends while its snapshot is being compressed, and another begins.
CONSTANTS
  Size = {1, 2}
  Budget = {1, 2}
  MaxStart = 2
  MaxTrigger = 0
SPECIFICATION Spec
CHECK_DEADLOCK FALSE
INVARIANT
  SentInItsSession
