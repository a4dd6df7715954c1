\* Two connections, one after the other or overlapping, a crash, a request, and
\* peers that close, answer or vanish at any point.
CONSTANTS
  q1 = q1
  noValue = noValue
  None = noValue
  Request <- OneRequest
  WriteEnabled = TRUE
  MaxSocket = 2
  MaxCrash = 1
SPECIFICATION FairSpec
CHECK_DEADLOCK FALSE
INVARIANTS
  SocketOrTimer
  NothingOutlivesConnection
  ReadyIsCurrent
  OneOffer
  ResponsesStayHome
PROPERTIES
  NeverStuck
  DeadPeerNoticed
