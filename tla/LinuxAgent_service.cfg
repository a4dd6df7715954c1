\* Three processes under systemd, two sessions, one failing file operation.
CONSTANTS
  Size = {1, 2}
  Budget = {1}
  MaxStart = 2
  MaxTrigger = 0
  MaxLaunch = 3
  MaxFault = 1
SPECIFICATION FairAgentSpec
CHECK_DEADLOCK FALSE
INVARIANTS
  NothingOutlivesSession
  ActiveMarkerIsTrue
PROPERTIES
  EverySessionSampled
  WatchdogGoesOn
