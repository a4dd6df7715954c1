\* One launch of the Windows service with two sessions and a failing file operation.
CONSTANTS
  p = p
  t = t
  s = s
  Call <- MCCall
  Probe = p
  Tool = t
  SnapshotCalls <- MCSnapshotCalls
  File <- MCFile
  Inherited <- MCInherited
  MaxFault = 1
  MaxStart = 2
  None = None
  Refused = Refused
SPECIFICATION FairAgentSpec
CHECK_DEADLOCK FALSE
INVARIANT
  NothingLeftRunning
  ReceiptIsCurrent
  NoRunawayRuntime
  RunsConfined
  NoOrphan
  SentInItsSession
PROPERTY
  EntrySettles
  EverySessionSampled
