\* Each read tool on a small host.
CONSTANTS
  Pid = {1, 2, 3}
  User = {"root", "agent"}
  Owner <- MCOwner
  Concurrency = 2
  ProcessLimit = {1, 3}
  Unit = {"a", "b"}
  AllowedUnits = {"a"}
  Entry <- MCEntry
  PageLimit = {1, 2}
  ByteLimit = {2, 4}
  None = None
  MaxEntry = 4
  NativeCap = 2
  Rows <- MCRows
  SnapshotRows <- MCSnapshotRows
  Retained = 1
  SnapshotSize = {3, 9}
  ListLimit = {1, 2, 3}
  Compactions <- MCCompactions
  MaxDepth = 2
  TargetSize = 8
  ContextSize = 17
  MaxOmissions = 3
  Result <- MCResult
SPECIFICATION Spec
CHECK_DEADLOCK FALSE
INVARIANT
  ProcessesAreListed
  PagesTile
  ListsAreHonest
  RecoveryIsEarned
  ProjectionIsHonest
