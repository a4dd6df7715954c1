\* An upgrade under the credential at hand is killed once.
CONSTANTS
  Setup <- OnlyUpdate
  MaxFaults = 1
SPECIFICATION FairSpec
CHECK_DEADLOCK FALSE
PROPERTY
  RecoverySettles
