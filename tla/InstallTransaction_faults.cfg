\* Every kind of installation, with three crashes, deaths or lost connections.
CONSTANTS
  Setup <- EverySetup
  MaxFaults = 3
SPECIFICATION FairSpec
CHECK_DEADLOCK FALSE
INVARIANTS
  SettledIsAccepted
  SettledIsWhole
  OnlyCredentialRestorable
  DecidedBeforeTouched
PROPERTY
  SettlesElsewhere
