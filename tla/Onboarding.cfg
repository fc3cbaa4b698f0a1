SPECIFICATION FairSpec
CONSTANTS
  MaxTx = 3
  MaxVaults = 3
  MaxFaults = 2
  MaxCrashes = 3
  MaxEdits = 2
INVARIANTS
  OnboardingTypeOK
  OnlyLostMintsRepeat
  RowIsOnChain
PROPERTIES
  ClaimEnds
  ResumeKeepsDial
CHECK_DEADLOCK FALSE
