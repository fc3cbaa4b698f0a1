SPECIFICATION FairSpec
CONSTANTS
  MaxVersion = 3
  MaxFacts = 2
  MaxTx = 4
  MaxAttempts = 2
  MaxGuardian = 2
  MaxFaults = 1
INVARIANTS
  AnchorLoopTypeOK
  TellsTheTruth
  ScheduledOnce
PROPERTIES
  HoldStopsSending
  CyclesEnd
CHECK_DEADLOCK FALSE
