SPECIFICATION FairSpec
CONSTANTS
  MaxVersion = 3
  MaxFacts = 2
  MaxTx = 4
  MaxAttempts = 2
  MaxGuardian = 0
  MaxFaults = 0
INVARIANT QuietIsAnchored
CHECK_DEADLOCK FALSE
