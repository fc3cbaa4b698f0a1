SPECIFICATION FairSpec
CONSTANTS
  acme = acme
  bolt = bolt
  sweep = sweep
  nobody = nobody
  Entity <- MCTwo
  Sweep = sweep
  NoEntity = nobody
  MaxTx = 2
  ReceiptsLag = FALSE
  PerTenantTotal = 2
  MaxCrashes = 1
INVARIANTS
  FundTreasuryTypeOK
  OnlyReplacementsMislead
  MoneyIsCounted
PROPERTIES
  NoSecondTransfer
  ClaimedNonceNotReused
  EveryPassEnds
CHECK_DEADLOCK FALSE
