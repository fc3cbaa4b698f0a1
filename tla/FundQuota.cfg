SPECIFICATION Spec
CONSTANTS
  acme = acme
  bolt = bolt
  sweep = sweep
  nobody = nobody
  Entity <- MCTwo
  Sweep = sweep
  NoEntity = nobody
  MaxTx = 2
  ReceiptsLag = FALSE
  PerTenantTotal = 1
  MaxCrashes = 0
INVARIANTS
  QuotaHolds
CHECK_DEADLOCK FALSE
