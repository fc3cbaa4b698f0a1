SPECIFICATION Spec
CONSTANTS
  acme = acme
  bolt = bolt
  sweep = sweep
  nobody = nobody
  Entity <- MCTwo
  Sweep = sweep
  NoEntity = nobody
  MaxTx = 2
  ReceiptsLag = FALSE
  PerTenantTotal = 2
  MaxCrashes = 0
INVARIANTS
  VerdictsAreTrue
CHECK_DEADLOCK FALSE
