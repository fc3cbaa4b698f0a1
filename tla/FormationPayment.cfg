SPECIFICATION FairSpec
CONSTANTS
  c1 = c1
  c2 = c2
  Company <- MCOne
  MaxQuotes = 2
  MaxBroadcasts = 2
  MaxOutside = 1
  MaxShort = 1
  MaxBlind = 1
  MaxCrashes = 1
INVARIANTS
  FormationPaymentTypeOK
  ChargedOnce
  ExpiredIsDead
PROPERTIES
  UnpaidOnlyByReplacement
  SettlingResolves
CHECK_DEADLOCK FALSE
