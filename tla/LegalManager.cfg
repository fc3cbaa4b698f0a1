SPECIFICATION LegalManagerSpec
CONSTANTS
  b1 = b1
  alice = alice
  bob = bob
  eve = eve
  nobody = nobody
  h1 = h1
  h2 = h2
  nohash = nohash
  usdc = usdc
  native = native
  Body <- MCBody
  Address <- MCAddress
  NoOne = nobody
  Hash <- MCHash
  NoHash = nohash
  Token <- MCToken
  Native = native
  MIN_AMENDMENT_DELAY = 1
  AmendmentDelay <- MCDelay
  MaxTime = 4
  MaxHeld = 1
INVARIANTS
  LegalManagerTypeOK
PROPERTIES
  VetoWindowRespected
  DissolvedIsFinal
  AmendmentsAreTimelocked
