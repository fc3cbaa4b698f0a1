SPECIFICATION Spec
CONSTANTS
  platform = platform
  human = human
  buyer = buyer
  factory = factory
  nobody = nobody
  nobodyYet = nobodyYet
  h1 = h1
  h2 = h2
  zero = zero
  nohash = nohash
  native = native
  id1 = id1
  id2 = id2
  Body <- MCBody
  Address <- MCAddress
  NoOne = nobody
  Hash <- MCHashes
  NoHash = nohash
  Token <- MCNone
  Native = native
  MIN_AMENDMENT_DELAY = 1
  AmendmentDelay <- MCOne
  MaxHeld = 0
  AgentId <- MCAgentId
  Factory = factory
  ZeroHash = zero
  NoBody = nobodyYet
  FactoryMinDelay = 1
  MAX_AMENDMENT_DELAY = 1
  MAX_SIGNATURE_WINDOW = 1
  MaxNonce = 2
  Platform <- MCPlatform
  Signer <- MCHuman
  Holder <- MCHolders
  Signable <- MCSignable
  Pointed <- MCBody
  MaxLiveSignatures = 1
  MaxTime = 2
INVARIANTS
  LegalBodyFactoryTypeOK
  EveryAmendmentIsSigned
  LinkIsCurrentHolders
PROPERTIES
  NeverRolledBack
