SPECIFICATION Spec
CONSTANTS
  b1 = b1
  platform = platform
  successor = successor
  human = human
  agent = agent
  nobody = nobody
  nobodyYet = nobodyYet
  noPolicy = noPolicy
  h1 = h1
  nohash = nohash
  native = native
  id1 = id1
  id2 = id2
  Body <- MCOneBody
  Address <- MCAddress
  Platform <- MCPlatform
  NoOne = nobody
  Hash <- MCHash
  NoHash = nohash
  Token <- MCNone
  Native = native
  MIN_AMENDMENT_DELAY = 1
  AmendmentDelay <- MCDelay
  MaxHeld = 0
  Deployment <- MCDeployment
  Policy <- MCPolicy
  Amount <- MCUnit
  Payee <- MCNone
  MIN_POLICY_DELAY = 1
  MAX_POLICY_PERIOD = 2
  NoPolicy = noPolicy
  MaxBalance = 1
  AgentId <- MCAgentId
  NoBody = nobodyYet
  MaxTime = 3
PROPERTIES
  WindingDownStopsOperator
