SPECIFICATION AgentTreasurySpec
CONSTANTS
  b1 = b1
  platform = platform
  human = human
  agent = agent
  spare = spare
  nobody = nobody
  noPolicy = noPolicy
  Body <- MCBody
  Address <- MCAddress
  NoOne = nobody
  NoPolicy = noPolicy
  Deployment <- MCDeployment
  Policy <- MCPolicies
  Amount <- MCAmount
  Payee <- MCPayee
  MIN_POLICY_DELAY = 1
  MAX_POLICY_PERIOD = 4
  MaxTime = 3
  MaxBalance = 2
INVARIANTS
  AgentTreasuryTypeOK
  RolesStayDistinct
  TwoWindowBound
PROPERTIES
  PoliciesAreTimelocked
