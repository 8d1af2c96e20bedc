SPECIFICATION Spec
CONSTANTS
  us = us
  eu = eu
  t1 = t1
  t2 = t2
  t3 = t3
  label = label
  com = com
  example = example
  cn = cn
  ip1 = ip1
  ip2 = ip2
  web = web
  warp = warp
  DIRECT = DIRECT
  PROXY = PROXY
  ANY = ANY
  None = None
  Outs = {us, eu}
  Tunnels = {t1, t2, t3}
  OutOf <- OutOfTunnel
  Priority <- PriorityOfTunnel
  TunnelLabels <- LabelsOfTunnel
  OutRuleConfigs <- RulesOfOut
  OutRoutingPriority <- RoutingPriority
  InRuleConfigs <- ListsOfThree
  Requests <- AllRequests
  MinPriority <- LowestPriority
  MaxPriority = 100
INVARIANTS
  TypeOK
  MatchFollowsRules
  SelectionFollowsRules
  TopTunnelsTakeTurns
