SPECIFICATION FairSpec
CONSTANTS
  h = h
  q = q
  out = out
  other = other
  Proxy = Proxy
  None = None
  Loops = {h, q}
  Tunnels = {t1}
  Conns = {c1, c2}
  Outs = {out}
  Labels = {Proxy, out}
  OutOf <- OneOut
  TypeOf <- KindOf
  Priority <- PreferHttp2
  ConfigLabels <- NoLabels
  Connections <- OneConnection
  LifetimeLimit = 2
  MaxGeneration = 1
INVARIANTS
  TypeOK
  StreamsCounted
  ActiveHasSender
PROPERTIES
  DrainedTunnelLeaves
  ClosedTunnelLeaves
  LatePermitComesBack
CHECK_DEADLOCK FALSE
