SPECIFICATION FairSpec
CONSTANTS
  h = h
  q = q
  out = out
  other = other
  Proxy = Proxy
  None = None
  Loops = {h}
  Tunnels = {t1}
  Conns = {c1}
  Outs = {out}
  Labels = {Proxy, out}
  OutOf <- OneOut
  TypeOf <- KindOf
  Priority <- PreferHttp2
  ConfigLabels <- NoLabels
  Connections <- OneConnection
  LifetimeLimit = 2
  MaxGeneration = 1
PROPERTIES
  LimitedConnectionEnds
CHECK_DEADLOCK FALSE
