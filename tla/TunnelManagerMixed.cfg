SPECIFICATION Spec
CONSTANTS
  h = h
  q = q
  out = out
  other = other
  Proxy = Proxy
  None = None
  Loops = {h, q}
  Tunnels = {t1, t2}
  Conns = {c1}
  Outs = {out}
  Labels = {Proxy, out}
  OutOf <- OneOut
  TypeOf <- KindOf
  Priority <- PreferHttp2
  ConfigLabels <- NoLabels
  Connections <- TwoHttp2Connections
  LifetimeLimit = 1
  MaxGeneration = 2
INVARIANTS
  PermitConservation
  MapsAgree
PROPERTIES
  PoolSpec
SYMMETRY Symmetry
CHECK_DEADLOCK FALSE
