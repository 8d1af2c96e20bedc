SPECIFICATION FairSpec
CONSTANTS
  Outs = {o1, o2}
  MaxTunnels = 4
  MaxFaults = 1
  None = None
INVARIANTS
  TypeOK
  TunnelsPaired
PROPERTIES
  OutCallEnds
  AloneIsServed
CHECK_DEADLOCK FALSE
