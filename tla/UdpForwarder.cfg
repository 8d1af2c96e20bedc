SPECIFICATION Spec
CONSTANTS
  None = None
  Sources = {s1, s2}
  Originals = {fake}
  Reals = {r1, r2}
  Associations = {a1, a2}
  Sockets = {k1, k2, k3}
INVARIANTS
  TypeOK
  OneSocketPerDestination
  MapMatchesTasks
PROPERTIES
  DestinationIsSticky
SYMMETRY Symmetry
CHECK_DEADLOCK FALSE
