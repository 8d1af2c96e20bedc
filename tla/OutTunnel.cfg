SPECIFICATION FairSpec
CONSTANTS
  None = None
  Streams = {s1, s2, s3}
  MaxFaults = 2
INVARIANTS
  StreamsIndependent
PROPERTIES
  StreamServed
  LoopEnds
CHECK_DEADLOCK FALSE
