SPECIFICATION FairSpec
CONSTANTS
  in1 = in1
  in2 = in2
  h1 = h1
  h2 = h2
  h3 = h3
  None = None
  Ins = {in1}
  Outs = {o1}
  Handlers = {h1}
  InOf <- OneIn
  Keys = {k1, k2}
  Tunnels = {t1, t2}
  ListenTimeout = TRUE
  MaxMessages = 1
  MaxFaults = 0
PROPERTIES
  WaitingOutServed
CHECK_DEADLOCK FALSE
