SPECIFICATION FairSpec
CONSTANTS
  MaxBytes <- FewBytes
  BufferSize = 2
  SocketSize = 1
  WindowSize = 2
  ReadAttemptsLimit = 1
  MaxFaults = 1
INVARIANTS
  TypeOK
PROPERTIES
  UpPipe
  DownPipe
  EndsNotice
  RelaysEnd
CHECK_DEADLOCK FALSE
