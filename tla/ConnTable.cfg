SPECIFICATION Spec
CONSTANTS
  MaxSensors = 2
  MaxFd = 3
  Timeout = 1
  MaxConnects = 3
INVARIANTS
  TypeOK
  NoTableOverflow
  WatchedSockets
  AlignedUntilTimeout
  FirstTimeoutIsJust
  ScanIsComplete
