SPECIFICATION FairSpec
CONSTANTS
  MaxSensors = 2
  MaxFd = 2
  Timeout = 0
  MaxConnects = 3
PROPERTY SensorsAreServed
