SPECIFICATION FairSpec
CONSTANTS
  ReadingSize = 2
  Room = 5
  SendCounts <- MCSendCounts
  MaxReadings = 4
  MaxFiles = 2
  Files = {1, 2}
  PageSize = 3
  MaxWrites = 2
  Writers = {1, 2}
  Rounds = 10
  COUNT_SIG = 5
INVARIANTS
  ReadingsWhole
  NothingLeft
  OpenFilesHaveResources
  ReaderGetsLastWrite
PROPERTIES
  SensorNoticesGateway
  
  OneMissedSignalIsHarmless
  EndsUnlessEarlySignal
  Delivered
