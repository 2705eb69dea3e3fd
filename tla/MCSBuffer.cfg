SPECIFICATION FairSpec
CONSTANTS
  connection_manager = connection_manager
  data_manager = data_manager
  storage_manager = storage_manager
  main = main
  r1 = r1
  r2 = r2
  NoReading = NoReading
  NoThread = NoThread
  Main = main
  Producers <- MCProducers
  Consumers <- MCConsumers
  Reading <- MCReading
  Size = 2
  MaxReady = 1
  MaxPolls = 1
INVARIANTS
  TypeOK
  RingInv
  MutexInv
  NoLostWakeup
  NoSleeperAfterBroadcast
PROPERTIES
  ImplementsFifo
  ConsumersStop
