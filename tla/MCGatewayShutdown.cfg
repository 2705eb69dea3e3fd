SPECIFICATION FairSpec
CONSTANTS
  connection_manager = connection_manager
  data_manager = data_manager
  storage_manager = storage_manager
  Workers <- MCWorkers
  ConnManager = connection_manager
  Main = Main
  Nobody = Nobody
  MaxPolls = 2
  MaxSigInts = 1
INVARIANTS
  LocksHeld
PROPERTY InterruptOutsideLocks
