SPECIFICATION FairSpec
CONSTANTS
  MaxRetries = 3
  Size = 2
  MaxReadings = 4
INVARIANTS
  TypeOK
  Conservation
  OldestFirst
  RowsMatchReadings
  ClosesDatabase
PROPERTIES
  BufferDrains
  StopsAfterInterrupt
