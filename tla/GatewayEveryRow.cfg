SPECIFICATION FairSpec
CONSTANTS
  MaxRetries = 3
  Size = 2
  MaxReadings = 4
PROPERTY EveryReadingHasARow
