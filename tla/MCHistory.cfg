SPECIFICATION HistorySpec
CONSTANTS
  MAX_SENSORS = 3
  TOO_HOT = 40
  TOO_COLD = 18
  RESET_THRESHOLD_SECONDS = 3
  MIN_AVG_COUNT = 2
  ALERT_COOLDOWN = 2
  Ids = {1, 2, 3}
  Temps = {10, 52}
  MaxDelay = 1
  Start = 5
  MaxNow = 10
  MaxReadings = 4
  m1 = m1
  m2 = m2
  m3 = m3
  Message <- MCMessage
  Long <- MCLong
  Capacity = 7
  Chunk = 4
INVARIANTS
  AverageOfWindow
  AlarmsAreFresh
  AlertsAreJustified
  NothingLostOrReordered
PROPERTY AcceptedIsWritten
