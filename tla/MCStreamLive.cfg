SPECIFICATION StreamSpec
CONSTANTS
  MaxRecord = 2
  MaxAttempt = 2
  Buffer = 1
  RecordsCap = 1
  StatesCap = 2
  Unmarshalled = {}
  Oversized = {2}
CHECK_DEADLOCK FALSE
PROPERTIES
  NoLeak
  CancelStops
