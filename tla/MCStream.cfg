SPECIFICATION StreamSpec
CONSTANTS
  MaxRecord = 4
  MaxAttempt = 2
  Buffer = 1
  RecordsCap = 1
  StatesCap = 2
  Unmarshalled = {1}
  Oversized = {2}
CHECK_DEADLOCK FALSE
INVARIANTS
  StreamTypeOK
  InOrderOnce
  NothingMissed
PROPERTIES
  ImplementsLink
