SPECIFICATION StoreSpec
CONSTANTS
  SpanID = {a, b, c}
  None = None
  Records <- MCRecords
  Limits = {0, 1, 2}
  Times = {1, 2}
  MaxEvents = 0
  Outcomes = {"complete", "error"}
SYMMETRY Symmetric
INVARIANTS
  StoreTypeOK
  Forest
  RootsAreRoots
  ArrivalOrder
  RemovalIsExact
  WalksAgree
PROPERTIES
  EndIsFinal
  MarksKeepTheirTime
