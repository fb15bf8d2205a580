SPECIFICATION StoreSpec
CONSTANTS
  SpanID = {a, b, c}
  Top = a
  Kids = {b, c}
  None = None
  Records <- MCRecords
  Limits = {1}
  Times = {}
  MaxEvents = 2
  Keys = {k, l}
  Vals = {1, 2}
  Stamps = {None, 1, 2}
  Ident <- MCIdent
INVARIANTS
  MissingTimestampsLast
