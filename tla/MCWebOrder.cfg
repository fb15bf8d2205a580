SPECIFICATION WebSpec
CONSTANTS
  SpanID = {a, b}
  Top = a
  Kid = b
  Parents <- MCParents
  None = None
  Browsers = {w}
  Queue = 2
  MaxRoots = 1
  Allow = FALSE
  States <- MCStates
  Errors = {None}
  Ident <- MCIdent
  InOrder = FALSE
  Times = {1, 2}
  Updated = {b}
  MaxEvents <- MCMaxEvents
INVARIANTS
  PatchesAddUp
