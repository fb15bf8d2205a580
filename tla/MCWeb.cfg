SPECIFICATION WebSpec
CONSTANTS
  SpanID = {a, b}
  Top = a
  Kid = b
  Parents <- MCParents
  None = None
  Browsers = {w}
  Queue = 2
  MaxRoots = 1
  Allow = FALSE
  States <- MCStates
  Errors = {"boom"}
  Ident <- MCIdent
  InOrder = TRUE
  Times = {}
  Updated = {b}
  MaxEvents <- MCMaxEvents
INVARIANTS
  WebTypeOK
  LastWordIsCurrent
  PatchesAddUp
  PausedIsQuiet
