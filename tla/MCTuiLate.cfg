SPECIFICATION TuiSpec
CONSTANTS
  SpanID = {a, b, c}
  Top = a
  Kid = b
  None = None
  Parents <- MCParents
  Sizes <- MCOneSize
  Errors = {"boom"}
  MaxRoots = 1
  Allow = FALSE
  LateKids = TRUE
  Lists <- MCNoLists
  Times <- MCOneTime
  MaxEvents <- MCNoEvents
INVARIANTS
  ScreenIsTrue
