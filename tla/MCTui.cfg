SPECIFICATION TuiSpec
CONSTANTS
  SpanID = {a, b}
  Top = a
  Kid = b
  None = None
  Parents <- MCParents
  Sizes <- MCSizes
  Errors = {None, "boom"}
  MaxRoots = 1
  Allow = FALSE
  LateKids = FALSE
  Lists <- MCLists
  Times <- MCTimes
  MaxEvents <- MCEvents
INVARIANTS
  TuiTypeOK
  OneTick
  ScreenIsTrue
  PausedIsQuiet
  FollowsTail
