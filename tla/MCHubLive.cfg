SPECIFICATION FairSpec
CONSTANTS
  Procs = {p1, p2, p3}
  Chans = {c1}
  Record = {r1, r2}
  Buffers = {0}
  DefaultBuffer = 1
  None = None
PROPERTIES
  CallsReturn
  CloseReachesAll
