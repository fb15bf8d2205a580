SPECIFICATION HistSpec
CONSTANTS
  Procs = {p1, p2, p3}
  Chans = {c1, c2}
  Record = {r1, r2}
  Buffers = {0, 1}
  DefaultBuffer = 2
  None = None
SYMMETRY Symmetric
INVARIANTS
  TypeOK
  NoPanic
  OpenIffRegistered
  RealTimeOrder
  DeliveredOrFull
PROPERTIES
  ImplementsFanOut
