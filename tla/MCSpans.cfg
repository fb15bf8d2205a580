SPECIFICATION SpansSpec
CONSTANTS
  Procs = {p1, p2}
  Chans = {c1}
  Record <- SpanRecord
  Buffers = {0}
  DefaultBuffer = 1
  None = None
  Span = {s1, s2}
  Notes = {"update"}
  Terminal = {"complete"}
  MaxRecords = 2
SYMMETRY Symmetric
INVARIANTS
  SpansTypeOK
  SpanOrder
  StartFirst
  CompleteStory
  TracesAreTrees
  ViewIsFaithful
