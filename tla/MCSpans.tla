------------------------------ MODULE MCSpans ------------------------------
(* Spans with few goroutines, spans and channels, all interchangeable.      *)
EXTENDS SpanView

Symmetric ==
  Permutations(Procs) \cup Permutations(Chans) \cup Permutations(Span)
=============================================================================
