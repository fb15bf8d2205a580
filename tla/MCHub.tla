------------------------------- MODULE MCHub -------------------------------
(* Hub with few goroutines, channels and records, all interchangeable.      *)
EXTENDS HubHistory, TLC

Symmetric ==
  Permutations(Procs) \cup Permutations(Chans) \cup Permutations(Record)
=============================================================================
