----------------------------- MODULE HubHistory -----------------------------
(***************************************************************************)
(* The hub with what its callers can remember of their calls, to say what  *)
(* a Publish that has returned means for the order and the completeness of *)
(* what the subscribers receive.                                           *)
(***************************************************************************)
EXTENDS Hub

VARIABLES
  returned,  \* records whose Publish has returned
  before,    \* before[r]: what had returned when the Publish of r was called
  owed       \* owed[r]: the subscribers registered at that moment

histVars == <<hubVars, returned, before, owed>>

HistInit ==
  /\ Init
  /\ returned = {}
  /\ before = [r \in Record |-> {}]
  /\ owed = [r \in Record |-> {}]

\* Mutant of DoneAtOnce: the sends are left to another goroutine.
DoneAsync == called'

\* The Publish calls of a nil hub.
DoneAtOnce == IF isNil THEN called' ELSE {}

History ==
  /\ returned' = returned \cup DoneAtOnce
       \cup {rec[p] : p \in {q \in Procs : pc[q] = "send" /\ pc'[q] = "idle"}}
  /\ before' = [r \in Record |-> IF r \in called' \ called THEN returned
                                                           ELSE before[r]]
  /\ owed' = [r \in Record |-> IF r \in called' \ called THEN subs ELSE owed[r]]

HistNext == Next /\ History

HistSpec == HistInit /\ [][HistNext]_histVars

-----------------------------------------------------------------------------
\* Every subscriber receives the records of two Publish calls, the second of
\* which began after the first had returned, in that order: the order of one
\* goroutine's records, and of goroutines that wait for one another. (Two
\* subscribers may disagree on records published concurrently: Publish takes
\* only the read lock, hub.go:57.)
RealTimeOrder ==
  \A ch \in Chans : \A i, j \in DOMAIN log[ch] :
    i < j => log[ch][j] \notin before[log[ch][i]]

\* When Publish has returned, a subscriber that was registered before the
\* call and still is has the record, or had no room for it (hub.go:62): a
\* concurrent Subscribe, cancel or other Publish makes it miss nothing.
DeliveredOrFull ==
  \A r \in returned : \A ch \in owed[r] \cap subs :
    \/ r \in missed[ch]
    \/ \E i \in DOMAIN log[ch] : log[ch][i] = r
=============================================================================
