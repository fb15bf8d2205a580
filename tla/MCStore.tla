------------------------------ MODULE MCStore ------------------------------
(* SpanStore with few spans and records, and the walks of StoreWalk beside   *)
(* the operators of Store.                                                   *)
EXTENDS SpanStore, TLC

W == INSTANCE StoreWalk

CONSTANTS Outcomes

MCRecords ==
  LET ids == SpanID \cup {None} IN
       [kind : {"start"}, id : ids, up : ids, at : {None}, attrs : {<<>>}]
  \cup [kind : {"update"}, id : ids, attrs : {<<[key |-> "k", val |-> 1]>>}]
  \cup [kind : {"end"}, id : ids, how : Outcomes, error : {None}, at : {None}]
  \cup [kind : {"event"}, id : ids, severity : {None}, attrs : {<<>>}, at : {None}]

\* The sets the operators of Store are stated by are what the code's walks
\* over Children reach, and in the same order, in every reachable store.
WalksAgree ==
  /\ \A x \in SpanID :
       W!WalkFind(store, x) =
         IF FindSpan(store, x) = None THEN -1 ELSE Depth(store, x)
  /\ HasOpenSpans(store) = W!WalkOpen(store)
  /\ ClearOpenSpans(store) = W!WalkClearOpen(store)
  /\ \A now \in Times : MarkOpenSpansStale(store, now) = W!WalkMark(store, now)
  /\ \A n \in Limits : LimitRoots(store, n) = W!WalkLimit(store, n)

Symmetric == Permutations(SpanID)
=============================================================================
