------------------------------ MODULE SpanView ------------------------------
(***************************************************************************)
(* What a viewer makes of the records that a subscriber of module Spans    *)
(* receives: module Store, fed with the log of a channel.                  *)
(***************************************************************************)
EXTENDS Spans

View == INSTANCE Store WITH SpanID <- Span

\* The kinds of records, and a key that an attribute can have.
ASSUME ViewAssumption ==
  /\ Notes \subseteq {"update", "event"} /\ Terminal \subseteq {"complete", "error"}
  /\ None # "k"

\* The attributes that a record brings: its number stands for the value.
Shown(r) == <<[key |-> "k", val |-> r.n]>>

\* The message of a record.
Message(r) ==
  LET attrs == Shown(r)
  IN  CASE r.kind = "start"  -> [kind |-> "start", id |-> r.span, at |-> None,
                                 up |-> parentOf[r.span], attrs |-> attrs]
        [] r.kind = "update" -> [kind |-> "update", id |-> r.span, attrs |-> attrs]
        [] r.kind = "event"  -> [kind |-> "event", id |-> r.span, at |-> None,
                                 severity |-> None, attrs |-> attrs]
        [] r.kind \in Terminal -> [kind |-> "end", id |-> r.span, at |-> None,
                                   how |-> r.kind, error |-> None]

\* What the store has become after each of the records.
ViewOf(records) ==
  LET view[n \in 0 .. Len(records)] ==
        IF n = 0 THEN View!Empty(FALSE)
        ELSE View!Apply(view[n - 1], Message(records[n]))
  IN  view[Len(records)]

\* "Viewers can reconstruct current state through `state`" (README.md:5). The
\* store ignores what comes before a span's start or after its end and orphans
\* (state.go:239-275), without a word; of what a subscriber receives it ignores
\* nothing but spans whose own start or whose parent's start was lost: any
\* other is shown below its parent, with the last attribute received, ended if
\* its end was received, and with that outcome.
ViewIsFaithful ==
  \A ch \in Chans :
    LET view == ViewOf(log[ch])
    IN  \A s \in Span :
          LET node  == view.node[s]
              story == {r \in ToSet(log[ch]) : r.span = s}
              notes == {r \in story : r.kind \in {"start", "update"}}
              ends  == {r \in story : r.kind \in Terminal}
          IN  /\ s \in view.byID <=>
                   /\ \E r \in story : r.kind = "start"
                   /\ parentOf[s] \in view.byID \cup {None}
              /\ s \in view.byID =>
                   /\ node.up = parentOf[s]
                   /\ \E r \in notes : /\ node.attrs = Shown(r)
                                       /\ \A q \in notes : q.n <= r.n
                   /\ node.done <=> ends # {}
                   /\ node.done => \E r \in ends : node.how = r.kind
=============================================================================
