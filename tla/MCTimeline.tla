----------------------------- MODULE MCTimeline -----------------------------
(* SpanStore with the attributes and the timestamps of few spans: what a     *)
(* span shows.                                                               *)
EXTENDS SpanStore, WebPage

CONSTANTS Top, Kids, Keys, Vals, Stamps

ASSUME StampsAssumption == Stamps \subseteq (Nat \ {Epoch}) \cup {None}

Attr == [key : Keys \cup {None}, val : Vals, hints : {{}}]

\* Two attributes with any two keys, the same or not, or none: with one empty
\* key, what an update with the other attribute does.
AttrPairs == {<<a, b>> : a \in {c \in Attr : c.val = 1}, b \in {c \in Attr : c.val = 2}}

\* The worst case for the DOM ids: no key is left of an attribute.
MCIdent(key) == <<>>

EventAttrs == SetToSeq([key : Keys, val : {1}, hints : {{}}])

\* Top has events and children in time; the attributes are those of Top too.
MCRecords ==
       [kind : {"start"}, id : {Top}, up : {None}, at : {1},
        attrs : {<<>>} \cup {<<a, a>> : a \in {c \in Attr : c.val = 1}}]
  \cup [kind : {"start"}, id : Kids, up : {Top}, at : Stamps, attrs : {<<>>}]
  \cup [kind : {"update"}, id : {Top}, attrs : AttrPairs]
  \cup [kind : {"end"}, id : {Top}, how : {None}, error : {None}, at : {None}]
  \cup [kind : {"event"}, id : {Top}, severity : {None}, attrs : {EventAttrs},
        at : Stamps]

\* "Entries without a timestamp sort last" (timeline.go:19), for records that
\* come without one. No record has the epoch as its timestamp, so an entry at
\* the epoch is one that came without.
MissingTimestampsLast ==
  \A x \in store.byID :
    LET items == TimelineItems(store, x)
    IN  \A i, j \in DOMAIN items :
          i < j /\ items[i].at \in {None, Epoch} => items[j].at \in {None, Epoch}

\* The browser finds what a patch replaces by its DOM id: no id is on a page
\* twice, whatever keys, times and positions its entries have, and the card of
\* every tracked span is in exactly one place (render.go:175-258).
UniqueIds ==
  LET page == Roots(store)
  IN  /\ IsInjective(PageIDs(page))
      /\ IsInjective(Placed(page))
      /\ ToSet(Placed(page)) = store.byID /\ DOMAIN page.card = store.byID
=============================================================================
