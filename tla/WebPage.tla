------------------------------ MODULE WebPage ------------------------------
(***************************************************************************)
(* What the web viewer renders of a store (src/viewer/sap-web/render.go    *)
(* and the templates of components_templ.go), as operators.                *)
(*                                                                         *)
(* A page is the order of the root cards, and for every span on it its     *)
(* card: the hue of its border, its summary, its attributes and its        *)
(* timeline, whose entries are event cards or stand for a card inside this *)
(* one. An element that a patch can address is found by its DOM id, a      *)
(* tuple here. Times are milliseconds; names, wording and style are left   *)
(* out, and so are the labels of the timers, which move with the clock.    *)
(***************************************************************************)
EXTENDS Timeline, FiniteSetsExt

CONSTANT Ident(_)   \* what safeCSSIdent leaves of an attribute's key

-----------------------------------------------------------------------------
\* DOM ids. Identifiers of spans are hexadecimal, so that the parts of an id
\* that safeCSSIdent joins with "-" can be told apart again, up to the key of
\* an attribute.

SpanCardKey(x) == <<"span", x>>

\* Mutant of EventCardKey: the position is not part of it.
EventCardKeyByTime(parent, item) == <<"event", parent, item.at>>

EventCardKey(parent, item) == <<"event", parent, item.at, item.index>>

AttrDOMID(owner, attr, i) == <<"attr", owner, Ident(attr.key), i>>

\* The card, the three parts it always has, and the list that its timeline has
\* when it is not empty.
PartDOMID(part, x) == <<part, SpanCardKey(x)>>

-----------------------------------------------------------------------------
\* Attributes, which carry a set of display hints: "badge", "code", or
\* "code:" with a language.

AttrIsCode(attr) == attr.hints \cap {"code", "code:lang"} # {}

AttrIsBadge(attr) == "badge" \in attr.hints

AttrLook(attr) ==
  CASE AttrIsCode(attr) -> "code block"
    [] ~AttrIsCode(attr) /\ AttrIsBadge(attr) -> "badge"
    [] ~AttrIsCode(attr) /\ ~AttrIsBadge(attr) -> "plain"

AttrValue(attr) == [val |-> attr.val, look |-> AttrLook(attr)]

Attributes(owner, attrs) ==
  [i \in DOMAIN attrs |->
    [id |-> AttrDOMID(owner, attrs[i], i), key |-> attrs[i].key,
     value |-> AttrValue(attrs[i])]]

-----------------------------------------------------------------------------
\* The summary of a span

\* An end without a message reads "complete", whatever its terminal type.
StatusText(st, x) ==
  CASE Open(st, x) /\ st.stale[x] # None -> "stale"
    [] Open(st, x) /\ st.stale[x] = None -> "running"
    [] ~Open(st, x) /\ st.node[x].error # None -> "error"
    [] ~Open(st, x) /\ st.node[x].error = None -> "complete"

StatusTone(text) ==
  CASE text \in {"stale", "error"} -> "red"
    [] text = "complete" -> "green"
    [] text = "running" -> "neutral"

StatusIcon(text) ==
  CASE text \in {"stale", "error"} -> "cross"
    [] text = "complete" -> "tick"
    [] text = "running" -> "spinner"

HasTimer(st, x) == st.node[x].at # None

\* To the browser's timer 0 is no end: it counts up.
Running == 0

\* An end at the epoch, which is what a missing time becomes, is no end either.
TimerEnd(st, x) ==
  CASE st.node[x].endedAt # None -> st.node[x].endedAt
    [] st.node[x].endedAt = None /\ st.stale[x] # None -> st.stale[x]
    [] OTHER -> Running

Timer(st, x) ==
  IF HasTimer(st, x) THEN [from |-> st.node[x].at, to |-> TimerEnd(st, x)] ELSE None

SpanState(st, x) ==
  LET text == StatusText(st, x)
  IN  [text |-> text, tone |-> StatusTone(text), icon |-> StatusIcon(text)]

ErrorMessage(st, x) == st.node[x].error

SpanSummaryContents(st, x) ==
  [timer |-> Timer(st, x), state |-> SpanState(st, x),
   message |-> ErrorMessage(st, x)]

SpanSummary(st, x) ==
  [id |-> PartDOMID("summary", x), in |-> SpanSummaryContents(st, x)]

-----------------------------------------------------------------------------
\* A card

SpanHue(depth) == <<310, 265, 25, 48, 136, 195>>[(depth % 6) + 1]

SpanAttributes(st, x) ==
  [id |-> PartDOMID("attrs", x),
   rows |-> Attributes(SpanCardKey(x), st.node[x].attrs)]

\* The offset is not before the parent's start: formatDuration has no
\* negative durations.
TimelineOffset(st, parent, item) ==
  IF None \in {st.node[parent].at, item.at} THEN None
  ELSE Max({0, item.at - st.node[parent].at})

EventTone(event) ==
  CASE event.severity = "warn" -> "yellow"
    [] event.severity = "error" -> "red"
    [] OTHER -> "neutral"

EventCard(st, parent, item) ==
  LET event == st.node[parent].events[item.index]
      key   == EventCardKey(parent, item)
  IN  [id |-> key, tone |-> EventTone(event),
       offset |-> TimelineOffset(st, parent, item),
       rows |-> Attributes(key, event.attrs)]

TimelineItem(st, parent, item) ==
  IF item.show # None THEN [card |-> item.show, event |-> None]
  ELSE [card |-> None, event |-> EventCard(st, parent, item)]

SpanTimelineContents(st, x) ==
  LET items == TimelineItems(st, x)
  IN  [i \in DOMAIN items |-> TimelineItem(st, x, items[i])]

SpanTimeline(st, x) ==
  [id |-> PartDOMID("timeline", x), list |-> SpanTimelineContents(st, x)]

SpanCardContents(st, x, depth) ==
  [hue |-> SpanHue(depth), summary |-> SpanSummary(st, x),
   attrs |-> SpanAttributes(st, x), timeline |-> SpanTimeline(st, x)]

\* SpanCard for each of the siblings X, with the cards inside.
SpanCards(st, X, depth) ==
  [y \in Below(st, X) |-> SpanCardContents(st, y, depth + Distance(st, X, y))]

\* The cards inside the timeline of x, which is at that depth.
CardsInside(st, x, depth) == SpanCards(st, ToSet(st.node[x].kids), depth + 1)

\* The roots; without any the page says that it waits.
Roots(st) == [order |-> st.roots, card |-> SpanCards(st, ToSet(st.roots), 0)]

-----------------------------------------------------------------------------
\* The patches: a part of the card of x and the cards inside that part.

SpanSummaryPatch(st, x) ==
  [part |-> "summary", span |-> x, new |-> SpanSummary(st, x), cards |-> <<>>]

SpanAttributesPatch(st, x) ==
  [part |-> "attrs", span |-> x, new |-> SpanAttributes(st, x), cards |-> <<>>]

SpanTimelinePatch(st, x, depth) ==
  [part |-> "timeline", span |-> x, new |-> SpanTimeline(st, x),
   cards |-> CardsInside(st, x, depth)]

\* An entry for the end of the list in the timeline of x.
TimelineAppendPatch(st, x, item, depth) ==
  [part |-> "list", span |-> x, new |-> TimelineItem(st, x, item),
   cards |-> IF item.show = None THEN <<>>
             ELSE SpanCards(st, {item.show}, depth + 1)]

-----------------------------------------------------------------------------
\* The status line, for the number of roots, a connection state
\* [state, attempt, err] and the pause.

Dot(conn) ==
  CASE conn.state = "connected" -> "green"
    [] conn.state \in {"connecting", "retrying"} -> "pulse"
    [] OTHER -> "grey"

ConnectionLabel(conn) ==
  IF conn.state = None THEN "disconnected" ELSE conn.state

\* Every retry has a time, which counts down on the page.
ConnectionDetail(conn) ==
  CASE conn.state = "connecting" /\ conn.attempt > 0 -> <<"attempt", conn.attempt>>
    [] conn.state = "retrying" /\ conn.err # None -> <<"error", conn.err>>
    [] conn.state = "retrying" /\ conn.err = None -> <<"retry">>
    [] OTHER -> <<>>

PauseButton(paused) == IF paused THEN "Resume" ELSE "Pause"

ConnectionPills(conn) ==
  [dot |-> Dot(conn), label |-> ConnectionLabel(conn),
   detail |-> ConnectionDetail(conn)]

Controls(paused) == [pill |-> paused, button |-> PauseButton(paused)]

StatusLine(roots, conn, paused) ==
  [conn |-> ConnectionPills(conn), roots |-> roots, controls |-> Controls(paused)]

-----------------------------------------------------------------------------
\* The DOM ids on a page, in the order of its elements.

RowIDs(rows) == [i \in DOMAIN rows |-> rows[i].id]

EntryIDs(entry) ==
  IF entry.event = None THEN <<>>
  ELSE <<entry.event.id>> \o RowIDs(entry.event.rows)

CardIDs(card, x) ==
  LET list == card.timeline.list
  IN  <<PartDOMID("card", x), card.summary.id, card.attrs.id, card.timeline.id>>
      \o RowIDs(card.attrs.rows)
      \o (IF list = <<>> THEN <<>> ELSE <<PartDOMID("list", x)>>)
      \o FlattenSeq([i \in DOMAIN list |-> EntryIDs(list[i])])

\* What the page places: its roots, and the cards its timelines stand for.
Placed(page) ==
  page.order \o
  FoldSet(LAMBDA x, seq :
            LET list == page.card[x].timeline.list
            IN  seq \o SelectSeq([i \in DOMAIN list |-> list[i].card],
                                 LAMBDA y : y # None),
          <<>>, DOMAIN page.card)

PageIDs(page) ==
  FoldSet(LAMBDA x, seq : seq \o CardIDs(page.card[x], x), <<>>, DOMAIN page.card)
=============================================================================
