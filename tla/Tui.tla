-------------------------------- MODULE Tui --------------------------------
(***************************************************************************)
(* The terminal viewer (src/viewer/sap-tui): a goroutine that forwards the *)
(* records to the program's message loop, the loop's handlers on the       *)
(* model, the repaint that is put off for a moment after a record, and the *)
(* cache of the renderings of closed trees.                                *)
(*                                                                         *)
(* A rendering is the cards of the spans that it shows; a card tells which *)
(* children are drawn inside it, and has a number of lines of its own,     *)
(* which the viewport scrolls over. Names, styles and the wrapping of long *)
(* lines are left out, and the time of an open span, which moves with the  *)
(* clock. So is the footer: View draws it from the model for every frame.  *)
(*                                                                         *)
(* Records come from an emitter that starts a span once, after its parent, *)
(* and is silent about it after its end; any may be lost on the way.       *)
(***************************************************************************)
EXTENDS Timeline, FiniteSetsExt, TLC

CONSTANTS Sizes,       \* of the window: [width, height]
          MaxRoots,    \* maxRoots
          Allow,       \* StoreOptions.AllowUnknownParents
          Parents,     \* Parents[x]: the parents span x can be started with
          LateKids,    \* a child may be started after its parent has ended
          Errors,      \* the messages of ends, None for no error
          Lists,       \* Lists[x]: the attributes that a record of x can bring
          Times,       \* Times[x]: the times that it can have
          MaxEvents    \* bound: the events of a span, MaxEvents[x]

ASSUME TuiAssumption ==
  /\ MaxRoots \in Nat \ {0} /\ {Allow, LateKids} \subseteq BOOLEAN
  /\ Parents \in [SpanID -> SUBSET (SpanID \cup {None})]
  /\ Sizes \subseteq [width : Nat, height : Nat]
  /\ \A x \in SpanID : /\ \A list \in Lists[x] : list \in Seq(ToSet(list))
                       /\ Times[x] \subseteq Int

VARIABLES
  store,    \* model.store
  cache,    \* model.renderCache
  width,    \* model.width, None before the model is ready
  height,   \* model.vp.Height
  offset,   \* model.vp.YOffset
  stick,    \* model.stickToBottom
  paused,   \* model.paused
  pending,  \* model.repaintPending
  screen,   \* the content of model.vp
  ticks,    \* the repaint ticks under way
  fwd,      \* where the forwarder is
  hand,     \* and the record it has received, else None
  told,     \* what the emitter has said: told[x] is "nothing", "start", "end"
  following \* history. the reader went to the bottom and has not left it

fwdVars   == <<fwd, hand, told>>
viewVars  == <<width, height, offset, stick, screen, following>>
modelVars == <<store, cache, paused, pending, ticks, viewVars>>
tuiVars   == <<modelVars, fwdVars>>

-----------------------------------------------------------------------------
\* Rendering (render.go)

StatusView(st, x) ==
  CASE Open(st, x) /\ st.stale[x] # None -> "cross"
    [] Open(st, x) /\ st.stale[x] = None -> "spinner"
    [] ~Open(st, x) /\ st.node[x].error # None -> "cross"
    [] ~Open(st, x) /\ st.node[x].error = None -> "tick"

Clock == -1

\* From the start to the end or the stale mark, else to now.
TimingView(st, x) ==
  LET n    == st.node[x]
      to   == IF n.endedAt # None THEN n.endedAt ELSE st.stale[x]
  IN  CASE n.at = None -> None
        [] n.at # None /\ to = None -> Clock
        [] n.at # None /\ to # None -> Max({0, to - n.at})

\* The parts of a timeline in the order in which they are drawn: the number of
\* an event, or a child.
Parts(st, x) ==
  LET items == TimelineItems(st, x)
  IN  [i \in DOMAIN items |-> IF items[i].show = None THEN items[i].index
                             ELSE items[i].show]

\* Events in a row are drawn as a group: those that have none before them with
\* no child in between.
Groups(st, x) ==
  LET items == ToSet(Unsorted(st, x))
      events == {i \in items : i.show = None}
      kids   == items \ events
  IN  {i.index : i \in {e \in events : \A d \in events : Before(d, e) =>
                          \E k \in kids : Before(d, k) /\ Before(k, e)}}

Color(depth) == depth % 6

Inner(w) == Max({24, w - 4})

\* The width that a span at that depth is drawn with.
WidthAt(w, depth) == IF depth = 0 THEN w ELSE Max({24, w - 4 * depth})

Card(st, x, depth, w) ==
  [span |-> x, color |-> Color(depth), inner |-> Inner(WidthAt(w, depth)),
   icon |-> StatusView(st, x), timing |-> TimingView(st, x),
   error |-> st.node[x].error, attrs |-> st.node[x].attrs,
   events |-> st.node[x].events, parts |-> Parts(st, x), groups |-> Groups(st, x)]

\* The border, the header, and under a rule of its own each the error, the
\* attributes and every group of events, which have attributes as well.
OwnLines(card) ==
  LET inEvents == UNION {{e} \X (0 .. Len(card.events[e].attrs)) : e \in DOMAIN card.events}
  IN  3 + (IF card.error = None THEN 0 ELSE 2)
        + (IF card.attrs = <<>> THEN 0 ELSE 1 + Len(card.attrs))
        + Cardinality(inEvents) + Cardinality(card.groups)

\* Mutant of IsClosedSpanTree: the children are not looked at.
HasEnded(st, x) == ~Open(st, x)

IsClosedSpanTree(st, x) == \A y \in Below(st, {x}) : ~Open(st, y)

\* Where x is drawn when the roots are drawn with the width w.
CacheKey(st, x, w) == <<x, Depth(st, x), WidthAt(w, Depth(st, x))>>

\* What is found in the cache below X, without what is found below that.
Hits(st, c, X, w) ==
  LET found == {x \in Below(st, X) : /\ IsClosedSpanTree(st, x)
                                     /\ CacheKey(st, x, w) \in DOMAIN c}
  IN  {x \in found : \A y \in found \ {x} : x \notin Below(st, {y})}

\* What renderSpan walks over: it does not look inside a hit.
Walked(st, X, hits) == Below(st, X) \ Below(st, hits)

\* renderSpan for the siblings X
RenderSpans(st, c, X, w) ==
  LET hits   == Hits(st, c, X, w)
      walked == Walked(st, X, hits)
      From(x) == c[CacheKey(st, x, w)]
  IN  [y \in walked \cup UNION {DOMAIN From(x) : x \in hits} |->
        IF y \in walked THEN Card(st, y, Depth(st, y), w)
        ELSE From(CHOOSE x \in hits : y \in DOMAIN From(x))[y]]

RenderRoots(st, c, w) ==
  [order |-> st.roots, card |-> RenderSpans(st, c, ToSet(st.roots), w)]

\* The cache with the renderings of the closed trees that are walked over.
Filled(st, c, w) ==
  LET X      == ToSet(st.roots)
      closed == {x \in Walked(st, X, Hits(st, c, X, w)) : IsClosedSpanTree(st, x)}
  IN  [k \in DOMAIN c \cup {CacheKey(st, x, w) : x \in closed} |->
        IF k \in DOMAIN c THEN c[k] ELSE RenderSpans(st, c, {k[1]}, w)]

NoCache == <<>>

-----------------------------------------------------------------------------
\* The viewport of the bubbles library

LinesOn(cards) == UNION {{x} \X (1 .. OwnLines(cards[x])) : x \in DOMAIN cards}

Lines == IF width = None THEN 0 ELSE Max({1, Cardinality(LinesOn(screen.card))})

\* Mutant of Bottom: the content may be shorter than the window.
BottomAbove == Lines - height

Bottom == Max({0, Lines - height})

AtBottom == offset >= Bottom

SetContent(now) ==
  /\ screen' = now
  /\ offset' = IF offset > Lines' - 1 THEN Bottom' ELSE offset

-----------------------------------------------------------------------------
\* repaint, with the new store and size, and the cache c; scheduleRepaint

DrawnWidth(w) == Max({40, w - 2})

Repaint(c) ==
  IF width' = None THEN cache' = c /\ UNCHANGED <<screen, offset>>
  ELSE /\ SetContent(RenderRoots(store', c, DrawnWidth(width')))
       /\ cache' = Filled(store', c, DrawnWidth(width'))

\* Mutant of ScheduleRepaint: one tick for each record.
ScheduleAnother == pending' = TRUE /\ ticks' = ticks + 1

ScheduleRepaint ==
  IF pending THEN UNCHANGED <<pending, ticks>>
  ELSE pending' = TRUE /\ ticks' = ticks + 1

-----------------------------------------------------------------------------
\* The emitter

MayHaveKids(y) == told[y] = "start" \/ (LateKids /\ told[y] = "end")

Says(x) ==
  CASE told[x] = "nothing" ->
         [kind : {"start"}, id : {x}, attrs : Lists[x], at : Times[x],
          up : {y \in Parents[x] : y # None => MayHaveKids(y)}]
    [] told[x] = "start" ->
            [kind : {"update"}, id : {x}, attrs : Lists[x]]
       \cup [kind : {"end"}, id : {x}, how : {None}, error : Errors, at : Times[x]]
       \cup IF Len(store.node[x].events) < MaxEvents[x]
            THEN [kind : {"event"}, id : {x}, severity : {"info"},
                  attrs : Lists[x], at : Times[x]] ELSE {}
    [] told[x] = "end" -> {}

Tell(r) ==
  told' = IF r.kind \in {"start", "end"} THEN [told EXCEPT ![r.id] = r.kind]
                                         ELSE told

\* The viewer never gets it.
Lose(r) ==
  /\ r.kind = "start"
  /\ Tell(r)
  /\ UNCHANGED <<modelVars, fwd, hand>>

-----------------------------------------------------------------------------
\* The forwarder

\* While the viewer is paused it sleeps and looks again.
ForwardCheck ==
  /\ fwd = "check" /\ ~paused
  /\ fwd' = "receive"
  /\ UNCHANGED <<modelVars, hand, told>>

ForwardReceive(r) ==
  /\ fwd = "receive"
  /\ hand' = r /\ Tell(r)
  /\ fwd' = "recheck"
  /\ UNCHANGED modelVars

ForwardRecheck ==
  /\ fwd = "recheck"
  /\ fwd' = IF paused THEN "check" ELSE "send"
  /\ hand' = IF paused THEN None ELSE hand
  /\ UNCHANGED <<modelVars, told>>

-----------------------------------------------------------------------------
\* The handlers of Update

TuiInit ==
  /\ store = Empty(Allow) /\ cache = NoCache
  /\ width = None /\ height = 0 /\ offset = 0
  /\ paused = FALSE /\ pending = FALSE /\ stick = FALSE
  /\ screen = [order |-> <<>>, card |-> <<>>] /\ ticks = 0
  /\ fwd = "check" /\ hand = None
  /\ told = [x \in SpanID |-> "nothing"]
  /\ following = TRUE

\* With the content go the lines, and a viewport that has shrunk shows less.
WindowSizeMsg(size) ==
  /\ width' = size.width /\ height' = size.height - 2
  /\ UNCHANGED <<store, paused, pending, ticks, stick, fwdVars>>
  /\ Repaint(IF width # size.width THEN NoCache ELSE cache)
  /\ following' = ((following /\ stick) \/ AtBottom')

\* Mutant of Dropped: it is left to the forwarder to look.
NeverDropped == FALSE

Dropped == paused

\* Mutant of Sticks: an earlier record is forgotten.
SticksAnew == AtBottom

\* The next repaint goes to the bottom when any record since the last one
\* found the viewport there.
Sticks == stick \/ AtBottom

\* eventMsg: the forwarder is in p.Send.
EventMsg ==
  /\ fwd = "send"
  /\ fwd' = "check" /\ hand' = None
  /\ UNCHANGED <<told, width, height, offset, paused, screen, cache, following>>
  /\ IF Dropped THEN UNCHANGED <<store, pending, ticks, stick>>
     ELSE /\ store' = LimitRoots(Apply(store, hand), MaxRoots)
          /\ stick' = Sticks
          /\ ScheduleRepaint

RepaintMsg ==
  /\ ticks > 0
  /\ ticks' = ticks - 1 /\ pending' = FALSE
  /\ stick' = FALSE
  /\ UNCHANGED <<store, width, height, paused, following, fwdVars>>
  /\ IF width = None THEN UNCHANGED <<screen, offset, cache>>
     ELSE LET w == DrawnWidth(width)
          IN  /\ screen' = RenderRoots(store, cache, w)
              /\ cache' = Filled(store, cache, w)
              /\ offset' = IF stick \/ offset > Lines' - 1 THEN Bottom' ELSE offset

\* keys.Top, keys.Bottom, and the viewport's own Up and Down: where the key
\* leaves the viewport. A key that reaches the bottom of a screen that is
\* about to grow does not stay there, unless a record has found it there.
Scroll(to) ==
  /\ to # offset
  /\ offset' = to
  /\ UNCHANGED <<store, cache, width, height, stick, screen, paused, pending, ticks, fwdVars>>
  /\ following' = (AtBottom' /\ (ticks = 0 \/ stick))

ScrollKey ==
  \E to \in {0, Bottom, Max({0, offset - 1}), Min({Bottom, offset + 1})} : Scroll(to)

\* keys.Pause
TogglePaused ==
  /\ paused' = ~paused
  /\ store' = IF paused THEN store ELSE ClearOpenSpans(store)
  /\ UNCHANGED <<width, height, stick, following, pending, ticks, fwdVars>>
  /\ Repaint(IF paused THEN cache ELSE NoCache)

\* keys.Clear
ClearAll ==
  /\ store' = Clear(store)
  /\ UNCHANGED <<width, height, stick, following, paused, pending, ticks, fwdVars>>
  /\ Repaint(NoCache)

\* stateMsg, when the stream is lost
Disconnected ==
  /\ store' = MarkOpenSpansStale(store, 1)
  /\ UNCHANGED <<width, height, stick, following, paused, pending, ticks, fwdVars>>
  /\ Repaint(cache)

\* The handlers that only repaint: the spinner's tick while there is an open
\* span, the retry timer's, the help key, and stateMsg otherwise.
Redraw ==
  /\ UNCHANGED <<store, width, height, stick, following, paused, pending, ticks, fwdVars>>
  /\ Repaint(cache)

TuiNext ==
  \/ \E x \in SpanID : \E r \in Says(x) : Lose(r) \/ ForwardReceive(r)
  \/ ForwardCheck \/ ForwardRecheck
  \/ \E size \in Sizes : WindowSizeMsg(size)
  \/ EventMsg \/ RepaintMsg \/ ScrollKey
  \/ TogglePaused \/ ClearAll \/ Disconnected \/ Redraw

TuiSpec == TuiInit /\ [][TuiNext]_tuiVars

-----------------------------------------------------------------------------
TuiTypeOK ==
  /\ store.byID \subseteq SpanID
  /\ \A k \in DOMAIN cache : k[1] \in SpanID
  /\ width # None => \E size \in Sizes : size.width = width /\ size.height - 2 = height
  /\ offset \in Nat /\ paused \in BOOLEAN
  /\ fwd \in {"check", "receive", "recheck", "send"}
  /\ IF fwd \in {"recheck", "send"}
     THEN hand.id \in SpanID /\ hand.kind \in {"start", "update", "event", "end"}
     ELSE hand = None

\* A repaint tick is under way exactly when the model says so, and only one: a
\* burst of records costs one repaint, and none of them goes without, nor does
\* the wish to stay at the bottom outlive it (tui.go:195-209, 274-282).
OneTick == ticks \in {0, 1} /\ (pending <=> ticks = 1) /\ (stick => pending)

\* With no repaint under way the screen shows what drawing the whole store
\* without the cache would show: no handler forgets to repaint, and what the
\* cache holds is still true when it is used (render.go:80-88).
ScreenIsTrue ==
  width # None /\ ticks = 0 =>
    screen = RenderRoots(store, NoCache, DrawnWidth(width))

\* While the viewer is paused nothing on the screen is running, whatever the
\* forwarder had in its hands when the key was pressed (tui.go:94-104, 190).
PausedIsQuiet == paused => ~HasOpenSpans(store)

\* A reader who went to the bottom and has not scrolled away since stays there
\* while spans and events come in: the line that a burst of records adds is
\* shown even if something else has drawn it before the tick (tui.go:195-209).
FollowsTail == width # None /\ ticks = 0 /\ following => AtBottom
=============================================================================
