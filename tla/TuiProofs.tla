----------------------------- MODULE TuiProofs -----------------------------
(***************************************************************************)
(* Theorems about module Tui, for any number of spans and any sizes of the *)
(* window: its types, a paused viewer tracks no open span, a burst of      *)
(* records costs one repaint, the screen shows the store once no repaint   *)
(* is pending, and a reader at the bottom stays there.                     *)
(*                                                                         *)
(* The invariants build on each other. Calm: the store is a forest (Good,  *)
(* of module StoreProofs) and what the forwarder hands on is a record.     *)
(* Sized: the screen and every rendering in the cache has a number of      *)
(* lines. Faithful, for the last two theorems: store and cache know no     *)
(* more than the emitter has said (Sync), what is in the cache for a span  *)
(* is what its tree would be drawn as (Cached), and so a repaint draws     *)
(* what the whole store looks like (Shown, Followed).                      *)
(*                                                                         *)
(* The last two hold for an emitter that starts no child under an ended    *)
(* span (~LateKids). With late children the cache is not true to the store,*)
(* as the run tui_late shows.                                              *)
(***************************************************************************)
EXTENDS Tui, StoreProofs

Stages == {"nothing", "start", "end"}

Calm ==
  /\ Good(store) /\ paused \in BOOLEAN /\ told \in [SpanID -> Stages]
  /\ fwd \in {"recheck", "send"} => IsRecord(hand)
  /\ PausedIsQuiet

\* What the emitter says is a record.
LEMMA SaysRecords ==
  ASSUME told \in [SpanID -> Stages], NEW x \in SpanID, NEW r \in Says(x)
  PROVE  IsRecord(r) /\ (Tell(r) => told' \in [SpanID -> Stages])
<1>1. told[x] \in {"nothing", "start", "end"}
  BY DEF Stages
<1>2. ASSUME told[x] = "nothing"
      PROVE  r.kind = "start" /\ r.id = x /\ r.up \in SpanID \cup {None}
  <2>1. Parents[x] \subseteq SpanID \cup {None}
    BY TuiAssumption
  <2>2. r \in [kind : {"start"}, id : {x}, attrs : Lists[x], at : Times[x],
               up : {y \in Parents[x] : y # None => MayHaveKids(y)}]
    BY <1>2 DEF Says
  <2> QED
    BY <2>1, <2>2
<1>3. ASSUME told[x] = "start"
      PROVE  r.kind \in {"update", "end", "event"} /\ r.id = x
  BY <1>3 DEF Says
<1>4. told[x] # "end"
  BY DEF Says
<1>5. r.id = x /\ IsRecord(r)
  BY <1>1, <1>2, <1>3, <1>4 DEF IsRecord
<1>6. ASSUME Tell(r) PROVE told' \in [SpanID -> Stages]
  <2>1. CASE r.kind \in {"start", "end"}
    BY <1>5, <1>6, <2>1 DEF Tell, Stages
  <2>2. CASE r.kind \notin {"start", "end"}
    BY <1>6, <2>2 DEF Tell
  <2> QED
    BY <2>1, <2>2
<1> QED
  BY <1>5, <1>6

LEMMA CalmStep ==
  ASSUME Calm, [TuiNext]_tuiVars
  PROVE  Calm'
<1>0. /\ Good(store) /\ store.allow \in BOOLEAN /\ MaxRoots \in Int
      /\ PausedIsQuiet /\ paused \in BOOLEAN /\ told \in [SpanID -> Stages]
      /\ fwd \in {"recheck", "send"} => IsRecord(hand)
  BY TuiAssumption DEF Calm, Good, Typed
<1>1. ASSUME UNCHANGED <<store, paused, fwdVars>> PROVE Calm'
  BY <1>1 DEF fwdVars, Calm, PausedIsQuiet
<1>2. CASE UNCHANGED tuiVars
  BY <1>1, <1>2 DEF tuiVars, modelVars
<1>3. ASSUME NEW x \in SpanID, NEW r \in Says(x), Lose(r) PROVE Calm'
  <2>1. UNCHANGED <<store, paused, fwd, hand>> /\ told' \in [SpanID -> Stages]
    BY <1>0, <1>3, SaysRecords DEF Lose, modelVars
  <2> QED
    BY <2>1 DEF Calm, PausedIsQuiet
<1>4. ASSUME NEW x \in SpanID, NEW r \in Says(x), ForwardReceive(r) PROVE Calm'
  <2>1. UNCHANGED <<store, paused>> /\ told' \in [SpanID -> Stages]
        /\ IsRecord(hand')
    BY <1>0, <1>4, SaysRecords DEF ForwardReceive, modelVars
  <2> QED
    BY <2>1 DEF Calm, PausedIsQuiet
<1>5. CASE ForwardCheck
  <2>1. UNCHANGED <<store, paused, told>> /\ fwd' = "receive"
    BY <1>5 DEF ForwardCheck, modelVars
  <2> QED
    BY <2>1 DEF Calm, PausedIsQuiet
<1>6. CASE ForwardRecheck
  <2>1. /\ UNCHANGED <<store, paused, told>>
        /\ fwd' \in {"recheck", "send"} => IsRecord(hand')
    BY <1>0, <1>6 DEF ForwardRecheck, modelVars
  <2> QED
    BY <2>1 DEF Calm, PausedIsQuiet
<1>7. CASE EventMsg
  <2>1. /\ UNCHANGED <<paused, told>> /\ fwd' = "check" /\ IsRecord(hand)
        /\ paused => store' = store
        /\ ~paused => store' = LimitRoots(Apply(store, hand), MaxRoots)
    BY <1>0, <1>7 DEF EventMsg, Dropped
  <2>2. ~paused => Good(store')
    BY <1>0, <2>1, ApplyGood, LimitRootsGood
  <2> QED
    BY <1>0, <2>1, <2>2 DEF Calm, PausedIsQuiet
<1>8. CASE TogglePaused
  <2>1. /\ UNCHANGED fwdVars /\ paused' = ~paused
        /\ store' = IF paused THEN store ELSE ClearOpenSpans(store)
    BY <1>8 DEF TogglePaused
  <2>2. CASE paused
    BY <1>0, <2>1, <2>2 DEF fwdVars, Calm, PausedIsQuiet
  <2>3. CASE ~paused
    <3>1. Good(store') /\ ~HasOpenSpans(store')
      BY <1>0, <2>1, <2>3, ClearOpenSpansGood
    <3> QED
      BY <1>0, <2>1, <3>1 DEF fwdVars, Calm, PausedIsQuiet
  <2> QED
    BY <1>0, <2>2, <2>3
<1>9. CASE ClearAll
  <2>1. UNCHANGED <<paused, fwdVars>> /\ store' = Empty(store.allow)
    BY <1>9 DEF ClearAll, Clear
  <2>2. Good(store') /\ ~HasOpenSpans(store')
    BY <1>0, <2>1, EmptyGood, EmptyIsQuiet
  <2> QED
    BY <1>0, <2>1, <2>2 DEF fwdVars, Calm, PausedIsQuiet
<1>10. CASE Disconnected
  <2>1. UNCHANGED <<paused, fwdVars>> /\ store' = MarkOpenSpansStale(store, 1)
    BY <1>10 DEF Disconnected
  <2>2. Good(store') /\ (HasOpenSpans(store') <=> HasOpenSpans(store))
    BY <1>0, <2>1, MarkGood, MarkIsQuiet
  <2> QED
    BY <1>0, <2>1, <2>2 DEF fwdVars, Calm, PausedIsQuiet
<1>11. CASE RepaintMsg \/ ScrollKey \/ Redraw
  <2>1. UNCHANGED <<store, paused, fwdVars>>
    BY <1>11 DEF RepaintMsg, ScrollKey, Scroll, Redraw
  <2> QED
    BY <1>1, <2>1
<1>12. ASSUME NEW size \in Sizes, WindowSizeMsg(size) PROVE Calm'
  <2>1. UNCHANGED <<store, paused, fwdVars>>
    BY <1>12 DEF WindowSizeMsg
  <2> QED
    BY <1>1, <2>1
<1> QED
  BY <1>2, <1>3, <1>4, <1>5, <1>6, <1>7, <1>8, <1>9, <1>10, <1>11, <1>12
     DEF TuiNext

LEMMA CalmInit == TuiInit => Calm
<1> SUFFICES ASSUME TuiInit PROVE Calm
  OBVIOUS
<1>1. /\ store = Empty(Allow) /\ Allow \in BOOLEAN /\ ~paused
      /\ paused \in BOOLEAN /\ fwd = "check"
      /\ told = [x \in SpanID |-> "nothing"]
  BY TuiAssumption DEF TuiInit
<1>2. Good(store)
  BY <1>1, EmptyGood
<1>3. told \in [SpanID -> Stages]
  BY <1>1 DEF Stages
<1> QED
  BY <1>1, <1>2, <1>3 DEF Calm, PausedIsQuiet

LEMMA CalmAlways == TuiSpec => []Calm
  BY CalmInit, CalmStep, PTL DEF TuiSpec

\* While the viewer is paused no span that it tracks is running, whatever the
\* forwarder had in its hands when the key was pressed (tui.go:94-104, 190).
THEOREM TuiPausedIsQuiet == TuiSpec => []PausedIsQuiet
<1>1. Calm => PausedIsQuiet
  BY DEF Calm
<1> QED
  BY <1>1, CalmAlways, PTL

-----------------------------------------------------------------------------
\* The tick of the repaint

LEMMA OneTickStep ==
  ASSUME OneTick, [TuiNext]_tuiVars
  PROVE  OneTick'
<1>1. ASSUME UNCHANGED <<ticks, pending, stick>> PROVE OneTick'
  BY <1>1 DEF OneTick
<1>2. CASE UNCHANGED tuiVars
  BY <1>1, <1>2 DEF tuiVars, modelVars, viewVars
<1>3. ASSUME NEW r, Lose(r) \/ ForwardReceive(r) PROVE OneTick'
  BY <1>1, <1>3 DEF Lose, ForwardReceive, modelVars, viewVars
<1>4. CASE ForwardCheck \/ ForwardRecheck
  BY <1>1, <1>4 DEF ForwardCheck, ForwardRecheck, modelVars, viewVars
<1>5. CASE EventMsg
  <2>1. CASE Dropped
    BY <1>1, <1>5, <2>1 DEF EventMsg
  <2>2. CASE ~Dropped
    <3>1. ScheduleRepaint
      BY <1>5, <2>2 DEF EventMsg
    <3> QED
      BY <3>1 DEF ScheduleRepaint, OneTick
  <2> QED
    BY <2>1, <2>2
<1>6. CASE RepaintMsg
  <2>1. ticks > 0 /\ ticks' = ticks - 1 /\ pending' = FALSE /\ stick' = FALSE
    BY <1>6 DEF RepaintMsg
  <2>2. ticks' = 0
    BY <2>1 DEF OneTick
  <2> QED
    BY <2>1, <2>2 DEF OneTick
<1>7. CASE ScrollKey \/ TogglePaused \/ ClearAll \/ Disconnected \/ Redraw
  BY <1>1, <1>7 DEF ScrollKey, Scroll, TogglePaused, ClearAll, Disconnected,
                    Redraw
<1>8. ASSUME NEW size, WindowSizeMsg(size) PROVE OneTick'
  BY <1>1, <1>8 DEF WindowSizeMsg
<1> QED
  BY <1>2, <1>3, <1>4, <1>5, <1>6, <1>7, <1>8 DEF TuiNext

\* However many records come in a burst, there is one tick under way until the
\* repaint, and while there is none the model owes neither a repaint nor a move
\* to the bottom (tui.go:195-209, 274-282).
THEOREM OneTickAtATime == TuiSpec => []OneTick
<1>1. TuiInit => OneTick
  BY DEF TuiInit, OneTick
<1> QED
  BY <1>1, OneTickStep, PTL DEF TuiSpec

-----------------------------------------------------------------------------
\* The cache

\* What is drawn of the trees below X when nothing is cached.
Drawn(st, X, w) == [y \in Below(st, X) |-> Card(st, y, Depth(st, y), w)]

\* What is in the cache for a span is what its tree would be drawn as.
CacheTrue(st, c, w) ==
  \A k \in DOMAIN c : k[1] \in st.byID =>
    /\ IsClosedSpanTree(st, k[1])
    /\ k = CacheKey(st, k[1], w) => c[k] = Drawn(st, {k[1]}, w)

LEMMA DrawnFromCache ==
  ASSUME NEW st, Good(st), NEW c, NEW w, CacheTrue(st, c, w),
         NEW X \in SUBSET st.byID
  PROVE  RenderSpans(st, c, X, w) = Drawn(st, X, w)
<1> DEFINE hits   == Hits(st, c, X, w)
           walked == Walked(st, X, hits)
           From(x) == c[CacheKey(st, x, w)]
           parts == {DOMAIN From(x) : x \in hits}
<1>0. st.byID \subseteq SpanID /\ KidsAreSpans(st) /\ InTree(st) = st.byID
      /\ ToSet(st.roots) \subseteq SpanID
  BY TypedKids DEF Good, Typed, Shape, IsForest
<1>1. Below(st, X) \subseteq st.byID
  BY <1>0, BelowThrough DEF InTree
<1>2. hits \subseteq Below(st, X) /\ hits \in SUBSET SpanID
  BY <1>0, <1>1 DEF Hits
<1>3. ASSUME NEW x \in hits PROVE From(x) = Drawn(st, {x}, w)
  <2>1. CacheKey(st, x, w) \in DOMAIN c
    BY DEF Hits
  <2>2. CacheKey(st, x, w)[1] = x /\ x \in st.byID
    BY <1>1, <1>2 DEF CacheKey
  <2> QED
    BY <2>1, <2>2 DEF CacheTrue
<1>4. \A x \in hits : DOMAIN From(x) = Below(st, {x})
  BY <1>3 DEF Drawn
<1>5. UNION parts = Below(st, hits) /\ Below(st, hits) \subseteq Below(st, X)
  <2>1. UNION parts = UNION {Below(st, {x}) : x \in hits}
    BY <1>4
  <2>2. X \in SUBSET SpanID
    BY <1>0
  <2> HIDE DEF hits
  <2> QED
    BY <1>0, <1>2, <2>1, <2>2, BelowUnion, BelowThrough
<1>6. walked \cup UNION parts = Below(st, X)
  BY <1>5 DEF Walked
<1>7. ASSUME NEW y \in Below(st, X), y \notin walked
      PROVE  From(CHOOSE x \in hits : y \in DOMAIN From(x))[y]
               = Card(st, y, Depth(st, y), w)
  <2>1. \E x \in hits : y \in DOMAIN From(x)
    BY <1>6, <1>7
  <2> DEFINE x == CHOOSE x \in hits : y \in DOMAIN From(x)
  <2>2. x \in hits /\ y \in DOMAIN From(x)
    BY <2>1
  <2> HIDE DEF x, hits
  <2>3. From(x) = Drawn(st, {x}, w) /\ y \in Below(st, {x})
    BY <1>3, <1>4, <2>2
  <2>4. Drawn(st, {x}, w)[y] = Card(st, y, Depth(st, y), w)
    BY <2>3 DEF Drawn
  <2> QED
    BY <2>3, <2>4 DEF x
<1>8. RenderSpans(st, c, X, w) =
        [y \in walked \cup UNION parts |->
          IF y \in walked THEN Card(st, y, Depth(st, y), w)
          ELSE From(CHOOSE x \in hits : y \in DOMAIN From(x))[y]]
  BY DEF RenderSpans
<1> HIDE DEF hits, walked, From, parts
<1> QED
  BY <1>6, <1>7, <1>8 DEF Drawn

LEMMA NothingCached ==
  ASSUME NEW st, NEW w
  PROVE  CacheTrue(st, NoCache, w)
BY DEF CacheTrue, NoCache

\* What is drawn and the cache that is left of it.
LEMMA RenderRootsDrawn ==
  ASSUME NEW st, Good(st), NEW c, NEW w, CacheTrue(st, c, w)
  PROVE  /\ RenderRoots(st, c, w) =
              [order |-> st.roots, card |-> Drawn(st, ToSet(st.roots), w)]
         /\ CacheTrue(st, Filled(st, c, w), w)
         /\ \A k \in DOMAIN Filled(st, c, w) \ DOMAIN c :
              k[1] \in st.byID /\ ~Open(st, k[1])
<1> DEFINE X == ToSet(st.roots)
           closed == {x \in Walked(st, X, Hits(st, c, X, w)) : IsClosedSpanTree(st, x)}
           keys == {CacheKey(st, x, w) : x \in closed}
           new == Filled(st, c, w)
<1>0. /\ KidsAreSpans(st) /\ InTree(st) = st.byID /\ X \subseteq SpanID
      /\ st.byID \subseteq SpanID
  BY TypedKids DEF Good, Typed, Shape, IsForest
<1>1. X \subseteq st.byID
  BY <1>0, BelowIn DEF InTree
<1>2. RenderSpans(st, c, X, w) = Drawn(st, X, w)
  BY <1>1, DrawnFromCache
<1>3. closed \subseteq st.byID
  BY <1>0 DEF Walked, InTree
<1>4. \A x \in closed : IsClosedSpanTree(st, x)
  OBVIOUS
<1>5. new = [k \in DOMAIN c \cup keys |->
              IF k \in DOMAIN c THEN c[k] ELSE RenderSpans(st, c, {k[1]}, w)]
  BY DEF Filled
<1> HIDE DEF closed, new
<1>6. ASSUME NEW k \in DOMAIN new \ DOMAIN c
      PROVE  /\ k[1] \in closed /\ k[1] \in st.byID
             /\ new[k] = Drawn(st, {k[1]}, w)
  <2>1. PICK x \in closed : k = CacheKey(st, x, w)
    BY <1>5, <1>6
  <2>2. k[1] = x
    BY <2>1 DEF CacheKey
  <2>3. {x} \in SUBSET st.byID
    BY <1>3
  <2>4. RenderSpans(st, c, {x}, w) = Drawn(st, {x}, w)
    BY <2>3, DrawnFromCache
  <2>5. new[k] = RenderSpans(st, c, {k[1]}, w)
    BY <1>5, <1>6
  <2> QED
    BY <2>2, <2>3, <2>4, <2>5
<1>7. \A k \in DOMAIN c : new[k] = c[k]
  BY <1>5
<1>8. CacheTrue(st, new, w)
  BY <1>4, <1>6, <1>7 DEF CacheTrue
<1>9. \A k \in DOMAIN new \ DOMAIN c : ~Open(st, k[1])
  <2>1. \A x \in st.byID : x \in Below(st, {x})
    BY <1>0, BelowIn
  <2> QED
    BY <1>4, <1>6, <2>1 DEF IsClosedSpanTree
<1> QED
  BY <1>2, <1>6, <1>8, <1>9 DEF RenderRoots, new

\* A card is drawn from a span and its children's nodes.
LEMMA CardSame ==
  ASSUME NEW st, NEW now, NEW y, NEW w, NEW d, Len(st.node[y].events) \in Nat,
         now.node[y] = st.node[y], now.stale[y] = st.stale[y],
         Len(st.node[y].kids) \in Nat,
         \A i \in 1 .. Len(st.node[y].kids) :
           now.node[st.node[y].kids[i]] = st.node[st.node[y].kids[i]]
  PROVE  Card(now, y, d, w) = Card(st, y, d, w)
<1> DEFINE n == Len(st.node[y].events)
           k == Len(st.node[y].kids)
<1>1. Unsorted(now, y) = Unsorted(st, y)
  <2>1. \A i \in 1 .. n + k : ~(i <= n) =>
          now.node[st.node[y].kids[i - n]] = st.node[st.node[y].kids[i - n]]
    <3>1. \A i \in 1 .. n + k : ~(i <= n) => i - n \in 1 .. k
      <4>1. n \in Nat /\ k \in Nat
        OBVIOUS
      <4> HIDE DEF n, k
      <4> QED
        BY <4>1
    <3> QED
      BY <3>1
  <2> QED
    BY <2>1 DEF Unsorted
<1>2. Parts(now, y) = Parts(st, y)
  BY <1>1 DEF Parts, TimelineItems
<1>3. Groups(now, y) = Groups(st, y)
  BY <1>1 DEF Groups
<1>4. StatusView(now, y) = StatusView(st, y)
  BY DEF StatusView, Open
<1>5. TimingView(now, y) = TimingView(st, y)
  BY DEF TimingView
<1> QED
  BY <1>2, <1>3, <1>4, <1>5 DEF Card

\* The attributes that records bring, and what happens to a span that a store
\* tracks: an event of its timeline.
Members == UNION {ToSet(list) : list \in UNION {Lists[x] : x \in SpanID}}

Happening == [at : Int, severity : {"info"}, attrs : Seq(Members)]

Counted(st) ==
  /\ IsFiniteSet(st.byID)
  /\ \A x \in SpanID : /\ st.node[x].attrs \in Seq(Members)
                       /\ st.node[x].events \in Seq(Happening)

LEMMA DrawnSame ==
  ASSUME NEW st, Good(st), Counted(st), NEW now, NEW x \in st.byID,
         Untouched(st, now, x), NEW w
  PROVE  /\ Drawn(now, {x}, w) = Drawn(st, {x}, w)
         /\ IsClosedSpanTree(now, x) <=> IsClosedSpanTree(st, x)
         /\ CacheKey(now, x, w) = CacheKey(st, x, w)
<1>0. /\ KidsAreSpans(st) /\ x \in Below(st, {x}) /\ Below(st, {x}) \subseteq SpanID
      /\ \A y \in SpanID : st.node[y].kids \in Seq(SpanID)
  BY BelowInTree, TypedKids DEF Good, Typed, Shape
<1>1. ClosedUnder(st, Below(st, {x}))
  BY <1>0, BelowClosed
<1>2. ASSUME NEW y \in Below(st, {x})
      PROVE  Card(now, y, Depth(now, y), w) = Card(st, y, Depth(st, y), w)
  <2>1. /\ now.node[y] = st.node[y] /\ now.stale[y] = st.stale[y]
        /\ Depth(now, y) = Depth(st, y)
    BY DEF Untouched
  <2>2. Len(st.node[y].events) \in Nat /\ Len(st.node[y].kids) \in Nat
    BY <1>0, LenProperties DEF Counted
  <2>3. ASSUME NEW i \in 1 .. Len(st.node[y].kids)
        PROVE  now.node[st.node[y].kids[i]] = st.node[st.node[y].kids[i]]
    <3>0. y \in SpanID /\ st.node[y].kids \in Seq(SpanID)
      BY <1>0
    <3>1. st.node[y].kids[i] \in ToSet(st.node[y].kids)
      BY <3>0, ToSetIn
    <3>2. st.node[y].kids[i] \in Below(st, {x})
      BY <1>1, <3>1 DEF ClosedUnder
    <3> QED
      BY <3>2 DEF Untouched
  <2> QED
    BY <2>1, <2>2, <2>3, CardSame
<1>3. Below(now, {x}) = Below(st, {x})
  BY DEF Untouched
<1>4. Depth(now, x) = Depth(st, x)
  BY <1>0 DEF Untouched
<1>5. IsClosedSpanTree(now, x) <=> IsClosedSpanTree(st, x)
  BY <1>3 DEF Untouched, IsClosedSpanTree, Open
<1> QED
  BY <1>2, <1>3, <1>4, <1>5 DEF Drawn, CacheKey

LEMMA CacheStaysTrue ==
  ASSUME NEW st, Good(st), Counted(st), NEW now, NEW c, NEW w, CacheTrue(st, c, w),
         \A k \in DOMAIN c : k[1] \in now.byID =>
           k[1] \in st.byID /\ Untouched(st, now, k[1])
  PROVE  CacheTrue(now, c, w)
BY DrawnSame DEF CacheTrue

\* What the emitter says.
Plain(r) ==
  /\ r.id \in SpanID /\ r.kind \in {"start", "update", "event", "end"}
  /\ r.kind # "update" => r.at \in Int
  /\ r.kind # "end" => r.attrs \in Seq(Members)
  /\ r.kind = "event" => r.severity = "info"

LEMMA ListsAre ==
  ASSUME NEW x \in SpanID, NEW list \in Lists[x]
  PROVE  list \in Seq(Members)
<1>1. list \in Seq(ToSet(list))
  BY TuiAssumption
<1>2. ToSet(list) \subseteq Members
  BY DEF Members
<1> HIDE DEF Members
<1> QED
  BY <1>1, <1>2

LEMMA SaysPlain ==
  ASSUME told \in [SpanID -> Stages], NEW x \in SpanID, NEW r \in Says(x)
  PROVE  /\ r.id = x /\ Plain(r)
         /\ r.kind = "start" => told[x] = "nothing"
         /\ r.kind = "start" /\ r.up # None => MayHaveKids(r.up) /\ r.up \in SpanID
         /\ r.kind \in {"update", "event", "end"} => told[x] = "start"
<1>0. Times[x] \subseteq Int /\ \A list \in Lists[x] : list \in Seq(Members)
  BY TuiAssumption, ListsAre
<1>1. told[x] \in {"nothing", "start", "end"}
  BY DEF Stages
<1>2. CASE told[x] = "nothing"
  <2>1. r \in [kind : {"start"}, id : {x}, attrs : Lists[x], at : Times[x],
               up : {y \in Parents[x] : y # None => MayHaveKids(y)}]
    BY <1>2 DEF Says
  <2>2. Parents[x] \subseteq SpanID \cup {None}
    BY TuiAssumption
  <2> QED
    BY <1>0, <1>2, <2>1, <2>2 DEF Plain
<1>3. CASE told[x] = "start"
  <2> DEFINE updates == [kind : {"update"}, id : {x}, attrs : Lists[x]]
             ends == [kind : {"end"}, id : {x}, how : {None}, error : Errors,
                      at : Times[x]]
             events == [kind : {"event"}, id : {x}, severity : {"info"},
                        attrs : Lists[x], at : Times[x]]
  <2>1. r \in updates \cup ends \cup events
    BY <1>3 DEF Says
  <2>2. r \in updates => r.kind = "update" /\ r.id = x /\ r.attrs \in Lists[x]
    OBVIOUS
  <2>3. r \in ends => r.kind = "end" /\ r.id = x /\ r.at \in Times[x]
    OBVIOUS
  <2>4. r \in events => /\ r.kind = "event" /\ r.id = x /\ r.at \in Times[x]
                        /\ r.attrs \in Lists[x] /\ r.severity = "info"
    OBVIOUS
  <2> HIDE DEF updates, ends, events
  <2> QED
    BY <1>0, <1>3, <2>1, <2>2, <2>3, <2>4 DEF Plain
<1>4. told[x] # "end"
  BY DEF Says
<1> QED
  BY <1>1, <1>2, <1>3, <1>4

\* Its records leave what can be counted.
LEMMA CountedSame ==
  ASSUME NEW st, Counted(st), NEW now, now.byID \subseteq st.byID,
         \A x \in SpanID : \/ now.node[x] = Blank
                           \/ /\ now.node[x].attrs = st.node[x].attrs
                              /\ now.node[x].events = st.node[x].events
  PROVE  Counted(now)
<1>1. IsFiniteSet(now.byID)
  BY FS_Subset DEF Counted
<1>2. Blank.attrs \in Seq(Members) /\ Blank.events \in Seq(Happening)
  BY EmptySeq DEF Blank
<1> QED
  BY <1>1, <1>2 DEF Counted

LEMMA StartCounted ==
  ASSUME NEW st, Good(st), Counted(st), NEW r, Plain(r), r.kind = "start",
         ~Ignored(st, r)
  PROVE  Counted(ApplyStarted(st, r))
<1> DEFINE now == ApplyStarted(st, r)
<1>0. Typed(st) /\ r.id \in SpanID /\ Shape(st)
  BY DEF Good, Typed, Plain
<1>1. IsBorn(st, r, now)
  BY <1>0, StartedIs
<1> HIDE DEF now
<1>2. IsFiniteSet(now.byID)
  BY <1>1, FS_AddElement DEF IsBorn, Counted
<1>3. ASSUME NEW x \in SpanID
      PROVE  now.node[x].attrs \in Seq(Members) /\ now.node[x].events \in Seq(Happening)
  <2>1. DOMAIN st.node[x] = DOMAIN Blank /\ st.node[x].attrs \in Seq(Members)
        /\ st.node[x].events \in Seq(Happening)
    BY <1>0 DEF Shape, Counted
  <2>2. CASE x = r.id
    <3>1. now.node[x] = [Blank EXCEPT !.up = r.up, !.at = TimeValue(r.at),
                                     !.attrs = r.attrs]
      BY <1>1, <2>2 DEF IsBorn
    <3>2. r.attrs \in Seq(Members) /\ <<>> \in Seq(Happening)
      BY EmptySeq DEF Plain
    <3> QED
      BY <3>1, <3>2 DEF Blank
  <2>3. CASE x # r.id /\ x = r.up /\ r.up \in st.byID
    <3>1. now.node[x] = [st.node[x] EXCEPT !.kids = Append(@, r.id)]
      BY <1>1, <2>3 DEF IsBorn
    <3> QED
      BY <2>1, <3>1, BlankIs
  <2>4. CASE x # r.id /\ ~(x = r.up /\ r.up \in st.byID)
    <3>1. now.node[x] = st.node[x]
      BY <1>1, <2>4 DEF IsBorn
    <3> QED
      BY <2>1, <3>1
  <2> QED
    BY <2>2, <2>3, <2>4
<1> QED
  BY <1>2, <1>3 DEF Counted, now

LEMMA WriteCounted ==
  ASSUME NEW st, Good(st), Counted(st), NEW r, Plain(r), r.kind # "start",
         Writable(st, r.id)
  PROVE  Counted(Apply(st, r))
<1> DEFINE old == st.node[r.id]
           merged == FoldLeft(Merge, old.attrs, r.attrs)
           e == [at |-> TimeValue(r.at), severity |-> r.severity,
                 attrs |-> r.attrs]
           updated == [old EXCEPT !.attrs = merged]
           ended == [old EXCEPT !.done = TRUE, !.endedAt = TimeValue(r.at),
                                !.how = r.how, !.error = r.error]
           marked == [old EXCEPT !.events = Append(@, e)]
           n == IF r.kind = "update" THEN updated
                ELSE IF r.kind = "end" THEN ended ELSE marked
<1>0. Typed(st) /\ r.id \in SpanID /\ Shape(st)
  BY DEF Good, Typed, Plain
<1>1. /\ DOMAIN old = DOMAIN Blank /\ old.attrs \in Seq(Members)
      /\ old.events \in Seq(Happening)
  BY <1>0 DEF Shape, Counted
<1>2. Apply(st, r) = [st EXCEPT !.node = [@ EXCEPT ![r.id] = n]]
  <2>1. CASE r.kind = "update"
    <3>1. Apply(st, r) = ApplyUpdated(st, r)
      BY <2>1 DEF Apply
    <3>2. ApplyUpdated(st, r) = [st EXCEPT !.node = [@ EXCEPT ![r.id] = updated]]
      BY <1>0 DEF ApplyUpdated, Shape
    <3> QED
      BY <2>1, <3>1, <3>2
  <2>2. CASE r.kind = "end"
    <3>1. Apply(st, r) = ApplyEnded(st, r)
      BY <2>2 DEF Apply
    <3>2. ApplyEnded(st, r) = [st EXCEPT !.node = [@ EXCEPT ![r.id] = ended]]
      BY ZenonT(30) DEF ApplyEnded
    <3> QED
      BY <2>2, <3>1, <3>2
  <2>3. CASE r.kind = "event"
    BY <1>0, <2>3 DEF Apply, ApplyEvent, Shape
  <2> QED
    BY <2>1, <2>2, <2>3 DEF Plain
<1>3. n.attrs \in Seq(Members) /\ n.events \in Seq(Happening)
  <2>1. CASE r.kind = "update"
    <3>1. merged \in Seq(Members)
      <4>1. r.attrs \in Seq(Members)
        BY <2>1 DEF Plain
      <4> QED
        BY <1>1, <4>1, MergedInSeq
    <3> HIDE DEF old, merged
    <3>2. updated.attrs = merged /\ updated.events = old.events
      BY <1>1, BlankIs
    <3> QED
      BY <1>1, <2>1, <3>1, <3>2
  <2>2. CASE r.kind = "end"
    <3>1. ended.attrs = old.attrs /\ ended.events = old.events
      <4> HIDE DEF old
      <4> QED
        BY <1>1, BlankIs
    <3> QED
      BY <1>1, <2>2, <3>1
  <2>3. CASE r.kind = "event"
    <3>1. e \in Happening
      <4>1. TimeValue(r.at) \in Int
        BY <2>3 DEF Plain, TimeValue, Epoch
      <4> QED
        BY <2>3, <4>1 DEF Plain, Happening
    <3> HIDE DEF old, e
    <3>2. marked.attrs = old.attrs /\ marked.events = Append(old.events, e)
      BY <1>1, BlankIs
    <3>3. Append(old.events, e) \in Seq(Happening)
      BY <1>1, <3>1, AppendProperties
    <3> QED
      BY <1>1, <2>3, <3>2, <3>3
  <2> QED
    BY <2>1, <2>2, <2>3 DEF Plain
<1> HIDE DEF n
<1>4. /\ Apply(st, r).byID = st.byID
      /\ \A x \in SpanID : Apply(st, r).node[x] = IF x = r.id THEN n ELSE st.node[x]
  BY <1>0, <1>2 DEF Shape
<1> QED
  BY <1>3, <1>4 DEF Counted

-----------------------------------------------------------------------------
\* Lines

\* Cards that have a number of lines, each and together.
Countable(cards) ==
  /\ IsFiniteSet(DOMAIN cards)
  /\ \A x \in DOMAIN cards : OwnLines(cards[x]) \in Nat

LEMMA FiniteUnion ==
  ASSUME NEW f, IsFiniteSet(DOMAIN f), \A x \in DOMAIN f : IsFiniteSet(f[x])
  PROVE  IsFiniteSet(UNION {f[x] : x \in DOMAIN f})
<1> DEFINE D == DOMAIN f
           T == {f[x] : x \in D}
           g == [x \in D |-> f[x]]
<1>1. g \in Surjection(D, T)
  BY DEF Surjection
<1>2. IsFiniteSet(T)
  BY <1>1, FS_Surjection
<1>3. \A t \in T : IsFiniteSet(t)
  OBVIOUS
<1> HIDE DEF T
<1>4. IsFiniteSet(UNION T)
  BY <1>2, <1>3, FS_UNION
<1> QED
  BY <1>4 DEF T

LEMMA MaxOfTwo ==
  ASSUME NEW a \in Int, NEW b \in Int
  PROVE  Max({a, b}) = IF a <= b THEN b ELSE a
<1> DEFINE m == IF a <= b THEN b ELSE a
           P(x) == x \in {a, b} /\ \A y \in {a, b} : x >= y
<1>1. P(m)
  OBVIOUS
<1>2. \A x : P(x) => x = m
  OBVIOUS
<1>3. Max({a, b}) = CHOOSE x : P(x)
  BY DEF Max
<1> QED
  BY <1>1, <1>2, <1>3

LEMMA MinOfTwo ==
  ASSUME NEW a \in Int, NEW b \in Int
  PROVE  Min({a, b}) = IF a <= b THEN a ELSE b
<1> DEFINE m == IF a <= b THEN a ELSE b
           P(x) == x \in {a, b} /\ \A y \in {a, b} : x <= y
<1>1. P(m)
  OBVIOUS
<1>2. \A x : P(x) => x = m
  OBVIOUS
<1>3. Min({a, b}) = CHOOSE x : P(x)
  BY DEF Min
<1> QED
  BY <1>1, <1>2, <1>3

LEMMA IntervalFinite == \A n \in Int : IsFiniteSet(1 .. n) /\ IsFiniteSet(0 .. n)
BY FS_Interval

LEMMA LinesFinite ==
  ASSUME NEW cards, Countable(cards)
  PROVE  IsFiniteSet(LinesOn(cards)) /\ Cardinality(LinesOn(cards)) \in Nat
<1> DEFINE f == [x \in DOMAIN cards |-> {x} \X (1 .. OwnLines(cards[x]))]
<1>1. ASSUME NEW x \in DOMAIN f PROVE IsFiniteSet(f[x])
  <2>0. OwnLines(cards[x]) \in Int
    BY DEF Countable
  <2>1. IsFiniteSet({x}) /\ IsFiniteSet(1 .. OwnLines(cards[x]))
    BY <2>0, FS_Singleton, IntervalFinite, Zenon
  <2>2. IsFiniteSet({x} \X (1 .. OwnLines(cards[x])))
    BY <2>1, FS_Product
  <2> QED
    BY <2>2
<1>2. IsFiniteSet(DOMAIN f)
  BY DEF Countable
<1>3. LinesOn(cards) = UNION {f[x] : x \in DOMAIN f}
  BY DEF LinesOn
<1> HIDE DEF f
<1>4. IsFiniteSet(LinesOn(cards))
  BY <1>1, <1>2, <1>3, FiniteUnion
<1> QED
  BY <1>4, FS_CardinalityType

\* Fewer cards, each with no more lines, have no more lines.
LEMMA FewerLines ==
  ASSUME NEW cards, Countable(cards), NEW now, Countable(now),
         DOMAIN now \subseteq DOMAIN cards,
         \A x \in DOMAIN now : OwnLines(now[x]) <= OwnLines(cards[x])
  PROVE  Cardinality(LinesOn(now)) <= Cardinality(LinesOn(cards))
<1>1. LinesOn(now) \subseteq LinesOn(cards)
  <2>1. \A x \in DOMAIN now :
          1 .. OwnLines(now[x]) \subseteq 1 .. OwnLines(cards[x])
    BY DEF Countable
  <2> QED
    BY <2>1 DEF LinesOn
<1> QED
  BY <1>1, LinesFinite, FS_Subset

\* The cards that are drawn of a good store can be counted.
LEMMA GroupsFinite ==
  ASSUME NEW st, NEW y, st.node[y].events \in Seq(Happening),
         st.node[y].kids \in Seq(SpanID)
  PROVE  IsFiniteSet(Groups(st, y))
<1> DEFINE all == Unsorted(st, y)
           n == Len(st.node[y].events) + Len(st.node[y].kids)
<1>1. n \in Int
  BY LenProperties
<1>2. \A i \in ToSet(all) : i.index \in 1 .. n
  <2>1. DOMAIN all = 1 .. n /\ \A i \in 1 .. n : all[i].index = i
    BY DEF Unsorted
  <2> HIDE DEF all, n
  <2> QED
    BY <2>1 DEF ToSet
<1>3. Groups(st, y) \subseteq 1 .. n
  BY <1>2 DEF Groups
<1>4. IsFiniteSet(1 .. n)
  BY <1>1, IntervalFinite, Zenon
<1> QED
  BY <1>3, <1>4, FS_Subset

LEMMA EventLinesFinite ==
  ASSUME NEW events \in Seq(Happening)
  PROVE  LET f == [e \in DOMAIN events |-> {e} \X (0 .. Len(events[e].attrs))]
         IN  IsFiniteSet(DOMAIN f) /\ \A e \in DOMAIN f : IsFiniteSet(f[e])
<1> DEFINE f == [e \in DOMAIN events |-> {e} \X (0 .. Len(events[e].attrs))]
<1>1. IsFiniteSet(DOMAIN f)
  BY LenProperties, FS_Interval
<1>2. ASSUME NEW e \in DOMAIN f PROVE IsFiniteSet(f[e])
  <2>1. events[e] \in Happening
    BY ElementOfSeq, LenProperties
  <2>2. Len(events[e].attrs) \in Int
    BY <2>1, LenProperties DEF Happening
  <2>3. IsFiniteSet({e}) /\ IsFiniteSet(0 .. Len(events[e].attrs))
    BY <2>2, FS_Singleton, IntervalFinite, Zenon
  <2>4. IsFiniteSet({e} \X (0 .. Len(events[e].attrs)))
    BY <2>3, FS_Product
  <2> QED
    BY <2>4
<1> QED
  BY <1>1, <1>2

LEMMA CardCountable ==
  ASSUME NEW st, NEW y, st.node[y].attrs \in Seq(Members),
         st.node[y].events \in Seq(Happening), st.node[y].kids \in Seq(SpanID),
         NEW d, NEW w
  PROVE  OwnLines(Card(st, y, d, w)) \in Nat
<1> DEFINE events == st.node[y].events
           card == Card(st, y, d, w)
           f == [e \in DOMAIN events |-> {e} \X (0 .. Len(events[e].attrs))]
           inEvents == UNION {f[e] : e \in DOMAIN f}
<1>1. IsFiniteSet(DOMAIN f) /\ \A e \in DOMAIN f : IsFiniteSet(f[e])
  BY EventLinesFinite
<1>3. Cardinality(inEvents) \in Nat
  <2> HIDE DEF f
  <2> QED
    BY <1>1, FiniteUnion, FS_CardinalityType
<1>4. Cardinality(Groups(st, y)) \in Nat
  BY GroupsFinite, FS_CardinalityType
<1>5. /\ card.events = events /\ Len(card.attrs) \in Nat
      /\ card.groups = Groups(st, y) /\ card.error = st.node[y].error
  BY LenProperties DEF Card
<1>6. inEvents = UNION {{e} \X (0 .. Len(card.events[e].attrs)) : e \in DOMAIN card.events}
  BY <1>5
<1> DEFINE head == IF card.error = None THEN 0 ELSE 2
           listed == IF card.attrs = <<>> THEN 0 ELSE 1 + Len(card.attrs)
<1>7. head \in Nat /\ listed \in Nat
  BY <1>5
<1>8. OwnLines(card) = 3 + head + listed + Cardinality(inEvents)
                         + Cardinality(card.groups)
  <2> HIDE DEF card, inEvents
  <2> QED
    BY <1>6 DEF OwnLines
<1> HIDE DEF card, inEvents, head, listed
<1> QED
  BY <1>3, <1>4, <1>5, <1>7, <1>8 DEF card

LEMMA RenderCountable ==
  ASSUME NEW st, Good(st), Counted(st), NEW c, \A k \in DOMAIN c : Countable(c[k]),
         NEW X \in SUBSET st.byID, NEW w
  PROVE  Countable(RenderSpans(st, c, X, w))
<1> DEFINE hits   == Hits(st, c, X, w)
           walked == Walked(st, X, hits)
           f      == [x \in hits |-> DOMAIN c[CacheKey(st, x, w)]]
           From(x) == c[CacheKey(st, x, w)]
           parts  == UNION {DOMAIN From(x) : x \in hits}
           cards  == RenderSpans(st, c, X, w)
<1>0. /\ st.byID \subseteq SpanID /\ KidsAreSpans(st) /\ InTree(st) = st.byID
      /\ ToSet(st.roots) \subseteq SpanID
      /\ \A y \in SpanID : st.node[y].kids \in Seq(SpanID)
  BY TypedKids DEF Good, Typed, Shape, IsForest
<1>1. Below(st, X) \subseteq st.byID
  BY <1>0, BelowThrough DEF InTree
<1>2. IsFiniteSet(Below(st, X))
  BY <1>1, FS_Subset DEF Counted
<1>3. /\ hits \subseteq Below(st, X) /\ walked \subseteq Below(st, X)
      /\ \A x \in hits : CacheKey(st, x, w) \in DOMAIN c
  BY DEF Hits, Walked
<1>4. IsFiniteSet(hits) /\ IsFiniteSet(walked)
  BY <1>2, <1>3, FS_Subset
<1>5. cards = [y \in walked \cup parts |->
                 IF y \in walked THEN Card(st, y, Depth(st, y), w)
                 ELSE From(CHOOSE x \in hits : y \in DOMAIN From(x))[y]]
  BY DEF RenderSpans
<1> HIDE DEF hits, walked, cards
<1>6. IsFiniteSet(DOMAIN cards)
  <2>1. IsFiniteSet(DOMAIN f) /\ \A x \in DOMAIN f : IsFiniteSet(f[x])
    BY <1>3, <1>4 DEF Countable
  <2>2. parts = UNION {f[x] : x \in DOMAIN f}
    OBVIOUS
  <2> HIDE DEF f
  <2>3. IsFiniteSet(parts)
    BY <2>1, <2>2, FiniteUnion
  <2>4. IsFiniteSet(walked \cup parts)
    BY <1>4, <2>3, FS_Union
  <2> QED
    BY <1>5, <2>4
<1>7. ASSUME NEW y \in DOMAIN cards PROVE OwnLines(cards[y]) \in Nat
  <2>1. CASE y \in walked
    <3>1. y \in SpanID
      BY <1>0, <1>1, <1>3, <2>1
    <3>2. /\ st.node[y].attrs \in Seq(Members) /\ st.node[y].events \in Seq(Happening)
          /\ st.node[y].kids \in Seq(SpanID)
      BY <1>0, <3>1 DEF Counted
    <3> QED
      BY <1>5, <2>1, <3>2, CardCountable
  <2>2. CASE y \notin walked
    <3> DEFINE x == CHOOSE x \in hits : y \in DOMAIN From(x)
    <3>1. \E z \in hits : y \in DOMAIN From(z)
      BY <1>5, <1>7, <2>2
    <3>2. x \in hits /\ y \in DOMAIN From(x)
      BY <3>1
    <3>3. cards[y] = From(x)[y]
      BY <1>5, <1>7, <2>2
    <3> HIDE DEF x
    <3>4. OwnLines(From(x)[y]) \in Nat
      BY <1>3, <3>2 DEF Countable
    <3> QED
      BY <3>3, <3>4
  <2> QED
    BY <2>1, <2>2
<1> QED
  BY <1>6, <1>7 DEF Countable, cards

LEMMA FilledCountable ==
  ASSUME NEW st, Good(st), Counted(st), NEW c, NEW w,
         \A k \in DOMAIN c : k[1] \in SpanID /\ Countable(c[k])
  PROVE  /\ Countable(RenderRoots(st, c, w).card)
         /\ \A k \in DOMAIN Filled(st, c, w) :
              k[1] \in SpanID /\ Countable(Filled(st, c, w)[k])
<1> DEFINE X == ToSet(st.roots)
           closed == {x \in Walked(st, X, Hits(st, c, X, w)) : IsClosedSpanTree(st, x)}
           keys == {CacheKey(st, x, w) : x \in closed}
           new == Filled(st, c, w)
<1>0. /\ KidsAreSpans(st) /\ InTree(st) = st.byID /\ X \subseteq SpanID
      /\ st.byID \subseteq SpanID
  BY TypedKids DEF Good, Typed, Shape, IsForest
<1>1. X \in SUBSET st.byID
  BY <1>0, BelowIn DEF InTree
<1>2. Countable(RenderRoots(st, c, w).card)
  BY <1>1, RenderCountable DEF RenderRoots
<1>3. closed \subseteq st.byID
  BY <1>0 DEF Walked, InTree
<1>4. new = [k \in DOMAIN c \cup keys |->
              IF k \in DOMAIN c THEN c[k] ELSE RenderSpans(st, c, {k[1]}, w)]
  BY DEF Filled
<1> HIDE DEF closed, new
<1>5. ASSUME NEW k \in DOMAIN new, k \notin DOMAIN c
      PROVE  k[1] \in SpanID /\ Countable(new[k])
  <2>1. PICK x \in closed : k = CacheKey(st, x, w)
    BY <1>4, <1>5
  <2>2. k[1] = x
    BY <2>1 DEF CacheKey
  <2>3. {x} \in SUBSET st.byID
    BY <1>3
  <2>4. Countable(RenderSpans(st, c, {x}, w))
    BY <2>3, RenderCountable
  <2>5. new[k] = RenderSpans(st, c, {k[1]}, w)
    BY <1>4, <1>5
  <2> QED
    BY <1>0, <2>2, <2>3, <2>4, <2>5
<1>6. \A k \in DOMAIN c : new[k] = c[k]
  BY <1>4
<1> QED
  BY <1>2, <1>5, <1>6 DEF new

-----------------------------------------------------------------------------
\* The length of the content and the furthest that it can be scrolled.
LinesOf(w, cards) == IF w = None THEN 0 ELSE Max({1, Cardinality(LinesOn(cards))})

BottomOf(lines, h) == Max({0, lines - h})

LEMMA LinesAre ==
  /\ Lines = LinesOf(width, screen.card)
  /\ Lines' = LinesOf(width', screen'.card)
  /\ Bottom = BottomOf(Lines, height) /\ Bottom' = BottomOf(Lines', height')
BY DEF Lines, LinesOf, Bottom, BottomOf

LEMMA LinesNumber ==
  ASSUME NEW cards, Countable(cards), NEW w
  PROVE  /\ LinesOf(w, cards) \in Nat
         /\ w # None => LinesOf(w, cards) = IF 1 <= Cardinality(LinesOn(cards))
                                            THEN Cardinality(LinesOn(cards)) ELSE 1
<1>1. Cardinality(LinesOn(cards)) \in Nat
  BY LinesFinite
<1>2. Max({1, Cardinality(LinesOn(cards))}) = IF 1 <= Cardinality(LinesOn(cards))
                                              THEN Cardinality(LinesOn(cards)) ELSE 1
  BY <1>1, MaxOfTwo
<1> QED
  BY <1>1, <1>2 DEF LinesOf

LEMMA BottomNumber ==
  ASSUME NEW lines \in Nat, NEW h \in Int
  PROVE  /\ BottomOf(lines, h) \in Nat
         /\ BottomOf(lines, h) = IF 0 <= lines - h THEN lines - h ELSE 0
<1>1. Max({0, lines - h}) = IF 0 <= lines - h THEN lines - h ELSE 0
  BY MaxOfTwo
<1> QED
  BY <1>1 DEF BottomOf

LEMMA BottomLess ==
  ASSUME NEW a \in Nat, NEW b \in Nat, a <= b, NEW h \in Int
  PROVE  BottomOf(a, h) <= BottomOf(b, h)
<1>1. /\ BottomOf(a, h) = IF 0 <= a - h THEN a - h ELSE 0
      /\ BottomOf(b, h) = IF 0 <= b - h THEN b - h ELSE 0
  BY BottomNumber
<1> QED
  BY <1>1

\* The viewport's position and content are numbers, whatever has been cached.
InHand == fwd \in {"recheck", "send"}

Tallied(c) == \A k \in DOMAIN c : k[1] \in SpanID /\ Countable(c[k])

Sized ==
  /\ Counted(store)
  /\ width # None => \E size \in Sizes : size.width = width /\ size.height - 2 = height
  /\ height \in Int /\ offset \in Nat
  /\ Countable(screen.card) /\ Tallied(cache)
  /\ fwd \in {"check", "receive", "recheck", "send"}
  /\ IF InHand THEN Plain(hand) ELSE hand = None

LEMMA RepaintSized ==
  ASSUME Good(store'), Counted(store'), height' \in Int, offset \in Nat,
         Countable(screen.card), NEW c, Tallied(c), Repaint(c)
  PROVE  Countable(screen'.card) /\ Tallied(cache') /\ offset' \in Nat
<1>1. CASE width' = None
  BY <1>1 DEF Repaint
<1>2. CASE width' # None
  <2> DEFINE w == DrawnWidth(width')
  <2>1. /\ screen' = RenderRoots(store', c, w) /\ cache' = Filled(store', c, w)
        /\ offset' = IF offset > Lines' - 1 THEN Bottom' ELSE offset
    BY <1>2 DEF Repaint, SetContent
  <2>2. Countable(screen'.card) /\ Tallied(cache')
    BY <2>1, FilledCountable DEF Tallied
  <2>3. Lines' \in Nat /\ Bottom' \in Nat
    BY <2>2, LinesAre, LinesNumber, BottomNumber
  <2> QED
    BY <2>1, <2>2, <2>3
<1> QED
  BY <1>1, <1>2

LEMMA SizedStep ==
  ASSUME Calm, Calm', Sized, [TuiNext]_tuiVars
  PROVE  Sized'
<1>0. /\ Good(store) /\ Good(store') /\ told \in [SpanID -> Stages]
      /\ Counted(store) /\ height \in Int /\ offset \in Nat
      /\ Countable(screen.card) /\ Tallied(cache)
      /\ Sizes \subseteq [width : Nat, height : Nat]
      /\ MaxRoots \in Int /\ MaxRoots > 0 /\ store.allow \in BOOLEAN
  BY TuiAssumption DEF Calm, Sized, Good, Typed
<1>1. Tallied(NoCache)
  BY DEF Tallied, NoCache
<1>2. CASE UNCHANGED tuiVars
  BY <1>2 DEF tuiVars, modelVars, viewVars, fwdVars, Sized, InHand
<1>3. ASSUME UNCHANGED <<width, height, fwdVars>>, Counted(store'),
             NEW c, c \in {cache, NoCache}, Repaint(c)
      PROVE  Sized'
  <2>1. Tallied(c) /\ height' \in Int
    BY <1>0, <1>1, <1>3
  <2>2. Countable(screen'.card) /\ Tallied(cache') /\ offset' \in Nat
    BY <1>0, <1>3, <2>1, RepaintSized
  <2> QED
    BY <1>3, <2>2 DEF Sized, fwdVars, InHand
<1>4. ASSUME NEW x \in SpanID, NEW r \in Says(x), Lose(r) \/ ForwardReceive(r)
      PROVE  Sized'
  <2>1. Plain(r)
    BY <1>0, SaysPlain
  <2> QED
    BY <1>4, <2>1 DEF Lose, ForwardReceive, modelVars, viewVars, Sized, InHand
<1>5. CASE ForwardCheck \/ ForwardRecheck
  BY <1>5 DEF ForwardCheck, ForwardRecheck, modelVars, viewVars, Sized, InHand
<1>6. CASE EventMsg
  <2>1. /\ UNCHANGED <<width, height, offset, screen, cache>>
        /\ fwd' = "check" /\ hand' = None /\ Plain(hand)
        /\ store' \in {store, LimitRoots(Apply(store, hand), MaxRoots)}
    BY <1>6 DEF EventMsg, Sized, InHand
  <2>2. Counted(LimitRoots(Apply(store, hand), MaxRoots))
    <3> DEFINE mid == Apply(store, hand)
               now == LimitRoots(mid, MaxRoots)
    <3>0. IsRecord(hand)
      BY <1>6 DEF EventMsg, Calm
    <3>1. Good(mid)
      BY <1>0, <3>0, ApplyGood
    <3>2. Counted(mid)
      <4>1. CASE hand.kind = "start"
        <5>1. mid = ApplyStarted(store, hand)
          BY <4>1 DEF Apply
        <5>2. CASE Ignored(store, hand)
          BY <1>0, <5>1, <5>2 DEF ApplyStarted
        <5>3. CASE ~Ignored(store, hand)
          BY <1>0, <2>1, <4>1, <5>1, <5>3, StartCounted
        <5> QED
          BY <5>2, <5>3
      <4>2. CASE hand.kind # "start" /\ Writable(store, hand.id)
        BY <1>0, <2>1, <4>2, WriteCounted
      <4>3. CASE hand.kind # "start" /\ ~Writable(store, hand.id)
        BY <1>0, <2>1, <4>3 DEF Plain, Apply, ApplyUpdated, ApplyEnded, ApplyEvent
      <4> QED
        BY <4>1, <4>2, <4>3
    <3> HIDE DEF mid
    <3>3. /\ now.byID \subseteq mid.byID
          /\ \A x \in SpanID : now.node[x] \in {Blank, mid.node[x]}
      BY <1>0, <3>1, LimitRootsNodes
    <3> HIDE DEF now
    <3> QED
      BY <3>2, <3>3, CountedSame DEF mid, now
  <2> QED
    BY <1>0, <2>1, <2>2 DEF Sized, InHand
<1>7. CASE RepaintMsg
  <2>1. UNCHANGED <<store, width, height, fwdVars>>
    BY <1>7 DEF RepaintMsg
  <2>2. CASE width = None
    BY <1>7, <2>1, <2>2 DEF RepaintMsg, Sized, fwdVars, InHand
  <2>3. CASE width # None
    <3> DEFINE w == DrawnWidth(width)
    <3>1. /\ screen' = RenderRoots(store, cache, w) /\ cache' = Filled(store, cache, w)
          /\ offset' \in {Bottom', offset}
      BY <1>7, <2>3 DEF RepaintMsg
    <3>2. Countable(screen'.card) /\ Tallied(cache')
      BY <1>0, <3>1, FilledCountable DEF Tallied
    <3>3. Lines' \in Nat /\ Bottom' \in Nat
      BY <1>0, <2>1, <3>2, LinesAre, LinesNumber, BottomNumber
    <3> QED
      BY <1>0, <2>1, <3>1, <3>2, <3>3 DEF Sized, fwdVars, InHand
  <2> QED
    BY <2>2, <2>3
<1>8. CASE ScrollKey
  <2>1. Bottom \in Nat
    BY <1>0, LinesAre, LinesNumber, BottomNumber
  <2>2. PICK to \in {0, Bottom, Max({0, offset - 1}), Min({Bottom, offset + 1})} :
          Scroll(to)
    BY <1>8 DEF ScrollKey
  <2>3. Max({0, offset - 1}) \in Nat /\ Min({Bottom, offset + 1}) \in Nat
    BY <1>0, <2>1, MaxOfTwo, MinOfTwo
  <2>4. offset' \in Nat
    BY <2>1, <2>2, <2>3 DEF Scroll
  <2> QED
    BY <2>2, <2>4 DEF Scroll, Sized, fwdVars, InHand
<1>9. CASE Redraw
  BY <1>0, <1>3, <1>9 DEF Redraw
<1>10. CASE TogglePaused
  <2>1. /\ UNCHANGED <<width, height, fwdVars>>
        /\ store' = IF paused THEN store ELSE ClearOpenSpans(store)
        /\ Repaint(IF paused THEN cache ELSE NoCache)
    BY <1>10 DEF TogglePaused
  <2>2. Counted(ClearOpenSpans(store))
    <3> DEFINE now == ClearOpenSpans(store)
    <3>1. /\ now.byID \subseteq store.byID
          /\ \A x \in SpanID :
               IF x \in Doomed(store) THEN now.node[x] = Blank
               ELSE now.node[x] = [store.node[x] EXCEPT !.kids = Without(@, Doomed(store))]
      BY <1>0, ClearOpenSpansNodes
    <3> HIDE DEF now
    <3>2. \A x \in SpanID : DOMAIN store.node[x] = DOMAIN Blank
      BY <1>0 DEF Good, Typed, Shape
    <3>3. \A x \in SpanID : \/ now.node[x] = Blank
                            \/ /\ now.node[x].attrs = store.node[x].attrs
                               /\ now.node[x].events = store.node[x].events
      BY <3>1, <3>2, BlankIs
    <3> QED
      BY <1>0, <3>1, <3>3, CountedSame DEF now
  <2> QED
    BY <1>0, <1>3, <2>1, <2>2
<1>11. CASE ClearAll
  <2>1. /\ UNCHANGED <<width, height, fwdVars>> /\ Repaint(NoCache)
        /\ store' = Empty(store.allow)
    BY <1>11 DEF ClearAll, Clear
  <2>2. Counted(store')
    <3>1. /\ store'.byID = {}
          /\ \A x \in SpanID : store'.node[x] = Blank
      BY <2>1 DEF Empty
    <3> QED
      BY <1>0, <3>1, CountedSame
  <2> QED
    BY <1>3, <2>1, <2>2
<1>12. CASE Disconnected
  <2>1. /\ UNCHANGED <<width, height, fwdVars>> /\ Repaint(cache)
        /\ store' = MarkOpenSpansStale(store, 1)
    BY <1>12 DEF Disconnected
  <2>2. store'.byID = store.byID /\ store'.node = store.node
    BY <1>0, <2>1, MarkGood
  <2>3. Counted(store')
    BY <1>0, <2>2, CountedSame
  <2> QED
    BY <1>3, <2>1, <2>3
<1>13. ASSUME NEW size \in Sizes, WindowSizeMsg(size) PROVE Sized'
  <2>1. /\ UNCHANGED <<store, fwdVars>> /\ width' = size.width
        /\ height' = size.height - 2
        /\ Repaint(IF width # size.width THEN NoCache ELSE cache)
    BY <1>13 DEF WindowSizeMsg
  <2>2. height' \in Int
    BY <1>0, <2>1
  <2>3. Countable(screen'.card) /\ Tallied(cache') /\ offset' \in Nat
    BY <1>0, <1>1, <2>1, <2>2, RepaintSized
  <2> QED
    BY <2>1, <2>2, <2>3 DEF Sized, fwdVars, InHand
<1> QED
  BY <1>2, <1>4, <1>5, <1>6, <1>7, <1>8, <1>9, <1>10, <1>11, <1>12, <1>13
     DEF TuiNext

LEMMA SizedInit == TuiInit => Sized
<1> SUFFICES ASSUME TuiInit PROVE Sized
  OBVIOUS
<1>1. /\ store = Empty(Allow) /\ cache = <<>> /\ width = None /\ height = 0
      /\ offset = 0 /\ screen.card = <<>> /\ fwd = "check" /\ hand = None
  BY DEF TuiInit, NoCache
<1>2. Counted(store)
  <2>1. store.byID = {} /\ \A x \in SpanID : store.node[x] = Blank
    BY <1>1 DEF Empty
  <2>2. Blank.attrs \in Seq(Members) /\ Blank.events \in Seq(Happening)
    BY EmptySeq DEF Blank
  <2> QED
    BY <2>1, <2>2, FS_EmptySet DEF Counted
<1>3. Countable(screen.card) /\ Tallied(cache)
  <2>1. DOMAIN <<>> = {}
    OBVIOUS
  <2> QED
    BY <1>1, <2>1, FS_EmptySet DEF Countable, Tallied
<1> QED
  BY <1>1, <1>2, <1>3 DEF Sized, InHand

\* The model's state is well typed in every state that can be reached: the index
\* and the keys of the cache are spans, the viewport is scrolled by a number of
\* lines, its size is that of a window, and the forwarder holds a record that
\* can be applied exactly while it is on its way (tui.go:62-77, 86-109).
THEOREM TuiTypes == TuiSpec => []TuiTypeOK
<1>1. Calm /\ Sized => TuiTypeOK
  BY DEF Calm, Sized, InHand, TuiTypeOK, Good, Typed, Shape, Tallied, Plain
<1>2. TuiInit => Calm /\ Sized
  BY CalmInit, SizedInit
<1>3. Calm /\ Sized /\ [TuiNext]_tuiVars => Calm' /\ Sized'
  BY CalmStep, SizedStep
<1> QED
  BY <1>1, <1>2, <1>3, PTL DEF TuiSpec

-----------------------------------------------------------------------------
\* The store and the cache know of a span no more than the emitter has said,
\* and what has been said last may be in the forwarder's hands.
Sync ==
  /\ \A x \in store.byID : told[x] # "nothing" /\ (store.node[x].done => told[x] = "end")
  /\ \A k \in DOMAIN cache : told[k[1]] = "end"
  /\ InHand =>
       /\ \A k \in DOMAIN cache : hand.id # k[1]
       /\ hand.kind = "start" => /\ told[hand.id] = "start" /\ hand.id \notin store.byID
                                 /\ hand.up # None => told[hand.up] = "start"
       /\ hand.kind \in {"update", "event"} => told[hand.id] = "start"
       /\ hand.kind = "end" => /\ told[hand.id] = "end"
                               /\ hand.id \in store.byID => ~store.node[hand.id].done

\* And the cache is true to the store for the width that is drawn with.
Cached == IF width = None THEN cache = NoCache
          ELSE CacheTrue(store, cache, DrawnWidth(width))

\* A record changes no tree that is closed.
LEMMA RecordUntouched ==
  ASSUME Good(store), IsRecord(hand), Plain(hand), Sync, InHand,
         NEW x \in store.byID, IsClosedSpanTree(store, x)
  PROVE  Untouched(store, Apply(store, hand), x)
<1>0. store.byID \subseteq SpanID /\ Below(store, {x}) \subseteq store.byID
  BY BelowInTree DEF Good, Typed, Shape
<1>1. \A y \in Below(store, {x}) : store.node[y].done /\ told[y] = "end"
  BY <1>0 DEF IsClosedSpanTree, Open, Sync
<1>2. CASE hand.kind = "start"
  <2>1. Apply(store, hand) = ApplyStarted(store, hand)
    BY <1>2 DEF Apply
  <2>2. CASE Ignored(store, hand)
    <3>1. Apply(store, hand) = store
      BY <2>1, <2>2 DEF ApplyStarted
    <3> QED
      BY <3>1, UntouchedSame
  <2>3. CASE ~Ignored(store, hand)
    <3>1. hand.up \notin Below(store, {x})
      BY <1>0, <1>1, <1>2, StoreNoneAssumption DEF Sync
    <3>2. hand.id \in SpanID \cup {None} /\ hand.up \in SpanID \cup {None}
      BY <1>2 DEF IsRecord
    <3> QED
      BY <2>1, <2>3, <3>1, <3>2, BornUntouched
  <2> QED
    BY <2>2, <2>3
<1>3. CASE hand.kind # "start" /\ Writable(store, hand.id)
  <2>1. hand.id \notin Below(store, {x})
    BY <1>1, <1>3 DEF Writable
  <2> QED
    BY <1>3, <2>1, WriteUntouched
<1>4. CASE hand.kind # "start" /\ ~Writable(store, hand.id)
  <2>1. Apply(store, hand) = store
    BY <1>4 DEF Plain, Apply, ApplyUpdated, ApplyEnded, ApplyEvent
  <2> QED
    BY <2>1, UntouchedSame
<1> QED
  BY <1>2, <1>3, <1>4

LEMMA EventKeepsCache ==
  ASSUME Calm, Sized, Sync, InHand, NEW w, CacheTrue(store, cache, w)
  PROVE  CacheTrue(LimitRoots(Apply(store, hand), MaxRoots), cache, w)
<1> DEFINE mid == Apply(store, hand)
           now == LimitRoots(mid, MaxRoots)
<1>0. /\ Good(store) /\ Counted(store) /\ IsRecord(hand) /\ Plain(hand)
      /\ MaxRoots \in Int /\ MaxRoots > 0
  BY TuiAssumption DEF Calm, Sized, InHand
<1>1. Good(mid) /\ mid.byID \subseteq store.byID \cup {hand.id}
  BY <1>0, ApplyGood, ApplyIndex
<1>2. ASSUME NEW k \in DOMAIN cache, k[1] \in now.byID
      PROVE  k[1] \in store.byID /\ Untouched(store, now, k[1])
  <2>1. k[1] \in mid.byID /\ Untouched(mid, now, k[1])
    <3> HIDE DEF mid
    <3> QED
      BY <1>0, <1>1, <1>2, LimitRootsUntouched
  <2>2. k[1] # hand.id
    BY DEF Sync
  <2>3. k[1] \in store.byID
    BY <1>1, <2>1, <2>2
  <2>4. IsClosedSpanTree(store, k[1])
    BY <2>3 DEF CacheTrue
  <2>5. Untouched(store, mid, k[1])
    BY <1>0, <2>3, <2>4, RecordUntouched
  <2> QED
    BY <2>1, <2>3, <2>5, UntouchedTwice
<1> HIDE DEF now
<1>3. CacheTrue(now, cache, w)
  BY <1>0, <1>2, CacheStaysTrue
<1> QED
  BY <1>3 DEF now

\* What is on the screen when nothing is put off.
Shows(st, w) == [order |-> st.roots, card |-> Drawn(st, ToSet(st.roots), w)]

LEMMA RepaintShows ==
  ASSUME Good(store'), NEW c,
         width' # None => CacheTrue(store', c, DrawnWidth(width')),
         width' = None => c = NoCache,
         Repaint(c)
  PROVE  /\ Cached'
         /\ width' # None => screen' = Shows(store', DrawnWidth(width'))
         /\ \A k \in DOMAIN cache' :
              k \notin DOMAIN c => k[1] \in store'.byID /\ ~Open(store', k[1])
<1>1. CASE width' = None
  BY <1>1 DEF Repaint, Cached
<1>2. CASE width' # None
  <2>1. /\ screen' = RenderRoots(store', c, DrawnWidth(width'))
        /\ cache' = Filled(store', c, DrawnWidth(width'))
    BY <1>2 DEF Repaint, SetContent
  <2> QED
    BY <1>2, <2>1, RenderRootsDrawn DEF Cached, Shows
<1> QED
  BY <1>1, <1>2

-----------------------------------------------------------------------------
\* What an event and a child are before and after depends on their times.
LEMMA BeforeSame ==
  ASSUME NEW d, NEW k, NEW h, d.index \in Int, k.index \in Int, h.index \in Int,
         d.index < k.index, d.index < h.index, k.at = h.at
  PROVE  (Before(d, k) <=> Before(d, h)) /\ (Before(k, d) <=> Before(h, d))
<1>1. (After(d, k) <=> After(d, h)) /\ (After(k, d) <=> After(h, d))
  BY DEF After
<1>2. ~(k.index < d.index) /\ ~(h.index < d.index)
  OBVIOUS
<1> QED
  BY <1>1, <1>2 DEF Before

\* The items of a timeline that are events, and those that are children.
EventItems(st, y) == {i \in ToSet(Unsorted(st, y)) : i.show = None}

KidItems(st, y) == {i \in ToSet(Unsorted(st, y)) : i.show # None}

Itemised(st, y) ==
  LET E == st.node[y].events
      K == st.node[y].kids
  IN  /\ Len(E) \in Nat
      /\ \A e : e \in EventItems(st, y) <=>
           \E i \in 1 .. Len(E) :
             e = [at |-> E[i].at, index |-> i, show |-> None]
      /\ \A h : h \in KidItems(st, y) <=>
           \E i \in 1 .. Len(K) :
             h = [at |-> st.node[K[i]].at, index |-> i + Len(E), show |-> K[i]]

LEMMA ItemsAre ==
  ASSUME NEW st, NEW y, st.node[y].events \in Seq(Happening),
         st.node[y].kids \in Seq(SpanID)
  PROVE  Itemised(st, y)
<1> DEFINE E == st.node[y].events
           K == st.node[y].kids
           n == Len(E)
           k == Len(K)
           Event(i) == [at |-> E[i].at, index |-> i, show |-> None]
           Kid(i) == [at |-> st.node[K[i]].at, index |-> i + n, show |-> K[i]]
           all == Unsorted(st, y)
<1>1. n \in Nat /\ k \in Nat /\ \A i \in 1 .. k : K[i] \in SpanID
  BY LenProperties, ElementOfSeq
<1>2. DOMAIN all = 1 .. n + k /\ all = [i \in 1 .. n + k |->
        IF i <= n THEN Event(i)
        ELSE [at |-> st.node[K[i - n]].at, index |-> i, show |-> K[i - n]]]
  BY DEF Unsorted
<1> HIDE DEF n, k, E, K, all
<1>3. \A i \in 1 .. n : all[i] = Event(i) /\ i \in DOMAIN all
  BY <1>1, <1>2
<1>4. \A i \in 1 .. k : all[i + n] = Kid(i) /\ i + n \in DOMAIN all
  <2>1. \A i \in 1 .. k : i + n \in 1 .. n + k /\ ~(i + n <= n) /\ (i + n) - n = i
    BY <1>1
  <2> QED
    BY <1>2, <2>1
<1>5. \A j \in DOMAIN all : j \in 1 .. n \/ \E i \in 1 .. k : j = i + n
  <2>1. ASSUME NEW j \in 1 .. n + k, j \notin 1 .. n PROVE j - n \in 1 .. k /\ j = (j - n) + n
    BY <1>1, <2>1
  <2> QED
    BY <1>2, <2>1
<1>6. ToSet(all) = {Event(i) : i \in 1 .. n} \cup {Kid(i) : i \in 1 .. k}
  <2>1. ToSet(all) = {all[j] : j \in DOMAIN all}
    BY DEF ToSet
  <2>2. ASSUME NEW z \in ToSet(all)
        PROVE  z \in {Event(i) : i \in 1 .. n} \cup {Kid(i) : i \in 1 .. k}
    <3>1. PICK j \in DOMAIN all : z = all[j]
      BY <2>1
    <3>2. CASE j \in 1 .. n
      BY <1>3, <3>1, <3>2
    <3>3. ASSUME NEW i \in 1 .. k, j = i + n
          PROVE  z \in {Kid(m) : m \in 1 .. k}
      BY <1>4, <3>1, <3>3
    <3> QED
      BY <1>5, <3>2, <3>3
  <2>3. \A i \in 1 .. n : Event(i) \in ToSet(all)
    BY <1>3, <2>1
  <2>4. \A i \in 1 .. k : Kid(i) \in ToSet(all)
    BY <1>4, <2>1
  <2> QED
    BY <2>2, <2>3, <2>4
<1>7. \A i \in 1 .. n : Event(i).show = None
  OBVIOUS
<1>8. \A i \in 1 .. k : Kid(i).show # None
  BY <1>1, StoreNoneAssumption
<1>9. /\ \A e : e \in EventItems(st, y) <=> \E i \in 1 .. n : e = Event(i)
      /\ \A h : h \in KidItems(st, y) <=> \E i \in 1 .. k : h = Kid(i)
  <2> HIDE DEF Event, Kid
  <2> QED
    BY <1>6, <1>7, <1>8 DEF EventItems, KidItems, all
<1> QED
  BY <1>1, <1>9 DEF Itemised, n, k, E, K, all

LEMMA GroupsAre ==
  ASSUME NEW st, NEW y
  PROVE  Groups(st, y) =
           {i.index : i \in {e \in EventItems(st, y) : \A d \in EventItems(st, y) :
             Before(d, e) => \E k \in KidItems(st, y) : Before(d, k) /\ Before(k, e)}}
<1>1. ToSet(Unsorted(st, y)) \ EventItems(st, y) = KidItems(st, y)
  BY DEF EventItems, KidItems
<1> QED
  BY <1>1 DEF Groups, EventItems

\* Without some of its children a span has no more groups of events.
LEMMA FewerGroups ==
  ASSUME NEW st, NEW y, NEW now, now.node[y].events = st.node[y].events,
         st.node[y].events \in Seq(Happening),
         st.node[y].kids \in Seq(SpanID), now.node[y].kids \in Seq(SpanID),
         \A z \in ToSet(now.node[y].kids) :
           z \in ToSet(st.node[y].kids) /\ now.node[z].at = st.node[z].at
  PROVE  Groups(now, y) \subseteq Groups(st, y)
<1> DEFINE E == st.node[y].events
           K == st.node[y].kids
           L == now.node[y].kids
           events == EventItems(st, y)
           kids == KidItems(st, y)
           left == KidItems(now, y)
           Event(i) == [at |-> E[i].at, index |-> i, show |-> None]
           Kid(i) == [at |-> st.node[K[i]].at, index |-> i + Len(E), show |-> K[i]]
           Stays(i) == [at |-> now.node[L[i]].at, index |-> i + Len(E), show |-> L[i]]
<1>1. /\ Len(E) \in Nat
      /\ \A e : e \in events <=> \E i \in 1 .. Len(E) : e = Event(i)
      /\ \A h : h \in kids <=> \E i \in 1 .. Len(K) : h = Kid(i)
  <2>1. Itemised(st, y)
    BY ItemsAre
  <2> QED
    BY <2>1 DEF Itemised
<1>10. /\ \A e : e \in EventItems(now, y) <=> \E i \in 1 .. Len(E) : e = Event(i)
       /\ \A h : h \in left <=> \E i \in 1 .. Len(L) : h = Stays(i)
  <2> DEFINE F == now.node[y].events
  <2>1. /\ \A e : e \in EventItems(now, y) <=> \E i \in 1 .. Len(F) :
             e = [at |-> F[i].at, index |-> i, show |-> None]
        /\ \A h : h \in KidItems(now, y) <=> \E i \in 1 .. Len(L) :
             h = [at |-> now.node[L[i]].at, index |-> i + Len(F), show |-> L[i]]
    <3>1. Itemised(now, y)
      BY ItemsAre
    <3> QED
      BY <3>1 DEF Itemised
  <2>2. F = E
    OBVIOUS
  <2> HIDE DEF F, E, L
  <2> QED
    BY <2>1, <2>2
<1>11. EventItems(now, y) = events
  BY <1>1, <1>10
<1>2. /\ ToSet(K) = {K[i] : i \in 1 .. Len(K)} /\ Len(K) \in Nat
      /\ ToSet(L) = {L[i] : i \in 1 .. Len(L)} /\ Len(L) \in Nat
  BY ToSetIn, LenProperties
<1>3. ASSUME NEW h \in left
      PROVE  \E k \in kids : /\ k.at = h.at
                             /\ \A d \in events : /\ d.index \in Int /\ k.index \in Int
                                                  /\ h.index \in Int
                                                  /\ d.index < k.index /\ d.index < h.index
  <2>1. PICK i \in 1 .. Len(L) : h = Stays(i)
    BY <1>10
  <2>2. L[i] \in ToSet(K) /\ now.node[L[i]].at = st.node[L[i]].at
    BY <1>2
  <2>3. PICK j \in 1 .. Len(K) : K[j] = L[i]
    BY <1>2, <2>2
  <2> DEFINE k == Kid(j)
  <2>4. k \in kids /\ k.at = h.at
    BY <1>1, <2>1, <2>2, <2>3
  <2>5. /\ i + Len(E) \in Int /\ j + Len(E) \in Int
        /\ \A m \in 1 .. Len(E) : m < i + Len(E) /\ m < j + Len(E) /\ m \in Int
    <3> HIDE DEF E, K, L
    <3> QED
      BY <1>1, <1>2
  <2>6. k.index = j + Len(E) /\ h.index = i + Len(E)
    BY <2>1
  <2>7. \A d \in events : d.index \in 1 .. Len(E)
    BY <1>1
  <2> HIDE DEF k, E, K, L, events, kids
  <2>8. \A d \in events : /\ d.index \in Int /\ k.index \in Int /\ h.index \in Int
                          /\ d.index < k.index /\ d.index < h.index
    BY <2>5, <2>6, <2>7
  <2> QED
    BY <2>4, <2>8
<1>4. ASSUME NEW e \in events, NEW d \in events, NEW h \in left,
             Before(d, h), Before(h, e)
      PROVE  \E k \in kids : Before(d, k) /\ Before(k, e)
  <2>1. PICK k \in kids :
          /\ k.at = h.at
          /\ \A c \in events : /\ c.index \in Int /\ k.index \in Int
                               /\ h.index \in Int
                               /\ c.index < k.index /\ c.index < h.index
    BY <1>3
  <2>2. Before(d, k) /\ Before(k, e)
    <3> HIDE DEF events, kids, left
    <3> QED
      BY <1>4, <2>1, BeforeSame
  <2> QED
    BY <2>2
<1>5. Groups(st, y) = {i.index : i \in {e \in events : \A d \in events :
          Before(d, e) => \E k \in kids : Before(d, k) /\ Before(k, e)}}
  BY GroupsAre
<1>6. Groups(now, y) = {i.index : i \in {e \in events : \A d \in events :
          Before(d, e) => \E k \in left : Before(d, k) /\ Before(k, e)}}
  BY <1>11, GroupsAre
<1> HIDE DEF events, kids, left
<1> QED
  BY <1>4, <1>5, <1>6

\* A store whose spans have fewer children, and otherwise the same faces, is
\* drawn with no more lines.
Smaller(st, now) ==
  /\ Good(st) /\ Counted(st) /\ Good(now) /\ Counted(now)
  /\ now.byID \subseteq st.byID
  /\ \A y \in now.byID : /\ now.node[y].attrs = st.node[y].attrs
                         /\ now.node[y].events = st.node[y].events
                         /\ now.node[y].error = st.node[y].error
                         /\ Groups(now, y) \subseteq Groups(st, y)

LEMMA DrawnCountable ==
  ASSUME NEW st, Good(st), Counted(st), NEW w
  PROVE  /\ DOMAIN Drawn(st, ToSet(st.roots), w) = st.byID
         /\ Countable(Drawn(st, ToSet(st.roots), w))
<1>0. InTree(st) = st.byID /\ KidsAreSpans(st) /\ ToSet(st.roots) \subseteq SpanID
  BY TypedKids DEF Good, IsForest
<1>1. ToSet(st.roots) \in SUBSET st.byID
  BY <1>0, BelowIn DEF InTree
<1>2. \A k \in DOMAIN NoCache : Countable(NoCache[k])
  BY DEF NoCache
<1>3. Drawn(st, ToSet(st.roots), w) = RenderSpans(st, NoCache, ToSet(st.roots), w)
  BY <1>1, DrawnFromCache, NothingCached
<1>4. Countable(RenderSpans(st, NoCache, ToSet(st.roots), w))
  BY <1>1, <1>2, RenderCountable
<1> QED
  BY <1>0, <1>3, <1>4 DEF Drawn, InTree

LEMMA SmallerCard ==
  ASSUME NEW st, NEW now, Smaller(st, now), NEW y \in now.byID,
         NEW d, NEW e, NEW w
  PROVE  OwnLines(Card(now, y, d, w)) <= OwnLines(Card(st, y, e, w))
<1> DEFINE new == Card(now, y, d, w)
           old == Card(st, y, e, w)
<1>0. y \in SpanID /\ Typed(st) /\ Typed(now)
  BY DEF Smaller, Good, Typed, Shape
<1>1. /\ now.node[y].attrs \in Seq(Members) /\ now.node[y].events \in Seq(Happening)
      /\ now.node[y].kids \in Seq(SpanID)
      /\ st.node[y].attrs \in Seq(Members) /\ st.node[y].events \in Seq(Happening)
      /\ st.node[y].kids \in Seq(SpanID)
  BY <1>0 DEF Smaller, Counted, Typed
<1>2. OwnLines(new) \in Nat /\ OwnLines(old) \in Nat
  BY <1>1, CardCountable
<1>3. IsFiniteSet(Groups(st, y)) /\ IsFiniteSet(Groups(now, y))
  BY <1>1, GroupsFinite
<1>4. Groups(now, y) \subseteq Groups(st, y)
  BY DEF Smaller
<1>5. /\ Cardinality(Groups(now, y)) <= Cardinality(Groups(st, y))
      /\ Cardinality(Groups(now, y)) \in Nat /\ Cardinality(Groups(st, y)) \in Nat
  BY <1>3, <1>4, FS_Subset, FS_CardinalityType
<1>6. /\ new.events = old.events /\ new.attrs = old.attrs /\ new.error = old.error
      /\ new.groups = Groups(now, y) /\ old.groups = Groups(st, y)
      /\ Len(old.attrs) \in Nat
  BY <1>1, LenProperties DEF Card, Smaller
<1> DEFINE head == IF old.error = None THEN 0 ELSE 2
           listed == IF old.attrs = <<>> THEN 0 ELSE 1 + Len(old.attrs)
           b == Cardinality(UNION {{i} \X (0 .. Len(old.events[i].attrs)) :
                                     i \in DOMAIN old.events})
<1> HIDE DEF new, old
<1>7. /\ OwnLines(old) = 3 + head + listed + b + Cardinality(Groups(st, y))
      /\ OwnLines(new) = 3 + head + listed + b + Cardinality(Groups(now, y))
  BY <1>6 DEF OwnLines
<1>8. head \in Nat /\ listed \in Nat
  BY <1>6
<1>9. b \in Nat
  <2> DEFINE E == old.events
             f == [i \in DOMAIN E |-> {i} \X (0 .. Len(E[i].attrs))]
             U == UNION {f[i] : i \in DOMAIN f}
  <2>1. E \in Seq(Happening)
    BY <1>1 DEF old, Card
  <2> HIDE DEF E
  <2>2. IsFiniteSet(DOMAIN f) /\ \A i \in DOMAIN f : IsFiniteSet(f[i])
    BY <2>1, EventLinesFinite
  <2>3. U = UNION {{i} \X (0 .. Len(E[i].attrs)) : i \in DOMAIN E}
    OBVIOUS
  <2>4. Cardinality(U) \in Nat
    <3> HIDE DEF f
    <3> QED
      BY <2>2, FiniteUnion, FS_CardinalityType
  <2> HIDE DEF U
  <2> QED
    BY <2>3, <2>4 DEF E
<1> HIDE DEF head, listed, b
<1> QED
  BY <1>5, <1>7, <1>8, <1>9 DEF new, old

LEMMA SmallerLines ==
  ASSUME NEW st, NEW now, Smaller(st, now), NEW w, NEW v
  PROVE  LinesOf(v, Drawn(now, ToSet(now.roots), w))
           <= LinesOf(v, Drawn(st, ToSet(st.roots), w))
<1> DEFINE old == Drawn(st, ToSet(st.roots), w)
           new == Drawn(now, ToSet(now.roots), w)
<1>1. /\ DOMAIN old = st.byID /\ DOMAIN new = now.byID
      /\ Countable(old) /\ Countable(new)
  BY DrawnCountable DEF Smaller
<1>2. ASSUME NEW y \in DOMAIN new PROVE OwnLines(new[y]) <= OwnLines(old[y])
  <2>1. y \in now.byID /\ y \in DOMAIN old
    BY <1>1 DEF Smaller
  <2>2. /\ new[y] = Card(now, y, Depth(now, y), w)
        /\ old[y] = Card(st, y, Depth(st, y), w)
    BY <2>1 DEF Drawn
  <2> QED
    BY <2>1, <2>2, SmallerCard
<1>3. DOMAIN new \subseteq DOMAIN old
  BY <1>1 DEF Smaller
<1> HIDE DEF new, old
<1>4. Cardinality(LinesOn(new)) <= Cardinality(LinesOn(old))
  BY <1>1, <1>2, <1>3, FewerLines
<1>5. Cardinality(LinesOn(new)) \in Nat /\ Cardinality(LinesOn(old)) \in Nat
  BY <1>1, LinesFinite
<1>6. LinesOf(v, new) <= LinesOf(v, old)
  <2>1. CASE v = None
    BY <2>1 DEF LinesOf
  <2>2. CASE v # None
    BY <1>1, <1>4, <1>5, <2>2, LinesNumber
  <2> QED
    BY <2>1, <2>2
<1> QED
  BY <1>6 DEF new, old

\* The handlers that take spans off the store, or mark them.
LEMMA CutSmaller ==
  ASSUME NEW st, Good(st), Counted(st), Counted(ClearOpenSpans(st))
  PROVE  Smaller(st, ClearOpenSpans(st))
<1> DEFINE gone == Doomed(st)
           now == ClearOpenSpans(st)
<1>0. Typed(st) /\ Good(now) /\ Typed(now) /\ st.byID \subseteq SpanID
      /\ \A x \in SpanID : DOMAIN st.node[x] = DOMAIN Blank
  BY ClearOpenSpansGood DEF Good, Typed, Shape
<1>1. /\ now.byID = st.byID \ gone
      /\ \A x \in SpanID :
           IF x \in gone THEN now.node[x] = Blank
           ELSE now.node[x] = [st.node[x] EXCEPT !.kids = Without(@, gone)]
  BY ClearOpenSpansNodes
<1> HIDE DEF now, gone
<1>2. \A x \in SpanID \ gone :
        /\ now.node[x].attrs = st.node[x].attrs
        /\ now.node[x].events = st.node[x].events
        /\ now.node[x].error = st.node[x].error
        /\ now.node[x].at = st.node[x].at
        /\ now.node[x].kids = Without(st.node[x].kids, gone)
  <2> TAKE x \in SpanID \ gone
  <2>1. DOMAIN st.node[x] = DOMAIN Blank
    BY <1>0
  <2>2. now.node[x] = [st.node[x] EXCEPT !.kids = Without(@, gone)]
    BY <1>1
  <2> QED
    BY <2>1, <2>2, BlankIs
<1>3. ASSUME NEW y \in now.byID PROVE Groups(now, y) \subseteq Groups(st, y)
  <2>1. y \in SpanID \ gone
    BY <1>0, <1>1
  <2>2. /\ st.node[y].kids \in Seq(SpanID) /\ now.node[y].kids \in Seq(SpanID)
        /\ st.node[y].events \in Seq(Happening)
    BY <1>0, <2>1 DEF Typed, Counted
  <2>3. ToSet(now.node[y].kids) = ToSet(st.node[y].kids) \ gone
    BY <1>2, <2>1, <2>2, WithoutSeq
  <2>4. ToSet(st.node[y].kids) \subseteq SpanID
    BY <2>2, ToSetIn
  <2>5. \A z \in ToSet(now.node[y].kids) :
          z \in ToSet(st.node[y].kids) /\ now.node[z].at = st.node[z].at
    BY <1>2, <2>3, <2>4
  <2> QED
    BY <1>2, <2>1, <2>2, <2>5, FewerGroups
<1> QED
  BY <1>0, <1>1, <1>2, <1>3 DEF Smaller, now

LEMMA MarkSmaller ==
  ASSUME NEW st, Good(st), Counted(st), NEW time
  PROVE  LET now == MarkOpenSpansStale(st, time)
         IN  Counted(now) /\ Smaller(st, now)
<1> DEFINE now == MarkOpenSpansStale(st, time)
<1>1. Good(now) /\ now.byID = st.byID /\ now.node = st.node
  BY MarkGood
<1> HIDE DEF now
<1>2. Counted(now)
  BY <1>1, CountedSame
<1>3. \A y : Groups(now, y) = Groups(st, y)
  BY <1>1 DEF Groups, Unsorted
<1> QED
  BY <1>1, <1>2, <1>3 DEF Smaller, now

LEMMA EmptySmaller ==
  ASSUME NEW st, Good(st), Counted(st), NEW now, Good(now), Counted(now),
         now.byID = {}
  PROVE  Smaller(st, now)
BY DEF Smaller

-----------------------------------------------------------------------------
\* The screen when no repaint is pending, and that of a reader at the bottom, who
\* is there or is taken there by the next tick.
Shown == width # None /\ ticks = 0 => screen = Shows(store, DrawnWidth(width))

Followed ==
  width # None /\ following =>
    stick \/ (AtBottom /\ screen = Shows(store, DrawnWidth(width)))

\* Between the handlers the emitter and the forwarder move.
LEMMA ForwarderSync ==
  ASSUME Calm, Sized, Sync, ~LateKids, UNCHANGED <<store, cache>>,
         NEW x \in SpanID, NEW r \in Says(x), Lose(r) \/ ForwardReceive(r)
  PROVE  Sync'
<1>0. told \in [SpanID -> Stages] /\ store.byID \subseteq SpanID /\ Tallied(cache)
  BY DEF Calm, Good, Typed, Shape, Sized
<1>1. /\ r.id = x /\ Plain(r) /\ Tell(r)
      /\ r.kind = "start" => told[x] = "nothing"
      /\ r.kind = "start" /\ r.up # None => told[r.up] = "start" /\ r.up \in SpanID
      /\ r.kind \in {"update", "event", "end"} => told[x] = "start"
  BY <1>0, SaysPlain DEF MayHaveKids, Lose, ForwardReceive
<1>2. told' = IF r.kind \in {"update", "event"} THEN told ELSE [told EXCEPT ![x] = r.kind]
  BY <1>1 DEF Tell, Plain
<1>3. \A y \in SpanID : /\ y # x => told'[y] = told[y]
                        /\ told[y] = "start" /\ r.kind = "start" => told'[y] = "start"
                        /\ told[y] = "end" => told'[y] = "end"
                        /\ told[y] # "nothing" => told'[y] # "nothing"
  BY <1>0, <1>1, <1>2 DEF Plain
<1>4. r.kind \notin {"update", "event"} => told'[x] = r.kind
  BY <1>0, <1>2
<1>5. /\ \A y \in store.byID : told'[y] # "nothing"
                               /\ (store.node[y].done => told'[y] = "end")
      /\ \A k \in DOMAIN cache : told'[k[1]] = "end"
  BY <1>0, <1>3 DEF Sync, Tallied
<1>6. CASE Lose(r)
  <2>1. r.kind = "start" /\ UNCHANGED <<fwd, hand>>
    BY <1>6 DEF Lose
  <2>2. InHand => Plain(hand) /\ IsRecord(hand)
    BY DEF Sized, Calm, InHand
  <2>3. InHand /\ hand.kind = "start" /\ hand.up # None => hand.up \in SpanID
    BY <2>2 DEF IsRecord
  <2>4. InHand =>
          /\ \A k \in DOMAIN cache : hand.id # k[1]
          /\ hand.kind = "start" => /\ told'[hand.id] = "start" /\ hand.id \notin store.byID
                                    /\ hand.up # None => told'[hand.up] = "start"
          /\ hand.kind \in {"update", "event"} => told'[hand.id] = "start"
          /\ hand.kind = "end" => /\ told'[hand.id] = "end"
                                  /\ hand.id \in store.byID => ~store.node[hand.id].done
    BY <1>3, <2>1, <2>2, <2>3 DEF Sync, Plain
  <2> QED
    BY <1>5, <2>1, <2>4 DEF Sync, InHand
<1>7. CASE ForwardReceive(r)
  <2>1. hand' = r
    BY <1>7 DEF ForwardReceive
  <2>2. \A k \in DOMAIN cache : r.id # k[1]
    BY <1>1 DEF Sync, Plain
  <2>3. r.kind = "start" => told'[x] = "start" /\ x \notin store.byID
                            /\ (r.up # None => told'[r.up] = "start")
    BY <1>1, <1>3, <1>4 DEF Sync
  <2>4. r.kind \in {"update", "event"} => told'[x] = "start"
    BY <1>1, <1>2
  <2>5. r.kind = "end" => told'[x] = "end" /\ (x \in store.byID => ~store.node[x].done)
    BY <1>1, <1>4 DEF Sync
  <2> QED
    BY <1>1, <1>5, <2>1, <2>2, <2>3, <2>4, <2>5 DEF Sync, InHand
<1> QED
  BY <1>6, <1>7

\* Only an end ends a span, and only its own.
LEMMA ApplyDone ==
  ASSUME NEW st, Good(st), NEW r, Plain(r), IsRecord(r), NEW x \in SpanID,
         Apply(st, r).node[x].done
  PROVE  st.node[x].done \/ (r.kind = "end" /\ x = r.id)
<1>0. Typed(st) /\ Shape(st) /\ r.id \in SpanID
  BY DEF Good, Typed, Plain
<1>1. CASE r.kind = "start" /\ ~Ignored(st, r)
  <2>1. IsBorn(st, r, Apply(st, r))
    BY <1>0, <1>1, StartedIs DEF Apply
  <2> QED
    BY <2>1 DEF IsBorn
<1>2. CASE r.kind # "start" /\ Writable(st, r.id)
  <2>1. PICK n : IsWrite(st, r.id, n, Apply(st, r))
    BY <1>0, <1>2, WriteIs
  <2>2. x # r.id => Apply(st, r).node[x] = st.node[x]
    BY <1>0, <2>1 DEF IsWrite, Shape
  <2>3. CASE r.kind = "event"
    <3> DEFINE e == [at |-> TimeValue(r.at), severity |-> r.severity,
                     attrs |-> r.attrs]
    <3>1. Apply(st, r) =
            [st EXCEPT !.node[r.id].events = Append(@, e)]
      BY <1>2, <2>3 DEF Apply, ApplyEvent
    <3> HIDE DEF e
    <3>2. Apply(st, r).node[r.id].done = st.node[r.id].done
      BY <1>0, <3>1, BlankIs DEF Shape
    <3> QED
      BY <2>2, <3>2
  <2>4. CASE r.kind = "update"
    <3> DEFINE merged == FoldLeft(Merge, st.node[r.id].attrs, r.attrs)
    <3>1. Apply(st, r) = [st EXCEPT !.node[r.id].attrs = merged]
      BY <1>0, <1>2, <2>4 DEF Apply, ApplyUpdated, Shape
    <3> HIDE DEF merged
    <3>2. Apply(st, r).node[r.id].done = st.node[r.id].done
      BY <1>0, <3>1, BlankIs DEF Shape
    <3> QED
      BY <2>2, <3>2
  <2> QED
    BY <1>2, <2>2, <2>3, <2>4 DEF Plain
<1>3. CASE \/ r.kind = "start" /\ Ignored(st, r)
           \/ r.kind # "start" /\ ~Writable(st, r.id)
  <2>1. Apply(st, r) = st
    BY <1>3 DEF Plain, Apply, ApplyStarted, ApplyUpdated, ApplyEnded, ApplyEvent
  <2> QED
    BY <2>1
<1> QED
  BY <1>1, <1>2, <1>3

LEMMA EventSync ==
  ASSUME Calm, Sized, Sync, EventMsg
  PROVE  Sync'
<1>0. /\ Good(store) /\ IsRecord(hand) /\ Plain(hand) /\ InHand /\ ~InHand'
      /\ MaxRoots \in Int /\ MaxRoots > 0 /\ UNCHANGED <<told, cache>>
  BY TuiAssumption DEF Calm, Sized, EventMsg, InHand
<1>1. CASE store' = store
  BY <1>0, <1>1 DEF Sync
<1>2. CASE store' # store
  <2> DEFINE mid == Apply(store, hand)
  <2>1. store' = LimitRoots(mid, MaxRoots)
    BY <1>2 DEF EventMsg
  <2>2. Good(mid) /\ mid.byID \subseteq store.byID \cup {hand.id}
    BY <1>0, ApplyGood, ApplyIndex
  <2>3. \A x \in SpanID : mid.node[x].done =>
          store.node[x].done \/ (hand.kind = "end" /\ x = hand.id)
    BY <1>0, ApplyDone
  <2> HIDE DEF mid
  <2>4. /\ store'.byID \subseteq mid.byID
        /\ \A x \in SpanID : store'.node[x] \in {Blank, mid.node[x]}
    BY <1>0, <2>1, <2>2, LimitRootsNodes
  <2>5. mid.byID \subseteq SpanID
    BY <2>2 DEF Good, Typed, Shape
  <2>6. \A x \in SpanID \ store.byID : ~store.node[x].done
    BY <1>0, BlankIs DEF Good, IsForest
  <2>7. ASSUME NEW x \in store'.byID
        PROVE  told[x] # "nothing" /\ (store'.node[x].done => told[x] = "end")
    <3>1. x \in SpanID /\ x \in store.byID \cup {hand.id}
      BY <2>2, <2>4, <2>5
    <3>2. told[x] # "nothing"
      BY <1>0, <3>1 DEF Sync, Plain
    <3>3. store'.node[x].done => told[x] = "end"
      <4>1. store'.node[x].done => mid.node[x].done
        BY <2>4, <3>1, BlankIs
      <4>2. store.node[x].done => x \in store.byID
        BY <2>6, <3>1
      <4> QED
        BY <1>0, <2>3, <3>1, <4>1, <4>2 DEF Sync
    <3> QED
      BY <3>2, <3>3
  <2> QED
    BY <1>0, <2>7 DEF Sync
<1> QED
  BY <1>1, <1>2

\* What a repaint puts in the cache has ended, and is not in the forwarder's
\* hands.
LEMMA RepaintSync ==
  ASSUME Sized, Sync, UNCHANGED fwdVars, store'.byID \subseteq store.byID,
         \A x \in store'.byID : store'.node[x].done => store.node[x].done,
         \A k \in DOMAIN cache' :
           k \notin DOMAIN cache => k[1] \in store'.byID /\ ~Open(store', k[1])
  PROVE  Sync'
<1>1. UNCHANGED <<told, hand, fwd>> /\ (InHand' <=> InHand)
  BY DEF fwdVars, InHand
<1>2. ASSUME NEW k \in DOMAIN cache'
      PROVE  /\ told[k[1]] = "end"
             /\ InHand => hand.id # k[1]
  <2>1. CASE k \in DOMAIN cache
    BY <2>1 DEF Sync
  <2>2. CASE k \notin DOMAIN cache
    <3>1. k[1] \in store.byID /\ store.node[k[1]].done
      BY <2>2 DEF Open
    <3>2. told[k[1]] = "end"
      BY <3>1 DEF Sync
    <3>3. InHand => hand.kind \in {"start", "update", "event", "end"}
      BY DEF Sized, Plain
    <3> QED
      BY <3>1, <3>2, <3>3 DEF Sync
  <2> QED
    BY <2>1, <2>2
<1>3. /\ \A x \in store'.byID : told'[x] # "nothing"
                               /\ (store'.node[x].done => told'[x] = "end")
  BY <1>1 DEF Sync
<1>4. InHand =>
        /\ hand.kind = "start" => /\ told[hand.id] = "start" /\ hand.id \notin store'.byID
                                  /\ hand.up # None => told[hand.up] = "start"
        /\ hand.kind \in {"update", "event"} => told[hand.id] = "start"
        /\ hand.kind = "end" => /\ told[hand.id] = "end"
                                /\ hand.id \in store'.byID => ~store'.node[hand.id].done
  BY DEF Sync
<1> QED
  BY <1>1, <1>2, <1>3, <1>4 DEF Sync

\* The handlers that repaint and leave the reader where it is.
LEMMA RepaintFollows ==
  ASSUME Sized, Sized', Followed, Smaller(store, store'),
         UNCHANGED <<width, height, stick, following>>, NEW c, Repaint(c),
         width' # None => screen' = Shows(store', DrawnWidth(width'))
  PROVE  Followed'
<1> SUFFICES ASSUME width # None, following, ~stick PROVE AtBottom'
  BY DEF Followed
<1> DEFINE w == DrawnWidth(width)
<1>1. AtBottom /\ screen = Shows(store, w) /\ screen' = Shows(store', w)
  BY DEF Followed
<1>2. Lines' <= Lines
  <2>1. /\ Lines = LinesOf(width, Drawn(store, ToSet(store.roots), w))
        /\ Lines' = LinesOf(width, Drawn(store', ToSet(store'.roots), w))
    BY <1>1, LinesAre DEF Shows
  <2> QED
    BY <2>1, SmallerLines
<1>3. /\ Lines \in Nat /\ Lines' \in Nat /\ height \in Int /\ height' = height
      /\ offset \in Nat
  BY LinesAre, LinesNumber DEF Sized
<1>4. /\ Bottom = BottomOf(Lines, height) /\ Bottom' = BottomOf(Lines', height)
  BY <1>3, LinesAre
<1>5. Bottom' <= Bottom /\ Bottom \in Nat /\ Bottom' \in Nat
  BY <1>2, <1>3, <1>4, BottomNumber, BottomLess
<1>6. offset' \in {Bottom', offset} /\ offset >= Bottom
  BY <1>1 DEF Repaint, SetContent, AtBottom
<1>7. offset' >= Bottom'
  BY <1>3, <1>5, <1>6
<1> QED
  BY <1>7 DEF AtBottom

Faithful == Sync /\ Cached /\ Shown /\ Followed

\* The handlers that keep the width and the cache, or start a new one.
LEMMA HandlerFaithful ==
  ASSUME Good(store'), Sized, Sized', Faithful, Smaller(store, store'),
         UNCHANGED <<fwdVars, width, height, stick, following>>,
         NEW c, c \in {NoCache, cache},
         c = cache /\ width # None => CacheTrue(store', cache, DrawnWidth(width)),
         \A x \in store'.byID : store'.node[x].done => store.node[x].done,
         Repaint(c)
  PROVE  Faithful'
<1>1. /\ width' # None => CacheTrue(store', c, DrawnWidth(width'))
      /\ width' = None => c = NoCache
  BY NothingCached DEF Faithful, Cached
<1>2. /\ Cached'
      /\ width' # None => screen' = Shows(store', DrawnWidth(width'))
      /\ \A k \in DOMAIN cache' :
           k \notin DOMAIN c => k[1] \in store'.byID /\ ~Open(store', k[1])
  BY <1>1, RepaintShows
<1>3. \A k \in DOMAIN cache' :
        k \notin DOMAIN cache => k[1] \in store'.byID /\ ~Open(store', k[1])
  <2>1. DOMAIN c \subseteq DOMAIN cache
    BY DEF NoCache
  <2> QED
    BY <1>2, <2>1
<1>4. Sync'
  BY <1>3, RepaintSync DEF Faithful, Smaller
<1>5. Shown'
  BY <1>2 DEF Shown
<1>6. Followed'
  BY <1>2, RepaintFollows DEF Faithful
<1> QED
  BY <1>2, <1>4, <1>5, <1>6 DEF Faithful

LEMMA SameSmaller ==
  ASSUME NEW st, Good(st), Counted(st)
  PROVE  Smaller(st, st)
BY DEF Smaller

LEMMA RepaintMsgFaithful ==
  ASSUME Calm, Sized, Sized', Faithful, RepaintMsg
  PROVE  Faithful'
<1> DEFINE w == DrawnWidth(width)
<1>0. /\ Good(store) /\ Counted(store) /\ stick' = FALSE
      /\ UNCHANGED <<store, width, height, paused, following, fwdVars>>
  BY DEF Calm, Sized, RepaintMsg
<1>1. CASE width = None
  <2>1. UNCHANGED <<screen, offset, cache>>
    BY <1>1 DEF RepaintMsg
  <2>2. Sync' /\ Cached' /\ Shown'
    BY <1>0, <1>1, <2>1 DEF Faithful, Sync, Cached, Shown, fwdVars, InHand
  <2> QED
    BY <1>0, <1>1, <2>2 DEF Faithful, Followed
<1>2. CASE width # None
  <2>1. /\ screen' = RenderRoots(store, cache, w) /\ cache' = Filled(store, cache, w)
        /\ offset' = IF stick \/ offset > Lines' - 1 THEN Bottom' ELSE offset
    BY <1>2 DEF RepaintMsg
  <2>2. CacheTrue(store, cache, w)
    BY <1>2 DEF Faithful, Cached
  <2>3. /\ screen' = Shows(store, w) /\ CacheTrue(store, cache', w)
        /\ \A k \in DOMAIN cache' :
             k \notin DOMAIN cache => k[1] \in store.byID /\ ~Open(store, k[1])
    BY <1>0, <2>1, <2>2, RenderRootsDrawn DEF Shows
  <2>4. Sync'
    BY <1>0, <2>3, RepaintSync DEF Faithful
  <2>5. Cached' /\ Shown'
    BY <1>0, <1>2, <2>3 DEF Cached, Shown
  <2>6. following => AtBottom'
    <3>1. /\ Lines' \in Nat /\ height' \in Int /\ offset \in Nat /\ offset' \in Nat
          /\ Bottom' \in Nat
      BY LinesAre, LinesNumber, BottomNumber DEF Sized
    <3>2. ASSUME following, ~stick PROVE AtBottom'
      <4>1. AtBottom /\ screen' = screen
        BY <1>2, <2>3, <3>2 DEF Faithful, Followed
      <4>2. Bottom' = Bottom
        BY <1>0, <4>1, LinesAre
      <4>3. offset >= Bottom' /\ offset' \in {Bottom', offset}
        BY <2>1, <4>1, <4>2 DEF AtBottom
      <4> QED
        BY <3>1, <4>3 DEF AtBottom
    <3>3. ASSUME stick PROVE AtBottom'
      BY <2>1, <3>1, <3>3 DEF AtBottom
    <3> QED
      BY <3>2, <3>3
  <2> QED
    BY <1>0, <2>3, <2>4, <2>5, <2>6 DEF Faithful, Followed
<1> QED
  BY <1>1, <1>2
LEMMA FaithfulStep ==
  ASSUME Calm, Calm', Sized, Sized', OneTick, Faithful, ~LateKids,
         [TuiNext]_tuiVars
  PROVE  Faithful'
<1>0. /\ Good(store) /\ Good(store') /\ Counted(store) /\ Counted(store')
      /\ store.allow \in BOOLEAN
  BY DEF Calm, Sized, Good, Typed
<1>1. ASSUME UNCHANGED modelVars, Sync' PROVE Faithful'
  BY <1>1 DEF modelVars, viewVars, Faithful, Cached, Shown, Followed,
              AtBottom, Bottom, Lines
<1>2. CASE UNCHANGED tuiVars
  <2>1. Sync'
    BY <1>2 DEF tuiVars, modelVars, fwdVars, Faithful, Sync, InHand
  <2> QED
    BY <1>1, <1>2, <2>1 DEF tuiVars
<1>3. ASSUME NEW x \in SpanID, NEW r \in Says(x), Lose(r) \/ ForwardReceive(r)
      PROVE  Faithful'
  <2>1. UNCHANGED modelVars
    BY <1>3 DEF Lose, ForwardReceive
  <2>2. Sync'
    BY <1>3, <2>1, ForwarderSync DEF modelVars, Faithful
  <2> QED
    BY <1>1, <2>1, <2>2
<1>4. CASE ForwardCheck \/ ForwardRecheck
  <2>1. UNCHANGED modelVars /\ UNCHANGED told /\ (InHand' => InHand /\ hand' = hand)
    BY <1>4 DEF ForwardCheck, ForwardRecheck, InHand
  <2>2. Sync'
    BY <2>1 DEF modelVars, Faithful, Sync
  <2> QED
    BY <1>1, <2>1, <2>2
<1>5. CASE EventMsg
  <2>1. Sync'
    BY <1>5, EventSync DEF Faithful
  <2>2. UNCHANGED <<width, height, offset, screen, cache, following>> /\ InHand
    BY <1>5 DEF EventMsg, InHand
  <2>3. AtBottom' <=> AtBottom
    BY <2>2 DEF AtBottom, Bottom, Lines
  <2>4. CASE Dropped
    <3>1. UNCHANGED <<store, ticks, stick>>
      BY <1>5, <2>4 DEF EventMsg
    <3> QED
      BY <2>1, <2>2, <2>3, <3>1 DEF Faithful, Cached, Shown, Followed
  <2>5. CASE ~Dropped
    <3>1. /\ store' = LimitRoots(Apply(store, hand), MaxRoots)
          /\ stick' = (stick \/ AtBottom) /\ ScheduleRepaint
      BY <1>5, <2>5 DEF EventMsg, Sticks
    <3>2. Cached'
      BY <2>2, <3>1, EventKeepsCache DEF Faithful, Cached
    <3>3. ticks' = 1
      BY <3>1 DEF ScheduleRepaint, OneTick
    <3>4. Shown'
      BY <3>3 DEF Shown
    <3>5. Followed'
      BY <2>2, <3>1 DEF Faithful, Followed
    <3> QED
      BY <2>1, <3>2, <3>4, <3>5 DEF Faithful
  <2> QED
    BY <2>4, <2>5
<1>6. CASE RepaintMsg
  BY <1>6, RepaintMsgFaithful
<1>7. CASE ScrollKey
  <2>1. PICK to : Scroll(to)
    BY <1>7 DEF ScrollKey
  <2>2. UNCHANGED <<store, cache, width, height, stick, screen, ticks, fwdVars>>
        /\ following' = (AtBottom' /\ (ticks = 0 \/ stick))
    BY <2>1 DEF Scroll
  <2>3. Sync' /\ Cached' /\ Shown'
    BY <2>2 DEF fwdVars, Faithful, Sync, InHand, Cached, Shown
  <2>4. Followed'
    BY <2>2 DEF Faithful, Shown, Followed
  <2> QED
    BY <2>3, <2>4 DEF Faithful
<1>8. CASE Redraw
  <2>1. /\ UNCHANGED <<store, fwdVars, width, height, stick, following>>
        /\ Repaint(cache)
    BY <1>8 DEF Redraw
  <2>2. Smaller(store, store')
    BY <1>0, <2>1, SameSmaller
  <2>3. width # None => CacheTrue(store', cache, DrawnWidth(width))
    BY <2>1 DEF Faithful, Cached
  <2> QED
    BY <1>0, <2>1, <2>2, <2>3, HandlerFaithful
<1>9. CASE Disconnected
  <2>1. /\ UNCHANGED <<fwdVars, width, height, stick, following>>
        /\ store' = MarkOpenSpansStale(store, 1) /\ Repaint(cache)
    BY <1>9 DEF Disconnected
  <2>2. Smaller(store, store') /\ store'.byID = store.byID /\ store'.node = store.node
    BY <1>0, <2>1, MarkSmaller, MarkGood
  <2>3. ASSUME width # None PROVE CacheTrue(store', cache, DrawnWidth(width))
    <3>1. CacheTrue(store, cache, DrawnWidth(width))
      BY <2>3 DEF Faithful, Cached
    <3>2. ASSUME NEW k \in DOMAIN cache, k[1] \in store'.byID
          PROVE  k[1] \in store.byID /\ Untouched(store, store', k[1])
      <4>1. k[1] \in store.byID
        BY <2>2, <3>2
      <4>2. \A y \in Below(store, {k[1]}) : store.node[y].done
        BY <3>1, <4>1 DEF CacheTrue, IsClosedSpanTree, Open
      <4> QED
        BY <1>0, <2>1, <4>1, <4>2, MarkUntouched
    <3> QED
      BY <1>0, <3>1, <3>2, CacheStaysTrue
  <2> QED
    BY <1>0, <2>1, <2>2, <2>3, HandlerFaithful
<1>10. CASE ClearAll
  <2>1. /\ UNCHANGED <<fwdVars, width, height, stick, following>>
        /\ store' = Empty(store.allow) /\ Repaint(NoCache)
    BY <1>10 DEF ClearAll, Clear
  <2>2. store'.byID = {}
    BY <2>1 DEF Empty
  <2>3. Smaller(store, store')
    BY <1>0, <2>2, EmptySmaller
  <2>4. NoCache = cache /\ width # None =>
          CacheTrue(store', cache, DrawnWidth(width))
    BY NothingCached
  <2> QED
    BY <1>0, <2>1, <2>2, <2>3, <2>4, HandlerFaithful
<1>11. CASE TogglePaused
  <2>1. /\ UNCHANGED <<fwdVars, width, height, stick, following>>
        /\ store' = IF paused THEN store ELSE ClearOpenSpans(store)
        /\ Repaint(IF paused THEN cache ELSE NoCache)
    BY <1>11 DEF TogglePaused
  <2>2. CASE paused
    <3>1. store' = store /\ Repaint(cache)
      BY <2>1, <2>2
    <3>2. Smaller(store, store')
      BY <1>0, <3>1, SameSmaller
    <3>3. width # None => CacheTrue(store', cache, DrawnWidth(width))
      BY <3>1 DEF Faithful, Cached
    <3> QED
      BY <1>0, <2>1, <3>1, <3>2, <3>3, HandlerFaithful
  <2>3. CASE ~paused
    <3>1. store' = ClearOpenSpans(store) /\ Repaint(NoCache)
      BY <2>1, <2>3
    <3>2. Smaller(store, store')
      BY <1>0, <3>1, CutSmaller
    <3>3. /\ store'.byID = store.byID \ Doomed(store)
          /\ \A x \in SpanID :
               IF x \in Doomed(store) THEN store'.node[x] = Blank
               ELSE store'.node[x] = [store.node[x] EXCEPT !.kids = Without(@, Doomed(store))]
      BY <1>0, <3>1, ClearOpenSpansNodes
    <3>4. store.byID \subseteq SpanID /\ \A x \in SpanID : DOMAIN store.node[x] = DOMAIN Blank
      BY <1>0 DEF Good, Typed, Shape
    <3>5. \A x \in store'.byID : store'.node[x].done => store.node[x].done
      BY <3>3, <3>4, BlankIs
    <3>6. NoCache = cache /\ width # None =>
            CacheTrue(store', cache, DrawnWidth(width))
      BY NothingCached
    <3> QED
      BY <1>0, <2>1, <3>1, <3>2, <3>5, <3>6, HandlerFaithful
  <2> QED
    BY <2>2, <2>3
<1>12. ASSUME NEW size \in Sizes, WindowSizeMsg(size) PROVE Faithful'
  <2>1. /\ UNCHANGED <<store, stick, ticks, fwdVars>> /\ width' = size.width
        /\ Repaint(IF width # size.width THEN NoCache ELSE cache)
        /\ following' = ((following /\ stick) \/ AtBottom')
    BY <1>12 DEF WindowSizeMsg
  <2> DEFINE c == IF width # size.width THEN NoCache ELSE cache
  <2>2. /\ width' # None => CacheTrue(store', c, DrawnWidth(width'))
        /\ width' = None => c = NoCache
    BY <2>1, NothingCached DEF Faithful, Cached
  <2>3. /\ Cached'
        /\ width' # None => screen' = Shows(store', DrawnWidth(width'))
        /\ \A k \in DOMAIN cache' :
             k \notin DOMAIN c => k[1] \in store'.byID /\ ~Open(store', k[1])
    BY <1>0, <2>1, <2>2, RepaintShows
  <2>4. \A k \in DOMAIN cache' :
          k \notin DOMAIN cache => k[1] \in store'.byID /\ ~Open(store', k[1])
    <3>1. DOMAIN c \subseteq DOMAIN cache
      BY DEF NoCache
    <3> QED
      BY <2>3, <3>1
  <2>5. Sync'
    BY <2>1, <2>4, RepaintSync DEF Faithful
  <2> QED
    BY <2>1, <2>3, <2>5 DEF Faithful, Shown, Followed
<1> QED
  BY <1>2, <1>3, <1>4, <1>5, <1>6, <1>7, <1>8, <1>9, <1>10, <1>11, <1>12
     DEF TuiNext

LEMMA FaithfulInit == TuiInit => Faithful
<1> SUFFICES ASSUME TuiInit PROVE Faithful
  OBVIOUS
<1>1. /\ store = Empty(Allow) /\ cache = NoCache /\ width = None /\ fwd = "check"
  BY DEF TuiInit
<1>2. store.byID = {} /\ DOMAIN cache = {}
  BY <1>1 DEF Empty, NoCache
<1> QED
  BY <1>1, <1>2 DEF Faithful, Sync, Cached, Shown, Followed, InHand

LEMMA FaithfulAlways ==
  ASSUME ~LateKids
  PROVE  TuiSpec => [](Calm /\ Sized /\ OneTick /\ Faithful)
<1>1. TuiInit => Calm /\ Sized /\ OneTick /\ Faithful
  BY CalmInit, SizedInit, FaithfulInit DEF TuiInit, OneTick
<1>2. Calm /\ Sized /\ OneTick /\ Faithful /\ [TuiNext]_tuiVars
        => Calm' /\ Sized' /\ OneTick' /\ Faithful'
  BY CalmStep, SizedStep, OneTickStep, FaithfulStep
<1> QED
  BY <1>1, <1>2, PTL DEF TuiSpec

\* If no child starts under an ended span, then whatever records, keys, sizes and
\* disconnections come: once no repaint is pending the screen shows what drawing
\* the whole store anew would show. No handler forgets to repaint, and a cached
\* rendering is used only while it is true (render.go:80-88, tui.go:203-210).
THEOREM ScreenStaysTrue == ~LateKids => (TuiSpec => []ScreenIsTrue)
<1> SUFFICES ASSUME ~LateKids PROVE TuiSpec => []ScreenIsTrue
  OBVIOUS
<1>1. Calm /\ Faithful => ScreenIsTrue
  <2> SUFFICES ASSUME Calm, Faithful, width # None, ticks = 0
               PROVE  screen = RenderRoots(store, NoCache, DrawnWidth(width))
    BY DEF ScreenIsTrue
  <2>1. Good(store) /\ screen = Shows(store, DrawnWidth(width))
    BY DEF Calm, Faithful, Shown
  <2> QED
    BY <2>1, RenderRootsDrawn, NothingCached DEF Shows
<1> QED
  BY <1>1, FaithfulAlways, PTL

\* If no child starts under an ended span, a reader who went to the bottom and has
\* not scrolled away is at the bottom whenever no repaint is pending, although
\* something else may draw a record's line before its tick (tui.go:195-209).
THEOREM TailIsFollowed == ~LateKids => (TuiSpec => []FollowsTail)
<1> SUFFICES ASSUME ~LateKids PROVE TuiSpec => []FollowsTail
  OBVIOUS
<1>1. OneTick /\ Faithful => FollowsTail
  BY DEF OneTick, Faithful, Followed, FollowsTail
<1> QED
  BY <1>1, FaithfulAlways, PTL
=============================================================================
