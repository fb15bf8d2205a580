----------------------------- MODULE WebViewer -----------------------------
(***************************************************************************)
(* The web viewer's server (src/viewer/sap-web/server.go) and the browsers *)
(* that it keeps up to date: one store behind a mutex, changed by records, *)
(* by the connection's state and by the pause and clear buttons; after     *)
(* every change a snapshot goes to each subscribed browser's bounded       *)
(* channel, and a full channel loses its oldest snapshot.                  *)
(*                                                                         *)
(* A snapshot replaces the roots, patches a part of a card or has nothing  *)
(* but the status line, which every snapshot carries (module WebPage has   *)
(* what they render). A browser loads the page, subscribes to the stream,  *)
(* may lose it and subscribe again, and posts its buttons on connections   *)
(* of their own, whose replies can be late.                                *)
(*                                                                         *)
(* Records come from an emitter that starts a span once and after its      *)
(* parent, and has nothing to say of a span before its start and after its *)
(* end (modules Spans and Stream); any of them may be lost on the way.     *)
(***************************************************************************)
EXTENDS WebPage, TLC

CONSTANTS Browsers,    \* the browsers
          Queue,       \* capacity of a browser's channel (8)
          MaxRoots,    \* server.maxRoots
          Allow,       \* StoreOptions.AllowUnknownParents
          Parents,     \* Parents[x]: the parents span x can be started with
          States,      \* connection states that the client reports
          Errors,      \* the messages of ends, None for no error
          InOrder,     \* events and children of a span: each later than the last
          Times,       \* else the times they can have
          MaxEvents,   \* bound: MaxEvents[x] events of span x
          Updated      \* bound: the spans that are updated, until they show it

ASSUME WebAssumption ==
  /\ {Queue, MaxRoots} \subseteq Nat \ {0} /\ Allow \in BOOLEAN
  /\ Parents \in [SpanID -> SUBSET (SpanID \cup {None})]
  /\ None \notin Int

VARIABLES
  store,      \* server.store
  conn,       \* server.conn
  paused,     \* server.paused
  live,       \* the browsers that are subscribed
  queue,      \* queue[b]: the channel of b
  page,       \* page[b]: what b shows of the spans
  status,     \* status[b]: the status line that b shows, None without a page
  reply,      \* reply[b]: the reply to a button of b that is on its way
  pushing,    \* broadcastLocked: the browsers whose full channel it is at
  snap,       \* and the snapshot it has for them, else None
  told,       \* what the emitter has said: told[x] is "nothing", "start", "end"
  behind,     \* history. behind[b]: b has lost a change that no full page healed
  overtaken   \* history. overtaken[b]: a late reply is what b shows

serverVars  == <<store, conn, paused>>
browserVars == <<live, page, status, reply, overtaken>>
webVars     == <<serverVars, browserVars, queue, pushing, snap, told, behind>>

-----------------------------------------------------------------------------
\* Snapshots and what a browser makes of them

NoPage == [order |-> <<>>, card |-> <<>>]

Status == StatusLine(Len(store.roots), conn, paused)

\* snapshotLocked and statusSnapshotLocked: they see the new state.
Full(st) == [kind |-> "roots", status |-> Status', page |-> Roots(st)]

StatusOnly == [kind |-> "status", status |-> Status']

\* patchSnapshotLocked
Patch(patch) == [kind |-> "patch", status |-> Status', patch |-> patch]

\* An out-of-band swap without a target is dropped; an empty timeline has no
\* list to append to.
Patched(p, patch) ==
  LET x    == patch.span
      old  == p.card[x]
      both == [y \in DOMAIN patch.cards \cup DOMAIN p.card |->
                 IF y \in DOMAIN patch.cards THEN patch.cards[y] ELSE p.card[y]]
  IN  IF x \notin DOMAIN p.card THEN p ELSE
      CASE patch.part = "summary"  -> [p EXCEPT !.card[x].summary = patch.new]
        [] patch.part = "attrs"    -> [p EXCEPT !.card[x].attrs = patch.new]
        [] patch.part = "timeline" ->
             [p EXCEPT !.card =
               [both EXCEPT ![x] = [old EXCEPT !.timeline = patch.new]]]
        [] patch.part = "list" /\ old.timeline.list = <<>> -> p
        [] patch.part = "list" /\ old.timeline.list # <<>> ->
             [p EXCEPT !.card =
               [both EXCEPT ![x] =
                 [old EXCEPT !.timeline.list = Append(@, patch.new)]]]

Swap(p, s) ==
  CASE s.kind = "roots"  -> s.page
    [] s.kind = "patch"  -> Patched(p, s.patch)
    [] s.kind = "status" -> p

\* What p has become when all snapshots of q have been swapped in.
Swapped(p, q) ==
  LET after[n \in 0 .. Len(q)] ==
        IF n = 0 THEN p ELSE Swap(after[n - 1], q[n])
  IN  after[Len(q)]

-----------------------------------------------------------------------------
\* recordPatchSnapshotLocked, after the record has been applied

\* Mutant of Short: whatever the timeline holds, the entry is appended.
NeverShort(st, x) == FALSE

\* The list may not be on the page yet.
Short(st, x) == Len(TimelineItems(st, x)) <= 1

\* The item that the server makes for the last event or a child of x.
EventItem(st, x) ==
  LET n == Len(st.node[x].events)
  IN  [at |-> st.node[x].events[n].at, index |-> n, show |-> None]

ChildItem(st, x, kid) ==
  [at |-> st.node[kid].at, show |-> kid,
   index |-> Len(st.node[x].events) + SelectInSeq(st.node[x].kids, LAMBDA k : k = kid)]

StartPatch(st, r) ==
  LET p == FindSpan(st, r.up)
  IN  IF r.up = None \/ p = None THEN Full(st)
      ELSE Patch(IF Short(st, p) \/ ~Contains(st.node[p].kids, r.id)
                 THEN SpanTimelinePatch(st, p, Depth(st, p))
                 ELSE TimelineAppendPatch(st, p, ChildItem(st, p, r.id), Depth(st, p)))

EventPatch(st, x) ==
  IF Short(st, x) \/ st.node[x].events = <<>>
  THEN SpanTimelinePatch(st, x, Depth(st, x))
  ELSE TimelineAppendPatch(st, x, EventItem(st, x), Depth(st, x))

RecordSnapshot(st, r) ==
  IF r.kind = "start" THEN StartPatch(st, r)
  ELSE IF FindSpan(st, r.id) = None THEN Full(st)
  ELSE Patch(CASE r.kind = "update" -> SpanAttributesPatch(st, r.id)
               [] r.kind = "end"    -> SpanSummaryPatch(st, r.id)
               [] r.kind = "event"  -> EventPatch(st, r.id))

-----------------------------------------------------------------------------
\* broadcastLocked

\* Mutant of DropOldest: the newest is dropped.
DropNewest(q, s) == IF q = <<>> THEN <<s>> ELSE q

\* case <-ch: the oldest goes, if the browser has not taken it in the meantime.
DropOldest(q, s) == Append(IF q = <<>> THEN <<>> ELSE Tail(q), s)

\* What dropping d from in front of rest costs the page.
LosesView(d, rest) ==
  d.kind # "status" /\ \A i \in DOMAIN rest : rest[i].kind # "roots"

Unlocked == pushing = {}

\* A channel with room gets the snapshot; for those that are full the server
\* goes on in PushOut, with its lock held.
Broadcast(s) ==
  LET full == {b \in live : Len(queue[b]) >= Queue}
  IN  /\ queue' = [b \in Browsers |-> IF b \in live \ full
                                      THEN Append(queue[b], s) ELSE queue[b]]
      /\ behind' = [b \in Browsers |-> /\ behind[b]
                                       /\ b \in live \ full => s.kind # "roots"]
      /\ pushing' = full
      /\ snap' = IF full = {} THEN None ELSE s
      /\ UNCHANGED <<live, page, status, overtaken>>

PushOut(b) ==
  LET q == queue[b]
  IN  /\ b \in pushing
      /\ queue' = [queue EXCEPT ![b] = DropOldest(q, snap)]
      /\ behind' = [behind EXCEPT ![b] =
                     /\ snap.kind # "roots"
                     /\ @ \/ (q # <<>> /\ LosesView(Head(q), Tail(q)))]
      /\ pushing' = pushing \ {b}
      /\ snap' = IF pushing = {b} THEN None ELSE snap
      /\ UNCHANGED <<serverVars, browserVars, told>>

-----------------------------------------------------------------------------
\* The records

WebInit ==
  /\ store = Empty(Allow)
  /\ conn = [state |-> None, attempt |-> 0, err |-> None] /\ paused = FALSE
  /\ live = {} /\ queue = [b \in Browsers |-> <<>>]
  /\ page = [b \in Browsers |-> NoPage] /\ status = [b \in Browsers |-> None]
  /\ reply = [b \in Browsers |-> None]
  /\ pushing = {} /\ snap = None
  /\ told = [x \in SpanID |-> "nothing"]
  /\ behind = [b \in Browsers |-> FALSE]
  /\ overtaken = [b \in Browsers |-> FALSE]

\* The times that the next event or child of x, or its end, can have.
TimesIn(x) ==
  LET items == TimelineItems(store, x)
  IN  IF InOrder THEN {IF items = <<>> THEN 1 ELSE Last(items).at + 1} ELSE Times

Attr == [key |-> "k", val |-> 1, hints |-> {"code"}]

\* What the emitter can say of x.
Starts(x) ==
  UNION {[kind : {"start"}, id : {x}, up : {y}, attrs : {<<>>},
          at : IF y = None THEN {1} ELSE TimesIn(y)] :
         y \in {p \in Parents[x] : p # None => told[p] # "nothing"}}

Says(x) ==
  CASE told[x] = "nothing" -> Starts(x)
    [] told[x] = "start" ->
            [kind : {"update"}, attrs : {<<Attr>>},
             id : {y \in {x} \cap Updated : store.node[y].attrs = <<>>}]
       \cup [kind : {"end"}, id : {x}, how : {None}, error : Errors, at : TimesIn(x)]
       \cup IF Len(store.node[x].events) < MaxEvents[x]
            THEN [kind : {"event"}, id : {x}, severity : {"warn"},
                  attrs : {<<Attr>>}, at : TimesIn(x)] ELSE {}
    [] told[x] = "end" -> {}

Tell(r) ==
  told' = IF r.kind \in {"start", "end"} THEN [told EXCEPT ![r.id] = r.kind]
                                         ELSE told

\* A start that is lost on the way, or thrown away because the viewer is paused.
\* (To lose another record is for the emitter not to have said it.)
Lose(r) ==
  /\ r.kind = "start"
  /\ Unlocked
  /\ Tell(r)
  /\ UNCHANGED <<serverVars, browserVars, queue, pushing, snap, behind>>

\* applyRecord
ApplyRecord(r) ==
  /\ Unlocked
  /\ ~paused
  /\ Tell(r)
  /\ store' = LimitRoots(Apply(store, r), MaxRoots)
  /\ UNCHANGED <<conn, paused, reply>>
  /\ Broadcast(IF store'.roots # store.roots THEN Full(store')
               ELSE RecordSnapshot(store', r))

-----------------------------------------------------------------------------
\* The other handlers

Down == {"retrying", "disconnected"}

\* The client reports no state twice in a row (client.go:40-58).
SetConnectionState(c) ==
  /\ Unlocked
  /\ c.state # conn.state
  /\ conn' = IF c.state = "connected" THEN [c EXCEPT !.err = None] ELSE c
  /\ store' = IF c.state \in Down THEN MarkOpenSpansStale(store, 1) ELSE store
  /\ UNCHANGED <<paused, told, reply>>
  /\ Broadcast(IF c.state \in Down THEN Full(store') ELSE StatusOnly)

\* Mutant of AtPause: the open spans stay.
AtPauseNothing(st) == st

AtPause(st) == ClearOpenSpans(st)

\* A button on the page of b; the reply is the status line of the snapshot that
\* goes to the subscribers. Bounds: one reply at a time, and no button of a page
\* that is without its stream or as far behind as it can be.
CanPost(b) ==
  Unlocked /\ b \in live /\ reply[b] = None /\ Len(queue[b]) < Queue

TogglePaused(b) ==
  /\ CanPost(b)
  /\ paused' = ~paused
  /\ store' = IF paused THEN store ELSE AtPause(store)
  /\ UNCHANGED <<conn, told>>
  /\ reply' = [reply EXCEPT ![b] = Status']
  /\ Broadcast(Full(store'))

ClearAll(b) ==
  /\ CanPost(b)
  /\ store' = Clear(store)
  /\ UNCHANGED <<conn, paused, told>>
  /\ reply' = [reply EXCEPT ![b] = Status']
  /\ Broadcast(Full(store'))

\* The handler writes after it has let go of the lock, and the browser puts
\* the reply in the place of the status line. (A later broadcast that is under
\* way has no part in it: the reply may as well arrive before or after.)
ReplyArrives(b) ==
  /\ Unlocked
  /\ reply[b] # None
  /\ status' = [status EXCEPT ![b] = reply[b]]
  /\ overtaken' = [overtaken EXCEPT ![b] =
                     IF b \in live /\ queue[b] = <<>> THEN reply[b] # Status ELSE @]
  /\ reply' = [reply EXCEPT ![b] = None]
  /\ UNCHANGED <<serverVars, live, page, queue, pushing, snap, told, behind>>

\* handleHome
Load(b) ==
  /\ Unlocked
  /\ b \notin live /\ status[b] = None
  /\ page' = [page EXCEPT ![b] = Roots(store)]
  /\ status' = [status EXCEPT ![b] = Status]
  /\ UNCHANGED <<serverVars, live, reply, overtaken, queue, pushing, snap, told, behind>>

\* subscribe: the first snapshot is a full one.
Subscribe(b) ==
  /\ Unlocked
  /\ b \notin live /\ status[b] # None
  /\ live' = live \cup {b}
  /\ UNCHANGED serverVars
  /\ queue' = [queue EXCEPT ![b] = <<Full(store)>>]
  /\ behind' = [behind EXCEPT ![b] = FALSE]
  /\ UNCHANGED <<page, status, reply, overtaken, pushing, snap, told>>

\* handleStream returns: the browser is gone, or a write has failed. What was
\* written of a snapshot the browser may still have swapped in.
\* Bound: only a tab that is closed goes while it waits for a reply.
Unsubscribe(b) ==
  /\ Unlocked
  /\ b \in live
  /\ live' = live \ {b}
  /\ queue' = [queue EXCEPT ![b] = <<>>]
  /\ \/ /\ reply[b] = None
        /\ UNCHANGED <<page, status, reply, overtaken>>
     \/ /\ reply[b] = None
        /\ queue[b] # <<>> /\ Head(queue[b]).kind # "status"
        /\ page' = [page EXCEPT ![b] = Swap(@, Head(queue[b]))]
        /\ UNCHANGED <<status, reply, overtaken>>
     \/ /\ page' = [page EXCEPT ![b] = NoPage]
        /\ status' = [status EXCEPT ![b] = None]
        /\ reply' = [reply EXCEPT ![b] = None]
        /\ overtaken' = [overtaken EXCEPT ![b] = FALSE]
  /\ UNCHANGED <<serverVars, pushing, snap, told, behind>>

\* handleStream's loop sends a snapshot, and the browser swaps it in.
Show(b) ==
  /\ queue[b] # <<>>
  /\ queue' = [queue EXCEPT ![b] = Tail(@)]
  /\ page' = [page EXCEPT ![b] = Swap(@, Head(queue[b]))]
  /\ status' = [status EXCEPT ![b] = Head(queue[b]).status]
  /\ overtaken' = [overtaken EXCEPT ![b] = FALSE]
  /\ UNCHANGED <<serverVars, live, reply, pushing, snap, told, behind>>

WebNext ==
  \/ \E x \in SpanID : \E r \in Says(x) : Lose(r) \/ ApplyRecord(r)
  \/ \E c \in States : SetConnectionState(c)
  \/ \E b \in Browsers : \/ TogglePaused(b) \/ ClearAll(b) \/ ReplyArrives(b)
                        \/ Load(b) \/ Subscribe(b) \/ Unsubscribe(b)
                        \/ Show(b) \/ PushOut(b)

WebSpec == WebInit /\ [][WebNext]_webVars

-----------------------------------------------------------------------------
WebTypeOK ==
  /\ store.byID \subseteq SpanID /\ Len(store.roots) <= MaxRoots
  /\ paused \in BOOLEAN
  /\ live \subseteq Browsers /\ pushing \subseteq live
  /\ \A b \in Browsers :
       /\ Len(queue[b]) <= Queue
       /\ b \notin live => queue[b] = <<>>
       /\ DOMAIN page[b].card \subseteq SpanID

\* What b has on its page and on its way, the broadcast that goes on included.
Coming(b) == IF b \in pushing THEN Append(queue[b], snap) ELSE queue[b]

\* However slow a browser is, the last snapshot it gets tells the current
\* connection state, number of roots and pause: it is never the newest
\* snapshot that a full channel loses (server.go:254-261), and only a reply
\* that arrives after a newer snapshot was shown hides it (server.go:150).
LastWordIsCurrent ==
  \A b \in live : ~overtaken[b] \/ Coming(b) # <<>> =>
    (IF Coming(b) = <<>> THEN status[b] ELSE Last(Coming(b)).status) = Status

\* Unless it has lost a change that no full page has healed, a browser that
\* has swapped in all that is coming shows what a reload would show: a series
\* of patches amounts to a rendering of the whole store (server.go:298-354).
PatchesAddUp ==
  \A b \in live : ~behind[b] =>
    Swapped(page[b], Coming(b)) = Roots(store)

\* While the viewer is paused it tracks no open span, so that no timer runs on
\* a span whose end has been thrown away (server.go:193-195, 233-235).
PausedIsQuiet == paused => ~HasOpenSpans(store)
=============================================================================
