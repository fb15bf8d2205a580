# sap in TLA+

TLA+ modules, TLC configurations and TLAPS proofs for `sap`, a Go library that
records spans, fans the records out to in-process subscribers, streams them over
server-sent events and shows them in a terminal or a web viewer.

An application starts, annotates and ends *spans*; each of these publishes a
record on a *hub*, which puts it in the buffered channel of every subscriber
that has room. The *SSE handler* is such a subscriber and relays its records on
an HTTP response; the *SSE client* reads them, reconnects when the stream is
lost, and hands records and connection states to a *viewer* on two channels. A
viewer applies the records to a *span store* and draws it. Everything before
the HTTP stream runs in the application's process, everything behind it in the
viewer's. Nothing is persisted: what is lost is lost, and all that a viewer may
count on is order, and completeness up to known losses.

## Inventory

| Component | State | Operations | Talks to | Correct when |
|---|---|---|---|---|
| `Hub` (`hub.go`) | an RWMutex, the map of subscriber channels, `closed` | `Publish`, `Subscribe`, the cancel function, `Close`, all on any goroutine and on a nil hub | spans call `Publish`; the SSE handler subscribes | nobody sends on or closes a closed channel; a channel is open exactly while it is registered; calls return although nobody receives; records that do not overlap keep their order; what had room is delivered |
| Spans (`sap.go`) | per span: hub, identifiers, `ended`, a mutex; the context | `Hub.Start`, `Start`, `SetAttributes`, `AddEvent`, `Complete`, `Error` | the hub | the records of a span reach each subscriber in order, the start first, nothing after the end; a start precedes those of its children |
| Span store (`state/state.go`) | roots and children, the index by identifier, the stale marks | `Apply` (four kinds), `Clear`, `ClearOpenSpans`, `LimitRoots`, `MarkOpenSpansStale`, `FindSpan`, `HasOpenSpans` | the viewers call it | tree, index and marks agree under every sequence of records and clean-ups; an ended span does not change; order of arrival is kept |
| Timeline (`state/timeline.go`) | none | `TimelineItems` | the viewers | chronological, stable, missing timestamps last |
| SSE handler (`transport/sapsse/sse.go`) | one subscription per request | the relay loop | hub, HTTP | relays in order, cancels its subscription when it ends |
| SSE client (`transport/sapsse/client.go`) | two channels, the attempt counter | connect, read, retry, stop | HTTP, the viewers | reports every connection and loss, stops when asked |
| Web viewer (`viewer/sap-web/server.go`) | store, connection, `paused`, browsers' channels of 8 | apply a record, a connection state, pause, clear, load, subscribe, stream | client, store, browsers | browsers end up showing the store, the newest status last |
| Web rendering (`viewer/sap-web/render.go`, `components.templ`) | none | pages, cards, patches, DOM ids | the server calls it | the patches of a series of records amount to a full rendering; no two elements have one id |
| TUI (`viewer/sap-tui/tui.go`, `render.go`) | store, `paused` shared by two goroutines, render cache, pending repaint, viewport | messages of the event loop | client, store | the screen ends up showing the store, and a reader at its end stays there |
| Attributes (`attr.go`), generated records (`gen/`), example (`example/live`) | none | constructors, protobuf code, a demonstration | | not modelled: no state and no logic of the library |

Hard to test, and what the properties are about: the interleavings of the hub's
lock operations, sends and closes; the order in which records of one span and of
a parent and its child are published by several goroutines; records that reach a
store late, twice, never or without their parent; reconnections that overlap a
handler that does not know yet that its client is gone; full buffers at four
places (subscription, client channels, browser channels); caches and patches
that assume what the page shows; pausing while a record is in somebody's hands.
`PROJECT.json` lists each at its line.

## Modules

| Module | Models | Built on |
|---|---|---|
| `FanOut` | what a hub promises: bounded queues, handed out open or shut, that lose what they have no room for (abstract specification) | |
| `Hub` | `hub.go` step by step: lock operations, the sends of `Publish` one channel at a time, the closes of `Close` | refines `FanOut` |
| `HubHistory` | the hub with the calls its users can remember | `Hub` |
| `HubProofs` | theorems about `Hub` | `Hub` |
| `HubHistoryProofs` | theorems about `HubHistory` | `HubHistory`, `HubProofs` |
| `Spans` | `sap.go` on that hub | composes with `Hub` |
| `SpanView` | what a store makes of the records that a subscriber of `Spans` receives | `Spans`, `Store` |
| `SpansProofs` | theorems about `Spans` and `SpanView` | `SpanView`, `HubProofs` |
| `Store` | `state/state.go` as operators on the value of a store | |
| `StoreWalk` | the recursive walks of `state.go`, as the reference for `Store` | `Store` |
| `SpanStore` | a store driven by any records and clean-ups | `Timeline` |
| `StoreProofs` | lemmas about the operators of `Store` and `Timeline`, for every viewer that holds a store | `Timeline` |
| `SpanStoreProofs` | theorems about `SpanStore` | `SpanStore`, `StoreProofs` |
| `Timeline` | `state/timeline.go` | `Store` |
| `Link` | what the client promises a viewer that holds its two channels (abstract specification) | |
| `Stream` | `transport/sapsse`: hub, handler, wire, client | refines `Link` |
| `StreamProofs` | type, order and no duplicates in `Stream`; that it implements `Link` and misses nothing | `Stream` |
| `WebPage` | what `viewer/sap-web/render.go` and the templates make of a store | `Timeline`, `Store` |
| `WebViewer` | `viewer/sap-web/server.go`, its browsers, and an emitter | `WebPage` |
| `WebProofs` | theorems about `WebViewer` | `WebViewer`, `StoreProofs` |
| `Tui` | `viewer/sap-tui`: forwarder, message loop, render cache | `Timeline`, `Store` |
| `TuiProofs` | theorems about `Tui` | `Tui`, `StoreProofs` |
| `MC*` | instances for TLC | |

### Hub

`pc[p]` says where goroutine `p` stands in its call. The RWMutex is Go's:
`waiting` are the readers that a pending writer holds up, `writer` has announced
itself and gets the lock when `readers` is empty. `closed`, `subs` (the keys of
the map) are the fields of `Hub`. A channel is `made`, then `given` by
`Subscribe`, then perhaps `shut`; `log[ch]` is all that was ever put in it and
`taken[ch]` how much was received, so its content is what lies between. `Publish`
is `PublishCall`, `PublishRLock`, `PublishCheck`, one `PublishSend` for each
channel in the order of the map (any), `PublishReturn`; `Close` marks, closes and
deletes channel by channel, and returns. A send on a closed channel, or a second
close, takes the goroutine to `"panic"`. A nil hub is `isNil`.

### Spans

Goroutines start spans with any context the program can hold (a span it has been
given, any hub), call the four methods on any span known to them, and subscribe,
cancel and close as before. `mutex[s]` is the span's mutex, held over the whole
`Publish`. There is a second hub that nobody subscribes to, and nil hubs.
Calls on a span and the steps of the hub interleave freely.

`SpanView` closes the gap between the two ends of the system: it feeds a store
with the log of a channel, in every reachable state of `Spans`. The emitter
never looks at what viewers do with its records, and a store drops without a
word what it cannot place; `ViewIsFaithful` says that it drops nothing but what
a lost start explains. Each record brings one attribute, whose value is the
record's number, so that a view tells which record it shows (`Shown`).

### Store and timeline

A store is a record: order of the roots, index, a node for each span, marks.
Every operation of `state.go` is an operator from stores to stores. The code
walks `Children` recursively; `Store` states which spans such a walk reaches
(`Below`), without RECURSIVE, so that it can be proved about, and `StoreWalk`
transcribes the walks; the property `WalksAgree` compares them. `timeValue`'s nil
check, made on an interface that holds a typed nil pointer, is modelled as what
it does: a missing timestamp is the Unix epoch.

### Stream

The hub is reduced to what `HubProofs` and `FanOut` justify: a `Publish` takes
the read lock and so cannot overlap a `Subscribe`, a cancel or a `Close`; one
publisher's record enters the channels in one step, and records are numbered in
that order. Each connection has a handler, a subscription and a wire, a queue
that can be cut at any time and then loses any suffix. A server learns of a cut
later; a write after it may still succeed. `Restart` is a crash of the server
process. The client's goroutine is modelled statement by statement where it
blocks: the sends of states and records, which do not watch the context, the
dial, the headers, the scan, the timer. The viewer may stop receiving.

`Link` is all that a viewer need know of this: records are numbered, some are
lost; states follow each other as attempts do; a record is given only while the
last state reported is "connected", in order and once; nothing follows
"disconnected". `published`, `reported` and `emitted` are its variables.

### WebPage and WebViewer

`WebPage` renders. A page is the order of the root cards and a card for every
span on it; a card has a hue, a summary with its status and timer, attributes and
a timeline of event cards and cards inside it. Each patch the server can send is
an operator that returns the element and where it goes. An element that a patch
can address has a DOM id, a tuple of the parts that the code joins; what
`safeCSSIdent` does to a key is a constant operator, so that two keys can become
one. The timer is what the browser's script is told: a start, and an end, which
for a span that has ended without a timestamp is 0.

The server's mutex makes each handler one step, but for `broadcastLocked`: a
browser may take a snapshot from its channel between the two selects, so the full
channels are dealt with one by one in `PushOut`, with the lock held. A snapshot
replaces the page, patches it, or only carries the status line, as every one
does; `Swap` is what the browser makes of it.

A browser loads the page (`Load`, `GET /`), subscribes to the stream and gets a
full page as its first snapshot (`Subscribe`), shows one snapshot after the
other (`Show`), and may lose the stream (`Unsubscribe`): with the two events of a
snapshot unwritten, or with the first of them swapped in, or because the tab is
closed. It may then subscribe again on the page it has. Its buttons
(`TogglePaused`, `ClearAll`) are requests of their own, whose reply is rendered
under the lock but arrives later (`ReplyArrives`), perhaps behind newer snapshots.
The history variable `behind[b]` says that browser `b` has lost a patch or a page
and no full page has come since; `overtaken[b]`, that it shows a reply which was
no longer true when it came.

### Tui

Rendering follows `renderSpan`: a closed tree that is in the cache is taken from
there, everything else is drawn, and closed trees that were drawn enter the
cache. As in `Store`, the walk is stated by the spans that it reaches: what is
found first on the way down (`Hits`), and what lies above that (`Walked`). A card
has what `renderSpan` puts on it (icon, time, error, attributes, events and
children in the order of the timeline, the groups that events in a row form, the
width left to it) and a number of lines. `Repaint` is called by the handlers as in `tui.go`, or
put off by `ScheduleRepaint`. The forwarder looks at `paused`, receives, looks
again, and sends; each is a step.

The viewport is the library's: `height`, `offset` and the lines of the content,
with the keys that move it (`ScrollKey`) and the message that sizes it
(`WindowSizeMsg`, which also empties the cache). `stick` is the flag that a record
sets when it finds the viewport at the bottom and the next tick uses. The history
variable `following` remembers a reader who went to the bottom and has not left.

In `WebViewer` and `Tui` an emitter produces the records, with what `Spans` and
`Stream` establish: a span starts once, after its parent, is silent after its
end, and any record may be missing. In `Tui` the records of span `x` bring
attributes of `Lists[x]` and times of `Times[x]`.

## Runs

| Run | Question | Bounds |
|---|---|---|
| `hub` | safety of the hub, and that it implements `FanOut` | 3 goroutines, 2 channels, 2 records, capacities 1 and 2 |
| `hub_live` | does every call return, does `Close` reach everybody | 3 goroutines, 1 channel, 2 records, capacity 1 |
| `spans` | order, start first, completeness, traces, and what a store makes of it | 2 goroutines, 2 spans, 1 channel of capacity 1, 2 records after the start |
| `store` | tree, index, marks and order under any records and clean-ups | 3 spans and the empty identifier, limits 0 to 2, 2 clock readings, 1 key; events only to spans that have ended or are unknown |
| `timeline` | merging, ordering and DOM ids against their definitions | 1 root, 2 children, 2 events, 2 keys, 2 values, 2 timestamps and none |
| `timeline_missing` | *violation*: where entries without a timestamp are shown | the same |
| `stream` | order, no duplicates, nothing missed while connected, and that it implements `Link` | 4 records (one that cannot be marshalled, one too long for the client), 2 connections, buffers of 1, states channel of 2 |
| `stream_live` | handlers end, a cancelled client ends | 2 records (one too long for the client), 2 connections |
| `web` | do the patches add up to the page, is the last status current, is a pause quiet | 2 spans (a root, and its child or another root), 1 browser, a channel of 2, 1 root, 1 event, 1 update, ends with an error, 2 states, 1 reply at a time, no button on a page whose channel is full |
| `web_order` | *violation*: the same patches when entries do not come in order of time | the same, times 1 and 2 |
| `tui` | does the screen show the store, is a pause quiet, one repaint at a time, does a reader at the end stay there | 2 spans (a root, and its child or another root), 2 window sizes, 1 root, 1 event of the root, which sorts behind the child, a child with and without an attribute, ends with and without an error |
| `tui_late` | *violation*: the screen when a child starts under an ended span | 3 spans, a grandchild among them, 1 size, no events |

Why the bounds are enough. What can go wrong in the hub needs a publisher, a
writer that holds it up and one more goroutine; two channels, so that one is
full or gone while the other is not; two records, so that there is an order. A
channel of capacity 1 is full after one record. A hierarchy of three spans has a
middle one; two roots and a limit of one make an eviction. Events only lengthen
the list of an open span, which nothing else in a store reads; the cases that
count are the ones the store must refuse. The transport needs two connections
for anything about reconnecting, and records so that one is on the way through
each, one is never written, and one fails its connection with another behind it.
A browser channel of two holds a patch behind a page, and the next
one drops it; the code's capacities (8, 32, 256, 1024) only make the same cases
rarer. A late reply needs one button and one later change; nothing in
the code orders replies and snapshots, so `LastWordIsCurrent` excuses the browser
that shows one (`overtaken`) until its next snapshot comes. A render cache needs a
parent, a child and an eviction; two heights, one of which cuts the cards off,
are enough for a reader to be at the bottom and not. Children that start under an
ended span are in `tui_late` only (`LateKids`).
`MaxRecord`, `MaxRecords`, `MaxEvents` and `MaxAttempt` bound counters that the
code does not bound. Deadlock is checked except in `Stream`, where a client
blocked on a channel that nobody reads, a stopped client and the last attempt
are real or bounded ends. In the other models a subscriber may always receive or
a handler always run.

Each property has a mutant in the modules ("Mutant of ..."), a plausible bug
that makes the run report a violation of that property.

## Fairness

`hub_live`: weak fairness of each goroutine inside a call, since the Go
scheduler is preemptive, and strong fairness of `Lock`, since `sync.RWMutex`
makes new readers wait behind a pending writer and `sync.Mutex` hands itself to a
waiter after a millisecond. The mutex of a span, which its methods hold over
`Publish`, is taken before the hub's lock and is not in this run. Nobody is obliged to call or to receive:
`CallsReturn` says that a subscriber that never receives blocks nobody.
`stream_live`: weak fairness of the client's goroutine and of each handler.
Publishing, receiving, cutting, restarting and cancelling have none. `NoLeak`
relies on the handler being in its select, or on its write failing, once the
connection is cut, as `net/http` promises.

## What is proved

Everything in this section holds for every value of the constants that the
assumptions of the modules allow.

`HubProofs` proves for any number of goroutines, channels and records, from the
assumptions on constants in `Hub` alone:

- `Invariance`, that `IInv` is an invariant, and from it `TypeCorrectness`
  (`TypeOK`), `Safety` (`NoPanic`) and `Subscriptions` (`OpenIffRegistered`);
- `Refinement`: the hub implements `FanOut` under the mapping of `Promise`.

`NoPanic` is not inductive: that the channel a publisher is about to send on is
open depends on who may have closed it since. `IInv` adds

- `Locking`: while somebody is in `"closing"` he has the lock alone, and every
  sender is a reader;
- `Registration`: the registered channels are exactly those given and not shut;
  what a publisher still has to visit is registered; a channel that is being
  subscribed is new and nobody else's; a closed hub has no registrations unless
  `Close` is still at work; a nil hub has none;
- `Freshness`: a record in flight is not yet in the channels still to be
  visited, and nobody else publishes it (for the refinement: no queue gets a
  record twice).

There is a lemma for each action, and under it a step for each conjunct that the
action can disturb. The refinement has one lemma for each action as well: a
successful `PublishSend` is a `Put`, `Subscribe` a `HandOut`, closing a channel a
`Shut`, `CloseMark` is `CloseHub`, `Receive` a `Get`, and the rest stutters.

`HubHistoryProofs` proves, on top of that invariant, `CallOrder`
(`RealTimeOrder`) and `Completeness` (`DeliveredOrFull`). Its own part `HInv`
adds

- `Past`: what was before a call has returned, what has returned is not in
  flight, and a call owes only to channels that had been given. So the record
  that is appended to a channel is before nothing that is in it;
- `Owing`: a sender still has to visit, or has served, every registered channel
  that it owes its record. It starts to hold when `Publish` copies the
  registrations, because a closed hub whose lock a reader can get has none, and
  `Subscribe` cannot disturb it because what it registers is new.

The steps that have no part in a `Publish` are dealt with together (`Aside`).

`StreamProofs` proves for any number of records and connections and buffers of
any capacity, from `StreamAssumption`:

- `StreamInvariance`, that `StreamInv` is an invariant, and from it
  `StreamTypeCorrectness` (`StreamTypeOK`) and `OrderedDelivery` (`InOrderOnce`).

That what the viewer has received is in order is not inductive: it depends on
what is still to come. `StreamInv` therefore says of every stage that it is in
order and before the next one: what has been sent on and what the client holds
(`Received`), wire, handler's hand and subscription of every connection, old
handlers included (`Chain`), and that on the current connection all of that is
behind what has been received (`Behind`). A new connection is behind everything
because nothing is on its way yet (`Places`). `OrderFewer` does the steps that
lose or end something in one go.

It proves two more facts about `Stream`, on that invariant:

- `LinkRefinement`: it implements `Link`. `Said` ties where the client stands to
  the state it reported last, so that a record is sent on only after "connected"
  and every report follows the one before it; `Whole` says that nothing behind
  the handler is a record that cannot be marshalled, and that nothing the client
  holds is one too long for it. Order and novelty come from `StreamInv`.
- `Gapless` (`NothingMissed`): the property is inductive together with `Served`,
  that a connection which is up has its handler, registered in the hub from the
  moment it is past its `Subscribe` until the hub is closed, and that the handler
  of a connection whose greeting has been read is in its loop. A handler that
  greeted first would break it at once.

`SpansProofs` proves about `Spans`, from the assumptions on constants in `Hub` and
`Spans`:

- `SpansInvariance`, that `SpansInv` is an invariant, and from it
  `SpansTypeCorrectness` (`SpansTypeOK`), `Order` (`SpanOrder`), `StartsFirst`
  (`StartFirst`) and `OneTrace` (`TracesAreTrees`);
- `Composition`: a behaviour of `Spans` is one of `Hub`, because no record is
  published twice. So all that is proved of the hub holds of the one under the
  spans.

What a channel holds depends on what is still in the hands of a publisher.
`Stories` says that a record which has been published has its place in the story
of its span, which begins with the start and stops at the end; `Turns`, that at
most one record of a span is in flight, the last of its story: the span's mutex
excludes two annotations, and a start is published before anybody else has been
given the span; `Traces`, that a span refers to a parent and a trace that have
been given out, whose starts are therefore past; `Budget`, that the goroutines
waiting for a mutex stay within the bound on records, which only types need.

It proves two more facts, on that invariant:

- `StoriesAreComplete` (`CompleteStory`). What a channel has of a story is not
  inductive: what is missing is on its way. `Tales` says so: while a registered
  channel has a span's start and has missed nothing, every record of that span
  is in the channel or carried by a goroutine that has still to come to it
  (`Reaches`). It starts to hold when the start enters the channel, because the
  start is then all there is of the story or the rest is behind it; `OnHub` and
  `Unborn` say that such a span is one of this hub, and that a channel which is
  not given yet is empty. `Delivers` sums up what a step of the hub does for one
  channel, so that the steps of `Hub` need no case each. At the end `Turns` makes
  the records on their way one.
- `ViewsAreFaithful` (`ViewIsFaithful`), with the assumption of `SpanView` on
  the names of kinds. It needs no invariant of its own: `SpanOrder` and
  `StartFirst` make a log `Tidy`, and for a tidy log the store after its first
  `k` records shows these (`Mirrors`), by induction on `k`. The step is a lemma
  for a start (`StartMirrors`: no record of the span, nor of a child, can have
  come before) and one for the rest (`RestMirrors`: no end has come before, so
  the record is not ignored).

`SpanStoreProofs` proves every property of a store that `store` checks, but
`WalksAgree`, and that timelines are in order and updates override, for any spans,
records, limits and clocks:

- `EndsAreFinal` (`EndIsFinal`) and `MarksKeep` (`MarksKeepTheirTime`). `Shape`
  is the little they need to know of a store, and there is a lemma for each
  operation that says what becomes of one span (`Kept`).
- `StoreTyped` (`StoreTypeOK`), `StoreIsForest` (`Forest`), `RootsNameNoParent`
  (`RootsAreRoots`), `OrderOfArrival` (`ArrivalOrder`) and `RemovalsAreExact`
  (`RemovalIsExact`), from the invariant `StoreInv`. Its main part is `Good`: the
  store is typed, a forest that agrees with its index, and `Grounded`, without
  orphans among its roots unless the option allows them. `Marked` and `Ordered`
  add that marks are readings of the clock, and that every list of
  siblings is the history of arrivals without the other spans.
- `TimelinesAreChronological` (`Chronological`), with `Timed`: what is tracked has
  a time, because a missing one becomes the epoch. The zero time of
  `timeline.go` is therefore no time of an entry (`ZeroTimeAssumption`), and the
  property says nothing of it.
- `UpdatesOverride` (`MergeIsOverride`), with `Listed`: attributes are a list. An
  update folds `Merge` over its list; the fold is determined by its values
  (`MergesBy`, of `StoreProofs`), so it has a value for one attribute more
  (`MergedAppend`), and `Overridden` says entry by entry, by induction on the list,
  what it does: shown
  keys stay in place, others are added once, and what is first of its key is the
  last of it in the list or what it was.

`StoreProofs` has the lemmas, for the store of any viewer. Every operation is one
of three: it takes out a set of spans that is closed under children (`IsCut`),
adds one span as the last of its list (`IsBorn`), or leaves each in its place.
`Untouched` says when a span, all that is below it and its depth are left alone.
What lies below a span (`Below`) is an intersection of closed sets, so its facts
need no induction. `Without` does, which is a recursive function on a sequence:
the library's induction theorems cannot be used, but that strict inclusion is
well founded on finite sets can be cited, and it gives induction on numbers
(`ByInduction`) and sequences (`BySequences`).
`Sorted`, a recursive function too, yields the entries of its argument, each
before those that it precedes (`SortedIs`): of the entries inserted so far an
entry that has come later is put before the first one it precedes, and so behind
all that precede it (`InsertInOrder`).

`WebProofs` proves every property that `web` checks. `LastWord`
(`LastWordIsCurrent`) holds for any number of browsers and any capacity of their
channels. The property is inductive but for `Words`, that
channels are sequences and a broadcast is at subscribed browsers alone. The
argument is that every handler which changes the state broadcasts a snapshot
rendered after the change (`Speaks`), and that a full channel loses its first
snapshot, never its last. It proves `WebPausedIsQuiet` (`PausedIsQuiet`) from a
second invariant, `Calm`: the store is `Good` and within its bound on roots, so
that what `ClearOpenSpans` leaves has no open span, and nothing that a paused
server does opens one. `WebTypeCorrectness` (`WebTypeOK`) needs a third, `Shown`:
whatever a channel holds or a broadcast has in its hands is a snapshot whose cards
are of spans (`SnapshotsAre`), so that no series of patches puts a card of anything
else on a page (`SwapsArePage`), and a channel that takes a snapshot had room or
has lost its oldest.

`PagesAddUp` (`PatchesAddUp`) is for an emitter whose events and children reach a
span each with a later time than those before it (`InOrder`). This is not a
convenience either: without it the
property is false, which is the finding of `web_order`. Its argument has three
layers.

- A page has a card for every span that is tracked, each with the depth of its span
  (`RootsIs`). `Covers` says when a patch accounts for the difference between two
  stores: the roots stay, what is new has its card in the patch, every other card is
  as it was but for the part that is replaced, which is as it will be. A page of the
  first store then becomes one of the second (`PatchCovers`).
- There is a lemma for each patch (`UpdateCovers`, `EndCovers`, `TimelineCovers`,
  `AppendCovers`). They need that a record changes the card of one span only: of its
  own, or of its parent, for a new span has one parent and is above nothing
  (`BornIsPart`), so no depth moves. An appended entry is right because it comes
  after all others and moves none of them (`TimelineGrows`), and because the list it
  goes to is on the page unless the timeline was `Short`. That a start is new to the
  store and that an event is not refused is in `Heard`: the store knows of no span
  that has not been started, and of no end that has not been said. `RecordRenders`
  puts this together for `RecordSnapshot`.
- `Drawn` is the property itself, and that the page in the hands of a broadcast is
  the store's. A snapshot that is broadcast makes of a page of the old store one of
  the new (`Turns`, `BroadcastDraws`). A full channel that loses its first snapshot
  is behind, unless that one had the status line only, or a full page behind it
  makes up for the loss (`SwappedRoots`, `PushOutDraws`).

`TuiProofs` proves every property that `tui` checks:

- `TuiPausedIsQuiet` (`PausedIsQuiet`), in the same way as for the web viewer,
  from `Calm`, where what the forwarder hands on must be a record, whenever it
  looked at `paused`; and `OneTickAtATime` (`OneTick`), which is inductive: a
  record schedules a repaint only when none is pending, and only the tick resets
  the flag.
- `TuiTypes` (`TuiTypeOK`), from `Sized`: every rendering, on the screen and in the
  cache, is of finitely many cards with a number of lines each, so that the
  viewport is always at a line.
- `ScreenStaysTrue` (`ScreenIsTrue`) and `TailIsFollowed` (`FollowsTail`), both for
  an emitter that starts no child under an ended span. This is not a convenience:
  with `LateKids` the first is false, which is the finding of `tui_late`. They
  rest on `Faithful`, of four parts. `Sync`: store and cache know of a span no more
  than has been said, so a span in the cache has ended and nothing more is to come
  for it. `Cached`: what the cache has for a span that is tracked is what its tree
  would be drawn as at this width, because nothing that can still happen touches
  it (`Untouched`, `DrawnSame`); so drawing with the cache is drawing without
  (`DrawnFromCache`). `Shown`: with no tick under way the screen is that drawing.
  `Followed`: a reader who stays at the end either is there, with the screen drawn
  from the present store, or the next tick takes him there. A handler that
  repaints the store it has not changed leaves the content as it is, and one that
  shrinks it (`Smaller`) leaves the reader at the new end.

Only model-checked:

- liveness under fairness (`CallsReturn`, `CloseReachesAll`, `NoLeak`,
  `CancelStops`), and ENABLED, which are beyond the prover;
- `UniqueIds`, what the nested folds of a page compute for every store; it is
  checked for all stores within the bounds.
- `WalksAgree`, whose walks are RECURSIVE operators.

## Where code and documentation disagree

- `timeline_missing`: "Entries without a timestamp sort last"
  (`state/timeline.go:19`); they sort first, at the Unix epoch
  (`state/state.go:320`).
- `web_order`: an event may come with an explicit timestamp, and timelines are
  "merged into chronological order"; the web viewer's append patch puts such an
  entry at the end (`server.go:320`, `338`) until the page is rendered anew.
- `tui_late`: a child may start under an ended span; once it ends too, the
  terminal viewer shows the parent's old rendering from its cache
  (`render.go:84`), without the child.

`RealTimeOrder` is as strong as it can be: two subscribers may see the records
of overlapping `Publish` calls in different orders, as `Publish` takes only the
read lock.

## Not modelled

Attribute constructors (`attr.go`), record formatting, identifiers (a span stands
for its own), and the clock of spans and events except where a timeline is
ordered by it or a timer shows it. Of the web pages: style sheets, wording,
highlighting of code, and the page's own scripts, which scroll, count timers and
open sections. Of the terminal: the wrapping of long lines, the footer with its
retry countdown, which every frame draws from the model, and quitting. Response
headers, refused requests, the generated protobuf code, `example/live` and the
`main` functions. Names, error texts and severities are data that no property
tells apart. `components_templ.go` is generated from
`components.templ`; it is the code that is built, so the map names its lines, and
its functions of styles and page frame are left out. A second
browser in `web` would only repeat the first, for they share nothing but the
snapshots, and `WebProofs` does not bound their number.

Hazards without a property are in `PROJECT.json` with the reason: mostly that
nothing in the repository says what should happen.

## Plan

In the order of importance, and all done but the last.

1. `FanOut`, `Hub`, `HubHistory` with `hub` and `hub_live`: the core everything
   else stands on.
2. `HubProofs`: invariant, safety, refinement.
3. `Spans` with `spans`, the composition of spans and hub; `SpanView`, the
   composition with a store behind them.
4. `Store`, `StoreWalk`, `SpanStore`, `Timeline` with their runs.
5. `Stream`: the transport; `Link`, what it promises.
6. `WebPage`, `WebViewer` and `Tui`.
7. `HubHistoryProofs`: order and completeness of what `Publish` delivers.
8. `StreamProofs`: the transport is in order, without gaps while connected, and
   implements `Link`.
9. `SpansProofs`, `StoreProofs`, `SpanStoreProofs`, `WebProofs`, `TuiProofs`.
10. The screen of the terminal viewer, the patches of the web viewer and the order
    of timelines, proved.
11. An abstract specification of the stream of records that a viewer may see,
    implemented by `Spans` and `Stream` in series, so that the emitters of
    `WebViewer` and `Tui` become a refinement. `StartFirst`, `SpanOrder` and `Link`
    are its two halves.
