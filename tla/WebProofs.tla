----------------------------- MODULE WebProofs -----------------------------
(***************************************************************************)
(* Theorems about module WebViewer, for any number of browsers, any        *)
(* records and channels of any capacity: the last snapshot of a browser    *)
(* tells the current state, whatever its full channel has lost; what a     *)
(* paused server holds has no open span; and what a browser shows, once it *)
(* has all that is coming, is what a reload would show.                    *)
(*                                                                         *)
(* The invariant (Words) adds only that a channel is a sequence, and that  *)
(* a broadcast goes on for subscribed browsers alone. That every handler   *)
(* which changes the state also broadcasts, with the lock held and a       *)
(* snapshot rendered after the change (Speaks), does the rest.             *)
(*                                                                         *)
(* That a pause is quiet needs a good store (StoreProofs) within its bound *)
(* (Calm): a mark may only touch spans that are open, and no handler but   *)
(* that of a record, which a pause keeps out, opens one.                   *)
(*                                                                         *)
(* The types need what the channels hold (Shown): snapshots whose cards    *)
(* are of spans, so that whatever series of patches a page is given, no    *)
(* card of anything else appears on it.                                    *)
(*                                                                         *)
(* That the patches add up to a rendering of the store, for entries each   *)
(* later than the last, is the rest of the module: what a series of        *)
(* snapshots makes of a page (Swapped), what a patch has to cover (Covers),*)
(* that the patch of every record does (RecordRenders), given what has     *)
(* been said of the spans (Heard), and that no step of the channels        *)
(* disturbs it (Drawn).                                                    *)
(***************************************************************************)
EXTENDS WebViewer, StoreProofs

Words ==
  /\ \E S : queue \in [Browsers -> Seq(S)]
  /\ DOMAIN status = Browsers /\ DOMAIN overtaken = Browsers
  /\ pushing \subseteq live /\ live \subseteq Browsers
  /\ LastWordIsCurrent

\* A snapshot that is broadcast tells the new state.
Speaks(s) == s.status = Status'

-----------------------------------------------------------------------------
LEMMA RecordSpeaks ==
  ASSUME NEW st, NEW r
  PROVE  Speaks(Full(st)) /\ Speaks(StatusOnly) /\ Speaks(RecordSnapshot(st, r))
<1>1. Speaks(Full(st)) /\ Speaks(StatusOnly)
  BY DEF Speaks, Full, StatusOnly
<1>2. ASSUME NEW patch PROVE Speaks(Patch(patch))
  BY DEF Speaks, Patch
<1>3. Speaks(StartPatch(st, r))
  BY <1>1, <1>2 DEF StartPatch
<1>4. Speaks(RecordSnapshot(st, r))
  BY <1>1, <1>2, <1>3 DEF RecordSnapshot
<1> QED
  BY <1>1, <1>4

\* What a browser has coming once a snapshot has been broadcast.
LEMMA BroadcastWords ==
  ASSUME Words, Unlocked, NEW s, Speaks(s), Broadcast(s)
  PROVE  Words'
<1>1. PICK S : queue \in [Browsers -> Seq(S)]
  BY DEF Words
<1> DEFINE full == {b \in live : Len(queue[b]) >= Queue}
<1>2. queue' \in [Browsers -> Seq(S \cup {s})]
  <2>1. \A q \in Seq(S) : q \in Seq(S \cup {s}) /\ Append(q, s) \in Seq(S \cup {s})
    OBVIOUS
  <2> QED
    BY <1>1, <2>1 DEF Broadcast
<1>3. /\ pushing' = full /\ full \subseteq live
      /\ UNCHANGED <<live, status, overtaken>>
  BY DEF Broadcast
<1>4. ASSUME NEW b \in live
      PROVE  Coming(b)' # <<>> /\ Last(Coming(b)').status = Status'
  <2>0. b \in Browsers /\ queue[b] \in Seq(S)
    BY <1>1 DEF Words
  <2>1. \A q \in Seq(S) : Append(q, s) # <<>> /\ Last(Append(q, s)) = s
    BY DEF Last
  <2>2. CASE b \in full
    <3>1. snap' = s /\ queue'[b] = queue[b]
      BY <2>0, <2>2 DEF Broadcast
    <3>2. Coming(b)' = Append(queue[b], s)
      BY <1>3, <2>2, <3>1 DEF Coming
    <3> QED
      BY <2>0, <2>1, <3>2 DEF Speaks
  <2>3. CASE b \notin full
    <3>1. queue'[b] = Append(queue[b], s)
      BY <2>0, <2>3 DEF Broadcast
    <3>2. Coming(b)' = Append(queue[b], s)
      BY <1>3, <2>3, <3>1 DEF Coming
    <3> QED
      BY <2>0, <2>1, <3>2 DEF Speaks
  <2> QED
    BY <2>2, <2>3
<1>5. LastWordIsCurrent'
  BY <1>3, <1>4 DEF LastWordIsCurrent
<1> QED
  BY <1>2, <1>3, <1>5 DEF Words

\* A full channel is given the snapshot at the expense of its oldest.
LEMMA PushOutWords ==
  ASSUME Words, NEW b \in Browsers, PushOut(b)
  PROVE  Words'
<1>1. PICK S : queue \in [Browsers -> Seq(S)]
  BY DEF Words
<1> DEFINE rest == IF queue[b] = <<>> THEN <<>> ELSE Tail(queue[b])
<1>2. queue[b] \in Seq(S) /\ rest \in Seq(S)
  BY <1>1
<1>3. /\ queue'[b] = Append(rest, snap) /\ queue' \in [Browsers -> Seq(S \cup {snap})]
      /\ \A c \in Browsers : c # b => queue'[c] = queue[c]
      /\ b \in pushing /\ pushing' = pushing \ {b}
      /\ \A c \in pushing' : snap' = snap
      /\ UNCHANGED <<live, status, overtaken>> /\ Status' = Status
  <2>1. \A q \in Seq(S) : q \in Seq(S \cup {snap}) /\ Append(q, snap) \in Seq(S \cup {snap})
    OBVIOUS
  <2>2. queue' = [queue EXCEPT ![b] = Append(rest, snap)]
    BY DEF PushOut, DropOldest
  <2>3. Status' = Status
    BY DEF PushOut, serverVars, Status
  <2> QED
    BY <1>1, <1>2, <2>1, <2>2, <2>3 DEF PushOut, browserVars
<1>4. /\ Coming(b) = Append(queue[b], snap) /\ Coming(b)' = Append(rest, snap)
      /\ Coming(b) # <<>> /\ Last(Coming(b)) = snap
      /\ Coming(b)' # <<>> /\ Last(Coming(b)') = snap
  <2>1. \A s \in Seq(S) : Append(s, snap) # <<>> /\ Last(Append(s, snap)) = snap
    BY DEF Last
  <2> HIDE DEF rest
  <2>2. Coming(b) = Append(queue[b], snap)
    BY <1>3 DEF Coming
  <2>3. Coming(b)' = Append(rest, snap)
    BY <1>3 DEF Coming
  <2> QED
    BY <1>2, <2>1, <2>2, <2>3
<1>5. \A c \in live : c # b => Coming(c)' = Coming(c)
  BY <1>3 DEF Coming, Words
<1>6. LastWordIsCurrent'
  BY <1>3, <1>4, <1>5 DEF LastWordIsCurrent, Words
<1> QED
  BY <1>3, <1>6 DEF Words

\* What a browser shows is what was first in its channel.
LEMMA ShowWords ==
  ASSUME Words, NEW b \in Browsers, Show(b)
  PROVE  Words'
<1>1. PICK S : queue \in [Browsers -> Seq(S)]
  BY DEF Words
<1> DEFINE q == queue[b]
<1>2. q \in Seq(S) /\ q # <<>> /\ Tail(q) \in Seq(S)
  BY <1>1 DEF Show
<1>3. /\ queue'[b] = Tail(q) /\ queue' \in [Browsers -> Seq(S)]
      /\ \A c \in Browsers : c # b => queue'[c] = queue[c]
      /\ \A c \in Browsers : c # b => status'[c] = status[c]
                                      /\ overtaken'[c] = overtaken[c]
      /\ status'[b] = Head(q).status
      /\ DOMAIN status' = Browsers /\ DOMAIN overtaken' = Browsers
      /\ UNCHANGED <<live, pushing, snap>> /\ Status' = Status
  <2>1. Status' = Status
    BY DEF Show, serverVars, Status
  <2> QED
    BY <1>1, <1>2, <2>1 DEF Show, Words
<1>4. \A c \in live : c # b => Coming(c)' = Coming(c)
  BY <1>3 DEF Coming, Words
<1>5. /\ Coming(b) # <<>>
      /\ Coming(b)' = <<>> => Last(Coming(b)) = Head(q)
      /\ Coming(b)' # <<>> => Last(Coming(b)') = Last(Coming(b))
  <2>1. CASE b \in pushing
    <3>1. Coming(b) = Append(q, snap) /\ Coming(b)' = Append(Tail(q), snap)
      BY <1>3, <2>1 DEF Coming
    <3>2. \A s \in Seq(S) : Append(s, snap) # <<>> /\ Last(Append(s, snap)) = snap
      BY DEF Last
    <3> QED
      BY <1>2, <3>1, <3>2
  <2>2. CASE b \notin pushing
    <3>1. Coming(b) = q /\ Coming(b)' = Tail(q)
      BY <1>3, <2>2 DEF Coming
    <3>2. \A s \in Seq(S) : s # <<>> =>
            /\ Tail(s) = <<>> => Last(s) = Head(s)
            /\ Tail(s) # <<>> => Last(Tail(s)) = Last(s)
      <4> SUFFICES ASSUME NEW s \in Seq(S), s # <<>>
                   PROVE  /\ Tail(s) = <<>> => Last(s) = Head(s)
                          /\ Tail(s) # <<>> => Last(Tail(s)) = Last(s)
        OBVIOUS
      <4>1. PICK t \in Seq(S) : /\ t = Tail(s) /\ Len(t) = Len(s) - 1
                                /\ \A i \in 1 .. Len(t) : t[i] = s[i + 1]
        BY HeadTailProperties
      <4>2. Len(s) \in Nat \ {0} /\ Last(s) = s[Len(s)] /\ Head(s) = s[1]
        BY EmptySeq DEF Last
      <4>3. CASE t = <<>>
        <5>1. Len(t) = 0
          BY <4>3
        <5>2. Len(s) = 1
          BY <4>1, <4>2, <5>1
        <5> QED
          BY <4>1, <4>2, <4>3, <5>2
      <4>4. CASE t # <<>>
        <5>1. Len(t) \in Nat \ {0}
          BY <4>4, EmptySeq
        <5>2. Last(t) = t[Len(t)] /\ t[Len(t)] = s[Len(t) + 1] /\ Len(t) + 1 = Len(s)
          BY <4>1, <4>2, <5>1 DEF Last
        <5> QED
          BY <4>1, <4>2, <4>4, <5>2
      <4> QED
        BY <4>3, <4>4
    <3> QED
      BY <1>2, <3>1, <3>2
  <2> QED
    BY <2>1, <2>2
<1>6. LastWordIsCurrent'
  <2>1. ASSUME NEW c \in live, c # b, ~overtaken'[c] \/ Coming(c)' # <<>>
        PROVE  (IF Coming(c)' = <<>> THEN status'[c]
                ELSE Last(Coming(c)').status) = Status'
    BY <1>3, <1>4, <2>1 DEF Words, LastWordIsCurrent
  <2>2. ASSUME b \in live
        PROVE  (IF Coming(b)' = <<>> THEN status'[b]
                ELSE Last(Coming(b)').status) = Status'
    BY <1>3, <1>5, <2>2 DEF Words, LastWordIsCurrent
  <2> QED
    BY <1>3, <2>1, <2>2 DEF LastWordIsCurrent
<1> QED
  BY <1>3, <1>6 DEF Words

\* A reply that is shown is noted when it does not tell the current state.
LEMMA ReplyWords ==
  ASSUME Words, NEW b \in Browsers, ReplyArrives(b)
  PROVE  Words'
<1>1. /\ UNCHANGED <<queue, pushing, snap, live>> /\ Status' = Status
      /\ pushing = {}
      /\ \A c \in Browsers : c # b => status'[c] = status[c]
                                      /\ overtaken'[c] = overtaken[c]
      /\ status'[b] = reply[b]
      /\ b \in live /\ queue[b] = <<>> => overtaken'[b] = (reply[b] # Status)
      /\ DOMAIN status' = Browsers /\ DOMAIN overtaken' = Browsers
  <2>1. Status' = Status
    BY DEF ReplyArrives, serverVars, Status
  <2> QED
    BY <2>1 DEF ReplyArrives, Words, Unlocked
<1>2. \A c \in live : Coming(c)' = Coming(c) /\ Coming(c) = queue[c]
  BY <1>1 DEF Coming
<1>3. LastWordIsCurrent'
  <2>1. ASSUME NEW c \in live, ~overtaken'[c] \/ Coming(c)' # <<>>
        PROVE  (IF Coming(c)' = <<>> THEN status'[c]
                ELSE Last(Coming(c)').status) = Status'
    BY <1>1, <1>2, <2>1 DEF Words, LastWordIsCurrent
  <2> QED
    BY <1>1, <2>1 DEF LastWordIsCurrent
<1> QED
  BY <1>1, <1>3 DEF Words

LEMMA LoadWords ==
  ASSUME Words, NEW b \in Browsers, Load(b)
  PROVE  Words'
<1>1. /\ UNCHANGED <<queue, pushing, snap, live, overtaken>> /\ Status' = Status
      /\ \A c \in Browsers : c # b => status'[c] = status[c]
      /\ status'[b] = Status /\ DOMAIN status' = Browsers
  <2>1. Status' = Status
    BY DEF Load, serverVars, Status
  <2> QED
    BY <2>1 DEF Load, Words
<1>2. \A c \in live : Coming(c)' = Coming(c)
  BY <1>1 DEF Coming
<1> QED
  BY <1>1, <1>2 DEF Words, LastWordIsCurrent

LEMMA SubscribeWords ==
  ASSUME Words, NEW b \in Browsers, Subscribe(b)
  PROVE  Words'
<1>1. PICK S : queue \in [Browsers -> Seq(S)]
  BY DEF Words
<1> DEFINE s == Full(store)
<1>2. /\ queue' = [queue EXCEPT ![b] = <<s>>] /\ pushing = {} /\ live' = live \cup {b}
      /\ UNCHANGED <<pushing, snap, status, overtaken>> /\ Status' = Status
      /\ s.status = Status'
  <2>1. Status' = Status
    BY DEF Subscribe, serverVars, Status
  <2> QED
    BY <2>1 DEF Subscribe, Unlocked, Full
<1> HIDE DEF s
<1>3. /\ queue' \in [Browsers -> Seq(S \cup {s})] /\ queue'[b] = <<s>>
      /\ \A c \in Browsers : c # b => queue'[c] = queue[c]
  <2>1. \A q \in Seq(S) : q \in Seq(S \cup {s})
    OBVIOUS
  <2>2. <<s>> \in Seq(S \cup {s})
    OBVIOUS
  <2> QED
    BY <1>1, <1>2, <2>1, <2>2
<1>4. Coming(b)' # <<>> /\ Last(Coming(b)') = s
  BY <1>2, <1>3 DEF Coming, Last
<1>5. \A c \in live : c # b => Coming(c)' = Coming(c)
  BY <1>2, <1>3 DEF Coming, Words
<1>6. LastWordIsCurrent'
  <2>1. ASSUME NEW c \in live, c # b, ~overtaken'[c] \/ Coming(c)' # <<>>
        PROVE  (IF Coming(c)' = <<>> THEN status'[c]
                ELSE Last(Coming(c)').status) = Status'
    BY <1>2, <1>5, <2>1 DEF Words, LastWordIsCurrent
  <2> QED
    BY <1>2, <1>4, <2>1 DEF LastWordIsCurrent
<1> QED
  BY <1>2, <1>3, <1>6 DEF Words

\* Only what other browsers have matters of one that leaves.
LEMMA UnsubscribeWords ==
  ASSUME Words, NEW b \in Browsers, Unsubscribe(b)
  PROVE  Words'
<1>1. PICK S : queue \in [Browsers -> Seq(S)]
  BY DEF Words
<1>2. /\ queue' \in [Browsers -> Seq(S)] /\ pushing = {} /\ live' = live \ {b}
      /\ \A c \in Browsers : c # b => /\ queue'[c] = queue[c]
                                      /\ status'[c] = status[c]
                                      /\ overtaken'[c] = overtaken[c]
      /\ UNCHANGED <<pushing, snap>> /\ Status' = Status
      /\ DOMAIN status' = Browsers /\ DOMAIN overtaken' = Browsers
  <2>1. Status' = Status
    BY DEF Unsubscribe, serverVars, Status
  <2> QED
    BY <1>1, <2>1 DEF Unsubscribe, Words, Unlocked
<1>3. \A c \in live : c # b => Coming(c)' = Coming(c)
  BY <1>2 DEF Coming, Words
<1>4. LastWordIsCurrent'
  <2>1. ASSUME NEW c \in live', ~overtaken'[c] \/ Coming(c)' # <<>>
        PROVE  (IF Coming(c)' = <<>> THEN status'[c]
                ELSE Last(Coming(c)').status) = Status'
    BY <1>2, <1>3, <2>1 DEF Words, LastWordIsCurrent
  <2> QED
    BY <2>1 DEF LastWordIsCurrent
<1> QED
  BY <1>2, <1>4 DEF Words

-----------------------------------------------------------------------------
LEMMA WordsStep == Words /\ [WebNext]_webVars => Words'
<1> SUFFICES ASSUME Words, [WebNext]_webVars PROVE Words'
  OBVIOUS
<1>1. CASE UNCHANGED webVars
  <2>1. UNCHANGED <<store, conn, paused, live, status, overtaken, queue, pushing,
                    snap>>
    BY <1>1 DEF webVars, serverVars, browserVars
  <2> QED
    BY <2>1 DEF Words, LastWordIsCurrent, Coming, Status
<1>2. ASSUME NEW r, Lose(r) PROVE Words'
  <2>1. UNCHANGED <<store, conn, paused, live, status, overtaken, queue, pushing,
                    snap>>
    BY <1>2 DEF Lose, serverVars, browserVars
  <2> QED
    BY <2>1 DEF Words, LastWordIsCurrent, Coming, Status
<1>3. ASSUME NEW r, ApplyRecord(r) PROVE Words'
  BY <1>3, RecordSpeaks, BroadcastWords DEF ApplyRecord
<1>4. ASSUME NEW c \in States, SetConnectionState(c) PROVE Words'
  BY <1>4, RecordSpeaks, BroadcastWords DEF SetConnectionState
<1>5. ASSUME NEW b \in Browsers, TogglePaused(b) \/ ClearAll(b) PROVE Words'
  BY <1>5, RecordSpeaks, BroadcastWords DEF TogglePaused, ClearAll, CanPost
<1> QED
  BY <1>1, <1>2, <1>3, <1>4, <1>5, ReplyWords, LoadWords, SubscribeWords,
     UnsubscribeWords, ShowWords, PushOutWords DEF WebNext

LEMMA WordsInit == WebInit => Words
<1> SUFFICES ASSUME WebInit PROVE Words
  OBVIOUS
<1>1. queue \in [Browsers -> Seq({})]
  BY DEF WebInit
<1> QED
  BY <1>1 DEF WebInit, Words, LastWordIsCurrent

\* What the channels of the browsers hold, and who a broadcast is at.
THEOREM WordsInvariance == WebSpec => []Words
  BY WordsInit, WordsStep, PTL DEF WebSpec

\* However slow a browser is, the last snapshot on its way tells the current
\* connection state, number of roots and pause (server.go:254-261).
THEOREM LastWord == WebSpec => []LastWordIsCurrent
  BY WordsInvariance, PTL DEF Words

-----------------------------------------------------------------------------
(***************************************************************************)
(* The store of the viewer: a forest, of a bounded number of trees, with   *)
(* no open span while the viewer is paused.                                *)
(***************************************************************************)
Calm ==
  /\ Good(store) /\ Len(store.roots) <= MaxRoots /\ paused \in BOOLEAN
  /\ told \in [SpanID -> {"nothing", "start", "end"}]
  /\ PausedIsQuiet

\* What the emitter says is a record.
LEMMA SaysRecords ==
  ASSUME told \in [SpanID -> {"nothing", "start", "end"}],
         NEW x \in SpanID, NEW r \in Says(x)
  PROVE  /\ IsRecord(r)
         /\ Tell(r) => told' \in [SpanID -> {"nothing", "start", "end"}]
<1>1. told[x] \in {"nothing", "start", "end"}
  OBVIOUS
<1>2. ASSUME told[x] = "nothing"
      PROVE  r.kind = "start" /\ r.id = x /\ r.up \in SpanID \cup {None}
  <2>1. r \in Starts(x)
    BY <1>2 DEF Says
  <2>2. PICK y \in Parents[x] :
          r \in [kind : {"start"}, id : {x}, up : {y}, attrs : {<<>>},
                 at : IF y = None THEN {1} ELSE TimesIn(y)]
    BY <2>1 DEF Starts
  <2>3. y \in SpanID \cup {None}
    BY WebAssumption
  <2> QED
    BY <2>2, <2>3
<1>3. ASSUME told[x] = "start"
      PROVE  r.kind \in {"update", "end", "event"} /\ r.id = x
  BY <1>3 DEF Says
<1>4. told[x] # "end"
  BY DEF Says
<1>5. r.id = x /\ IsRecord(r)
  BY <1>1, <1>2, <1>3, <1>4 DEF IsRecord
<1>6. Tell(r) => told' \in [SpanID -> {"nothing", "start", "end"}]
  <2>1. CASE r.kind \in {"start", "end"}
    BY <1>5, <2>1 DEF Tell
  <2>2. CASE r.kind \notin {"start", "end"}
    BY <2>2 DEF Tell
  <2> QED
    BY <2>1, <2>2
<1> QED
  BY <1>5, <1>6

LEMMA CalmStep ==
  ASSUME Calm, [WebNext]_webVars
  PROVE  Calm'
<1>0. /\ Good(store) /\ Len(store.roots) <= MaxRoots /\ store.allow \in BOOLEAN
      /\ store.roots \in Seq(SpanID) /\ Len(store.roots) \in Nat
      /\ MaxRoots \in Nat \ {0} /\ PausedIsQuiet /\ paused \in BOOLEAN
      /\ told \in [SpanID -> {"nothing", "start", "end"}]
  BY WebAssumption, LenProperties DEF Calm, Good, Typed
<1>1. ASSUME UNCHANGED <<serverVars, told>> PROVE Calm'
  BY <1>1 DEF serverVars, Calm, PausedIsQuiet
<1>2. CASE UNCHANGED webVars
  BY <1>1, <1>2 DEF webVars
<1>3. ASSUME NEW x \in SpanID, NEW r \in Says(x), Lose(r) PROVE Calm'
  <2>1. told' \in [SpanID -> {"nothing", "start", "end"}] /\ UNCHANGED serverVars
    BY <1>0, <1>3, SaysRecords DEF Lose
  <2> QED
    BY <2>1 DEF serverVars, Calm, PausedIsQuiet
<1>4. ASSUME NEW x \in SpanID, NEW r \in Says(x), ApplyRecord(r) PROVE Calm'
  <2>1. /\ told' \in [SpanID -> {"nothing", "start", "end"}] /\ IsRecord(r)
        /\ store' = LimitRoots(Apply(store, r), MaxRoots) /\ ~paused'
        /\ paused' \in BOOLEAN
    <3>1. Tell(r) /\ ~paused' /\ UNCHANGED paused
          /\ store' = LimitRoots(Apply(store, r), MaxRoots)
      BY <1>4 DEF ApplyRecord
    <3>2. IsRecord(r) /\ (Tell(r) => told' \in [SpanID -> {"nothing", "start", "end"}])
      BY <1>0, <1>4, SaysRecords
    <3> QED
      BY <1>0, <3>1, <3>2
  <2>2. Good(Apply(store, r))
    BY <1>0, <2>1, ApplyGood
  <2>3. Good(store') /\ Len(store'.roots) <= MaxRoots
    <3> DEFINE s == Apply(store, r)
    <3>1. Good(s) /\ MaxRoots \in Nat \ {0}
      BY <1>0, <2>2
    <3> HIDE DEF s
    <3>2. /\ Good(LimitRoots(s, MaxRoots))
          /\ Len(LimitRoots(s, MaxRoots).roots) <= MaxRoots
      BY <3>1, LimitRootsGood, LimitRootsLen
    <3> QED
      BY <2>1, <3>2 DEF s
  <2> QED
    BY <2>1, <2>3 DEF Calm, PausedIsQuiet
<1>5. ASSUME NEW c \in States, SetConnectionState(c) PROVE Calm'
  <2>1. /\ UNCHANGED <<paused, told>>
        /\ store' = IF c.state \in Down THEN MarkOpenSpansStale(store, 1) ELSE store
    BY <1>5 DEF SetConnectionState
  <2>2. CASE c.state \in Down
    <3>1. store' = MarkOpenSpansStale(store, 1)
      BY <2>1, <2>2
    <3>2. Good(store') /\ store'.roots = store.roots
      BY <1>0, <3>1, MarkGood
    <3>3. HasOpenSpans(store') <=> HasOpenSpans(store)
      BY <1>0, <3>1, MarkIsQuiet
    <3> QED
      BY <1>0, <2>1, <3>2, <3>3 DEF Calm, PausedIsQuiet
  <2>3. CASE c.state \notin Down
    BY <1>0, <2>1, <2>3 DEF Calm, PausedIsQuiet
  <2> QED
    BY <2>2, <2>3
<1>6. ASSUME NEW b \in Browsers, TogglePaused(b) PROVE Calm'
  <2>1. /\ told' = told /\ paused' = ~paused
        /\ store' = IF paused THEN store ELSE ClearOpenSpans(store)
    BY <1>6 DEF TogglePaused, AtPause
  <2>2. CASE paused
    BY <1>0, <2>1, <2>2 DEF Calm, PausedIsQuiet
  <2>3. CASE ~paused
    <3>1. /\ Good(store') /\ ~HasOpenSpans(store')
          /\ store'.roots = Without(store.roots, Doomed(store))
      BY <1>0, <2>1, <2>3, ClearOpenSpansGood
    <3>2. Len(store'.roots) \in Nat /\ Len(store'.roots) <= Len(store.roots)
      BY <1>0, <3>1, WithoutLen
    <3>3. Len(store'.roots) <= MaxRoots
      BY <1>0, <3>2
    <3> QED
      BY <1>0, <2>1, <3>1, <3>3 DEF Calm, PausedIsQuiet
  <2> QED
    BY <1>0, <2>2, <2>3
<1>7. ASSUME NEW b \in Browsers, ClearAll(b) PROVE Calm'
  <2>1. UNCHANGED <<paused, told>> /\ store' = Empty(store.allow)
    BY <1>7 DEF ClearAll, Clear
  <2>2. Good(store') /\ ~HasOpenSpans(store')
    BY <1>0, <2>1, EmptyGood, EmptyIsQuiet
  <2>3. Len(store'.roots) = 0
    BY <2>1, EmptySeq DEF Empty
  <2> QED
    BY <1>0, <2>1, <2>2, <2>3 DEF Calm, PausedIsQuiet
<1>8. ASSUME NEW b \in Browsers,
             ReplyArrives(b) \/ Load(b) \/ Subscribe(b) \/ Unsubscribe(b)
               \/ Show(b) \/ PushOut(b)
      PROVE Calm'
  <2>1. UNCHANGED <<serverVars, told>>
    BY <1>8 DEF ReplyArrives, Load, Subscribe, Unsubscribe, Show, PushOut
  <2> QED
    BY <1>1, <2>1
<1> QED
  BY <1>2, <1>3, <1>4, <1>5, <1>6, <1>7, <1>8 DEF WebNext

LEMMA CalmInit == WebInit => Calm
<1> SUFFICES ASSUME WebInit PROVE Calm
  OBVIOUS
<1>1. /\ store = Empty(Allow) /\ Allow \in BOOLEAN /\ paused = FALSE
      /\ told = [x \in SpanID |-> "nothing"] /\ MaxRoots \in Nat
  BY WebAssumption DEF WebInit
<1>2. Good(store)
  BY <1>1, EmptyGood
<1>3. Len(store.roots) = 0
  BY <1>1, EmptySeq DEF Empty
<1>4. Len(store.roots) <= MaxRoots /\ paused \in BOOLEAN /\ ~paused
  <2>1. Len(store.roots) <= MaxRoots
    <3>1. \A n, m : n = 0 /\ m \in Nat => n <= m
      OBVIOUS
    <3> QED
      BY <1>1, <1>3, <3>1
  <2>2. paused \in BOOLEAN /\ ~paused
    BY <1>1
  <2> QED
    BY <2>1, <2>2
<1>5. told \in [SpanID -> {"nothing", "start", "end"}]
  BY <1>1
<1> QED
  BY <1>2, <1>4, <1>5 DEF Calm, PausedIsQuiet

LEMMA CalmAlways == WebSpec => []Calm
  BY CalmInit, CalmStep, PTL DEF WebSpec

\* A viewer that is paused tracks no open span, so that no timer runs on a span
\* whose end has been thrown away (server.go:193-195, 233-235).
THEOREM WebPausedIsQuiet == WebSpec => []PausedIsQuiet
<1>1. Calm => PausedIsQuiet
  BY DEF Calm
<1> QED
  BY <1>1, CalmAlways, PTL

-----------------------------------------------------------------------------
(***************************************************************************)
(* What the channels hold and the pages show are snapshots and pages of    *)
(* spans.                                                                  *)
(***************************************************************************)
IsPage(p) == DOMAIN p = {"order", "card"} /\ DOMAIN p.card \subseteq SpanID

IsSnapshot(s) ==
  /\ s.kind \in {"roots", "patch", "status"}
  /\ s.kind = "roots" => IsPage(s.page)
  /\ s.kind = "patch" => /\ s.patch.part \in {"summary", "attrs", "timeline", "list"}
                         /\ DOMAIN s.patch.cards \subseteq SpanID

Fed(q) == \A i \in DOMAIN q : IsSnapshot(q[i])

Shown ==
  /\ \A b \in Browsers :
       /\ Fed(queue[b]) /\ Len(queue[b]) <= Queue
       /\ b \notin live => queue[b] = <<>>
       /\ IsPage(page[b])
  /\ DOMAIN page = Browsers
  /\ pushing # {} => IsSnapshot(snap)

LEMMA SpanCardsAre ==
  ASSUME NEW st, NEW X, NEW depth
  PROVE  DOMAIN SpanCards(st, X, depth) \subseteq SpanID
BY DEF SpanCards, Below

LEMMA RootsArePage ==
  ASSUME NEW st
  PROVE  IsPage(Roots(st))
BY SpanCardsAre DEF Roots, IsPage

LEMMA NothingIsPage == IsPage(NoPage) /\ DOMAIN <<>> \subseteq SpanID
BY DEF NoPage, IsPage

\* What is rendered of the spans is about spans.
LEMMA PatchesAre ==
  ASSUME NEW st, NEW x, NEW item, NEW d,
         NEW patch \in {SpanSummaryPatch(st, x), SpanAttributesPatch(st, x),
                        SpanTimelinePatch(st, x, d), TimelineAppendPatch(st, x, item, d)}
  PROVE  IsSnapshot(Patch(patch))
<1>1. /\ patch.part \in {"summary", "attrs", "timeline", "list"}
      /\ DOMAIN patch.cards \subseteq SpanID
  BY NothingIsPage, SpanCardsAre
     DEF SpanSummaryPatch, SpanAttributesPatch, SpanTimelinePatch,
         TimelineAppendPatch, CardsInside
<1> QED
  BY <1>1 DEF IsSnapshot, Patch

LEMMA FullAndStatus ==
  ASSUME NEW st
  PROVE  IsSnapshot(Full(st)) /\ IsSnapshot(StatusOnly)
<1>1. IsSnapshot(Full(st))
  BY RootsArePage DEF IsSnapshot, Full
<1>2. IsSnapshot(StatusOnly)
  BY DEF IsSnapshot, StatusOnly
<1> QED
  BY <1>1, <1>2

LEMMA SnapshotsAre ==
  ASSUME NEW st, NEW r, IsRecord(r)
  PROVE  IsSnapshot(Full(st)) /\ IsSnapshot(RecordSnapshot(st, r))
<1>1. IsSnapshot(Full(st))
  BY FullAndStatus
<1>3. IsSnapshot(StartPatch(st, r))
  BY <1>1, PatchesAre DEF StartPatch
<1>4. r.kind \in {"start", "update", "event", "end"}
  BY DEF IsRecord
<1>5. ASSUME NEW x PROVE
        /\ IsSnapshot(Patch(EventPatch(st, x)))
        /\ IsSnapshot(Patch(SpanAttributesPatch(st, x)))
        /\ IsSnapshot(Patch(SpanSummaryPatch(st, x)))
  BY PatchesAre DEF EventPatch
<1>6. IsSnapshot(RecordSnapshot(st, r))
  BY <1>1, <1>3, <1>4, <1>5 DEF RecordSnapshot
<1> QED
  BY <1>1, <1>6

\* Whatever part of a card is swapped, no card of anything else appears.
LEMMA SwapsArePage ==
  ASSUME NEW p, IsPage(p), NEW s, IsSnapshot(s)
  PROVE  IsPage(Swap(p, s))
<1>1. CASE s.kind = "roots"
  BY <1>1 DEF Swap, IsSnapshot
<1>2. CASE s.kind = "status"
  BY <1>2 DEF Swap, IsSnapshot
<1>3. CASE s.kind = "patch"
  <2> DEFINE patch == s.patch
             x     == patch.span
             old   == p.card[x]
             both  == [y \in DOMAIN patch.cards \cup DOMAIN p.card |->
                         IF y \in DOMAIN patch.cards THEN patch.cards[y] ELSE p.card[y]]
  <2>1. Swap(p, s) = Patched(p, patch)
    BY <1>3 DEF Swap
  <2>2. /\ patch.part \in {"summary", "attrs", "timeline", "list"}
        /\ DOMAIN p.card \subseteq SpanID /\ DOMAIN both \subseteq SpanID
    BY <1>3 DEF IsSnapshot, IsPage
  <2>3. ASSUME NEW c, DOMAIN c \subseteq SpanID
        PROVE  IsPage([p EXCEPT !.card = c])
    BY <2>3 DEF IsPage
  <2>4. CASE x \notin DOMAIN p.card
    BY <2>1, <2>4 DEF Patched
  <2>5. CASE x \in DOMAIN p.card /\ patch.part = "summary"
    <3>1. Patched(p, patch) = [p EXCEPT !.card[x].summary = patch.new]
      BY <2>5 DEF Patched
    <3>2. IsPage([p EXCEPT !.card[x].summary = patch.new])
      BY <2>2 DEF IsPage
    <3> QED
      BY <2>1, <3>1, <3>2
  <2>6. CASE x \in DOMAIN p.card /\ patch.part = "attrs"
    <3>1. Patched(p, patch) = [p EXCEPT !.card[x].attrs = patch.new]
      BY <2>6 DEF Patched
    <3>2. IsPage([p EXCEPT !.card[x].attrs = patch.new])
      BY <2>2 DEF IsPage
    <3> QED
      BY <2>1, <3>1, <3>2
  <2>7. CASE x \in DOMAIN p.card /\ patch.part = "timeline"
    <3> DEFINE c == [both EXCEPT ![x] = [old EXCEPT !.timeline = patch.new]]
    <3>1. Patched(p, patch) = [p EXCEPT !.card = c]
      BY <2>7 DEF Patched
    <3>2. DOMAIN c \subseteq SpanID
      BY <2>2
    <3> HIDE DEF c
    <3> QED
      BY <2>1, <2>3, <3>1, <3>2
  <2>8. CASE x \in DOMAIN p.card /\ patch.part = "list"
    <3> DEFINE c == [both EXCEPT ![x] =
                      [old EXCEPT !.timeline.list = Append(@, patch.new)]]
    <3>1. Patched(p, patch) = IF old.timeline.list = <<>> THEN p
                              ELSE [p EXCEPT !.card = c]
      BY <2>8 DEF Patched
    <3>2. DOMAIN c \subseteq SpanID
      BY <2>2
    <3> HIDE DEF c
    <3> QED
      BY <2>1, <2>3, <3>1, <3>2
  <2> QED
    BY <2>2, <2>4, <2>5, <2>6, <2>7, <2>8
<1> QED
  BY <1>1, <1>2, <1>3 DEF IsSnapshot

\* A snapshot more, and one less, in a channel.
LEMMA FedAppend ==
  ASSUME NEW S, NEW q \in Seq(S), Fed(q), NEW s, IsSnapshot(s)
  PROVE  Fed(Append(q, s)) /\ Len(Append(q, s)) = Len(q) + 1
<1>1. Append(q, s) \in Seq(S \cup {s}) /\ Len(Append(q, s)) = Len(q) + 1
  OBVIOUS
<1>2. \A i \in 1 .. Len(q) + 1 :
        Append(q, s)[i] = IF i = Len(q) + 1 THEN s ELSE q[i]
  OBVIOUS
<1>3. DOMAIN q = 1 .. Len(q) /\ DOMAIN Append(q, s) = 1 .. Len(q) + 1 /\ Len(q) \in Nat
  OBVIOUS
<1>4. \A i \in 1 .. Len(q) + 1 : i = Len(q) + 1 \/ i \in 1 .. Len(q)
  BY <1>3
<1> QED
  BY <1>1, <1>2, <1>3, <1>4 DEF Fed

LEMMA FedTail ==
  ASSUME NEW S, NEW q \in Seq(S), Fed(q), q # <<>>
  PROVE  Fed(Tail(q)) /\ Len(Tail(q)) = Len(q) - 1 /\ IsSnapshot(Head(q))
<1>1. PICK t \in Seq(S) : /\ t = Tail(q) /\ Len(t) = Len(q) - 1
                          /\ \A i \in 1 .. Len(t) : t[i] = q[i + 1]
  BY HeadTailProperties
<1>2. Len(q) \in Nat \ {0} /\ Head(q) = q[1] /\ DOMAIN q = 1 .. Len(q)
      /\ DOMAIN t = 1 .. Len(t)
  BY EmptySeq
<1>3. \A i \in 1 .. Len(t) : i + 1 \in 1 .. Len(q)
  BY <1>1, <1>2
<1>4. 1 \in DOMAIN q
  BY <1>2
<1> QED
  BY <1>1, <1>2, <1>3, <1>4 DEF Fed

\* A channel with room takes one snapshot more.
LEMMA BroadcastShown ==
  ASSUME Words, Shown, Unlocked, NEW s, IsSnapshot(s), Broadcast(s)
  PROVE  Shown'
<1>1. PICK S : queue \in [Browsers -> Seq(S)]
  BY DEF Words
<1> DEFINE full == {b \in live : Len(queue[b]) >= Queue}
<1>2. /\ pushing' = full /\ full \subseteq live
      /\ pushing' # {} => snap' = s
      /\ UNCHANGED <<live, page>>
      /\ \A b \in Browsers : queue'[b] = IF b \in live \ full THEN Append(queue[b], s)
                                         ELSE queue[b]
  BY DEF Broadcast
<1>3. ASSUME NEW b \in Browsers
      PROVE  Fed(queue'[b]) /\ Len(queue'[b]) <= Queue
             /\ (b \notin live => queue'[b] = <<>>)
  <2>1. queue[b] \in Seq(S) /\ Fed(queue[b]) /\ Len(queue[b]) <= Queue
        /\ (b \notin live => queue[b] = <<>>) /\ Len(queue[b]) \in Nat
        /\ Queue \in Nat
    BY <1>1, WebAssumption DEF Shown
  <2>2. CASE b \in live \ full
    <3>1. Fed(Append(queue[b], s)) /\ Len(Append(queue[b], s)) = Len(queue[b]) + 1
      BY <2>1, FedAppend
    <3>2. Len(queue[b]) < Queue
      BY <2>1, <2>2
    <3>3. Len(queue[b]) + 1 <= Queue
      BY <2>1, <3>2
    <3> QED
      BY <1>2, <2>2, <3>1, <3>3
  <2>3. CASE b \notin live \ full
    BY <1>2, <2>1, <2>3
  <2> QED
    BY <2>2, <2>3
<1> QED
  BY <1>2, <1>3 DEF Shown

\* The oldest makes room.
LEMMA PushOutShown ==
  ASSUME Words, Shown, NEW b \in Browsers, PushOut(b)
  PROVE  Shown'
<1>1. PICK S : queue \in [Browsers -> Seq(S)]
  BY DEF Words
<1> DEFINE rest == IF queue[b] = <<>> THEN <<>> ELSE Tail(queue[b])
<1>2. /\ queue[b] \in Seq(S) /\ Fed(queue[b]) /\ Len(queue[b]) <= Queue
      /\ Len(queue[b]) \in Nat /\ Queue \in Nat \ {0}
      /\ pushing \subseteq live /\ IsSnapshot(snap) /\ b \in pushing
  BY <1>1, WebAssumption DEF Shown, Words, PushOut
<1>3. /\ queue' = [queue EXCEPT ![b] = Append(rest, snap)]
      /\ pushing' = pushing \ {b} /\ (pushing' # {} => snap' = snap)
      /\ UNCHANGED <<live, page>>
  BY <1>2 DEF PushOut, DropOldest, browserVars
<1>4. rest \in Seq(S) /\ Fed(rest) /\ Len(rest) + 1 <= Queue
  <2>1. CASE queue[b] = <<>>
    <3>1. rest = <<>> /\ Len(rest) = 0 /\ DOMAIN rest = {}
      BY <2>1
    <3> HIDE DEF rest
    <3> QED
      BY <1>2, <3>1 DEF Fed
  <2>2. CASE queue[b] # <<>>
    <3>1. rest = Tail(queue[b]) /\ rest \in Seq(S)
      BY <1>2, <2>2
    <3>2. Fed(rest) /\ Len(rest) = Len(queue[b]) - 1
      BY <1>2, <2>2, <3>1, FedTail
    <3> HIDE DEF rest
    <3> QED
      BY <1>2, <3>1, <3>2
  <2> QED
    BY <2>1, <2>2
<1> HIDE DEF rest
<1>5. Fed(Append(rest, snap)) /\ Len(Append(rest, snap)) <= Queue
  BY <1>2, <1>4, FedAppend
<1>6. /\ queue'[b] = Append(rest, snap) /\ b \in live
      /\ \A c \in Browsers : c # b => queue'[c] = queue[c]
  BY <1>1, <1>2, <1>3
<1> QED
  BY <1>2, <1>3, <1>5, <1>6 DEF Shown

LEMMA ShowShown ==
  ASSUME Words, Shown, NEW b \in Browsers, Show(b)
  PROVE  Shown'
<1>1. PICK S : queue \in [Browsers -> Seq(S)]
  BY DEF Words
<1>2. /\ queue[b] \in Seq(S) /\ Fed(queue[b]) /\ Len(queue[b]) <= Queue
      /\ Len(queue[b]) \in Nat /\ Queue \in Nat /\ queue[b] # <<>>
      /\ b \in live /\ IsPage(page[b]) /\ DOMAIN page = Browsers
  BY <1>1, WebAssumption DEF Shown, Show
<1>3. Fed(Tail(queue[b])) /\ Len(Tail(queue[b])) <= Queue /\ IsSnapshot(Head(queue[b]))
  BY <1>2, FedTail
<1>4. IsPage(Swap(page[b], Head(queue[b])))
  BY <1>2, <1>3, SwapsArePage
<1>5. /\ queue' = [queue EXCEPT ![b] = Tail(queue[b])]
      /\ page' = [page EXCEPT ![b] = Swap(page[b], Head(queue[b]))]
      /\ UNCHANGED <<live, pushing, snap>>
  BY DEF Show
<1>6. /\ queue'[b] = Tail(queue[b]) /\ page'[b] = Swap(page[b], Head(queue[b]))
      /\ \A c \in Browsers : c # b => queue'[c] = queue[c] /\ page'[c] = page[c]
      /\ DOMAIN page' = Browsers
  BY <1>1, <1>2, <1>5
<1> QED
  BY <1>2, <1>3, <1>4, <1>5, <1>6 DEF Shown

LEMMA SubscribeShown ==
  ASSUME Words, Shown, NEW b \in Browsers, Subscribe(b)
  PROVE  Shown'
<1>1. PICK S : queue \in [Browsers -> Seq(S)]
  BY DEF Words
<1>2. IsSnapshot(Full(store))
  BY RootsArePage DEF IsSnapshot, Full
<1> DEFINE s == Full(store)
<1>3. /\ queue' = [queue EXCEPT ![b] = <<s>>] /\ live' = live \cup {b}
      /\ UNCHANGED <<page, pushing, snap>>
  BY DEF Subscribe
<1> HIDE DEF s
<1>4. Fed(<<s>>) /\ Len(<<s>>) <= Queue
  <2>1. Len(<<s>>) = 1 /\ DOMAIN <<s>> = {1} /\ <<s>>[1] = s
    OBVIOUS
  <2>2. Queue \in Nat \ {0}
    BY WebAssumption
  <2> QED
    BY <1>2, <2>1, <2>2 DEF Fed, s
<1>5. queue'[b] = <<s>> /\ \A c \in Browsers : c # b => queue'[c] = queue[c]
  BY <1>1, <1>3
<1> QED
  BY <1>3, <1>4, <1>5 DEF Shown

LEMMA UnsubscribeShown ==
  ASSUME Words, Shown, NEW b \in Browsers, Unsubscribe(b)
  PROVE  Shown'
<1>1. PICK S : queue \in [Browsers -> Seq(S)]
  BY DEF Words
<1>2. /\ queue' = [queue EXCEPT ![b] = <<>>] /\ live' = live \ {b}
      /\ UNCHANGED <<pushing, snap>>
  BY DEF Unsubscribe
<1>3. Fed(<<>>) /\ Len(<<>>) <= Queue
  BY WebAssumption DEF Fed
<1>4. DOMAIN page' = Browsers /\ \A c \in Browsers : IsPage(page'[c])
  <2>0. DOMAIN page = Browsers /\ \A c \in Browsers : IsPage(page[c])
    BY DEF Shown
  <2>1. CASE page' = page
    BY <2>0, <2>1
  <2>2. CASE /\ queue[b] # <<>>
             /\ page' = [page EXCEPT ![b] = Swap(page[b], Head(queue[b]))]
    <3>1. queue[b] \in Seq(S) /\ Fed(queue[b])
      BY <1>1 DEF Shown
    <3>2. IsPage(Swap(page[b], Head(queue[b])))
      BY <2>0, <2>2, <3>1, FedTail, SwapsArePage
    <3> QED
      BY <2>0, <2>2, <3>2
  <2>3. CASE page' = [page EXCEPT ![b] = NoPage]
    BY <2>0, <2>3, NothingIsPage
  <2> QED
    BY <2>1, <2>2, <2>3 DEF Unsubscribe
<1>5. queue'[b] = <<>> /\ \A c \in Browsers : c # b => queue'[c] = queue[c]
  BY <1>1, <1>2
<1> QED
  BY <1>2, <1>3, <1>4, <1>5 DEF Shown

LEMMA LoadShown ==
  ASSUME Shown, NEW b \in Browsers, Load(b)
  PROVE  Shown'
<1>1. /\ page' = [page EXCEPT ![b] = Roots(store)]
      /\ UNCHANGED <<live, queue, pushing, snap>>
  BY DEF Load
<1>2. IsPage(Roots(store))
  BY RootsArePage
<1> QED
  BY <1>1, <1>2 DEF Shown

LEMMA ShownStep ==
  ASSUME Words, Calm, Shown, [WebNext]_webVars
  PROVE  Shown'
<1>1. ASSUME UNCHANGED <<live, queue, page, pushing, snap>> PROVE Shown'
  BY <1>1 DEF Shown
<1>2. CASE UNCHANGED webVars
  BY <1>1, <1>2 DEF webVars, browserVars
<1>3. ASSUME NEW r, Lose(r) PROVE Shown'
  BY <1>1, <1>3 DEF Lose, browserVars
<1>4. ASSUME NEW x \in SpanID, NEW r \in Says(x), ApplyRecord(r) PROVE Shown'
  <2>1. IsRecord(r)
    BY SaysRecords DEF Calm
  <2> QED
    BY <1>4, <2>1, SnapshotsAre, BroadcastShown DEF ApplyRecord
<1>5. ASSUME NEW c \in States, SetConnectionState(c) PROVE Shown'
  BY <1>5, FullAndStatus, BroadcastShown DEF SetConnectionState
<1>6. ASSUME NEW b \in Browsers, TogglePaused(b) \/ ClearAll(b) PROVE Shown'
  BY <1>6, FullAndStatus, BroadcastShown DEF TogglePaused, ClearAll, CanPost
<1>7. ASSUME NEW b \in Browsers, ReplyArrives(b) PROVE Shown'
  BY <1>1, <1>7 DEF ReplyArrives
<1> QED
  BY <1>2, <1>3, <1>4, <1>5, <1>6, <1>7, LoadShown, SubscribeShown,
     UnsubscribeShown, ShowShown, PushOutShown DEF WebNext

LEMMA ShownInit == WebInit => Shown
  BY NothingIsPage, WebAssumption DEF WebInit, Shown, Fed

LEMMA ShownAlways == WebSpec => []Shown
  BY ShownInit, ShownStep, WordsInvariance, CalmAlways, PTL DEF WebSpec

\* The store is within the bound of its roots and every channel within its
\* capacity (server.go:246-263), a broadcast goes on only for browsers that are
\* subscribed, one that is not has an empty channel, and a page, whatever
\* patches it has been given, has cards of spans alone.
THEOREM WebTypeCorrectness == WebSpec => []WebTypeOK
<1>1. Words /\ Calm /\ Shown => WebTypeOK
  <2> SUFFICES ASSUME Words, Calm, Shown PROVE WebTypeOK
    OBVIOUS
  <2>1. store.byID \subseteq SpanID
    BY DEF Calm, Good, Typed, Shape
  <2> QED
    BY <2>1 DEF Words, Calm, Shown, IsPage, WebTypeOK
<1> QED
  BY <1>1, WordsInvariance, CalmAlways, ShownAlways, PTL

-----------------------------------------------------------------------------
(***************************************************************************)
(* What a series of snapshots makes of a page.                             *)
(***************************************************************************)
\* f[n] is what the first n snapshots of q make of p.
Swaps(f, p, q) ==
  f = [n \in 0 .. Len(q) |-> IF n = 0 THEN p ELSE Swap(f[n - 1], q[n])]

LEMMA SwapsExist ==
  ASSUME NEW p, NEW S, NEW q \in Seq(S)
  PROVE  \E f : Swaps(f, p, q)
<1> DEFINE B == {s \in Seq(S) : \E f : Swaps(f, p, s)}
<1>1. <<>> \in B
  <2> DEFINE f == [n \in 0 .. Len(<<>>) |-> p]
  <2>1. Swaps(f, p, <<>>)
    BY DEF Swaps
  <2> HIDE DEF f
  <2> QED
    BY <2>1, EmptySeq
<1>2. ASSUME NEW s \in Seq(S), s \in B, NEW x \in S PROVE Append(s, x) \in B
  <2>1. PICK f : Swaps(f, p, s)
    BY <1>2
  <2> DEFINE u == Append(s, x)
             m == Len(s)
             h == [n \in 0 .. Len(u) |-> IF n = m + 1 THEN Swap(f[m], x) ELSE f[n]]
  <2>2. /\ m \in Nat /\ Len(u) = m + 1 /\ u \in Seq(S) /\ u[m + 1] = x
        /\ \A n \in 1 .. m : u[n] = s[n]
    BY AppendProperties, LenProperties
  <2>3. f = [n \in 0 .. m |-> IF n = 0 THEN p ELSE Swap(f[n - 1], s[n])]
    BY <2>1 DEF Swaps
  <2> HIDE DEF u, m
  <2>4. ASSUME NEW n \in 0 .. Len(u)
        PROVE  h[n] = IF n = 0 THEN p ELSE Swap(h[n - 1], u[n])
    <3>1. CASE n = 0
      BY <2>2, <2>3, <3>1
    <3>2. CASE n \in 1 .. m
      <4>1. n - 1 \in 0 .. Len(u) /\ n - 1 # m + 1 /\ n # m + 1 /\ n # 0 /\ n \in 0 .. m
        BY <2>2, <3>2
      <4>2. h[n] = f[n] /\ h[n - 1] = f[n - 1] /\ u[n] = s[n]
        BY <2>2, <3>2, <4>1
      <4>3. f[n] = Swap(f[n - 1], s[n])
        BY <2>3, <4>1
      <4> QED
        BY <4>1, <4>2, <4>3
    <3>3. CASE n = m + 1
      <4>1. m \in 0 .. Len(u) /\ m # m + 1 /\ n - 1 = m /\ n # 0
        BY <2>2, <3>3
      <4>2. h[n] = Swap(f[m], x) /\ h[n - 1] = f[m] /\ u[n] = x
        BY <2>2, <3>3, <4>1
      <4> QED
        BY <4>1, <4>2
    <3> QED
      BY <2>2, <3>1, <3>2, <3>3
  <2>5. Swaps(h, p, u)
    BY <2>4 DEF Swaps
  <2> HIDE DEF h
  <2> QED
    BY <2>2, <2>5 DEF u
<1>3. Seq(S) \subseteq B
  <2> HIDE DEF B
  <2> QED
    BY <1>1, <1>2, BySequences
<1> QED
  BY <1>3

LEMMA SwapsUnique ==
  ASSUME NEW p, NEW S, NEW q \in Seq(S), NEW f, NEW h,
         Swaps(f, p, q), Swaps(h, p, q)
  PROVE  f[Len(q)] = h[Len(q)]
<1> DEFINE T == {n \in Nat : n <= Len(q) => f[n] = h[n]}
<1>0. Len(q) \in Nat
  BY LenProperties
<1>1. 0 \in T
  BY <1>0 DEF Swaps
<1>2. ASSUME NEW n \in Nat, n \in T PROVE n + 1 \in T
  <2>1. CASE n + 1 <= Len(q)
    <3>1. f[n] = h[n] /\ n + 1 \in 0 .. Len(q) /\ n + 1 # 0 /\ (n + 1) - 1 = n
      BY <1>0, <1>2, <2>1
    <3>2. f[n + 1] = Swap(f[n], q[n + 1]) /\ h[n + 1] = Swap(h[n], q[n + 1])
      BY <3>1 DEF Swaps
    <3> QED
      BY <3>1, <3>2
  <2> QED
    BY <2>1
<1>3. Nat \subseteq T
  <2> HIDE DEF T
  <2> QED
    BY <1>1, <1>2, ByInduction
<1> QED
  BY <1>0, <1>3

LEMMA SwappedIs ==
  ASSUME NEW p, NEW S, NEW q \in Seq(S), NEW f, Swaps(f, p, q)
  PROVE  Swapped(p, q) = f[Len(q)]
<1> DEFINE h == CHOOSE g : Swaps(g, p, q)
<1>1. Swapped(p, q) = h[Len(q)]
  BY DEF Swapped, Swaps
<1>2. Swaps(h, p, q)
  <2> HIDE DEF h
  <2> QED
    BY DEF h
<1> HIDE DEF h
<1> QED
  BY <1>1, <1>2, SwapsUnique

\* The two equations that say what Swapped is.
LEMMA SwappedEmpty ==
  ASSUME NEW p
  PROVE  Swapped(p, <<>>) = p
<1> DEFINE f == [n \in 0 .. Len(<<>>) |-> p]
<1>1. Swaps(f, p, <<>>)
  BY DEF Swaps
<1>2. <<>> \in Seq({}) /\ Len(<<>>) = 0
  BY EmptySeq
<1>3. f[Len(<<>>)] = p
  BY <1>2
<1> HIDE DEF f
<1> QED
  BY <1>1, <1>2, <1>3, SwappedIs

LEMMA SwappedAppend ==
  ASSUME NEW p, NEW S, NEW q \in Seq(S), NEW s
  PROVE  Swapped(p, Append(q, s)) = Swap(Swapped(p, q), s)
<1> DEFINE u == Append(q, s)
           m == Len(q)
           T == S \cup {s}
<1>1. /\ m \in Nat /\ Len(u) = m + 1 /\ u[m + 1] = s
      /\ \A n \in 1 .. m : u[n] = q[n]
      /\ q \in Seq(T) /\ u \in Seq(T)
  OBVIOUS
<1>2. PICK h : Swaps(h, p, u)
  <2> HIDE DEF u, m, T
  <2> QED
    BY <1>1, SwapsExist
<1> DEFINE f == [n \in 0 .. m |-> h[n]]
<1>3. h = [n \in 0 .. m + 1 |-> IF n = 0 THEN p ELSE Swap(h[n - 1], u[n])]
  BY <1>1, <1>2 DEF Swaps
<1> HIDE DEF u, T
<1>4. Swaps(f, p, q)
  <2>1. ASSUME NEW n \in 0 .. m
        PROVE  f[n] = IF n = 0 THEN p ELSE Swap(f[n - 1], q[n])
    <3>1. CASE n = 0
      BY <1>1, <1>3, <3>1
    <3>2. CASE n # 0
      <4>1. n \in 1 .. m /\ n - 1 \in 0 .. m /\ n \in 0 .. m + 1
        BY <1>1, <3>2
      <4>2. f[n] = h[n] /\ f[n - 1] = h[n - 1] /\ u[n] = q[n]
        BY <1>1, <4>1
      <4>3. h[n] = Swap(h[n - 1], u[n])
        BY <1>3, <3>2, <4>1
      <4> QED
        BY <3>2, <4>2, <4>3
    <3> QED
      BY <3>1, <3>2
  <2> QED
    BY <2>1 DEF Swaps
<1>5. m \in 0 .. m /\ m + 1 \in 0 .. m + 1 /\ m + 1 # 0 /\ (m + 1) - 1 = m
  BY <1>1
<1>6. f[m] = h[m] /\ h[m + 1] = Swap(h[m], s)
  BY <1>1, <1>3, <1>5
<1> HIDE DEF f, m
<1>7. Swapped(p, q) = f[m]
  BY <1>4, SwappedIs DEF m
<1>8. Swapped(p, u) = h[m + 1]
  BY <1>1, <1>2, SwappedIs
<1> QED
  BY <1>6, <1>7, <1>8 DEF u

LEMMA SwappedOne ==
  ASSUME NEW p, NEW s
  PROVE  Swapped(p, <<s>>) = Swap(p, s)
<1> DEFINE e == <<>>
           S == {s}
<1>1. e \in Seq(S) /\ Append(e, s) = <<s>>
  OBVIOUS
<1>2. Swapped(p, e) = p
  BY SwappedEmpty
<1> HIDE DEF e, S
<1>3. Swapped(p, Append(e, s)) = Swap(Swapped(p, e), s)
  BY <1>1, SwappedAppend
<1> QED
  BY <1>1, <1>2, <1>3

\* The first snapshot can as well be swapped in before.
LEMMA SwappedFirst ==
  ASSUME NEW p, NEW S, NEW q \in Seq(S), q # <<>>
  PROVE  Swapped(p, q) = Swapped(Swap(p, Head(q)), Tail(q))
<1> DEFINE First(s) == Swapped(p, s) = Swapped(Swap(p, Head(s)), Tail(s))
           B == {s \in Seq(S) : s # <<>> => First(s)}
<1>1. <<>> \in B
  BY EmptySeq
<1>2. ASSUME NEW s \in Seq(S), s \in B, NEW x \in S PROVE Append(s, x) \in B
  <2> DEFINE u == Append(s, x)
  <2>1. u \in Seq(S) /\ Swapped(p, u) = Swap(Swapped(p, s), x)
    BY SwappedAppend, AppendProperties
  <2>2. CASE s = <<>>
    <3>1. u = <<x>> /\ Head(u) = x /\ Tail(u) = <<>>
      BY <2>2
    <3> HIDE DEF u
    <3> QED
      BY <2>1, <2>2, <3>1, SwappedEmpty DEF u
  <2>3. CASE s # <<>>
    <3>1. Head(u) = Head(s) /\ Tail(u) = Append(Tail(s), x) /\ Tail(s) \in Seq(S)
      BY <2>3, HeadTailAppend, HeadTailProperties
    <3>2. First(s)
      BY <1>2, <2>3
    <3> DEFINE h == Swap(p, Head(s))
               t == Tail(s)
    <3>3. Swapped(p, s) = Swapped(h, t)
      BY <3>2
    <3> HIDE DEF u, h, t
    <3>4. t \in Seq(S)
      BY <3>1 DEF t
    <3>5. Swapped(h, Append(t, x)) = Swap(Swapped(h, t), x)
      BY <3>4, SwappedAppend
    <3> QED
      BY <2>1, <3>1, <3>3, <3>5 DEF u, h, t
  <2> QED
    BY <2>2, <2>3
<1>3. Seq(S) \subseteq B
  <2> HIDE DEF B
  <2> QED
    BY <1>1, <1>2, BySequences
<1> QED
  BY <1>3

\* A full page makes what was there before it, and what was done to that, of
\* no account.
LEMMA SwappedRoots ==
  ASSUME NEW p, NEW o, NEW S, NEW q \in Seq(S), NEW k \in DOMAIN q,
         q[k].kind = "roots"
  PROVE  Swapped(p, q) = Swapped(o, q)
<1> DEFINE Healed(s) == \E i \in DOMAIN s : s[i].kind = "roots"
           B == {s \in Seq(S) : Healed(s) => Swapped(p, s) = Swapped(o, s)}
<1>1. <<>> \in B
  BY EmptySeq
<1>2. ASSUME NEW s \in Seq(S), s \in B, NEW x \in S PROVE Append(s, x) \in B
  <2> DEFINE u == Append(s, x)
             m == Len(s)
  <2>1. /\ m \in Nat /\ u \in Seq(S) /\ DOMAIN s = 1 .. m /\ DOMAIN u = 1 .. m + 1
        /\ u[m + 1] = x /\ \A n \in 1 .. m : u[n] = s[n]
    BY AppendProperties, LenProperties
  <2>2. Swapped(p, u) = Swap(Swapped(p, s), x) /\ Swapped(o, u) = Swap(Swapped(o, s), x)
    BY SwappedAppend
  <2> HIDE DEF u
  <2> SUFFICES ASSUME Healed(u) PROVE Swapped(p, u) = Swapped(o, u)
    BY <2>1 DEF u
  <2>3. CASE x.kind = "roots"
    BY <2>2, <2>3 DEF Swap
  <2>4. CASE x.kind # "roots"
    <3>1. PICK i \in DOMAIN u : u[i].kind = "roots"
      OBVIOUS
    <3>2. i \in 1 .. m
      BY <2>1, <2>4, <3>1
    <3>3. Healed(s)
      BY <2>1, <3>1, <3>2
    <3> QED
      BY <1>2, <2>2, <3>3
  <2> QED
    BY <2>3, <2>4
<1>3. Seq(S) \subseteq B
  <2> HIDE DEF B
  <2> QED
    BY <1>1, <1>2, BySequences
<1> QED
  BY <1>3

-----------------------------------------------------------------------------
(***************************************************************************)
(* The depth of a card inside another one.                                 *)
(***************************************************************************)
\* A span of the forest has one parent.
LEMMA OneParent ==
  ASSUME NEW st, Good(st)
  PROVE  /\ KidsAreSpans(st) /\ st.byID \subseteq SpanID /\ InTree(st) = st.byID
         /\ ClosedUnder(st, st.byID) /\ ToSet(st.roots) \subseteq st.byID
         /\ \A x, z \in st.byID : \A y \in ToSet(st.node[x].kids) :
              y \in ToSet(st.node[z].kids) => x = z
<1>1. Typed(st) /\ InTree(st) = st.byID
  BY DEF Good, IsForest
<1>2. /\ KidsAreSpans(st) /\ st.byID \subseteq SpanID
      /\ ClosedUnder(st, st.byID) /\ ToSet(st.roots) \subseteq st.byID
  BY <1>1, TypedKids, TreeFacts
<1>3. \A x \in st.byID : \A y \in ToSet(st.node[x].kids) : st.node[y].up = x
  BY DEF Good, IsForest
<1> QED
  BY <1>1, <1>2, <1>3

\* Below a span are the span and what is below its children.
LEMMA BelowOne ==
  ASSUME NEW st, KidsAreSpans(st), NEW x \in SpanID
  PROVE  Below(st, {x}) = {x} \cup Below(st, ToSet(st.node[x].kids))
<1> DEFINE K == ToSet(st.node[x].kids)
           S == {x} \cup Below(st, K)
<1>1. K \in SUBSET SpanID
  BY DEF KidsAreSpans
<1>2. K \subseteq Below(st, K) /\ Below(st, K) \subseteq SpanID
      /\ ClosedUnder(st, Below(st, K))
  BY <1>1, BelowIn, BelowClosed
<1>3. Below(st, {x}) \subseteq S
  <2>1. S \in SUBSET SpanID /\ {x} \subseteq S
    BY <1>2
  <2>2. ClosedUnder(st, S)
    BY <1>2 DEF ClosedUnder
  <2> HIDE DEF S
  <2> QED
    BY <2>1, <2>2, BelowLeast
<1>4. x \in Below(st, {x}) /\ ClosedUnder(st, Below(st, {x}))
  BY BelowIn, BelowClosed
<1>5. K \subseteq Below(st, {x})
  BY <1>4 DEF ClosedUnder
<1>6. Below(st, K) \subseteq Below(st, {x})
  BY <1>5, BelowThrough
<1> QED
  BY <1>3, <1>4, <1>6

\* No span is below its children.
LEMMA NoCycle ==
  ASSUME NEW st, Good(st), NEW x \in st.byID
  PROVE  x \notin Below(st, ToSet(st.node[x].kids))
<1> DEFINE K(w) == ToSet(st.node[w].kids)
           S == {w \in st.byID : w \notin Below(st, K(w))}
<1>1. /\ KidsAreSpans(st) /\ st.byID \subseteq SpanID /\ InTree(st) = st.byID
      /\ ClosedUnder(st, st.byID) /\ ToSet(st.roots) \subseteq st.byID
      /\ \A w, z \in st.byID : \A y \in K(w) : y \in K(z) => w = z
  BY OneParent
<1>2. \A w \in st.byID : /\ K(w) \in SUBSET SpanID /\ K(w) \subseteq st.byID
                         /\ Below(st, K(w)) \subseteq st.byID
                         /\ ClosedUnder(st, Below(st, K(w)))
                         /\ K(w) \subseteq Below(st, K(w))
  <2> TAKE w \in st.byID
  <2>1. K(w) \in SUBSET SpanID /\ K(w) \subseteq st.byID
    BY <1>1 DEF ClosedUnder
  <2> QED
    BY <1>1, <2>1, BelowIn, BelowClosed, BelowLeast
<1>3. \A w \in st.byID : \A y \in Below(st, K(w)) :
        \E z \in st.byID : y \in K(z) /\ (z = w \/ z \in Below(st, K(w)))
  <2> TAKE w \in st.byID
  <2> TAKE y \in Below(st, K(w))
  <2>1. CASE y \in K(w)
    BY <2>1
  <2>2. CASE y \notin K(w)
    <3>1. K(w) \in SUBSET SpanID /\ Below(st, K(w)) \subseteq st.byID
      BY <1>2
    <3>2. PICK z \in Below(st, K(w)) : y \in K(z)
      BY <1>1, <2>2, <3>1, BelowFrom
    <3> QED
      BY <3>1, <3>2
  <2> QED
    BY <2>1, <2>2
<1>4. ToSet(st.roots) \subseteq S
  <2>1. \A z \in st.byID : \A y \in K(z) : y \notin ToSet(st.roots)
    BY DEF Good, IsForest
  <2> QED
    BY <1>1, <1>3, <2>1
<1>5. ClosedUnder(st, S)
  <2>1. ASSUME NEW w \in S, NEW y \in K(w) PROVE y \in S
    <3>1. w \in st.byID /\ y \in st.byID
      BY <1>2, <2>1
    <3> SUFFICES ASSUME y \in Below(st, K(y)) PROVE FALSE
      BY <3>1
    <3>2. PICK z \in st.byID : y \in K(z) /\ (z = y \/ z \in Below(st, K(y)))
      BY <1>3, <3>1
    <3>3. z = w
      BY <1>1, <2>1, <3>1, <3>2
    <3>4. K(y) \subseteq Below(st, K(w))
      BY <1>2, <2>1, <3>1 DEF ClosedUnder
    <3>5. Below(st, K(y)) \subseteq Below(st, K(w))
      BY <1>1, <1>2, <3>1, <3>4, BelowThrough
    <3>6. w \in Below(st, K(w))
      <4>1. CASE z = y
        BY <1>2, <2>1, <3>1, <3>3, <4>1
      <4>2. CASE z \in Below(st, K(y))
        BY <3>3, <3>5, <4>2
      <4> QED
        BY <3>2, <4>1, <4>2
    <3> QED
      BY <2>1, <3>6
  <2> QED
    BY <2>1 DEF ClosedUnder
<1>6. S \in SUBSET SpanID
  BY <1>1
<1>7. Below(st, ToSet(st.roots)) \subseteq S
  <2> HIDE DEF S
  <2> QED
    BY <1>4, <1>5, <1>6, BelowLeast
<1> QED
  BY <1>1, <1>7 DEF InTree

\* Of two spans one is below the other when a third is below both.
LEMMA BothAbove ==
  ASSUME NEW st, Good(st), NEW x \in st.byID, NEW z \in st.byID,
         NEW y \in Below(st, {x}), y \in Below(st, {z})
  PROVE  x \in Below(st, {z}) \/ z \in Below(st, {x})
<1> DEFINE S == {w \in Below(st, {x}) : w \in Below(st, {z}) =>
                   x \in Below(st, {z}) \/ z \in Below(st, {x})}
<1>1. /\ KidsAreSpans(st) /\ st.byID \subseteq SpanID
      /\ \A v, w \in st.byID : \A k \in ToSet(st.node[v].kids) :
           k \in ToSet(st.node[w].kids) => v = w
      /\ x \in Below(st, {x}) /\ Below(st, {x}) \subseteq st.byID
      /\ z \in Below(st, {z}) /\ Below(st, {z}) \subseteq st.byID
      /\ ClosedUnder(st, Below(st, {x}))
  BY OneParent, BelowInTree, BelowClosed
<1>2. S \in SUBSET SpanID /\ {x} \subseteq S
  BY <1>1
<1>3. ASSUME NEW w \in S, NEW k \in ToSet(st.node[w].kids) PROVE k \in S
  <2>1. w \in st.byID /\ k \in Below(st, {x})
    BY <1>1, <1>3 DEF ClosedUnder
  <2> SUFFICES ASSUME k \in Below(st, {z})
               PROVE  x \in Below(st, {z}) \/ z \in Below(st, {x})
    BY <2>1
  <2>2. CASE k = z
    BY <2>1, <2>2
  <2>3. CASE k # z
    <3>1. PICK v \in Below(st, {z}) : k \in ToSet(st.node[v].kids)
      <4>1. {z} \in SUBSET SpanID /\ k \notin {z}
        BY <1>1, <2>3
      <4> QED
        BY <1>1, <4>1, BelowFrom
    <3>2. v = w
      BY <1>1, <1>3, <2>1, <3>1
    <3> QED
      BY <1>3, <3>1, <3>2
  <2> QED
    BY <2>2, <2>3
<1>4. ClosedUnder(st, S)
  BY <1>3 DEF ClosedUnder
<1>5. Below(st, {x}) \subseteq S
  <2> HIDE DEF S
  <2> QED
    BY <1>2, <1>4, BelowLeast
<1> QED
  BY <1>5

\* Above a span inside the card of x are what is above x, x, and those inside
\* the card that it is in.
LEMMA DepthInside ==
  ASSUME NEW st, Good(st), IsFiniteSet(st.byID), NEW x \in st.byID,
         NEW X \in SUBSET ToSet(st.node[x].kids), NEW y \in Below(st, X)
  PROVE  /\ y \in st.byID /\ Depth(st, x) \in Nat /\ Distance(st, X, y) \in Nat
         /\ Depth(st, y) = Depth(st, x) + 1 + Distance(st, X, y)
<1> DEFINE K == ToSet(st.node[x].kids)
           D == {z \in Below(st, X) \ {y} : y \in Below(st, {z})}
<1>1. /\ KidsAreSpans(st) /\ st.byID \subseteq SpanID /\ InTree(st) = st.byID
      /\ ClosedUnder(st, st.byID)
      /\ \A w, z \in st.byID : \A v \in ToSet(st.node[w].kids) :
           v \in ToSet(st.node[z].kids) => w = z
  BY OneParent
<1>2. /\ K \subseteq st.byID /\ X \in SUBSET SpanID /\ K \in SUBSET SpanID
      /\ Below(st, X) \subseteq Below(st, K) /\ Below(st, K) \subseteq st.byID
      /\ ClosedUnder(st, Below(st, K))
  <2>1. K \subseteq st.byID /\ X \in SUBSET SpanID /\ K \in SUBSET SpanID
    BY <1>1 DEF ClosedUnder
  <2>2. X \subseteq Below(st, K) /\ Below(st, K) \subseteq st.byID
    BY <1>1, <2>1, BelowIn, BelowLeast
  <2> QED
    BY <1>1, <2>1, <2>2, BelowThrough, BelowClosed
<1>3. Below(st, {x}) = {x} \cup Below(st, K) /\ x \notin Below(st, K)
  BY <1>1, BelowOne, NoCycle
<1>4. y \in st.byID /\ y \in Below(st, K) /\ y \in Below(st, {x}) /\ y # x
  BY <1>2, <1>3
<1>5. \A z \in st.byID : /\ z \in Below(st, {z}) /\ Below(st, {z}) \subseteq st.byID
                         /\ {z} \in SUBSET SpanID
  BY <1>1, BelowInTree
<1>6. \A z \in st.byID : \A w \in Below(st, {z}) : Below(st, {w}) \subseteq Below(st, {z})
  BY <1>1, <1>5, BelowThrough
<1>7. \A z \in Below(st, K) : Below(st, {z}) \subseteq Below(st, K)
  BY <1>1, <1>2, BelowThrough
<1> HIDE DEF K
<1>8. ASSUME NEW z \in Above(st, y) PROVE z \in Above(st, x) \cup {x} \cup D
  <2>1. z \in st.byID /\ z # y /\ y \in Below(st, {z})
    BY <1>1, <1>8 DEF Above
  <2>2. PICK k \in X : y \in Below(st, {k})
    <3>1. Below(st, X) = UNION {Below(st, {k}) : k \in X}
      BY <1>1, <1>2, BelowUnion
    <3> QED
      BY <3>1
  <2>3. k \in st.byID /\ k \in K /\ k \in Below(st, X) /\ Below(st, {k}) \subseteq Below(st, X)
    <3>1. k \in Below(st, X) /\ k \in st.byID /\ k \in K
      BY <1>2, BelowIn DEF K
    <3> QED
      BY <1>1, <1>2, <3>1, BelowThrough
  <2>4. z \in Below(st, {k}) \/ k \in Below(st, {z})
    BY <2>1, <2>2, <2>3, BothAbove
  <2>5. CASE z \in Below(st, {k}) \/ z = k
    BY <2>1, <2>3, <2>5
  <2>6. CASE k \in Below(st, {z}) /\ z # k
    <3>1. PICK v \in Below(st, {z}) : k \in ToSet(st.node[v].kids)
      <4>1. k \notin {z} /\ {z} \in SUBSET SpanID
        BY <1>5, <2>1, <2>6
      <4> QED
        BY <1>1, <2>6, <4>1, BelowFrom
    <3>2. v = x
      BY <1>1, <1>5, <2>1, <2>3, <3>1 DEF K
    <3> QED
      BY <1>1, <2>1, <3>1, <3>2 DEF Above
  <2> QED
    BY <2>4, <2>5, <2>6
<1>9. x \in Above(st, y)
  BY <1>1, <1>4 DEF Above
<1>10. ASSUME NEW z \in Above(st, x) PROVE z \in Above(st, y) /\ z # x /\ z \notin D
  <2>1. z \in st.byID /\ z # x /\ x \in Below(st, {z})
    BY <1>1, <1>10 DEF Above
  <2>2. y \in Below(st, {z})
    BY <1>4, <1>6, <2>1
  <2>3. z \notin Below(st, K)
    BY <1>3, <1>7, <2>1
  <2> QED
    BY <1>1, <1>2, <1>4, <2>1, <2>2, <2>3 DEF Above
<1>11. D \subseteq Above(st, y) /\ x \notin D
  BY <1>1, <1>2, <1>3 DEF Above
<1>12. Above(st, y) = (Above(st, x) \cup {x}) \cup D
  BY <1>8, <1>9, <1>10, <1>11
<1>13. (Above(st, x) \cup {x}) \cap D = {} /\ x \notin Above(st, x)
  BY <1>10, <1>11
<1>14. /\ Above(st, x) \in SUBSET st.byID /\ D \in SUBSET st.byID
       /\ Distance(st, X, y) = Cardinality(D)
  BY <1>1, <1>2 DEF Above, Distance
<1> HIDE DEF D
<1> DEFINE A == Above(st, x)
           B == A \cup {x}
<1>15. IsFiniteSet(A) /\ IsFiniteSet(D)
  BY <1>14, FS_Subset
<1>16. /\ Cardinality(A) \in Nat /\ Cardinality(D) \in Nat
       /\ IsFiniteSet(B) /\ Cardinality(B) = Cardinality(A) + 1
  BY <1>13, <1>15, FS_CardinalityType, FS_AddElement
<1> HIDE DEF B
<1>17. Cardinality(B \cup D) = Cardinality(B) + Cardinality(D) - Cardinality(B \cap D)
  BY <1>15, <1>16, FS_Union
<1>18. Cardinality(B \cap D) = 0
  BY <1>13, FS_EmptySet DEF B
<1>19. /\ Depth(st, x) = Cardinality(A) /\ Depth(st, y) = Cardinality(B \cup D)
  BY <1>12, DepthIs DEF B
<1> HIDE DEF A
<1> QED
  BY <1>4, <1>14, <1>16, <1>17, <1>18, <1>19

-----------------------------------------------------------------------------
(***************************************************************************)
(* A timeline that is given one entry more, later than the others.         *)
(***************************************************************************)
\* At the first difference between two rows of the same items the one has an
\* item that precedes the other's.
LEMMA RowsDiffer ==
  ASSUME NEW m \in Nat, NEW s, NEW t, Len(s) = m, Len(t) = m, InRow(s), InRow(t),
         \A i \in 1 .. m : IsItem(s[i]) /\ IsItem(t[i]),
         {s[i] : i \in 1 .. m} \subseteq {t[i] : i \in 1 .. m},
         NEW j \in 1 .. m, s[j] # t[j], \A i \in 1 .. m : i < j => s[i] = t[i]
  PROVE  Precedes(t[j], s[j])
<1>1. PICK k \in 1 .. m : s[j] = t[k]
  OBVIOUS
<1>2. k # j
  BY <1>1
<1>3. ~(k < j)
  <2> SUFFICES ASSUME k < j PROVE FALSE
    OBVIOUS
  <2>1. s[k] = s[j] /\ Precedes(s[k], s[j])
    BY <1>1 DEF InRow
  <2> QED
    BY <2>1, PrecedesStrict
<1>4. j < k
  BY <1>2, <1>3
<1> QED
  BY <1>1, <1>4 DEF InRow

\* There is one row of a set of items.
LEMMA RowsEqual ==
  ASSUME NEW S, NEW s \in Seq(S), NEW t \in Seq(S), Len(s) = Len(t),
         InRow(s), InRow(t), \A i \in 1 .. Len(s) : IsItem(s[i]) /\ IsItem(t[i]),
         {s[i] : i \in 1 .. Len(s)} = {t[i] : i \in 1 .. Len(t)}
  PROVE  s = t
<1> DEFINE m == Len(s)
           D == {i \in 1 .. m : s[i] # t[i]}
<1>1. m \in Nat
  BY LenProperties
<1>2. CASE D = {}
  <2>1. \A i \in 1 .. m : s[i] = t[i]
    BY <1>2
  <2> QED
    BY <2>1, SeqEqual
<1>3. CASE D # {}
  <2>1. D \in SUBSET Nat
    OBVIOUS
  <2>2. PICK j \in D : \A i \in D : j <= i
    <3> HIDE DEF D
    <3> QED
      BY <1>3, <2>1, Least
  <2>3. j \in 1 .. m /\ s[j] # t[j] /\ \A i \in 1 .. m : i < j => s[i] = t[i]
    BY <1>1, <2>2
  <2> HIDE DEF D, m
  <2>4. Len(s) = m /\ Len(t) = m
    BY DEF m
  <2>5. Precedes(t[j], s[j])
    BY <1>1, <2>3, <2>4, RowsDiffer
  <2>6. Precedes(s[j], t[j])
    BY <1>1, <2>3, <2>4, RowsDiffer
  <2> QED
    BY <2>3, <2>4, <2>5, <2>6, PrecedesStrict
<1> QED
  BY <1>2, <1>3

\* What is known of a timeline and its entries.
Entries(st, x) ==
  LET items == TimelineItems(st, x)
      u     == Unsorted(st, x)
      m     == Len(u)
  IN  /\ m \in Nat /\ Len(items) = m /\ InRow(items)
      /\ \E S : items \in Seq(S)
      /\ DOMAIN items = 1 .. m
      /\ {items[i] : i \in 1 .. m} = {u[i] : i \in 1 .. m}
      /\ \A i \in 1 .. m : /\ IsItem(items[i]) /\ items[i].at \in Int
                           /\ IsItem(u[i]) /\ u[i].at \in Int /\ u[i].index = i

LEMMA TimelineEntries ==
  ASSUME NEW st, Good(st), Timed(st), NEW x \in SpanID
  PROVE  Entries(st, x)
<1> DEFINE items == TimelineItems(st, x)
           u     == Unsorted(st, x)
           m     == Len(u)
<1>1. (\E S : items \in Seq(S)) /\ InOrderOf(u, m, items)
  BY TimelineIs
<1>2. /\ m \in Nat /\ Numbered(u) /\ \A i \in 1 .. m : u[i].at \in Int
  <2> DEFINE n == Len(st.node[x].events)
             k == Len(st.node[x].kids)
  <2>1. /\ n \in Nat /\ k \in Nat /\ Len(u) = n + k /\ Numbered(u)
        /\ \A i \in 1 .. n + k : u[i].at \in Int
    BY UnsortedIs
  <2> HIDE DEF n, k, u
  <2> QED
    BY <2>1
<1> HIDE DEF items, u, m
<1>3. Len(items) = m /\ InRow(items)
      /\ {items[i] : i \in 1 .. m} = {u[i] : i \in 1 .. m}
  BY <1>1 DEF InOrderOf
<1>4. \A i \in 1 .. m : IsItem(u[i]) /\ u[i].at \in Int /\ u[i].index = i
  BY <1>2 DEF Numbered, m
<1>5. ASSUME NEW i \in 1 .. m PROVE IsItem(items[i]) /\ items[i].at \in Int
  <2>1. items[i] \in {u[j] : j \in 1 .. m}
    BY <1>3
  <2>2. PICK j \in 1 .. m : items[i] = u[j]
    BY <2>1
  <2> QED
    BY <1>4, <2>2
<1>6. DOMAIN items = 1 .. m
  <2>1. PICK S : items \in Seq(S)
    BY <1>1
  <2> QED
    BY <1>3, <2>1, LenProperties
<1>7. /\ m \in Nat /\ Len(items) = m /\ InRow(items)
      /\ \E S : items \in Seq(S)
      /\ DOMAIN items = 1 .. m
      /\ {items[i] : i \in 1 .. m} = {u[i] : i \in 1 .. m}
      /\ \A i \in 1 .. m : /\ IsItem(items[i]) /\ items[i].at \in Int
                           /\ IsItem(u[i]) /\ u[i].at \in Int /\ u[i].index = i
  BY <1>1, <1>2, <1>3, <1>4, <1>5, <1>6
<1> QED
  BY <1>7 DEF items, u, m, Entries

\* The times that come next are later than all.
LEMMA NextTimes ==
  ASSUME Good(store), Timed(store), InOrder, NEW x \in SpanID, NEW at \in TimesIn(x)
  PROVE  /\ at \in Int
         /\ \A i \in DOMAIN TimelineItems(store, x) :
              TimelineItems(store, x)[i].at < at
<1> DEFINE items == TimelineItems(store, x)
           m     == Len(items)
<1>1. /\ m \in Nat /\ InRow(items) /\ DOMAIN items = 1 .. m
      /\ \E S : items \in Seq(S)
      /\ \A i \in 1 .. m : items[i].at \in Int
  <2>1. Entries(store, x)
    BY TimelineEntries
  <2> QED
    BY <2>1 DEF Entries
<1>2. at = IF items = <<>> THEN 1 ELSE Last(items).at + 1
  BY DEF TimesIn
<1> DEFINE Goal == at \in Int /\ \A i \in 1 .. m : items[i].at < at
<1> HIDE DEF items
<1>3. ASSUME items = <<>> PROVE Goal
  <2>1. m = 0 /\ at = 1
    BY <1>2, <1>3, EmptySeq
  <2> QED
    BY <2>1
<1>4. ASSUME items # <<>> PROVE Goal
  <2>1. m \in 1 .. m
    BY <1>1, <1>4, EmptySeq
  <2>2. Last(items) = items[m] /\ items[m].at \in Int
    BY <1>1, <2>1 DEF Last
  <2>3. at = items[m].at + 1 /\ at \in Int
    BY <1>2, <1>4, <2>2
  <2>4. ASSUME NEW i \in 1 .. m PROVE items[i].at < at
    <3>1. CASE i = m
      BY <2>2, <2>3, <3>1
    <3>2. CASE i < m
      <4>1. Precedes(items[i], items[m])
        BY <1>1, <2>1, <3>2 DEF InRow
      <4>2. items[i].at \in Int /\ items[m].at \in Int
        BY <1>1, <2>1
      <4>3. items[i].at <= items[m].at
        BY <4>1, <4>2, WebAssumption DEF Precedes
      <4> QED
        BY <2>3, <4>2, <4>3
    <3>3. m \in Nat
      BY <1>1
    <3> HIDE DEF m
    <3> QED
      BY <3>1, <3>2, <3>3
  <2> QED
    BY <2>3, <2>4
<1>5. Goal
  BY <1>3, <1>4
<1> QED
  BY <1>1, <1>5 DEF items

\* The entries of u are those of w and e.
Grown(u, w, e) ==
  /\ Len(u) = Len(w) + 1
  /\ {u[i] : i \in 1 .. Len(u)} = {w[i] : i \in 1 .. Len(w)} \cup {e}

\* A later entry is the last: the timeline is w, with the items there were, and
\* then the new one.
LEMMA TimelineGrows ==
  ASSUME NEW st, Good(st), Timed(st), NEW x \in SpanID,
         NEW S, NEW w \in Seq(S), InRow(w), NEW e, IsItem(e),
         \A i \in 1 .. Len(w) : IsItem(w[i]) /\ Precedes(w[i], e),
         Grown(Unsorted(st, x), w, e)
  PROVE  TimelineItems(st, x) = Append(w, e)
<1> DEFINE items == TimelineItems(st, x)
           t     == Append(w, e)
           u     == Unsorted(st, x)
           m     == Len(w)
<1>0. /\ m \in Nat /\ Len(u) = m + 1
      /\ {u[i] : i \in 1 .. m + 1} = {w[i] : i \in 1 .. m} \cup {e}
  BY LenProperties DEF Grown
<1>1. /\ Len(items) = m + 1 /\ InRow(items) /\ \E V : items \in Seq(V)
      /\ {items[i] : i \in 1 .. m + 1} = {u[i] : i \in 1 .. m + 1}
      /\ \A i \in 1 .. m + 1 : IsItem(items[i])
  <2>1. Entries(st, x)
    BY TimelineEntries
  <2>2. Len(u) = m + 1
    BY <1>0
  <2> HIDE DEF m
  <2> QED
    BY <2>1, <2>2 DEF Entries
<1> HIDE DEF items, u
<1>3. PICK T : items \in Seq(T)
  BY <1>1
<1> DEFINE U == S \cup T \cup {e}
<1>4. w \in Seq(U) /\ items \in Seq(U) /\ e \in U
  <2>1. \A V : V \subseteq U => Seq(V) \subseteq Seq(U)
    BY SeqMonotonic
  <2>2. S \subseteq U /\ T \subseteq U /\ e \in U
    OBVIOUS
  <2> HIDE DEF U
  <2> QED
    BY <1>3, <2>1, <2>2
<1> HIDE DEF U
<1>5. /\ t \in Seq(U) /\ Len(t) = m + 1 /\ t[m + 1] = e
      /\ \A i \in 1 .. m : t[i] = w[i]
  BY <1>4, AppendProperties
<1>2. /\ m = Len(w) /\ \A i \in 1 .. m : IsItem(w[i]) /\ Precedes(w[i], e)
  OBVIOUS
<1> HIDE DEF t, m
<1>6. \A i \in 1 .. m + 1 : i \in 1 .. m \/ i = m + 1
  BY <1>0
<1>7. \A i \in 1 .. m + 1 : IsItem(t[i])
  BY <1>2, <1>5, <1>6
<1>8. InRow(t)
  <2>1. ASSUME NEW i \in 1 .. m + 1, NEW j \in 1 .. m + 1, i < j
        PROVE  Precedes(t[i], t[j])
    <3>1. i \in 1 .. m /\ t[i] = w[i]
      BY <1>0, <1>5, <2>1
    <3>2. CASE j = m + 1
      BY <1>2, <1>5, <3>1, <3>2
    <3>3. CASE j \in 1 .. m
      BY <1>2, <1>5, <2>1, <3>1, <3>3 DEF InRow
    <3> QED
      BY <1>6, <3>2, <3>3
  <2> QED
    BY <1>5, <2>1 DEF InRow
<1>9. {t[i] : i \in 1 .. m + 1} = {w[i] : i \in 1 .. m} \cup {e}
  <2>1. {t[i] : i \in 1 .. m + 1} \subseteq {w[i] : i \in 1 .. m} \cup {e}
    BY <1>5, <1>6
  <2>2. \A i \in 1 .. m : i \in 1 .. m + 1 /\ w[i] = t[i]
    BY <1>0, <1>5
  <2>3. m + 1 \in 1 .. m + 1
    BY <1>0
  <2> QED
    BY <1>5, <2>1, <2>2, <2>3
<1>10. {t[i] : i \in 1 .. Len(t)} = {items[i] : i \in 1 .. Len(items)}
  BY <1>0, <1>1, <1>5, <1>9
<1>11. Len(t) = Len(items) /\ \A i \in 1 .. Len(t) : IsItem(t[i]) /\ IsItem(items[i])
  BY <1>1, <1>5, <1>7
<1>12. InRow(items)
  BY <1>1
<1> QED
  BY <1>4, <1>5, <1>8, <1>10, <1>11, <1>12, RowsEqual DEF items, t

-----------------------------------------------------------------------------
(***************************************************************************)
(* What is rendered of a span that has changed in one respect.             *)
(***************************************************************************)
\* now is st after a record of x that leaves every span in its place.
Wrote(st, now, x) ==
  /\ now.roots = st.roots /\ now.byID = st.byID /\ now.stale = st.stale
  /\ \A y \in SpanID : /\ now.node[y].kids = st.node[y].kids
                       /\ now.node[y].at = st.node[y].at
                       /\ y # x => now.node[y] = st.node[y]

\* The event that a record brings.
Happening(r) == [at |-> TimeValue(r.at), severity |-> r.severity, attrs |-> r.attrs]

\* What an update, an end and an event leave of their span.
Spares(kind, old, n) ==
  /\ kind \in {"update", "end"} => n.events = old.events
  /\ kind \in {"end", "event"} => n.attrs = old.attrs
  /\ kind \in {"update", "event"} => /\ n.done = old.done /\ n.endedAt = old.endedAt
                                     /\ n.error = old.error

LEMMA RecordWrote ==
  ASSUME NEW st, Good(st), NEW r, IsRecord(r), r.kind # "start", r.id \in st.byID
  PROVE  /\ Wrote(st, Apply(st, r), r.id)
         /\ Spares(r.kind, st.node[r.id], Apply(st, r).node[r.id])
         /\ r.kind = "event" /\ Writable(st, r.id) =>
              Apply(st, r).node[r.id].events =
                Append(st.node[r.id].events, Happening(r))
<1> DEFINE now == Apply(st, r)
<1>0. Typed(st) /\ Shape(st) /\ r.id \in SpanID /\ r.kind \in {"update", "end", "event"}
  BY DEF Good, Typed, Shape, IsRecord
<1>1. CASE ~Writable(st, r.id)
  <2>1. now = st
    BY <1>0, <1>1 DEF Apply, ApplyUpdated, ApplyEnded, ApplyEvent
  <2> QED
    BY <1>1, <2>1 DEF Wrote, Spares
<1>2. CASE Writable(st, r.id)
  <2> DEFINE old == st.node[r.id]
             e == Happening(r)
             updated == [old EXCEPT !.attrs = FoldLeft(Merge, @, r.attrs)]
             ended == [old EXCEPT !.done = TRUE, !.endedAt = TimeValue(r.at),
                                  !.how = r.how, !.error = r.error]
             longer == [old EXCEPT !.events = Append(@, e)]
             n == IF r.kind = "update" THEN updated
                  ELSE IF r.kind = "end" THEN ended ELSE longer
  <2>1. DOMAIN old = DOMAIN Blank
    BY <1>0 DEF Shape
  <2>2. now = [st EXCEPT !.node = [@ EXCEPT ![r.id] = n]]
    <3>1. CASE r.kind = "update"
      <4>1. now = ApplyUpdated(st, r)
        BY <3>1 DEF Apply
      <4>2. ApplyUpdated(st, r) = [st EXCEPT !.node = [@ EXCEPT ![r.id] = updated]]
        BY <1>2 DEF ApplyUpdated
      <4> QED
        BY <3>1, <4>1, <4>2
    <3>2. CASE r.kind = "end"
      <4>1. now = ApplyEnded(st, r)
        BY <3>2 DEF Apply
      <4>2. ApplyEnded(st, r) = [st EXCEPT !.node = [@ EXCEPT ![r.id] = ended]]
        BY <1>2, ZenonT(40) DEF ApplyEnded
      <4> QED
        BY <3>2, <4>1, <4>2
    <3>3. CASE r.kind = "event"
      BY <1>0, <1>2, <3>3 DEF Apply, ApplyEvent, Happening, Shape
    <3> QED
      BY <1>0, <3>1, <3>2, <3>3
  <2>3. Spares(r.kind, old, n) /\ n.kids = old.kids /\ n.at = old.at
        /\ (r.kind = "event" => n.events = Append(old.events, e))
    <3> HIDE DEF old, e
    <3>1. CASE r.kind = "update"
      <4>1. n = updated
        BY <3>1
      <4> HIDE DEF n
      <4> QED
        BY <2>1, <3>1, <4>1, BlankIs DEF Spares
    <3>2. CASE r.kind = "end"
      <4>1. n = ended
        BY <3>2
      <4> HIDE DEF n
      <4> QED
        BY <2>1, <3>2, <4>1, BlankIs DEF Spares
    <3>3. CASE r.kind = "event"
      <4>1. n = longer
        BY <3>3
      <4> HIDE DEF n
      <4> QED
        BY <2>1, <3>3, <4>1, BlankIs DEF Spares
    <3> QED
      BY <1>0, <3>1, <3>2, <3>3
  <2> HIDE DEF n
  <2>4. /\ now.byID = st.byID /\ now.roots = st.roots /\ now.stale = st.stale
        /\ \A x \in SpanID : now.node[x] = IF x = r.id THEN n ELSE st.node[x]
    BY <1>0, <2>2 DEF Shape
  <2> HIDE DEF now
  <2>5. now.node[r.id] = n
    BY <1>0, <2>4
  <2>6. Wrote(st, now, r.id)
    BY <2>3, <2>4 DEF Wrote
  <2> QED
    BY <2>3, <2>5, <2>6 DEF now
<1> QED
  BY <1>1, <1>2

LEMMA SummarySame ==
  ASSUME NEW st, NEW now, NEW y, now.stale[y] = st.stale[y],
         now.node[y].at = st.node[y].at, now.node[y].done = st.node[y].done,
         now.node[y].endedAt = st.node[y].endedAt,
         now.node[y].error = st.node[y].error
  PROVE  SpanSummary(now, y) = SpanSummary(st, y)
<1>1. Open(now, y) <=> Open(st, y)
  BY DEF Open
<1>2. StatusText(now, y) = StatusText(st, y)
  BY <1>1 DEF StatusText
<1>3. Timer(now, y) = Timer(st, y)
  BY DEF Timer, HasTimer, TimerEnd
<1> QED
  BY <1>2, <1>3 DEF SpanSummary, SpanSummaryContents, SpanState, ErrorMessage

LEMMA AttributesSame ==
  ASSUME NEW st, NEW now, NEW y, now.node[y].attrs = st.node[y].attrs
  PROVE  SpanAttributes(now, y) = SpanAttributes(st, y)
BY DEF SpanAttributes

LEMMA ItemSame ==
  ASSUME NEW st, NEW now, NEW y, now.node[y].at = st.node[y].at, NEW item,
         now.node[y].events[item.index] = st.node[y].events[item.index]
  PROVE  TimelineItem(now, y, item) = TimelineItem(st, y, item)
<1>1. CASE item.show # None
  BY <1>1 DEF TimelineItem
<1>2. CASE item.show = None
  <2>1. EventCard(now, y, item) = EventCard(st, y, item)
    BY <1>2 DEF EventCard, TimelineOffset
  <2> QED
    BY <1>2, <2>1 DEF TimelineItem
<1> QED
  BY <1>1, <1>2

LEMMA TimelineSame ==
  ASSUME NEW st, NEW now, NEW y, now.node[y].at = st.node[y].at,
         now.node[y].events = st.node[y].events, now.node[y].kids = st.node[y].kids,
         \E S : st.node[y].events \in Seq(S), st.node[y].kids \in Seq(SpanID),
         \A k \in ToSet(st.node[y].kids) : now.node[k].at = st.node[k].at
  PROVE  SpanTimeline(now, y) = SpanTimeline(st, y)
<1> DEFINE E == st.node[y].events
           K == st.node[y].kids
           n == Len(E)
           u == Unsorted(st, y)
           v == Unsorted(now, y)
<1>1. n \in Nat /\ Len(K) \in Nat /\ \A i \in 1 .. Len(K) : K[i] \in ToSet(K)
  BY ToSetIn, LenProperties
<1>2. /\ u = [i \in 1 .. n + Len(K) |->
               IF i <= n THEN [at |-> E[i].at, index |-> i, show |-> None]
               ELSE [at |-> st.node[K[i - n]].at, index |-> i, show |-> K[i - n]]]
      /\ v = [i \in 1 .. n + Len(K) |->
               IF i <= n THEN [at |-> E[i].at, index |-> i, show |-> None]
               ELSE [at |-> now.node[K[i - n]].at, index |-> i, show |-> K[i - n]]]
  BY DEF Unsorted
<1>3. \A i \in 1 .. n + Len(K) : ~(i <= n) => i - n \in 1 .. Len(K)
  <2> DEFINE k == Len(K)
  <2>1. n \in Nat /\ k \in Nat
    BY <1>1
  <2> HIDE DEF n, k
  <2>2. \A i \in 1 .. n + k : ~(i <= n) => i - n \in 1 .. k
    BY <2>1
  <2> QED
    BY <2>2 DEF k
<1> HIDE DEF E, n
<1>4. \A j \in 1 .. Len(K) : now.node[K[j]].at = st.node[K[j]].at
  BY <1>1
<1> HIDE DEF K
<1>5. u = v
  BY <1>2, <1>3, <1>4
<1>6. TimelineItems(now, y) = TimelineItems(st, y)
  BY <1>5 DEF TimelineItems
<1>7. ASSUME NEW item
      PROVE  TimelineItem(now, y, item) = TimelineItem(st, y, item)
  <2>1. now.node[y].events[item.index] = st.node[y].events[item.index]
    OBVIOUS
  <2> QED
    BY <2>1, ItemSame
<1> QED
  BY <1>6, <1>7 DEF SpanTimeline, SpanTimelineContents

LEMMA AppendIs ==
  ASSUME NEW S, NEW f \in Seq(S), NEW g \in Seq(S), NEW z \in S, Len(g) = Len(f) + 1,
         \A i \in 1 .. Len(f) : g[i] = f[i], g[Len(f) + 1] = z
  PROVE  g = Append(f, z)
<1> DEFINE m == Len(f)
           h == Append(f, z)
<1>1. m \in Nat
  BY LenProperties
<1>2. /\ h \in Seq(S) /\ Len(h) = m + 1
      /\ \A i \in 1 .. m : h[i] = f[i]
      /\ h[m + 1] = z
  BY AppendProperties
<1> HIDE DEF h, m
<1>3. \A i \in 1 .. m + 1 : i \in 1 .. m \/ i = m + 1
  BY <1>1
<1>4. Len(g) = m + 1 /\ \A i \in 1 .. m + 1 : g[i] = h[i]
  BY <1>2, <1>3 DEF m
<1>5. g = h
  BY <1>2, <1>4, SeqEqual
<1> QED
  BY <1>5 DEF h

\* The same entries and a new one at the end are rendered as what was there and
\* the new one at the end.
LEMMA ContentsGrow ==
  ASSUME NEW st, NEW now, NEW x, NEW m \in Nat,
         DOMAIN TimelineItems(st, x) = 1 .. m,
         NEW S, NEW w \in Seq(S), Len(w) = m, NEW d,
         TimelineItems(now, x) = Append(w, d),
         \A i \in 1 .. m : TimelineItem(now, x, w[i]) =
                             TimelineItem(st, x, TimelineItems(st, x)[i])
  PROVE  SpanTimelineContents(now, x) =
           Append(SpanTimelineContents(st, x), TimelineItem(now, x, d))
<1> DEFINE f == SpanTimelineContents(st, x)
           g == SpanTimelineContents(now, x)
           t == Append(w, d)
           z == TimelineItem(now, x, d)
           T == {g[i] : i \in 1 .. m + 1}
<1>1. /\ DOMAIN t = 1 .. m + 1 /\ t[m + 1] = d /\ \A i \in 1 .. m : t[i] = w[i]
  OBVIOUS
<1>2. f = [i \in 1 .. m |-> TimelineItem(st, x, TimelineItems(st, x)[i])]
  BY DEF SpanTimelineContents
<1> HIDE DEF t
<1>3. g = [i \in 1 .. m + 1 |-> TimelineItem(now, x, t[i])]
  BY <1>1 DEF SpanTimelineContents, t
<1> HIDE DEF f, g
<1>4. \A i \in 1 .. m : i \in 1 .. m + 1 /\ g[i] = f[i]
  BY <1>1, <1>2, <1>3
<1>5. m + 1 \in 1 .. m + 1 /\ g[m + 1] = z
  BY <1>1, <1>3
<1>6. \A i \in 1 .. m + 1 : g[i] \in T
  OBVIOUS
<1>7. \A i \in 1 .. m : f[i] \in T
  BY <1>4, <1>6
<1> HIDE DEF z
<1>8. z \in T
  BY <1>5, <1>6
<1> HIDE DEF T
<1>9. f \in [1 .. m -> T] /\ g \in [1 .. m + 1 -> T]
  BY <1>2, <1>3, <1>6, <1>7
<1>10. f \in Seq(T) /\ g \in Seq(T) /\ Len(f) = m /\ Len(g) = m + 1
  BY <1>9
<1>11. g = Append(f, z)
  BY <1>4, <1>5, <1>8, <1>10, AppendIs
<1> QED
  BY <1>11 DEF f, g, z

-----------------------------------------------------------------------------
\* An entry in the place it has when there is one event more.
Later(i) == [at |-> i.at, show |-> i.show,
             index |-> IF i.show = None THEN i.index ELSE i.index + 1]

\* The events of x, then its children.
Members(st, x) ==
  LET E == st.node[x].events
      K == st.node[x].kids
      u == Unsorted(st, x)
      n == Len(E)
  IN  /\ n \in Nat /\ Len(K) \in Nat /\ Len(u) = n + Len(K)
      /\ \A i \in 1 .. n : u[i] = [at |-> E[i].at, index |-> i, show |-> None]
      /\ \A j \in 1 .. Len(K) :
           /\ u[n + j] = [at |-> st.node[K[j]].at, index |-> n + j, show |-> K[j]]
           /\ K[j] \in st.byID /\ K[j] \in SpanID /\ K[j] # None

LEMMA UnsortedEntries ==
  ASSUME NEW st, Good(st), Timed(st), NEW x \in SpanID
  PROVE  Members(st, x)
<1> DEFINE E == st.node[x].events
           K == st.node[x].kids
           u == Unsorted(st, x)
           n == Len(E)
<1>1. n \in Nat /\ Len(K) \in Nat /\ Len(u) = n + Len(K)
  BY UnsortedIs
<1>2. u = [i \in 1 .. n + Len(K) |->
            IF i <= n THEN [at |-> E[i].at, index |-> i, show |-> None]
            ELSE [at |-> st.node[K[i - n]].at, index |-> i, show |-> K[i - n]]]
  BY DEF Unsorted
<1>3. K \in Seq(SpanID) /\ ToSet(K) \subseteq st.byID /\ st.byID \subseteq SpanID
  BY TreeFacts, BlankIs, EmptySet DEF Good, Typed, Shape, IsForest, ClosedUnder
<1>4. \A j \in 1 .. Len(K) : K[j] \in st.byID /\ K[j] \in SpanID /\ K[j] # None
  BY <1>3, ToSetIn, StoreNoneAssumption
<1> HIDE DEF E, K, u, n
<1>5. \A i \in 1 .. n : /\ i \in 1 .. n + Len(K) /\ i <= n
  BY <1>1
<1>6. \A j \in 1 .. Len(K) : n + j \in 1 .. n + Len(K) /\ ~(n + j <= n) /\ (n + j) - n = j
  BY <1>1
<1>7. \A i \in 1 .. n : u[i] = [at |-> E[i].at, index |-> i, show |-> None]
  BY <1>2, <1>5
<1>8. \A j \in 1 .. Len(K) :
        u[n + j] = [at |-> st.node[K[j]].at, index |-> n + j, show |-> K[j]]
  BY <1>2, <1>6
<1> QED
  BY <1>1, <1>4, <1>7, <1>8 DEF E, K, u, n, Members

\* An event later than everything in the timeline is its last entry, though the
\* indices of the children move on.
LEMMA EventTimeline ==
  ASSUME NEW st, Good(st), Timed(st), NEW now, Good(now), Timed(now),
         NEW x \in SpanID, Wrote(st, now, x), NEW e, e.at \in Int,
         now.node[x].events = Append(st.node[x].events, e),
         \A i \in DOMAIN TimelineItems(st, x) : TimelineItems(st, x)[i].at < e.at
  PROVE  SpanTimelineContents(now, x) =
           Append(SpanTimelineContents(st, x), TimelineItem(now, x, EventItem(now, x)))
<1> DEFINE E == st.node[x].events
           F == now.node[x].events
           K == st.node[x].kids
           n == Len(E)
           k == Len(K)
           m == n + k
           u == Unsorted(st, x)
           v == Unsorted(now, x)
           items == TimelineItems(st, x)
           d == EventItem(now, x)
           w == [i \in 1 .. m |-> Later(items[i])]
<1>1. /\ n \in Nat /\ k \in Nat /\ m \in Nat /\ Len(u) = m
      /\ \A i \in 1 .. n : u[i] = [at |-> E[i].at, index |-> i, show |-> None]
      /\ \A j \in 1 .. k :
           /\ u[n + j] = [at |-> st.node[K[j]].at, index |-> n + j, show |-> K[j]]
           /\ K[j] \in SpanID /\ K[j] # None
  <2>1. Members(st, x)
    BY UnsortedEntries
  <2> HIDE DEF m
  <2>2. n \in Nat /\ k \in Nat /\ Len(u) = n + k
    BY <2>1 DEF Members
  <2>3. m \in Nat /\ Len(u) = m
    <3> HIDE DEF n, k, u
    <3> QED
      BY <2>2 DEF m
  <2> QED
    BY <2>1, <2>3 DEF Members
<1>2. now.node[x].kids = K /\ F = Append(E, e)
      /\ \A y \in SpanID : now.node[y].at = st.node[y].at
  BY DEF Wrote
<1>3. Len(F) = n + 1 /\ F[n + 1] = e /\ \A i \in 1 .. n : F[i] = E[i]
  <2>1. PICK S : E \in Seq(S)
    BY DEF Timed, Moments
  <2> HIDE DEF E, F
  <2> QED
    BY <1>2, <2>1
<1>4. /\ Len(v) = n + 1 + k
      /\ \A i \in 1 .. n + 1 : v[i] = [at |-> F[i].at, index |-> i, show |-> None]
      /\ \A j \in 1 .. k :
           v[n + 1 + j] = [at |-> now.node[K[j]].at, index |-> n + 1 + j, show |-> K[j]]
  <2>1. Members(now, x)
    BY UnsortedEntries
  <2>2. Len(F) = n + 1 /\ now.node[x].kids = K
    BY <1>2, <1>3
  <2> HIDE DEF n, K
  <2> QED
    BY <2>1, <2>2 DEF Members
<1>5. d = [at |-> e.at, index |-> n + 1, show |-> None]
  BY <1>3 DEF EventItem
<1>6. /\ Len(items) = m /\ InRow(items) /\ DOMAIN items = 1 .. m
      /\ {items[i] : i \in 1 .. m} = {u[i] : i \in 1 .. m}
      /\ \A i \in 1 .. m : items[i].at \in Int /\ items[i].index \in Int
  <2>1. Entries(st, x)
    BY TimelineEntries
  <2> HIDE DEF m
  <2> QED
    BY <1>1, <2>1 DEF Entries, IsItem
<1>7. \A i \in 1 .. m : items[i].at < e.at
  BY <1>6
<1>8. now.node[x].at = st.node[x].at /\ \A i \in 1 .. n : now.node[x].events[i] = E[i]
  BY <1>2, <1>3
<1> HIDE DEF E, F, K, n, k, u, v, items, d
\* The entries of u, as events and children.
<1>9. ASSUME NEW i \in 1 .. m
      PROVE  \/ i \in 1 .. n /\ items[i] \in {u[j] : j \in 1 .. m}
             \/ i \notin 1 .. n /\ items[i] \in {u[j] : j \in 1 .. m}
  BY <1>6
<1>10. ASSUME NEW i \in 1 .. m
       PROVE  \/ i \in 1 .. n
              \/ \E j \in 1 .. k : i = n + j
  <2>1. CASE i <= n
    BY <1>1, <2>1
  <2>2. CASE ~(i <= n)
    <3>1. i - n \in 1 .. k /\ i = n + (i - n)
      BY <1>1, <2>2
    <3> QED
      BY <3>1
  <2> QED
    BY <2>1, <2>2
<1>11. ASSUME NEW i \in 1 .. n
       PROVE  i \in 1 .. m /\ Later(u[i]) = u[i] /\ v[i] = u[i] /\ i \in 1 .. n + 1
  <2>1. u[i] = [at |-> E[i].at, index |-> i, show |-> None] /\ i \in 1 .. n + 1 /\ i \in 1 .. m
    BY <1>1
  <2>2. v[i] = [at |-> E[i].at, index |-> i, show |-> None]
    BY <1>3, <1>4, <2>1
  <2> QED
    BY <2>1, <2>2 DEF Later
<1>12. ASSUME NEW j \in 1 .. k
       PROVE  n + j \in 1 .. m /\ Later(u[n + j]) = v[n + 1 + j]
  <2>1. u[n + j] = [at |-> st.node[K[j]].at, index |-> n + j, show |-> K[j]]
        /\ K[j] \in SpanID /\ K[j] # None /\ n + j \in 1 .. m /\ (n + j) + 1 = n + 1 + j
    BY <1>1
  <2>2. v[n + 1 + j] = [at |-> st.node[K[j]].at, index |-> n + 1 + j, show |-> K[j]]
    BY <1>2, <1>4, <2>1
  <2> QED
    BY <2>1, <2>2 DEF Later
<1>13. v[n + 1] = d
  BY <1>1, <1>3, <1>4, <1>5
<1>14. {v[i] : i \in 1 .. m + 1} = {w[i] : i \in 1 .. m} \cup {d}
  <2>1. \A h : h \in {w[i] : i \in 1 .. m} <=> \E i \in 1 .. m : h = Later(u[i])
    <3>1. \A i \in 1 .. m : w[i] = Later(items[i])
      OBVIOUS
    <3>2. \A i \in 1 .. m : (\E j \in 1 .. m : items[i] = u[j])
                            /\ (\E j \in 1 .. m : u[i] = items[j])
      BY <1>6
    <3> HIDE DEF w, m
    <3>3. ASSUME NEW h, h \in {w[i] : i \in 1 .. m}
          PROVE  \E i \in 1 .. m : h = Later(u[i])
      <4>1. PICK i \in 1 .. m : h = w[i]
        BY <3>3
      <4>2. PICK j \in 1 .. m : items[i] = u[j]
        BY <3>2
      <4>3. h = Later(u[j])
        BY <3>1, <4>1, <4>2
      <4> QED
        BY <4>3
    <3>4. ASSUME NEW h, NEW i \in 1 .. m, h = Later(u[i])
          PROVE  h \in {w[j] : j \in 1 .. m}
      <4>1. PICK j \in 1 .. m : u[i] = items[j]
        BY <3>2
      <4>2. h = w[j]
        BY <3>1, <3>4, <4>1
      <4> QED
        BY <4>2
    <3> QED
      BY <3>3, <3>4
  <2>2. ASSUME NEW i \in 1 .. m PROVE \E j \in 1 .. m + 1 : Later(u[i]) = v[j]
    <3>1. CASE i \in 1 .. n
      <4>1. i \in 1 .. m + 1
        BY <1>1
      <4> QED
        BY <1>11, <3>1, <4>1
    <3>2. ASSUME NEW j \in 1 .. k, i = n + j PROVE \E l \in 1 .. m + 1 : Later(u[i]) = v[l]
      <4>1. n + 1 + j \in 1 .. m + 1
        BY <1>1
      <4>2. Later(u[n + j]) = v[n + 1 + j]
        BY <1>12
      <4> QED
        BY <3>2, <4>1, <4>2
    <3> QED
      BY <1>10, <3>1, <3>2
  <2>3. ASSUME NEW i \in 1 .. m + 1 PROVE v[i] = d \/ \E j \in 1 .. m : v[i] = Later(u[j])
    <3>1. CASE i \in 1 .. n
      BY <1>11, <3>1
    <3>2. CASE i = n + 1
      BY <1>13, <3>2
    <3>3. CASE i > n + 1
      <4>1. i - (n + 1) \in 1 .. k /\ n + 1 + (i - (n + 1)) = i
        BY <1>1, <3>3
      <4> DEFINE j == i - (n + 1)
      <4>2. j \in 1 .. k /\ n + 1 + j = i
        BY <4>1
      <4> HIDE DEF j
      <4>3. n + j \in 1 .. m /\ Later(u[n + j]) = v[n + 1 + j]
        BY <1>12, <4>2
      <4> QED
        BY <4>2, <4>3
    <3> QED
      BY <1>1, <3>1, <3>2, <3>3
  <2>4. n + 1 \in 1 .. m + 1
    BY <1>1
  <2> HIDE DEF w, m
  <2>5. {v[i] : i \in 1 .. m + 1} \subseteq {w[i] : i \in 1 .. m} \cup {d}
    BY <2>1, <2>3
  <2>6. {w[i] : i \in 1 .. m} \subseteq {v[i] : i \in 1 .. m + 1}
    <3> SUFFICES ASSUME NEW h, h \in {w[i] : i \in 1 .. m}
                 PROVE  h \in {v[i] : i \in 1 .. m + 1}
      OBVIOUS
    <3>1. PICK i \in 1 .. m : h = Later(u[i])
      BY <2>1
    <3>2. PICK j \in 1 .. m + 1 : Later(u[i]) = v[j]
      BY <2>2
    <3> QED
      BY <3>1, <3>2
  <2>7. d \in {v[i] : i \in 1 .. m + 1}
    BY <1>13, <2>4
  <2> QED
    BY <2>5, <2>6, <2>7
<1>15. ASSUME NEW i \in 1 .. m
       PROVE  /\ w[i].at = items[i].at /\ w[i].index \in Int
              /\ w[i].index = IF items[i].show = None THEN items[i].index
                              ELSE items[i].index + 1
              /\ \/ items[i].show = None /\ items[i].index <= n
                    /\ items[i].index \in 1 .. n
                 \/ items[i].show # None /\ items[i].index > n
  <2>1. PICK j \in 1 .. m : items[i] = u[j]
    BY <1>6
  <2> DEFINE Known == \/ items[i].show = None /\ items[i].index <= n
                         /\ items[i].index \in 1 .. n
                      \/ items[i].show # None /\ items[i].index > n
  <2>2. Known
    <3>1. ASSUME j \in 1 .. n PROVE Known
      <4>1. u[j] = [at |-> E[j].at, index |-> j, show |-> None]
        BY <1>1, <3>1
      <4>2. j <= n
        BY <1>1, <3>1
      <4>3. items[i].show = None /\ items[i].index = j
        BY <2>1, <4>1
      <4> QED
        BY <3>1, <4>2, <4>3
    <3>2. ASSUME NEW l \in 1 .. k, j = n + l
          PROVE  Known
      <4>1. /\ u[n + l] = [at |-> st.node[K[l]].at, index |-> n + l, show |-> K[l]]
            /\ K[l] # None
        BY <1>1
      <4>2. items[i] = u[n + l]
        BY <2>1, <3>2
      <4>3. n + l > n
        BY <1>1
      <4> QED
        BY <4>1, <4>2, <4>3
    <3>3. j \in 1 .. n \/ \E l \in 1 .. k : j = n + l
      BY <1>10
    <3> HIDE DEF Known
    <3> QED
      BY <3>1, <3>2, <3>3
  <2>3. w[i] = Later(items[i]) /\ items[i].index \in Int
    BY <1>6
  <2> HIDE DEF w
  <2> QED
    BY <2>2, <2>3 DEF Later
<1>16. w = [i \in 1 .. m |-> w[i]] /\ Len(w) = m /\ \E S : w \in Seq(S)
  <2>1. w = [i \in 1 .. m |-> w[i]]
    OBVIOUS
  <2>2. w \in Seq({w[i] : i \in 1 .. m}) /\ Len(w) = m
    BY <1>1
  <2> HIDE DEF w
  <2> QED
    BY <2>1, <2>2
<1>17. \A i \in 1 .. m : TimelineItem(now, x, w[i]) = TimelineItem(st, x, items[i])
  <2> TAKE i \in 1 .. m
  <2>1. w[i] = Later(items[i])
    OBVIOUS
  <2>2. CASE items[i].show # None
    BY <2>1, <2>2 DEF TimelineItem, Later
  <2>3. CASE items[i].show = None
    <3>1. PICK j \in 1 .. m : items[i] = u[j]
      BY <1>6
    <3>2. j \in 1 .. n
      <4>1. j \in 1 .. n \/ \E l \in 1 .. k : j = n + l
        BY <1>10
      <4> SUFFICES ASSUME NEW l \in 1 .. k, j = n + l PROVE FALSE
        BY <4>1
      <4>2. /\ u[n + l] = [at |-> st.node[K[l]].at, index |-> n + l, show |-> K[l]]
            /\ K[l] # None
        BY <1>1
      <4> QED
        BY <2>3, <3>1, <4>2
    <3>3. w[i] = items[i] /\ items[i].index = j
      <4>1. Later(u[j]) = u[j]
        BY <1>11, <3>2
      <4>2. u[j] = [at |-> E[j].at, index |-> j, show |-> None]
        BY <1>1, <3>2
      <4> QED
        BY <2>1, <3>1, <4>1, <4>2
    <3>4. now.node[x].events[items[i].index] = st.node[x].events[items[i].index]
      BY <1>8, <3>2, <3>3 DEF E
    <3>5. now.node[x].at = st.node[x].at
      BY <1>8
    <3> DEFINE old == items[i]
    <3> HIDE DEF old
    <3>6. TimelineItem(now, x, old) = TimelineItem(st, x, old)
      <4>1. now.node[x].events[old.index] = st.node[x].events[old.index]
        BY <3>4 DEF old
      <4> QED
        BY <3>5, <4>1 DEF TimelineItem, EventCard, TimelineOffset
    <3>7. w[i] = old
      BY <3>3 DEF old
    <3> QED
      BY <3>6, <3>7 DEF old
  <2> QED
    BY <2>2, <2>3
<1> HIDE DEF w
<1>18. InRow(w)
  <2>1. ASSUME NEW i \in 1 .. m, NEW j \in 1 .. m, i < j PROVE Precedes(w[i], w[j])
    <3>1. Precedes(items[i], items[j])
      BY <1>6, <2>1 DEF InRow
    <3>2. /\ items[i].at \in Int /\ items[j].at \in Int
          /\ items[i].index \in Int /\ items[j].index \in Int
      BY <1>6
    <3>3. items[i].index < items[j].index => w[i].index < w[j].index
      <4> DEFINE a == items[i].index
                 c == items[j].index
                 l == items[i].show = None
                 r == items[j].show = None
      <4>1. /\ a \in Int /\ c \in Int /\ n \in Nat
            /\ w[i].index = (IF l THEN a ELSE a + 1)
            /\ w[j].index = (IF r THEN c ELSE c + 1)
            /\ (l /\ a <= n) \/ (~l /\ a > n)
            /\ (r /\ c <= n) \/ (~r /\ c > n)
        BY <1>1, <1>15, <3>2
      <4> HIDE DEF a, c, l, r
      <4>2. a < c => w[i].index < w[j].index
        BY <4>1
      <4> QED
        BY <4>2 DEF a, c
    <3> QED
      BY <1>15, <3>1, <3>2, <3>3 DEF Precedes
  <2> QED
    BY <1>16, <2>1 DEF InRow
<1>19. \A i \in 1 .. m : IsItem(w[i]) /\ Precedes(w[i], d)
  BY <1>5, <1>6, <1>7, <1>15, WebAssumption DEF IsItem, Timely, Precedes
<1>20. IsItem(d)
  BY <1>1, <1>5 DEF IsItem, Timely
<1>21. Grown(Unsorted(now, x), w, d)
  <2>1. Len(v) = m + 1
    BY <1>1, <1>4
  <2> QED
    BY <1>14, <1>16, <2>1 DEF v, Grown
<1> HIDE DEF m
<1>22. PICK S : w \in Seq(S)
  BY <1>16
<1>23. TimelineItems(now, x) = Append(w, d)
  <2> HIDE DEF d
  <2>1. \A i \in 1 .. Len(w) : IsItem(w[i]) /\ Precedes(w[i], d)
    BY <1>16, <1>19
  <2> QED
    BY <1>18, <1>20, <1>21, <1>22, <2>1, TimelineGrows
<1>24. DOMAIN TimelineItems(st, x) = 1 .. m
       /\ \A i \in 1 .. m : TimelineItem(now, x, w[i]) =
                             TimelineItem(st, x, TimelineItems(st, x)[i])
  BY <1>6, <1>17 DEF items
<1>25. SpanTimelineContents(now, x) =
         Append(SpanTimelineContents(st, x), TimelineItem(now, x, d))
  BY <1>1, <1>16, <1>22, <1>23, <1>24, ContentsGrow
<1> QED
  BY <1>25 DEF d

\* So is a child that starts later.
LEMMA StartTimeline ==
  ASSUME NEW st, Good(st), Timed(st), NEW now, Good(now), Timed(now),
         NEW r, r.id \in SpanID, r.id \notin st.byID, r.up \in st.byID,
         IsBorn(st, r, now),
         \A i \in DOMAIN TimelineItems(st, r.up) :
           TimelineItems(st, r.up)[i].at < now.node[r.id].at
  PROVE  SpanTimelineContents(now, r.up) =
           Append(SpanTimelineContents(st, r.up),
                  TimelineItem(now, r.up, ChildItem(now, r.up, r.id)))
<1> DEFINE p == r.up
           E == st.node[p].events
           K == st.node[p].kids
           n == Len(E)
           k == Len(K)
           m == n + k
           u == Unsorted(st, p)
           v == Unsorted(now, p)
           items == TimelineItems(st, p)
           d == [at |-> now.node[r.id].at, index |-> m + 1, show |-> r.id]
<1>0. p \in SpanID /\ p # r.id /\ Shape(st) /\ r.id # None /\ now.node[r.id].at \in Int
      /\ \A y \in SpanID : DOMAIN st.node[y] = DOMAIN Blank
  BY StoreNoneAssumption DEF Good, Typed, Shape, Timed, IsBorn
<1>1. /\ n \in Nat /\ k \in Nat /\ m \in Nat /\ Len(u) = m
      /\ \A i \in 1 .. n : u[i] = [at |-> E[i].at, index |-> i, show |-> None]
      /\ \A j \in 1 .. k :
           /\ u[n + j] = [at |-> st.node[K[j]].at, index |-> n + j, show |-> K[j]]
           /\ K[j] \in st.byID /\ K[j] \in SpanID /\ K[j] # None
  <2>1. Members(st, p)
    BY <1>0, UnsortedEntries
  <2> HIDE DEF m
  <2>2. n \in Nat /\ k \in Nat /\ Len(u) = n + k
    BY <2>1 DEF Members
  <2>3. m \in Nat /\ Len(u) = m
    <3> HIDE DEF n, k, u
    <3> QED
      BY <2>2 DEF m
  <2> QED
    BY <2>1, <2>3 DEF Members
<1>2. /\ now.node[p] = [st.node[p] EXCEPT !.kids = Append(@, r.id)]
      /\ now.node[p].kids = Append(K, r.id)
  BY <1>0 DEF IsBorn
<1>3. now.node[p].events = E /\ now.node[p].at = st.node[p].at
  <2>1. "events" \in DOMAIN st.node[p] /\ "at" \in DOMAIN st.node[p]
    BY <1>0, BlankIs
  <2> QED
    BY <1>2, <2>1
<1>4. \A y \in st.byID : now.node[y].at = st.node[y].at
  <2> TAKE y \in st.byID
  <2>1. y \in SpanID /\ y # r.id
    BY <1>0 DEF Shape
  <2>2. CASE y = p
    BY <1>3, <2>2
  <2>3. CASE y # p
    BY <2>1, <2>3 DEF IsBorn
  <2> QED
    BY <2>2, <2>3
<1>5. K \in Seq(SpanID) /\ Len(Append(K, r.id)) = k + 1
      /\ Append(K, r.id)[k + 1] = r.id /\ \A j \in 1 .. k : Append(K, r.id)[j] = K[j]
  <2>1. K \in Seq(SpanID) /\ r.id \in SpanID
    BY <1>0 DEF Good, Typed
  <2> HIDE DEF K
  <2> QED
    BY <2>1, AppendProperties
<1>6. /\ Len(v) = n + (k + 1)
      /\ \A i \in 1 .. n : v[i] = [at |-> E[i].at, index |-> i, show |-> None]
      /\ \A j \in 1 .. k + 1 :
           v[n + j] = [at |-> now.node[Append(K, r.id)[j]].at, index |-> n + j,
                       show |-> Append(K, r.id)[j]]
  <2>1. Members(now, p)
    BY <1>0, UnsortedEntries
  <2>2. Len(Append(K, r.id)) = k + 1 /\ now.node[p].kids = Append(K, r.id)
        /\ now.node[p].events = E
    BY <1>2, <1>3, <1>5
  <2> HIDE DEF E, K, n, k, v, p
  <2>3. n = Len(now.node[p].events)
    BY <2>2 DEF n
  <2> QED
    BY <2>1, <2>2, <2>3 DEF Members, v
<1>7. /\ Len(items) = m /\ InRow(items) /\ DOMAIN items = 1 .. m
      /\ {items[i] : i \in 1 .. m} = {u[i] : i \in 1 .. m}
      /\ \A i \in 1 .. m : items[i].at \in Int /\ items[i].index \in Int /\ IsItem(items[i])
      /\ \E S : items \in Seq(S)
      /\ \A i \in 1 .. m : u[i].index = i
  <2>1. Entries(st, p)
    BY <1>0, TimelineEntries
  <2> HIDE DEF m, p
  <2> QED
    BY <1>1, <2>1 DEF Entries, IsItem
<1>8. \A i \in 1 .. m : items[i].at < now.node[r.id].at
  BY <1>7
<1> HIDE DEF E, K, n, k, u, v, items
<1>9. \A i \in 1 .. m : v[i] = u[i]
  <2> TAKE i \in 1 .. m
  <2>1. CASE i <= n
    <3>1. i \in 1 .. n
      BY <1>1, <2>1
    <3> QED
      BY <1>1, <1>6, <3>1
  <2>2. CASE ~(i <= n)
    <3>1. i - n \in 1 .. k /\ i - n \in 1 .. k + 1 /\ n + (i - n) = i
      BY <1>1, <2>2
    <3> DEFINE j == i - n
    <3>2. j \in 1 .. k /\ j \in 1 .. k + 1 /\ n + j = i
      BY <3>1
    <3> HIDE DEF j
    <3>3. Append(K, r.id)[j] = K[j] /\ now.node[K[j]].at = st.node[K[j]].at
      BY <1>1, <1>4, <1>5, <3>2
    <3>4. u[n + j] = [at |-> st.node[K[j]].at, index |-> n + j, show |-> K[j]]
      BY <1>1, <3>2
    <3>5. v[n + j] = [at |-> now.node[Append(K, r.id)[j]].at, index |-> n + j,
                      show |-> Append(K, r.id)[j]]
      BY <1>6, <3>2
    <3>6. u[n + j] = v[n + j]
      BY <3>3, <3>4, <3>5
    <3> QED
      BY <3>2, <3>6
  <2> QED
    BY <2>1, <2>2
<1>10. v[m + 1] = d
  <2>1. k + 1 \in 1 .. k + 1 /\ n + (k + 1) = m + 1
    BY <1>1
  <2> QED
    BY <1>5, <1>6, <2>1
<1>11. {v[i] : i \in 1 .. m + 1} = {items[i] : i \in 1 .. m} \cup {d}
  <2>1. \A i \in 1 .. m + 1 : i \in 1 .. m \/ i = m + 1
    BY <1>1
  <2>2. m + 1 \in 1 .. m + 1 /\ \A i \in 1 .. m : i \in 1 .. m + 1
    BY <1>1
  <2> HIDE DEF m, d
  <2>3. {v[i] : i \in 1 .. m + 1} \subseteq {u[i] : i \in 1 .. m} \cup {d}
    BY <1>9, <1>10, <2>1
  <2>4. {u[i] : i \in 1 .. m} \cup {d} \subseteq {v[i] : i \in 1 .. m + 1}
    <3>1. \A i \in 1 .. m : u[i] \in {v[l] : l \in 1 .. m + 1}
      BY <1>9, <2>2
    <3>2. d \in {v[l] : l \in 1 .. m + 1}
      BY <1>10, <2>2
    <3> QED
      BY <3>1, <3>2
  <2> QED
    BY <1>7, <2>3, <2>4
<1>12. \A i \in 1 .. m : IsItem(items[i]) /\ Precedes(items[i], d)
  BY <1>0, <1>7, <1>8, WebAssumption DEF Precedes
<1>13. IsItem(d)
  BY <1>0, <1>1 DEF IsItem, Timely
<1>14. Grown(Unsorted(now, p), items, d)
  <2>1. Len(v) = m + 1
    BY <1>1, <1>6
  <2> QED
    BY <1>7, <1>11, <2>1 DEF v, Grown
<1>15. TimelineItem(now, p, d) = TimelineItem(now, p, ChildItem(now, p, r.id))
  BY <1>0 DEF TimelineItem, ChildItem
<1>16. ASSUME NEW item PROVE TimelineItem(now, p, item) = TimelineItem(st, p, item)
  <2>1. now.node[p].events[item.index] = st.node[p].events[item.index]
    BY <1>3 DEF E
  <2> QED
    BY <1>3, <2>1, ItemSame
<1> HIDE DEF m, d, p
<1>17. PICK S : items \in Seq(S)
  BY <1>7
<1>18. TimelineItems(now, p) = Append(items, d)
  BY <1>0, <1>7, <1>12, <1>13, <1>14, <1>17, TimelineGrows
<1>19. DOMAIN TimelineItems(st, p) = 1 .. m
       /\ \A i \in 1 .. m : TimelineItem(now, p, items[i]) =
                             TimelineItem(st, p, TimelineItems(st, p)[i])
  BY <1>7, <1>16 DEF items
<1>20. SpanTimelineContents(now, p) =
         Append(SpanTimelineContents(st, p), TimelineItem(now, p, d))
  BY <1>1, <1>7, <1>17, <1>18, <1>19, ContentsGrow
<1> QED
  BY <1>15, <1>20 DEF p

-----------------------------------------------------------------------------
(***************************************************************************)
(* A page has a card for every span of the tree; what a patch makes of it. *)
(***************************************************************************)
Card(st, y) == SpanCardContents(st, y, Depth(st, y))

Cards(st, X) == [y \in Below(st, X) |-> Card(st, y)]

LEMMA DepthIsNat ==
  ASSUME NEW st, Good(st), IsFiniteSet(st.byID), NEW y
  PROVE  Depth(st, y) \in Nat
<1>1. Above(st, y) \in SUBSET st.byID
  BY DEF Above, Good, IsForest
<1>2. IsFiniteSet(Above(st, y))
  BY <1>1, FS_Subset
<1> QED
  BY <1>2, DepthIs, FS_CardinalityType

LEMMA RootsIs ==
  ASSUME NEW st, Good(st), IsFiniteSet(st.byID)
  PROVE  Roots(st) = [order |-> st.roots, card |-> [y \in st.byID |-> Card(st, y)]]
<1> DEFINE X == ToSet(st.roots)
<1>1. Below(st, X) = st.byID /\ \A y : Distance(st, X, y) = Depth(st, y)
  BY DEF Good, IsForest, InTree, Depth
<1> HIDE DEF X
<1>2. \A y \in st.byID : 0 + Distance(st, X, y) = Depth(st, y)
  BY <1>1, DepthIsNat
<1>3. SpanCards(st, X, 0) = [y \in st.byID |-> Card(st, y)]
  <2>1. SpanCards(st, X, 0) =
          [y \in st.byID |-> SpanCardContents(st, y, 0 + Distance(st, X, y))]
    BY <1>1 DEF SpanCards
  <2>2. \A y \in st.byID : SpanCardContents(st, y, 0 + Distance(st, X, y)) = Card(st, y)
    BY <1>2 DEF Card
  <2> QED
    BY <2>1, <2>2
<1> QED
  BY <1>3 DEF Roots, X

\* The cards inside a card are rendered alone as they are on a page.
LEMMA SpanCardsIs ==
  ASSUME NEW st, Good(st), IsFiniteSet(st.byID), NEW x \in st.byID,
         NEW X \in SUBSET ToSet(st.node[x].kids)
  PROVE  SpanCards(st, X, Depth(st, x) + 1) = Cards(st, X) /\ Below(st, X) \subseteq st.byID
<1> DEFINE d == Depth(st, x)
<1>1. \A y \in Below(st, X) : y \in st.byID /\ d + 1 + Distance(st, X, y) = Depth(st, y)
  BY DepthInside
<1> HIDE DEF d
<1>2. SpanCards(st, X, d + 1) =
        [y \in Below(st, X) |-> SpanCardContents(st, y, d + 1 + Distance(st, X, y))]
  BY DEF SpanCards
<1>3. \A y \in Below(st, X) :
        SpanCardContents(st, y, d + 1 + Distance(st, X, y)) = Card(st, y)
  BY <1>1 DEF Card
<1> QED
  BY <1>1, <1>2, <1>3 DEF d, Cards

\* The card of the span that a patch is for.
Remade(card, patch) ==
  IF patch.part = "summary" THEN [card EXCEPT !.summary = patch.new]
  ELSE IF patch.part = "attrs" THEN [card EXCEPT !.attrs = patch.new]
  ELSE IF patch.part = "timeline" THEN [card EXCEPT !.timeline = patch.new]
  ELSE [card EXCEPT !.timeline.list = Append(@, patch.new)]

\* The patch has all that is new in the rendering of now.
Covers(patch, st, now) ==
  LET x == patch.span
  IN  /\ patch.part \in {"summary", "attrs", "timeline", "list"}
      /\ patch.part = "list" => Card(st, x).timeline.list # <<>>
      /\ patch.part \in {"summary", "attrs"} => DOMAIN patch.cards = {}
      /\ x \in st.byID /\ now.roots = st.roots
      /\ now.byID = st.byID \cup DOMAIN patch.cards
      /\ \A y \in DOMAIN patch.cards : patch.cards[y] = Card(now, y)
      /\ \A y \in st.byID \ {x} : Card(now, y) = Card(st, y)
      /\ Card(now, x) = Remade(Card(st, x), patch)

LEMMA PatchCovers ==
  ASSUME NEW st, Good(st), IsFiniteSet(st.byID),
         NEW now, Good(now), IsFiniteSet(now.byID),
         NEW patch, Covers(patch, st, now)
  PROVE  Patched(Roots(st), patch) = Roots(now)
<1> DEFINE x == patch.span
           c == [y \in st.byID |-> Card(st, y)]
           d == [y \in now.byID |-> Card(now, y)]
           p == [order |-> st.roots, card |-> c]
           n == Remade(c[x], patch)
           both == [y \in DOMAIN patch.cards \cup DOMAIN c |->
                      IF y \in DOMAIN patch.cards THEN patch.cards[y] ELSE c[y]]
<1>1. Roots(st) = p /\ Roots(now) = [order |-> st.roots, card |-> d]
  BY RootsIs DEF Covers
<1>2. /\ DOMAIN c = st.byID /\ \A y \in st.byID : c[y] = Card(st, y)
      /\ x \in st.byID /\ DOMAIN p = {"order", "card"} /\ p.card = c
  BY DEF Covers
<1>3. [both EXCEPT ![x] = n] = d
  <2>1. DOMAIN both = now.byID
    BY <1>2 DEF Covers
  <2>2. n = Card(now, x)
    BY <1>2 DEF Covers
  <2>3. \A y \in now.byID : y # x => both[y] = Card(now, y)
    BY <1>2 DEF Covers
  <2>4. both = [y \in now.byID |-> both[y]]
    BY <2>1
  <2> HIDE DEF both, n, x
  <2>5. \A y \in now.byID : [both EXCEPT ![x] = n][y] = Card(now, y)
    BY <2>1, <2>2, <2>3
  <2> QED
    BY <2>1, <2>5
<1>4. patch.part \in {"summary", "attrs"} => both = c
  BY <1>2 DEF Covers
<1> HIDE DEF c, d, both, n
<1>5. p.card[x] = c[x]
  BY <1>2
<1>6. ASSUME NEW e PROVE [p EXCEPT !.card = e] = [order |-> st.roots, card |-> e]
  OBVIOUS
<1>7. Patched(p, patch) = [p EXCEPT !.card = [both EXCEPT ![x] = n]]
  <2>1. CASE patch.part = "summary"
    <3>1. Patched(p, patch) = [p EXCEPT !.card[x].summary = patch.new]
      BY <1>2, <2>1 DEF Patched
    <3>2. n = [c[x] EXCEPT !.summary = patch.new]
      BY <2>1 DEF n, Remade
    <3> QED
      BY <1>2, <1>4, <2>1, <3>1, <3>2
  <2>2. CASE patch.part = "attrs"
    <3>1. Patched(p, patch) = [p EXCEPT !.card[x].attrs = patch.new]
      BY <1>2, <2>2 DEF Patched
    <3>2. n = [c[x] EXCEPT !.attrs = patch.new]
      BY <2>2 DEF n, Remade
    <3> QED
      BY <1>2, <1>4, <2>2, <3>1, <3>2
  <2>3. CASE patch.part = "timeline"
    <3>1. n = [c[x] EXCEPT !.timeline = patch.new]
      BY <2>3 DEF n, Remade
    <3> QED
      BY <1>2, <1>5, <2>3, <3>1 DEF Patched, both
  <2>4. CASE patch.part = "list"
    <3>1. n = [c[x] EXCEPT !.timeline.list = Append(@, patch.new)]
      BY <2>4 DEF n, Remade
    <3>2. c[x].timeline.list # <<>>
      BY <1>2, <2>4 DEF Covers
    <3> QED
      BY <1>2, <1>5, <2>4, <3>1, <3>2 DEF Patched, both
  <2> QED
    BY <2>1, <2>2, <2>3, <2>4 DEF Covers
<1> QED
  BY <1>1, <1>3, <1>6, <1>7

-----------------------------------------------------------------------------
(***************************************************************************)
(* The snapshot of a record covers what the record has changed.            *)
(***************************************************************************)
LEMMA CardIs ==
  ASSUME NEW st, NEW y
  PROVE  Card(st, y) = [hue |-> SpanHue(Depth(st, y)), summary |-> SpanSummary(st, y),
                        attrs |-> SpanAttributes(st, y),
                        timeline |-> SpanTimeline(st, y)]
BY DEF Card, SpanCardContents

LEMMA SameCard ==
  ASSUME NEW st, Good(st), Timed(st), NEW now, NEW y \in st.byID,
         now.node[y] = st.node[y], now.stale[y] = st.stale[y],
         Depth(now, y) = Depth(st, y),
         \A z \in st.byID : now.node[z].at = st.node[z].at
  PROVE  Card(now, y) = Card(st, y)
<1>1. y \in SpanID /\ st.node[y].kids \in Seq(SpanID)
      /\ ToSet(st.node[y].kids) \subseteq st.byID
  BY TreeFacts DEF Good, Typed, Shape, IsForest, ClosedUnder
<1>2. \E S : st.node[y].events \in Seq(S)
  BY <1>1 DEF Timed, Moments
<1>3. SpanTimeline(now, y) = SpanTimeline(st, y)
  BY <1>1, <1>2, TimelineSame
<1>4. SpanSummary(now, y) = SpanSummary(st, y)
  BY SummarySame
<1>5. SpanAttributes(now, y) = SpanAttributes(st, y)
  BY AttributesSame
<1> QED
  BY <1>3, <1>4, <1>5, CardIs

LEMMA WroteSame ==
  ASSUME NEW st, Good(st), Timed(st), NEW now, NEW x \in SpanID, Wrote(st, now, x)
  PROVE  /\ \A y : Depth(now, y) = Depth(st, y)
         /\ \A y \in st.byID \ {x} : Card(now, y) = Card(st, y)
<1>1. /\ now.roots = st.roots /\ now.byID = st.byID /\ now.stale = st.stale
      /\ \A y \in SpanID : /\ now.node[y].kids = st.node[y].kids
                           /\ now.node[y].at = st.node[y].at
                           /\ y # x => now.node[y] = st.node[y]
  BY DEF Wrote
<1>2. \A X : Below(now, X) = Below(st, X)
  BY <1>1, BelowSame
<1>3. \A y : Above(now, y) = Above(st, y)
  BY <1>1, <1>2 DEF Above, InTree
<1>4. \A y : Depth(now, y) = Depth(st, y)
  BY <1>3, DepthIs
<1>5. st.byID \subseteq SpanID
  BY DEF Good, Typed, Shape
<1>6. ASSUME NEW y \in st.byID \ {x} PROVE Card(now, y) = Card(st, y)
  BY <1>1, <1>4, <1>5, SameCard
<1> QED
  BY <1>4, <1>6

\* The parts of the card of x that its record leaves as they are.
LEMMA WroteParts ==
  ASSUME NEW st, Good(st), Timed(st), NEW now, NEW x \in st.byID, Wrote(st, now, x)
  PROVE  /\ /\ now.node[x].done = st.node[x].done
            /\ now.node[x].endedAt = st.node[x].endedAt
            /\ now.node[x].error = st.node[x].error
            => SpanSummary(now, x) = SpanSummary(st, x)
         /\ now.node[x].attrs = st.node[x].attrs =>
              SpanAttributes(now, x) = SpanAttributes(st, x)
         /\ now.node[x].events = st.node[x].events =>
              SpanTimeline(now, x) = SpanTimeline(st, x)
<1>1. x \in SpanID /\ st.node[x].kids \in Seq(SpanID)
      /\ ToSet(st.node[x].kids) \subseteq SpanID
  BY ToSetIn DEF Good, Typed, Shape
<1>2. \E S : st.node[x].events \in Seq(S)
  BY <1>1 DEF Timed, Moments
<1>3. /\ now.stale = st.stale
      /\ \A y \in SpanID : now.node[y].kids = st.node[y].kids
                           /\ now.node[y].at = st.node[y].at
  BY DEF Wrote
<1>4. ASSUME now.node[x].done = st.node[x].done,
             now.node[x].endedAt = st.node[x].endedAt,
             now.node[x].error = st.node[x].error
      PROVE  SpanSummary(now, x) = SpanSummary(st, x)
  BY <1>1, <1>3, <1>4, SummarySame
<1>5. ASSUME now.node[x].attrs = st.node[x].attrs
      PROVE  SpanAttributes(now, x) = SpanAttributes(st, x)
  BY <1>5, AttributesSame
<1>6. ASSUME now.node[x].events = st.node[x].events
      PROVE  SpanTimeline(now, x) = SpanTimeline(st, x)
  BY <1>1, <1>2, <1>3, <1>6, TimelineSame
<1> QED
  BY <1>4, <1>5, <1>6

LEMMA NoCards == DOMAIN <<>> = {}
OBVIOUS

LEMMA UpdateCovers ==
  ASSUME NEW st, Good(st), Timed(st), NEW now, NEW x \in st.byID, Wrote(st, now, x),
         Spares("update", st.node[x], now.node[x])
  PROVE  Covers(SpanAttributesPatch(now, x), st, now)
<1> DEFINE patch == SpanAttributesPatch(now, x)
<1>1. /\ patch.part = "attrs" /\ patch.span = x /\ patch.new = SpanAttributes(now, x)
      /\ DOMAIN patch.cards = {}
  BY NoCards DEF SpanAttributesPatch
<1>2. /\ now.node[x].events = st.node[x].events /\ now.node[x].done = st.node[x].done
      /\ now.node[x].endedAt = st.node[x].endedAt
      /\ now.node[x].error = st.node[x].error
  BY DEF Spares
<1>3. SpanSummary(now, x) = SpanSummary(st, x) /\ SpanTimeline(now, x) = SpanTimeline(st, x)
  BY <1>2, WroteParts
<1>4. /\ x \in SpanID /\ now.roots = st.roots /\ now.byID = st.byID
  BY DEF Good, Typed, Shape, Wrote
<1>5. Depth(now, x) = Depth(st, x) /\ \A y \in st.byID \ {x} : Card(now, y) = Card(st, y)
  BY <1>4, WroteSame
<1> HIDE DEF patch
<1>6. Card(now, x) = Remade(Card(st, x), patch)
  BY <1>1, <1>3, <1>5, CardIs DEF Remade
<1> QED
  BY <1>1, <1>4, <1>5, <1>6 DEF Covers, patch

LEMMA EndCovers ==
  ASSUME NEW st, Good(st), Timed(st), NEW now, NEW x \in st.byID, Wrote(st, now, x),
         Spares("end", st.node[x], now.node[x])
  PROVE  Covers(SpanSummaryPatch(now, x), st, now)
<1> DEFINE patch == SpanSummaryPatch(now, x)
<1>1. /\ patch.part = "summary" /\ patch.span = x /\ patch.new = SpanSummary(now, x)
      /\ DOMAIN patch.cards = {}
  BY NoCards DEF SpanSummaryPatch
<1>2. now.node[x].events = st.node[x].events /\ now.node[x].attrs = st.node[x].attrs
  BY DEF Spares
<1>3. SpanAttributes(now, x) = SpanAttributes(st, x)
      /\ SpanTimeline(now, x) = SpanTimeline(st, x)
  BY <1>2, WroteParts
<1>4. /\ x \in SpanID /\ now.roots = st.roots /\ now.byID = st.byID
  BY DEF Good, Typed, Shape, Wrote
<1>5. Depth(now, x) = Depth(st, x) /\ \A y \in st.byID \ {x} : Card(now, y) = Card(st, y)
  BY <1>4, WroteSame
<1> HIDE DEF patch
<1>6. Card(now, x) = Remade(Card(st, x), patch)
  BY <1>1, <1>3, <1>5, CardIs DEF Remade
<1> QED
  BY <1>1, <1>4, <1>5, <1>6 DEF Covers, patch

\* A timeline that is rendered again has all the cards inside.
LEMMA TimelineCovers ==
  ASSUME NEW st, NEW now, Good(now), IsFiniteSet(now.byID), NEW x \in st.byID,
         now.roots = st.roots, st.byID \subseteq now.byID,
         now.byID \subseteq st.byID \cup ToSet(now.node[x].kids),
         Depth(now, x) = Depth(st, x),
         \A y \in st.byID \ {x} : Card(now, y) = Card(st, y),
         SpanSummary(now, x) = SpanSummary(st, x),
         SpanAttributes(now, x) = SpanAttributes(st, x)
  PROVE  Covers(SpanTimelinePatch(now, x, Depth(now, x)), st, now)
<1> DEFINE d == Depth(now, x)
           K == ToSet(now.node[x].kids)
           patch == SpanTimelinePatch(now, x, d)
<1>1. /\ CardsInside(now, x, d) = Cards(now, K) /\ Below(now, K) \subseteq now.byID
      /\ K \subseteq Below(now, K)
  <2>1. x \in now.byID
    OBVIOUS
  <2>2. K \in SUBSET SpanID
    BY OneParent, <2>1 DEF KidsAreSpans
  <2> QED
    BY <2>1, <2>2, SpanCardsIs, BelowIn DEF CardsInside
<1>2. /\ patch.part = "timeline" /\ patch.span = x /\ patch.new = SpanTimeline(now, x)
      /\ patch.cards = Cards(now, K)
  BY <1>1 DEF SpanTimelinePatch
<1>3. /\ DOMAIN patch.cards = Below(now, K)
      /\ \A y \in Below(now, K) : patch.cards[y] = Card(now, y)
  BY <1>2 DEF Cards
<1>4. now.byID = st.byID \cup Below(now, K)
  BY <1>1
<1> HIDE DEF patch, K, d
<1>5. Card(now, x) = Remade(Card(st, x), patch)
  BY <1>2, CardIs DEF Remade
<1> QED
  BY <1>2, <1>3, <1>4, <1>5 DEF Covers, patch, d

\* An entry is enough for a timeline that has one, and has grown by it.
LEMMA AppendCovers ==
  ASSUME NEW st, NEW now, Good(now), Timed(now), IsFiniteSet(now.byID),
         NEW x \in st.byID, now.roots = st.roots, st.byID \subseteq now.byID,
         Depth(now, x) = Depth(st, x),
         \A y \in st.byID \ {x} : Card(now, y) = Card(st, y),
         SpanSummary(now, x) = SpanSummary(st, x),
         SpanAttributes(now, x) = SpanAttributes(st, x),
         NEW item, NEW X \in SUBSET ToSet(now.node[x].kids),
         IF item.show = None THEN X = {} ELSE X = {item.show},
         now.byID \subseteq st.byID \cup X,
         SpanTimelineContents(now, x) =
           Append(SpanTimelineContents(st, x), TimelineItem(now, x, item)),
         \E S : SpanTimelineContents(st, x) \in Seq(S),
         ~Short(now, x)
  PROVE  Covers(TimelineAppendPatch(now, x, item, Depth(now, x)), st, now)
<1> DEFINE d == Depth(now, x)
           old == SpanTimelineContents(st, x)
           patch == TimelineAppendPatch(now, x, item, d)
<1>1. /\ SpanCards(now, X, d + 1) = Cards(now, X) /\ Below(now, X) \subseteq now.byID
      /\ X \subseteq Below(now, X) /\ Below(now, {}) = {}
  <2>1. x \in now.byID
    OBVIOUS
  <2>2. X \in SUBSET SpanID
    BY OneParent, <2>1 DEF KidsAreSpans
  <2> QED
    BY <2>1, <2>2, SpanCardsIs, BelowIn, BelowNothing
<1>2. /\ patch.part = "list" /\ patch.span = x /\ patch.new = TimelineItem(now, x, item)
      /\ patch.cards = IF item.show = None THEN <<>> ELSE SpanCards(now, {item.show}, d + 1)
  BY DEF TimelineAppendPatch
<1> HIDE DEF patch, d
<1>3. /\ DOMAIN patch.cards = Below(now, X)
      /\ \A y \in Below(now, X) : patch.cards[y] = Card(now, y)
  <2>1. CASE item.show = None
    <3>1. X = {} /\ patch.cards = <<>>
      BY <1>2, <2>1
    <3> QED
      BY <1>1, <3>1, NoCards
  <2>2. CASE item.show # None
    <3>1. X = {item.show} /\ patch.cards = Cards(now, X)
      BY <1>1, <1>2, <2>2
    <3> QED
      BY <3>1 DEF Cards
  <2> QED
    BY <2>1, <2>2
<1>4. now.byID = st.byID \cup Below(now, X)
  BY <1>1
<1>5. old # <<>>
  <2> SUFFICES ASSUME old = <<>> PROVE FALSE
    OBVIOUS
  <2> DEFINE z == TimelineItem(now, x, item)
             items == TimelineItems(now, x)
  <2>1. SpanTimelineContents(now, x) = <<z>>
    OBVIOUS
  <2>2. DOMAIN SpanTimelineContents(now, x) = DOMAIN items
    BY DEF SpanTimelineContents
  <2> HIDE DEF z, items
  <2>3. DOMAIN items = 1 .. 1
    BY <2>1, <2>2
  <2>4. Len(items) \in Nat /\ DOMAIN items = 1 .. Len(items)
    <3>1. x \in SpanID
      BY DEF Good, Typed, Shape
    <3>2. Entries(now, x)
      BY <3>1, TimelineEntries
    <3> QED
      BY <3>2 DEF Entries, items
  <2>5. Len(items) <= 1
    <3> DEFINE k == Len(items)
    <3>1. k \in Nat /\ 1 .. k = 1 .. 1
      BY <2>3, <2>4
    <3> HIDE DEF k
    <3>2. k <= 1
      BY <3>1
    <3> QED
      BY <3>2 DEF k
  <2> QED
    BY <2>5 DEF Short, items
<1>6. SpanTimeline(now, x) = [SpanTimeline(st, x) EXCEPT !.list = Append(@, patch.new)]
  <2> DEFINE z == TimelineItem(now, x, item)
             longer == SpanTimelineContents(now, x)
             id == PartDOMID("timeline", x)
  <2>1. patch.new = z /\ longer = Append(old, z)
    BY <1>2
  <2>2. SpanTimeline(now, x) = [id |-> id, list |-> longer]
        /\ SpanTimeline(st, x) = [id |-> id, list |-> old]
    BY DEF SpanTimeline
  <2> HIDE DEF z, longer, id, old
  <2>3. [SpanTimeline(st, x) EXCEPT !.list = longer] = SpanTimeline(now, x)
    BY <2>2
  <2>4. longer = Append(SpanTimeline(st, x).list, patch.new)
    BY <2>1, <2>2
  <2> QED
    BY <2>3, <2>4
<1>7. Card(st, x).timeline.list = old
  BY CardIs DEF SpanTimeline
<1> HIDE DEF old
<1>8. Card(now, x) = Remade(Card(st, x), patch)
  BY <1>2, <1>6, CardIs DEF Remade
<1> QED
  BY <1>2, <1>3, <1>4, <1>5, <1>7, <1>8 DEF Covers, patch, d

-----------------------------------------------------------------------------
LEMMA ContentsAre ==
  ASSUME NEW st, Good(st), Timed(st), NEW x \in SpanID
  PROVE  \E S : SpanTimelineContents(st, x) \in Seq(S)
<1> DEFINE f == SpanTimelineContents(st, x)
           items == TimelineItems(st, x)
           m == Len(items)
<1>1. m \in Nat /\ DOMAIN items = 1 .. m
  <2>1. Entries(st, x)
    BY TimelineEntries
  <2> QED
    BY <2>1 DEF Entries
<1>2. f = [i \in 1 .. m |-> f[i]]
  BY <1>1 DEF SpanTimelineContents
<1> HIDE DEF f, m
<1>3. f \in Seq({f[i] : i \in 1 .. m})
  BY <1>1, <1>2
<1> QED
  BY <1>3 DEF f

LEMMA EventCovers ==
  ASSUME NEW st, Good(st), Timed(st), NEW now, Good(now), Timed(now),
         IsFiniteSet(st.byID), NEW x \in st.byID, Wrote(st, now, x),
         Spares("event", st.node[x], now.node[x]), NEW e, e.at \in Int,
         now.node[x].events = Append(st.node[x].events, e),
         \A i \in DOMAIN TimelineItems(st, x) : TimelineItems(st, x)[i].at < e.at
  PROVE  Covers(EventPatch(now, x), st, now)
<1>1. x \in SpanID /\ now.roots = st.roots /\ now.byID = st.byID
  BY DEF Good, Typed, Shape, Wrote
<1>2. /\ now.node[x].attrs = st.node[x].attrs /\ now.node[x].done = st.node[x].done
      /\ now.node[x].endedAt = st.node[x].endedAt
      /\ now.node[x].error = st.node[x].error
  BY DEF Spares
<1>3. SpanSummary(now, x) = SpanSummary(st, x)
      /\ SpanAttributes(now, x) = SpanAttributes(st, x)
  BY <1>2, WroteParts
<1>4. Depth(now, x) = Depth(st, x) /\ \A y \in st.byID \ {x} : Card(now, y) = Card(st, y)
  BY <1>1, WroteSame
<1>5. CASE Short(now, x) \/ now.node[x].events = <<>>
  <2>1. Covers(SpanTimelinePatch(now, x, Depth(now, x)), st, now)
    BY <1>1, <1>3, <1>4, TimelineCovers
  <2> QED
    BY <1>5, <2>1 DEF EventPatch
<1>6. CASE ~(Short(now, x) \/ now.node[x].events = <<>>)
  <2> DEFINE item == EventItem(now, x)
  <2>1. SpanTimelineContents(now, x) =
          Append(SpanTimelineContents(st, x), TimelineItem(now, x, item))
    BY <1>1, EventTimeline
  <2>2. item.show = None
    BY DEF EventItem
  <2>3. \E S : SpanTimelineContents(st, x) \in Seq(S)
    BY <1>1, ContentsAre
  <2> HIDE DEF item
  <2>4. {} \in SUBSET ToSet(now.node[x].kids) /\ now.byID \subseteq st.byID \cup {}
        /\ (IF item.show = None THEN {} = {} ELSE {} = {item.show})
    BY <1>1, <2>2
  <2>5. Covers(TimelineAppendPatch(now, x, item, Depth(now, x)), st, now)
    BY <1>1, <1>3, <1>4, <1>6, <2>1, <2>3, <2>4, AppendCovers
  <2> QED
    BY <1>6, <2>5 DEF EventPatch, item
<1> QED
  BY <1>5, <1>6

\* What is patched when a span starts inside another one.
KidPatch(st, p, kid) ==
  IF Short(st, p) \/ ~Contains(st.node[p].kids, kid)
  THEN SpanTimelinePatch(st, p, Depth(st, p))
  ELSE TimelineAppendPatch(st, p, ChildItem(st, p, kid), Depth(st, p))

LEMMA StartCovers ==
  ASSUME NEW st, Good(st), Timed(st), NEW now, Good(now), Timed(now),
         IsFiniteSet(st.byID), NEW r, r.id \in SpanID, r.up \in st.byID,
         ~Ignored(st, r), IsBorn(st, r, now),
         \A i \in DOMAIN TimelineItems(st, r.up) :
           TimelineItems(st, r.up)[i].at < now.node[r.id].at
  PROVE  Covers(KidPatch(now, r.up, r.id), st, now)
<1> DEFINE p == r.up
           K == st.node[p].kids
<1>1. /\ r.id \notin st.byID /\ p \in SpanID /\ p # r.id /\ r.id # None
      /\ st.byID \subseteq SpanID
      /\ InTree(st) = st.byID /\ K \in Seq(SpanID)
      /\ \A y \in SpanID : DOMAIN st.node[y] = DOMAIN Blank
  BY StoreNoneAssumption DEF Ignored, Good, Typed, Shape, IsForest
<1>2. /\ now.roots = st.roots /\ now.byID = st.byID \cup {r.id} /\ now.stale = st.stale
      /\ \A y \in st.byID \ {p} : now.node[y] = st.node[y]
      /\ now.node[p] = [st.node[p] EXCEPT !.kids = Append(@, r.id)]
      /\ now.node[p].kids = Append(K, r.id)
  BY <1>1 DEF IsBorn
<1>3. /\ now.node[p].at = st.node[p].at /\ now.node[p].attrs = st.node[p].attrs
      /\ now.node[p].done = st.node[p].done
      /\ now.node[p].endedAt = st.node[p].endedAt
      /\ now.node[p].error = st.node[p].error
  <2>1. {"at", "attrs", "done", "endedAt", "error"} \subseteq DOMAIN st.node[p]
    BY <1>1, BlankIs
  <2> QED
    BY <1>2, <2>1
<1>4. IsFiniteSet(now.byID)
  BY <1>2, FS_AddElement
<1>5. \A y \in st.byID : Depth(now, y) = Depth(st, y)
  <2>1. IsPart(now, {r.id}, st)
    BY <1>1, BornIsPart
  <2> QED
    BY <1>1, <2>1, AboveCut
<1>6. \A z \in st.byID : now.node[z].at = st.node[z].at
  BY <1>2, <1>3
<1>7. ASSUME NEW y \in st.byID \ {p} PROVE Card(now, y) = Card(st, y)
  <2>1. now.node[y] = st.node[y] /\ now.stale[y] = st.stale[y] /\ y \in st.byID
        /\ Depth(now, y) = Depth(st, y)
    BY <1>2, <1>5
  <2> QED
    BY <1>6, <2>1, SameCard
<1>8. SpanSummary(now, p) = SpanSummary(st, p)
      /\ SpanAttributes(now, p) = SpanAttributes(st, p)
  <2>1. now.stale[p] = st.stale[p]
    BY <1>2
  <2>2. SpanSummary(now, p) = SpanSummary(st, p)
    BY <1>3, <2>1, SummarySame
  <2>3. SpanAttributes(now, p) = SpanAttributes(st, p)
    BY <1>3, AttributesSame
  <2> QED
    BY <2>2, <2>3
<1>9. ToSet(now.node[p].kids) = ToSet(K) \cup {r.id}
  BY <1>1, <1>2, AppendSet
<1> HIDE DEF K, p
<1>10. p \in st.byID /\ Depth(now, p) = Depth(st, p)
  BY <1>5 DEF p
<1>11. CASE Short(now, p) \/ ~Contains(now.node[p].kids, r.id)
  <2>1. now.byID \subseteq st.byID \cup ToSet(now.node[p].kids)
        /\ st.byID \subseteq now.byID
    BY <1>2, <1>9
  <2>2. Covers(SpanTimelinePatch(now, p, Depth(now, p)), st, now)
    BY <1>2, <1>4, <1>7, <1>8, <1>10, <2>1, TimelineCovers
  <2> QED
    BY <1>11, <2>2 DEF KidPatch, p
<1>12. CASE ~(Short(now, p) \/ ~Contains(now.node[p].kids, r.id))
  <2> DEFINE item == ChildItem(now, p, r.id)
  <2>1. SpanTimelineContents(now, p) =
          Append(SpanTimelineContents(st, p), TimelineItem(now, p, item))
    BY <1>1, StartTimeline DEF p
  <2>2. item.show = r.id /\ item.show # None
    BY <1>1 DEF ChildItem
  <2>3. \E S : SpanTimelineContents(st, p) \in Seq(S)
    BY <1>1, ContentsAre
  <2> HIDE DEF item
  <2> DEFINE X == {r.id}
  <2>4. X \in SUBSET ToSet(now.node[p].kids) /\ now.byID \subseteq st.byID \cup X
        /\ (IF item.show = None THEN X = {} ELSE X = {item.show})
        /\ st.byID \subseteq now.byID
    BY <1>2, <1>9, <2>2
  <2> HIDE DEF X
  <2>5. ~Short(now, p)
    BY <1>12
  <2>6. Covers(TimelineAppendPatch(now, p, item, Depth(now, p)), st, now)
    BY <1>2, <1>4, <1>7, <1>8, <1>10, <2>1, <2>3, <2>4, <2>5, AppendCovers
  <2> QED
    BY <1>12, <2>6 DEF KidPatch, item, p
<1> QED
  BY <1>11, <1>12

-----------------------------------------------------------------------------
(***************************************************************************)
(* What the store has of what the emitter has said.                        *)
(***************************************************************************)
Heard ==
  /\ Timed(store) /\ IsFiniteSet(store.byID)
  /\ \A x \in store.byID : told[x] # "nothing"
                           /\ (store.node[x].done => told[x] = "end")

\* Only an end ends a span, and only its own.
LEMMA RecordEnds ==
  ASSUME NEW st, Good(st), NEW r, IsRecord(r), NEW x \in SpanID,
         Apply(st, r).node[x].done
  PROVE  st.node[x].done \/ (r.kind = "end" /\ x = r.id)
<1> DEFINE now == Apply(st, r)
<1>0. Typed(st) /\ r.id \in SpanID \cup {None}
  BY DEF Good, IsRecord
<1>1. CASE r.kind = "start" /\ ~Ignored(st, r)
  <2>1. IsBorn(st, r, now)
    BY <1>0, <1>1, StartedIs DEF Apply
  <2> QED
    BY <2>1 DEF IsBorn
<1>2. CASE r.kind # "start" /\ r.id \in st.byID
  <2>1. Wrote(st, now, r.id) /\ Spares(r.kind, st.node[r.id], now.node[r.id])
    BY <1>2, RecordWrote
  <2> HIDE DEF now
  <2>2. now.node[x].done
    BY DEF now
  <2> QED
    BY <1>2, <2>1, <2>2 DEF Wrote, Spares, IsRecord
<1>3. CASE \/ r.kind = "start" /\ Ignored(st, r)
           \/ r.kind # "start" /\ r.id \notin st.byID
  <2>1. now = st
    BY <1>3 DEF IsRecord, Apply, ApplyStarted, ApplyUpdated, ApplyEnded, ApplyEvent,
                Writable
  <2> QED
    BY <2>1
<1> QED
  BY <1>1, <1>2, <1>3

LEMMA LimitRootsIdle ==
  ASSUME NEW st, NEW limit \in Nat \ {0}, Len(st.roots) \in Nat, Len(st.roots) <= limit
  PROVE  LimitRoots(st, limit) = st
BY DEF LimitRoots, Excess

\* What the emitter says of x.
LEMMA SaysIs ==
  ASSUME told \in [SpanID -> {"nothing", "start", "end"}],
         NEW x \in SpanID, NEW r \in Says(x)
  PROVE  /\ r.id = x /\ r.kind \in {"start", "update", "end", "event"}
         /\ r.kind = "start" =>
              /\ told[x] = "nothing" /\ r.up \in SpanID \cup {None}
              /\ r.up = None => r.at = 1
              /\ r.up # None => told[r.up] # "nothing" /\ r.at \in TimesIn(r.up)
         /\ r.kind # "start" => told[x] = "start"
         /\ r.kind = "event" => r.at \in TimesIn(x)
<1>1. told[x] \in {"nothing", "start", "end"}
  OBVIOUS
<1>2. CASE told[x] = "nothing"
  <2>1. r \in Starts(x)
    BY <1>2 DEF Says
  <2>2. PICK y \in {p \in Parents[x] : p # None => told[p] # "nothing"} :
          r \in [kind : {"start"}, id : {x}, up : {y}, attrs : {<<>>},
                 at : IF y = None THEN {1} ELSE TimesIn(y)]
    BY <2>1 DEF Starts
  <2>3. y \in SpanID \cup {None}
    BY <2>2, WebAssumption
  <2>4. r.kind = "start" /\ r.id = x /\ r.up = y
        /\ r.at \in (IF y = None THEN {1} ELSE TimesIn(y))
    BY <2>2
  <2> QED
    BY <1>2, <2>2, <2>3, <2>4
<1>3. CASE told[x] = "start"
  BY <1>3 DEF Says
<1>4. told[x] # "end"
  BY DEF Says
<1> QED
  BY <1>1, <1>2, <1>3, <1>4

LEMMA SaysTimely ==
  ASSUME Calm, Heard, InOrder, NEW x \in SpanID, NEW r \in Says(x)
  PROVE  /\ IsRecord(r) /\ HasTime(r) /\ r.id = x
         /\ r.kind \in {"start", "event"} => TimeValue(r.at) = r.at /\ r.at \in Int
         /\ r.kind = "start" /\ r.up # None =>
              \A i \in DOMAIN TimelineItems(store, r.up) :
                TimelineItems(store, r.up)[i].at < r.at
         /\ r.kind = "event" =>
              \A i \in DOMAIN TimelineItems(store, x) :
                TimelineItems(store, x)[i].at < r.at
<1>1. Good(store) /\ Timed(store) /\ told \in [SpanID -> {"nothing", "start", "end"}]
  BY DEF Calm, Heard
<1>2. IsRecord(r)
  BY <1>1, SaysRecords
<1>3. /\ r.id = x /\ r.kind \in {"start", "update", "end", "event"}
      /\ r.kind = "start" =>
           /\ r.up \in SpanID \cup {None}
           /\ r.up = None => r.at = 1
           /\ r.up # None => r.at \in TimesIn(r.up)
      /\ r.kind = "event" => r.at \in TimesIn(x)
  BY <1>1, SaysIs
<1>4. ASSUME r.kind = "start", r.up # None
      PROVE  r.at \in Int /\ \A i \in DOMAIN TimelineItems(store, r.up) :
               TimelineItems(store, r.up)[i].at < r.at
  <2>1. r.up \in SpanID /\ r.at \in TimesIn(r.up)
    BY <1>3, <1>4
  <2> QED
    BY <1>1, <2>1, NextTimes
<1>5. ASSUME r.kind = "event"
      PROVE  r.at \in Int /\ \A i \in DOMAIN TimelineItems(store, x) :
               TimelineItems(store, x)[i].at < r.at
  <2>1. r.at \in TimesIn(x)
    BY <1>3, <1>5
  <2> QED
    BY <1>1, <2>1, NextTimes
<1>6. r.kind \in {"start", "event"} => r.at \in Int
  BY <1>3, <1>4, <1>5
<1>7. r.kind \in {"start", "event"} => TimeValue(r.at) = r.at
  BY <1>6, WebAssumption DEF TimeValue
<1>8. HasTime(r)
  BY <1>6 DEF HasTime, Timely
<1> QED
  BY <1>2, <1>3, <1>4, <1>5, <1>6, <1>7, <1>8

\* A page with the snapshot of a record swapped in is a rendering of the store
\* with the record: all of it, or what a patch covers.
Renders(s, st, now) ==
  s = Full(now) \/ \E patch : s = Patch(patch) /\ Covers(patch, st, now)

LEMMA StartRenders ==
  ASSUME Calm, Heard, InOrder, NEW x \in SpanID, NEW r \in Says(x), r.kind = "start",
         NEW now, now = LimitRoots(Apply(store, r), MaxRoots), Good(now), Timed(now)
  PROVE  Renders(RecordSnapshot(now, r), store, now)
<1>0. /\ Good(store) /\ Timed(store) /\ IsFiniteSet(store.byID) /\ IsRecord(r)
      /\ Typed(store) /\ InTree(store) = store.byID /\ InTree(now) = now.byID
      /\ Len(store.roots) <= MaxRoots /\ MaxRoots \in Nat \ {0} /\ Len(store.roots) \in Nat
      /\ told \in [SpanID -> {"nothing", "start", "end"}]
  BY SaysTimely, WebAssumption, LenProperties DEF Calm, Heard, Good, IsForest, Typed
<1>1. /\ r.id = x /\ told[x] = "nothing" /\ r.up \in SpanID \cup {None}
      /\ r.up # None => told[r.up] # "nothing"
  BY <1>0, SaysIs
<1>2. x \notin store.byID /\ x # None /\ r.up # x
  BY <1>0, <1>1, StoreNoneAssumption DEF Heard
<1>3. RecordSnapshot(now, r) = StartPatch(now, r)
  BY DEF RecordSnapshot
<1> DEFINE mid == Apply(store, r)
<1>4. Good(mid) /\ mid.byID \subseteq store.byID \cup {r.id} /\ mid = ApplyStarted(store, r)
  BY <1>0, ApplyGood, ApplyIndex DEF Apply
<1>5. now = LimitRoots(mid, MaxRoots)
  OBVIOUS
<1> HIDE DEF mid
<1>6. CASE r.up \in store.byID
  <2>1. ~Ignored(store, r) /\ r.up # None
    BY <1>0, <1>1, <1>2, <1>6, StoreNoneAssumption DEF Ignored, Orphan, Typed, Shape
  <2>2. IsBorn(store, r, mid)
    BY <1>0, <1>1, <1>4, <2>1, StartedIs
  <2>3. mid.roots = store.roots
    BY <1>6, <2>2 DEF IsBorn
  <2>4. now = mid
    BY <1>0, <1>5, <2>3, LimitRootsIdle
  <2>5. now.node[r.id].at = r.at
    <3>1. TimeValue(r.at) = r.at
      BY SaysTimely
    <3>2. now.node[r.id] = [Blank EXCEPT !.up = r.up, !.at = TimeValue(r.at),
                                         !.attrs = r.attrs]
      BY <2>2, <2>4 DEF IsBorn
    <3> QED
      BY <3>1, <3>2, BlankIs
  <2>6. \A i \in DOMAIN TimelineItems(store, r.up) :
          TimelineItems(store, r.up)[i].at < now.node[r.id].at
    BY <2>1, <2>5, SaysTimely
  <2>7. Covers(KidPatch(now, r.up, r.id), store, now)
    BY <1>0, <1>1, <1>6, <2>1, <2>2, <2>4, <2>6, StartCovers
  <2>8. FindSpan(now, r.up) = r.up
    BY <1>0, <1>6, <2>2, <2>4 DEF FindSpan, IsBorn
  <2>9. StartPatch(now, r) = Patch(KidPatch(now, r.up, r.id))
    BY <2>1, <2>8 DEF StartPatch, KidPatch
  <2> QED
    BY <1>3, <2>7, <2>9 DEF Renders
<1>7. CASE r.up \notin store.byID
  <2>1. now.byID \subseteq mid.byID
    BY <1>0, <1>4, <1>5, LimitRootsNodes
  <2>2. FindSpan(now, r.up) = None
    BY <1>0, <1>1, <1>2, <1>4, <1>7, <2>1 DEF FindSpan
  <2>3. StartPatch(now, r) = Full(now)
    BY <2>2 DEF StartPatch
  <2> QED
    BY <1>3, <2>3 DEF Renders
<1> QED
  BY <1>6, <1>7

LEMMA RecordRenders ==
  ASSUME Calm, Heard, InOrder, NEW x \in SpanID, NEW r \in Says(x),
         NEW now, now = LimitRoots(Apply(store, r), MaxRoots), Good(now), Timed(now)
  PROVE  Renders(RecordSnapshot(now, r), store, now)
<1>1. CASE r.kind = "start"
  BY <1>1, StartRenders
<1>2. CASE r.kind # "start" /\ FindSpan(now, r.id) = None
  BY <1>2 DEF RecordSnapshot, Renders
<1>3. CASE r.kind # "start" /\ FindSpan(now, r.id) # None
  <2>0. /\ Good(store) /\ Timed(store) /\ IsFiniteSet(store.byID) /\ IsRecord(r)
        /\ Typed(store) /\ InTree(now) = now.byID
        /\ Len(store.roots) <= MaxRoots /\ MaxRoots \in Nat \ {0} /\ Len(store.roots) \in Nat
        /\ told \in [SpanID -> {"nothing", "start", "end"}]
    BY SaysTimely, WebAssumption, LenProperties DEF Calm, Heard, Good, IsForest, Typed
  <2>1. /\ r.id = x /\ told[x] = "start" /\ r.kind \in {"update", "end", "event"}
    BY <1>3, <2>0, SaysIs
  <2> DEFINE mid == Apply(store, r)
  <2>2. x \in store.byID
    <3> SUFFICES ASSUME x \notin store.byID PROVE FALSE
      OBVIOUS
    <3>1. mid = store
      BY <2>1 DEF Apply, ApplyUpdated, ApplyEnded, ApplyEvent, Writable
    <3>2. now = store
      BY <2>0, <3>1, LimitRootsIdle
    <3> QED
      BY <1>3, <2>0, <2>1, <3>2 DEF FindSpan
  <2>3. Wrote(store, mid, x) /\ Spares(r.kind, store.node[x], mid.node[x])
        /\ (r.kind = "event" /\ Writable(store, x) =>
              mid.node[x].events = Append(store.node[x].events, Happening(r)))
    BY <1>3, <2>0, <2>1, <2>2, RecordWrote
  <2>4. now = mid
    <3>1. mid.roots = store.roots /\ now = LimitRoots(mid, MaxRoots)
      BY <2>3 DEF Wrote
    <3> HIDE DEF mid
    <3> QED
      BY <2>0, <3>1, LimitRootsIdle
  <2> HIDE DEF mid
  <2>5. CASE r.kind = "update"
    <3>1. Covers(SpanAttributesPatch(now, x), store, now)
      BY <2>0, <2>2, <2>3, <2>4, <2>5, UpdateCovers
    <3>2. RecordSnapshot(now, r) = Patch(SpanAttributesPatch(now, x))
      BY <1>3, <2>1, <2>5 DEF RecordSnapshot
    <3> QED
      BY <3>1, <3>2 DEF Renders
  <2>6. CASE r.kind = "end"
    <3>1. Covers(SpanSummaryPatch(now, x), store, now)
      BY <2>0, <2>2, <2>3, <2>4, <2>6, EndCovers
    <3>2. RecordSnapshot(now, r) = Patch(SpanSummaryPatch(now, x))
      BY <1>3, <2>1, <2>6 DEF RecordSnapshot
    <3> QED
      BY <3>1, <3>2 DEF Renders
  <2>7. CASE r.kind = "event"
    <3> DEFINE e == Happening(r)
    <3>1. Writable(store, x)
      BY <2>1, <2>2 DEF Writable, Heard
    <3>2. now.node[x].events = Append(store.node[x].events, e)
      BY <2>3, <2>4, <2>7, <3>1
    <3>3. e.at \in Int /\ \A i \in DOMAIN TimelineItems(store, x) :
                            TimelineItems(store, x)[i].at < e.at
      <4>1. e.at = r.at /\ r.at \in Int
        BY <2>7, SaysTimely DEF Happening
      <4> HIDE DEF e
      <4> QED
        BY <2>7, <4>1, SaysTimely
    <3> HIDE DEF e
    <3>4. Covers(EventPatch(now, x), store, now)
      BY <2>0, <2>2, <2>3, <2>4, <2>7, <3>2, <3>3, EventCovers
    <3>5. RecordSnapshot(now, r) = Patch(EventPatch(now, x))
      BY <1>3, <2>1, <2>7 DEF RecordSnapshot
    <3> QED
      BY <3>4, <3>5 DEF Renders
  <2> QED
    BY <2>1, <2>5, <2>6, <2>7
<1> QED
  BY <1>1, <1>2, <1>3

-----------------------------------------------------------------------------
LEMMA HeardRecord ==
  ASSUME Calm, Heard, InOrder, NEW x \in SpanID, NEW r \in Says(x), ApplyRecord(r)
  PROVE  Heard'
<1>0. /\ Good(store) /\ Timed(store) /\ IsFiniteSet(store.byID) /\ MaxRoots \in Int /\ MaxRoots > 0
      /\ told \in [SpanID -> {"nothing", "start", "end"}] /\ x \in SpanID
      /\ Typed(store) /\ store.byID \subseteq SpanID
  BY WebAssumption DEF Calm, Heard, Good, Typed, Shape
<1>1. IsRecord(r) /\ HasTime(r) /\ r.id = x
  BY SaysTimely
<1>2. /\ r.kind \in {"start", "update", "end", "event"}
      /\ r.kind = "start" => told[x] = "nothing"
      /\ r.kind # "start" => told[x] = "start"
  BY <1>0, SaysIs
<1> DEFINE mid == Apply(store, r)
<1>3. store' = LimitRoots(mid, MaxRoots) /\ Tell(r)
  BY DEF ApplyRecord
<1>4. Good(mid) /\ Timed(mid) /\ mid.byID \subseteq store.byID \cup {x}
  BY <1>0, <1>1, ApplyGood, ApplyTimed, ApplyIndex
<1>5. \A y \in SpanID : mid.node[y].done =>
        store.node[y].done \/ (r.kind = "end" /\ y = x)
  BY <1>0, <1>1, RecordEnds
<1>6. r.kind # "start" => mid.byID = store.byID
  <2>1. CASE r.kind # "start" /\ x \in store.byID
    <3>1. Wrote(store, mid, x)
      BY <1>0, <1>1, <2>1, RecordWrote
    <3> QED
      BY <3>1 DEF Wrote
  <2>2. CASE r.kind # "start" /\ x \notin store.byID
    <3>1. mid = store
      BY <1>1, <1>2, <2>2 DEF Apply, ApplyUpdated, ApplyEnded, ApplyEvent, Writable
    <3> QED
      BY <3>1
  <2> QED
    BY <2>1, <2>2
<1> HIDE DEF mid
<1>7. Timed(store')
  BY <1>0, <1>3, <1>4, LimitRootsTimed
<1>8. /\ store'.byID \subseteq mid.byID
      /\ \A y \in SpanID : store'.node[y] \in {Blank, mid.node[y]}
  BY <1>0, <1>3, <1>4, LimitRootsNodes
<1>9. IsFiniteSet(store'.byID)
  <2>1. IsFiniteSet(store.byID \cup {x})
    BY <1>0, FS_AddElement
  <2> QED
    BY <1>4, <1>8, <2>1, FS_Subset
<1>10. /\ \A y \in SpanID \ {x} : told'[y] = told[y]
       /\ r.kind = "start" => told'[x] = "start"
       /\ r.kind = "end" => told'[x] = "end"
       /\ r.kind \notin {"start", "end"} => told' = told
  BY <1>0, <1>1, <1>3 DEF Tell
<1>11. \A y \in SpanID \ store.byID : ~store.node[y].done
  BY <1>0, BlankIs DEF Good, IsForest
<1>12. ASSUME NEW y \in store'.byID
       PROVE  told'[y] # "nothing" /\ (store'.node[y].done => told'[y] = "end")
  <2>1. y \in SpanID /\ y \in store.byID \cup {x} /\ (store'.node[y].done => mid.node[y].done)
    BY <1>0, <1>4, <1>8, BlankIs
  <2>2. store'.node[y].done => (store.node[y].done /\ y \in store.byID) \/ (r.kind = "end" /\ y = x)
    BY <1>5, <1>11, <2>1
  <2>3. CASE y # x
    BY <1>10, <2>1, <2>2, <2>3 DEF Heard
  <2>4. CASE y = x
    <3>1. y \in store.byID => told[y] # "nothing" /\ (store.node[y].done => told[y] = "end")
      BY DEF Heard
    <3>2. told'[y] # "nothing"
      BY <1>2, <1>10, <2>4
    <3> QED
      BY <1>2, <1>10, <2>1, <2>2, <2>4, <3>1, <3>2
  <2> QED
    BY <2>3, <2>4
<1> QED
  BY <1>7, <1>9, <1>12 DEF Heard

\* What is cleared, or marked as stale, has no more to it.
LEMMA HeardFewer ==
  ASSUME Heard, Timed(store'), store'.byID \subseteq store.byID, told' = told,
         \A y \in store'.byID : store'.node[y].done => store.node[y].done
  PROVE  Heard'
<1>1. IsFiniteSet(store'.byID)
  BY FS_Subset DEF Heard
<1> QED
  BY <1>1 DEF Heard

LEMMA HeardStep ==
  ASSUME Calm, Heard, InOrder, [WebNext]_webVars
  PROVE  Heard'
<1>0. /\ Good(store) /\ Timed(store) /\ Typed(store) /\ store.byID \subseteq SpanID
      /\ told \in [SpanID -> {"nothing", "start", "end"}]
  BY DEF Calm, Heard, Good, Typed, Shape
<1>1. ASSUME UNCHANGED <<store, told>> PROVE Heard'
  BY <1>1 DEF Heard
<1>2. CASE UNCHANGED webVars
  BY <1>1, <1>2 DEF webVars, serverVars
<1>3. ASSUME NEW x \in SpanID, NEW r \in Says(x), Lose(r) PROVE Heard'
  <2>1. r.id = x /\ r.kind = "start" /\ told[x] = "nothing"
    BY <1>0, <1>3, SaysIs DEF Lose
  <2>2. store' = store /\ \A y \in SpanID \ {x} : told'[y] = told[y]
    BY <1>0, <1>3, <2>1 DEF Lose, Tell, serverVars
  <2>3. x \notin store.byID
    BY <2>1 DEF Heard
  <2> QED
    BY <1>0, <2>2, <2>3 DEF Heard
<1>4. ASSUME NEW x \in SpanID, NEW r \in Says(x), ApplyRecord(r) PROVE Heard'
  BY <1>4, HeardRecord
<1>5. ASSUME NEW c \in States, SetConnectionState(c) PROVE Heard'
  <2>1. /\ told' = told
        /\ store' = IF c.state \in Down THEN MarkOpenSpansStale(store, 1) ELSE store
    BY <1>5 DEF SetConnectionState
  <2>2. CASE c.state \in Down
    <3>1. store'.byID = store.byID /\ store'.node = store.node
      BY <1>0, <2>1, <2>2, MarkGood
    <3>2. Timed(store')
      BY <1>0, <3>1 DEF Timed
    <3> QED
      BY <2>1, <3>1, <3>2, HeardFewer
  <2>3. CASE c.state \notin Down
    BY <1>1, <2>1, <2>3
  <2> QED
    BY <2>2, <2>3
<1>6. ASSUME NEW b \in Browsers, TogglePaused(b) PROVE Heard'
  <2>1. told' = told /\ store' = IF paused THEN store ELSE ClearOpenSpans(store)
    BY <1>6 DEF TogglePaused, AtPause
  <2>2. CASE paused
    BY <1>1, <2>1, <2>2
  <2>3. CASE ~paused
    <3>0. store' = ClearOpenSpans(store)
      BY <2>1, <2>3
    <3>1. /\ store'.byID \subseteq store.byID
          /\ \A x \in SpanID :
               IF x \in Doomed(store) THEN store'.node[x] = Blank
               ELSE store'.node[x] = [store.node[x] EXCEPT !.kids = Without(@, Doomed(store))]
      BY <1>0, <3>0, ClearOpenSpansNodes
    <3>2. Timed(store')
      BY <1>0, <3>0, ClearOpenSpansTimed
    <3>3. ASSUME NEW y \in SpanID, store'.node[y].done
          PROVE  store.node[y].done
      <4>1. store'.node[y] # Blank
        BY <3>3, BlankIs
      <4>2. store'.node[y] = [store.node[y] EXCEPT !.kids = Without(@, Doomed(store))]
        BY <3>1, <4>1
      <4> QED
        BY <1>0, <3>3, <4>2, BlankIs DEF Typed, Shape
    <3> QED
      BY <1>0, <2>1, <3>1, <3>2, <3>3, HeardFewer
  <2> QED
    BY <2>2, <2>3
<1>7. ASSUME NEW b \in Browsers, ClearAll(b) PROVE Heard'
  <2>1. told' = told /\ store' = Empty(store.allow)
    BY <1>7 DEF ClearAll, Clear
  <2>2. store'.byID = {} /\ Timed(store')
    BY <2>1, EmptyTimed DEF Empty
  <2> QED
    BY <2>1, <2>2, HeardFewer
<1>8. ASSUME NEW b \in Browsers,
             ReplyArrives(b) \/ Load(b) \/ Subscribe(b) \/ Unsubscribe(b)
               \/ Show(b) \/ PushOut(b)
      PROVE Heard'
  <2>1. UNCHANGED <<serverVars, told>>
    BY <1>8 DEF ReplyArrives, Load, Subscribe, Unsubscribe, Show, PushOut
  <2> QED
    BY <1>1, <2>1 DEF serverVars
<1> QED
  BY <1>2, <1>3, <1>4, <1>5, <1>6, <1>7, <1>8 DEF WebNext

LEMMA HeardInit == WebInit => Heard
<1> SUFFICES ASSUME WebInit PROVE Heard
  OBVIOUS
<1>1. store = Empty(Allow)
  BY DEF WebInit
<1>2. store.byID = {} /\ Timed(store)
  BY <1>1, EmptyTimed DEF Empty
<1>3. IsFiniteSet({})
  BY FS_EmptySet
<1> QED
  BY <1>2, <1>3 DEF Heard

-----------------------------------------------------------------------------
(***************************************************************************)
(* What a browser has on its page and on its way.                          *)
(***************************************************************************)
Drawn ==
  /\ PatchesAddUp
  /\ DOMAIN behind = Browsers
  /\ pushing # {} => (snap.kind = "roots" => snap.page = Roots(store))

\* A snapshot that is broadcast makes of a page of the store a page of the new.
Turns(s) ==
  /\ Swap(Roots(store), s) = Roots(store')
  /\ s.kind = "roots" => s.page = Roots(store')

LEMMA FullTurns ==
  ASSUME NEW st, st = store'
  PROVE  Turns(Full(st))
BY DEF Turns, Full, Swap

LEMMA StatusTurns ==
  ASSUME store' = store
  PROVE  Turns(StatusOnly)
BY DEF Turns, StatusOnly, Swap

LEMMA PatchTurns ==
  ASSUME Calm, Heard, Calm', Heard', NEW patch, Covers(patch, store, store')
  PROVE  Turns(Patch(patch))
<1>1. Patched(Roots(store), patch) = Roots(store')
  BY PatchCovers DEF Calm, Heard
<1> QED
  BY <1>1 DEF Turns, Patch, Swap

LEMMA BroadcastDraws ==
  ASSUME Words, Drawn, Unlocked, NEW s, Turns(s), Broadcast(s)
  PROVE  Drawn'
<1>1. PICK S : queue \in [Browsers -> Seq(S)]
  BY DEF Words
<1> DEFINE full == {b \in live : Len(queue[b]) >= Queue}
<1>2. /\ pushing' = full /\ full \subseteq live /\ live \subseteq Browsers
      /\ UNCHANGED <<live, page>> /\ pushing = {}
      /\ full # {} => snap' = s
      /\ DOMAIN behind' = Browsers
      /\ \A b \in Browsers : behind'[b] = (behind[b] /\ (b \in live \ full => s.kind # "roots"))
      /\ \A b \in live \ full : queue'[b] = Append(queue[b], s)
      /\ \A b \in full : queue'[b] = queue[b]
  BY DEF Broadcast, Words, Unlocked
<1> HIDE DEF full
<1>3. ASSUME NEW b \in live, ~behind'[b]
      PROVE  Swapped(page'[b], Coming(b)') = Roots(store')
  <2>0. b \in Browsers /\ queue[b] \in Seq(S) /\ page'[b] = page[b]
    BY <1>1, <1>2
  <2>1. Coming(b) = queue[b] /\ Coming(b)' = Append(queue[b], s)
    BY <1>2, <2>0 DEF Coming
  <2>2. Swapped(page[b], Append(queue[b], s)) = Swap(Swapped(page[b], queue[b]), s)
    BY <2>0, SwappedAppend
  <2>3. CASE s.kind = "roots"
    BY <2>0, <2>1, <2>2, <2>3 DEF Turns, Swap
  <2>4. CASE s.kind # "roots"
    <3>1. ~behind[b]
      BY <1>2, <1>3, <2>0, <2>4
    <3>2. Swapped(page[b], queue[b]) = Roots(store)
      BY <2>1, <3>1 DEF Drawn, PatchesAddUp
    <3> QED
      BY <2>0, <2>1, <2>2, <3>2 DEF Turns
  <2> QED
    BY <2>3, <2>4
<1>4. PatchesAddUp'
  BY <1>2, <1>3 DEF PatchesAddUp
<1> QED
  BY <1>2, <1>4 DEF Drawn, Turns

\* What a full channel loses is only the status line, or is in what follows.
LEMMA PushOutDraws ==
  ASSUME Words, Drawn, NEW b \in Browsers, PushOut(b)
  PROVE  Drawn'
<1>1. PICK S : queue \in [Browsers -> Seq(S)]
  BY DEF Words
<1> DEFINE q == queue[b]
           rest == IF q = <<>> THEN <<>> ELSE Tail(q)
<1>2. q \in Seq(S) /\ rest \in Seq(S)
  BY <1>1
<1>3. /\ queue'[b] = Append(rest, snap)
      /\ \A c \in Browsers : c # b => queue'[c] = queue[c] /\ behind'[c] = behind[c]
      /\ behind'[b] = (/\ snap.kind # "roots"
                       /\ behind[b] \/ (q # <<>> /\ LosesView(Head(q), Tail(q))))
      /\ DOMAIN behind' = Browsers
      /\ b \in pushing /\ pushing' = pushing \ {b}
      /\ pushing' # {} => snap' = snap
      /\ UNCHANGED <<live, page, store>>
  <2>1. queue' = [queue EXCEPT ![b] = Append(rest, snap)]
    BY DEF PushOut, DropOldest
  <2>2. behind' = [behind EXCEPT ![b] =
                     (/\ snap.kind # "roots"
                      /\ behind[b] \/ (q # <<>> /\ LosesView(Head(q), Tail(q))))]
    BY DEF PushOut
  <2>3. DOMAIN behind = Browsers /\ DOMAIN queue = Browsers
    BY <1>1 DEF Drawn
  <2> HIDE DEF q, rest
  <2> QED
    BY <2>1, <2>2, <2>3 DEF PushOut, browserVars, serverVars
<1>4. Coming(b) = Append(q, snap) /\ Coming(b)' = Append(rest, snap)
  <2> HIDE DEF rest
  <2> QED
    BY <1>3 DEF Coming
<1>5. ASSUME ~behind'[b]
      PROVE  Swapped(page[b], Append(rest, snap)) = Roots(store)
             \/ (~behind[b] /\ Swapped(page[b], rest) = Swapped(page[b], q))
  <2>1. CASE snap.kind = "roots"
    <3>1. snap.page = Roots(store)
      BY <1>3, <2>1 DEF Drawn
    <3> HIDE DEF rest
    <3>2. Swapped(page[b], Append(rest, snap)) = Swap(Swapped(page[b], rest), snap)
      BY <1>2, SwappedAppend
    <3> QED
      BY <2>1, <3>1, <3>2 DEF Swap
  <2>2. CASE snap.kind # "roots"
    <3>1. ~behind[b] /\ (q = <<>> \/ ~LosesView(Head(q), Tail(q)))
      BY <1>3, <1>5, <2>2
    <3>2. CASE q = <<>>
      BY <3>1, <3>2
    <3>3. CASE q # <<>>
      <4>1. rest = Tail(q) /\ Tail(q) \in Seq(S)
        BY <1>2, <3>3
      <4>2. Swapped(page[b], q) = Swapped(Swap(page[b], Head(q)), Tail(q))
        BY <1>2, <3>3, SwappedFirst
      <4>3. CASE Head(q).kind = "status"
        <5>1. Swap(page[b], Head(q)) = page[b]
          BY <4>3 DEF Swap
        <5> QED
          BY <3>1, <4>1, <4>2, <5>1
      <4>4. CASE \E i \in DOMAIN Tail(q) : Tail(q)[i].kind = "roots"
        <5> DEFINE t == Tail(q)
        <5>1. PICK i \in DOMAIN t : t[i].kind = "roots"
          BY <4>4
        <5>2. t \in Seq(S)
          BY <4>1
        <5>3. Swapped(Swap(page[b], Head(q)), t) = Swapped(page[b], t)
          <6> HIDE DEF t
          <6> QED
            BY <5>1, <5>2, SwappedRoots
        <5> QED
          BY <3>1, <4>1, <4>2, <5>3
      <4> QED
        BY <3>1, <3>3, <4>3, <4>4 DEF LosesView
    <3> QED
      BY <3>2, <3>3
  <2> QED
    BY <2>1, <2>2
<1> HIDE DEF q, rest
<1>6. ASSUME b \in live, ~behind'[b]
      PROVE  Swapped(page'[b], Coming(b)') = Roots(store')
  <2>1. CASE ~behind[b] /\ Swapped(page[b], rest) = Swapped(page[b], q)
    <3>1. Swapped(page[b], Append(q, snap)) = Roots(store)
      BY <1>4, <1>6, <2>1 DEF Drawn, PatchesAddUp
    <3>2. Swapped(page[b], Append(q, snap)) = Swap(Swapped(page[b], q), snap)
      BY <1>2, SwappedAppend
    <3>3. Swapped(page[b], Append(rest, snap)) = Swap(Swapped(page[b], rest), snap)
      BY <1>2, SwappedAppend
    <3> QED
      BY <1>3, <1>4, <2>1, <3>1, <3>2, <3>3
  <2> QED
    BY <1>3, <1>4, <1>5, <1>6, <2>1
<1>7. ASSUME NEW c \in live, c # b, ~behind'[c]
      PROVE  Swapped(page'[c], Coming(c)') = Roots(store')
  <2>1. c \in Browsers /\ Coming(c)' = Coming(c)
    BY <1>3, <1>7 DEF Coming, Words
  <2> QED
    BY <1>3, <1>7, <2>1 DEF Drawn, PatchesAddUp
<1>8. PatchesAddUp'
  BY <1>3, <1>6, <1>7 DEF PatchesAddUp
<1> QED
  BY <1>3, <1>8 DEF Drawn

LEMMA ShowDraws ==
  ASSUME Words, Shown, Drawn, NEW b \in Browsers, Show(b)
  PROVE  Drawn'
<1>1. PICK S : queue \in [Browsers -> Seq(S)]
  BY DEF Words
<1> DEFINE q == queue[b]
           p == Swap(page[b], Head(q))
<1>2. q \in Seq(S) /\ q # <<>> /\ Tail(q) \in Seq(S)
  BY <1>1 DEF Show
<1>3. /\ queue'[b] = Tail(q) /\ page'[b] = p
      /\ \A c \in Browsers : c # b => queue'[c] = queue[c] /\ page'[c] = page[c]
      /\ UNCHANGED <<live, pushing, snap, store, behind>>
  <2>1. DOMAIN page = Browsers /\ DOMAIN queue = Browsers
    BY <1>1 DEF Shown
  <2> QED
    BY <2>1 DEF Show, serverVars
<1>4. Swapped(page[b], q) = Swapped(p, Tail(q))
  BY <1>2, SwappedFirst
<1> HIDE DEF p
<1>5. Swapped(page[b], Coming(b)) = Swapped(page'[b], Coming(b)')
  <2>1. CASE b \in pushing
    <3>1. Coming(b) = Append(q, snap) /\ Coming(b)' = Append(Tail(q), snap)
      BY <1>3, <2>1 DEF Coming
    <3>2. Swapped(page[b], Append(q, snap)) = Swap(Swapped(page[b], q), snap)
      BY <1>2, SwappedAppend
    <3>3. Swapped(p, Append(Tail(q), snap)) = Swap(Swapped(p, Tail(q)), snap)
      BY <1>2, SwappedAppend
    <3> QED
      BY <1>3, <1>4, <3>1, <3>2, <3>3
  <2>2. CASE b \notin pushing
    BY <1>3, <1>4, <2>2 DEF Coming
  <2> QED
    BY <2>1, <2>2
<1>6. ASSUME NEW c \in live, c # b
      PROVE  page'[c] = page[c] /\ Coming(c)' = Coming(c)
  BY <1>3, <1>6 DEF Coming, Words
<1>7. PatchesAddUp'
  <2>1. ASSUME NEW c \in live, ~behind[c]
        PROVE  Swapped(page'[c], Coming(c)') = Roots(store)
    <3>1. Swapped(page[c], Coming(c)) = Roots(store)
      BY <2>1 DEF Drawn, PatchesAddUp
    <3> QED
      BY <1>5, <1>6, <3>1
  <2> QED
    BY <1>3, <2>1 DEF PatchesAddUp
<1> QED
  BY <1>3, <1>7 DEF Drawn

\* The first snapshot of a stream is a full page.
LEMMA SubscribeDraws ==
  ASSUME Words, Drawn, NEW b \in Browsers, Subscribe(b)
  PROVE  Drawn'
<1>1. PICK S : queue \in [Browsers -> Seq(S)]
  BY DEF Words
<1> DEFINE s == Full(store)
<1>2. /\ queue'[b] = <<s>> /\ \A c \in Browsers : c # b => queue'[c] = queue[c]
      /\ \A c \in Browsers : c # b => behind'[c] = behind[c]
      /\ DOMAIN behind' = Browsers
      /\ live' = live \cup {b} /\ pushing = {} /\ pushing' = {}
      /\ UNCHANGED <<page, snap, store>>
  BY <1>1 DEF Subscribe, Unlocked, Drawn, serverVars
<1>3. Swapped(page'[b], Coming(b)') = Roots(store')
  <2>1. s.kind = "roots" /\ s.page = Roots(store)
    BY DEF Full
  <2> HIDE DEF s
  <2>2. Coming(b)' = <<s>>
    BY <1>2 DEF Coming
  <2>3. Swapped(page[b], <<s>>) = Swap(page[b], s)
    BY SwappedOne
  <2> QED
    BY <1>2, <2>1, <2>2, <2>3 DEF Swap
<1> HIDE DEF s
<1>4. ASSUME NEW c \in live, c # b, ~behind'[c]
      PROVE  Swapped(page'[c], Coming(c)') = Roots(store')
  <2>1. c \in Browsers /\ Coming(c)' = Coming(c)
    BY <1>2, <1>4 DEF Coming, Words
  <2> QED
    BY <1>2, <1>4, <2>1 DEF Drawn, PatchesAddUp
<1>5. PatchesAddUp'
  BY <1>2, <1>3, <1>4 DEF PatchesAddUp
<1> QED
  BY <1>2, <1>5 DEF Drawn

\* What one browser does with its own page, while it has no stream, and what
\* says nothing of the spans.
LEMMA ApartDraws ==
  ASSUME Words, Drawn, UNCHANGED <<store, behind>>, Unlocked, Unlocked',
         live' \subseteq live, \A c \in live' : page'[c] = page[c] /\ queue'[c] = queue[c]
  PROVE  Drawn'
<1>1. pushing = {} /\ pushing' = {}
  BY DEF Unlocked
<1>2. ASSUME NEW c \in live', ~behind'[c]
      PROVE  Swapped(page'[c], Coming(c)') = Roots(store')
  <2>1. Coming(c)' = Coming(c)
    BY <1>1 DEF Coming
  <2> QED
    BY <1>2, <2>1 DEF Drawn, PatchesAddUp
<1>3. PatchesAddUp'
  BY <1>2 DEF PatchesAddUp
<1> QED
  BY <1>1, <1>3 DEF Drawn

LEMMA RecordDraws ==
  ASSUME Words, Calm, Heard, Calm', Heard', InOrder, Drawn,
         NEW x \in SpanID, NEW r \in Says(x), ApplyRecord(r)
  PROVE  Drawn'
<1>1. /\ store' = LimitRoots(Apply(store, r), MaxRoots) /\ Unlocked
      /\ Broadcast(IF store'.roots # store.roots THEN Full(store')
                   ELSE RecordSnapshot(store', r))
  BY DEF ApplyRecord
<1>2. Turns(Full(store'))
  BY FullTurns
<1>3. Turns(RecordSnapshot(store', r))
  <2>1. Good(store') /\ Timed(store')
    BY DEF Calm, Heard
  <2>2. Renders(RecordSnapshot(store', r), store, store')
    BY <1>1, <2>1, RecordRenders
  <2> QED
    BY <1>2, <2>2, PatchTurns DEF Renders
<1>4. PICK s : Turns(s) /\ Broadcast(s)
  <2>1. CASE store'.roots # store.roots
    BY <1>1, <1>2, <2>1
  <2>2. CASE store'.roots = store.roots
    BY <1>1, <1>3, <2>2
  <2> QED
    BY <2>1, <2>2
<1> QED
  BY <1>1, <1>4, BroadcastDraws

LEMMA DrawnStep ==
  ASSUME Words, Shown, Calm, Heard, Calm', Heard', InOrder, Drawn, [WebNext]_webVars
  PROVE  Drawn'
<1>1. CASE UNCHANGED webVars
  BY <1>1 DEF webVars, serverVars, browserVars, Drawn, PatchesAddUp, Coming
<1>2. ASSUME NEW x \in SpanID, NEW r \in Says(x), Lose(r) PROVE Drawn'
  BY <1>2, ApartDraws DEF Lose, serverVars, browserVars, Unlocked
<1>3. ASSUME NEW x \in SpanID, NEW r \in Says(x), ApplyRecord(r) PROVE Drawn'
  BY <1>3, RecordDraws
<1>4. ASSUME NEW c \in States, SetConnectionState(c) PROVE Drawn'
  <2>1. /\ Unlocked /\ Broadcast(IF c.state \in Down THEN Full(store') ELSE StatusOnly)
        /\ c.state \notin Down => store' = store
    BY <1>4 DEF SetConnectionState
  <2>2. PICK s : Turns(s) /\ Broadcast(s)
    <3>1. CASE c.state \in Down
      BY <2>1, <3>1, FullTurns
    <3>2. CASE c.state \notin Down
      BY <2>1, <3>2, StatusTurns
    <3> QED
      BY <3>1, <3>2
  <2> QED
    BY <2>1, <2>2, BroadcastDraws
<1>5. ASSUME NEW b \in Browsers, TogglePaused(b) \/ ClearAll(b) PROVE Drawn'
  <2>1. Unlocked /\ Broadcast(Full(store'))
    BY <1>5 DEF TogglePaused, ClearAll, CanPost
  <2>2. Turns(Full(store'))
    BY FullTurns
  <2> QED
    BY <2>1, <2>2, BroadcastDraws
<1>6. ASSUME NEW b \in Browsers, ReplyArrives(b) PROVE Drawn'
  BY <1>6, ApartDraws DEF ReplyArrives, serverVars, Unlocked
<1>7. ASSUME NEW b \in Browsers, Load(b) PROVE Drawn'
  <2>1. \A c \in live : page'[c] = page[c]
    BY <1>7 DEF Load
  <2> QED
    BY <1>7, <2>1, ApartDraws DEF Load, serverVars, Unlocked
<1>8. ASSUME NEW b \in Browsers, Unsubscribe(b) PROVE Drawn'
  <2>1. \A c \in Browsers \ {b} : page'[c] = page[c] /\ queue'[c] = queue[c]
    <3>1. DOMAIN page = Browsers /\ DOMAIN queue = Browsers
      BY DEF Shown, Words
    <3> QED
      BY <1>8, <3>1 DEF Unsubscribe
  <2>2. live \subseteq Browsers
    BY DEF Words
  <2> QED
    BY <1>8, <2>1, <2>2, ApartDraws DEF Unsubscribe, serverVars, Unlocked
<1> QED
  BY <1>1, <1>2, <1>3, <1>4, <1>5, <1>6, <1>7, <1>8, SubscribeDraws, ShowDraws,
     PushOutDraws DEF WebNext

LEMMA DrawnInit == WebInit => Drawn
BY DEF WebInit, Drawn, PatchesAddUp

\* If each child and event of a span is later than the last: unless a browser has
\* lost a change that no full page has healed, what it shows once it has swapped
\* in all that is coming is what a reload would show (server.go:298-354).
THEOREM PagesAddUp == InOrder => (WebSpec => []PatchesAddUp)
<1> DEFINE Inv == Words /\ Shown /\ Calm /\ Heard /\ Drawn
<1> SUFFICES ASSUME InOrder PROVE WebSpec => []PatchesAddUp
  OBVIOUS
<1>1. WebInit => Heard /\ Drawn
  BY HeardInit, DrawnInit
<1>2. Calm /\ Heard /\ [WebNext]_webVars => Heard'
  BY HeardStep
<1>3. Words /\ Shown /\ Calm /\ Heard /\ Calm' /\ Heard' /\ Drawn /\ [WebNext]_webVars => Drawn'
  BY DrawnStep
<1>4. Drawn => PatchesAddUp
  BY DEF Drawn
<1> QED
  BY <1>1, <1>2, <1>3, <1>4, WordsInvariance, ShownAlways, CalmAlways, PTL DEF WebSpec
=============================================================================
