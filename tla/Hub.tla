-------------------------------- MODULE Hub --------------------------------
(***************************************************************************)
(* The record hub of src/hub.go: goroutines that call Publish, Subscribe,  *)
(* a subscription's cancel function and Close on one *Hub, and subscribers *)
(* that receive from their channels whenever they like.                    *)
(*                                                                         *)
(* The hub's RWMutex is explicit, with the writer preference of Go's: a    *)
(* writer that has announced itself keeps new readers out, waits for the   *)
(* active ones to leave, and on Unlock lets every reader that queued up    *)
(* behind it in before the next writer.  A Publish holds only the read     *)
(* lock, so several run at once, and it visits the subscribers one by one  *)
(* in the random order of a Go map range.                                  *)
(*                                                                         *)
(* A channel is the sequence of all records ever sent on it (log) and the  *)
(* number of them received (taken): what lies between is its buffer.       *)
(***************************************************************************)
EXTENDS Integers, Sequences, FiniteSets

CONSTANTS Procs,          \* goroutines that use the hub
          Chans,          \* channel identities, each made by one Subscribe
          Record,         \* records to publish, each published at most once
          Buffers,        \* arguments given to Subscribe
          DefaultBuffer,  \* what a non-positive argument stands for (256)
          None            \* no goroutine, no channel, no record

ASSUME BuffersAssumption == Buffers \subseteq Int
ASSUME DefaultBufferAssumption == DefaultBuffer \in Nat \ {0}
ASSUME NoneAssumption == None \notin Procs \cup Chans \cup Record

VARIABLES
  isNil,     \* the *Hub is nil
  closed,    \* Hub.closed
  subs,      \* Hub.subs
  writer,    \* Hub.mu: the goroutine that announced or holds the write lock
  readers,   \* Hub.mu: the goroutines that hold the read lock
  waiting,   \* Hub.mu: the goroutines that will hold it when writer unlocks
  pc,        \* pc[p]: where p stands in its call on the hub
  rec,       \* rec[p]: the record p is publishing
  chan,      \* chan[p]: the channel p subscribes or cancels
  todo,      \* todo[p]: subscribers p's Publish has still to visit
  made,      \* channels that have been made
  given,     \* channels that Subscribe has returned
  hasCancel, \* those returned with a cancel function that does something
  shut,      \* channels that have been closed
  cap,       \* cap[ch]: the capacity of the channel
  log,       \* log[ch]: the records sent on the channel
  taken,     \* taken[ch]: how many of them have been received
  missed,    \* history. missed[ch]: records dropped because ch was full
  called     \* records whose Publish has been called

mutexVars == <<writer, readers, waiting>>
chanVars  == <<made, given, hasCancel, shut, cap, log, taken, missed>>
hubVars   == <<isNil, closed, subs, mutexVars, pc, rec, chan, todo, chanVars,
               called>>

Caps == {b \in Buffers : b > 0} \cup {DefaultBuffer}

PCs  == {"idle", "publish", "send", "subscribe", "cancel", "close", "closing",
         "panic"}

-----------------------------------------------------------------------------
\* sync.RWMutex

\* RLock, the arrival: a reader gets in unless a writer has announced itself.
RLock(p) ==
  /\ IF writer = None
     THEN readers' = readers \cup {p} /\ UNCHANGED waiting
     ELSE waiting' = waiting \cup {p} /\ UNCHANGED readers
  /\ UNCHANGED writer

RUnlock(p) ==
  /\ readers' = readers \ {p}
  /\ UNCHANGED <<writer, waiting>>

\* Lock, the announcement: one writer at a time, and no reader after it.
Announce(p) ==
  /\ writer = None
  /\ writer' = p
  /\ UNCHANGED <<readers, waiting>>

HoldsLock(p) == writer = p /\ readers = {}

Unlock ==
  /\ writer' = None
  /\ readers' = waiting
  /\ waiting' = {}

-----------------------------------------------------------------------------
\* Go channels

Full(ch) == Len(log[ch]) - taken[ch] >= cap[ch]

\* Mutants of TrySend: a send that blocks, and a return where a full channel
\* should only be skipped.
BlockingSend(p, ch) ==
  /\ ~Full(ch)
  /\ log' = [log EXCEPT ![ch] = Append(@, rec[p])]
  /\ todo' = [todo EXCEPT ![p] = @ \ {ch}]
  /\ UNCHANGED missed

SendOrReturn(p, ch) ==
  /\ IF Full(ch)
     THEN missed' = [missed EXCEPT ![ch] = @ \cup {rec[p]}] /\ UNCHANGED log
     ELSE log' = [log EXCEPT ![ch] = Append(@, rec[p])] /\ UNCHANGED missed
  /\ todo' = [todo EXCEPT ![p] = IF Full(ch) THEN {} ELSE @ \ {ch}]

\* select { case ch <- record: default: }, then on to the next subscriber.
TrySend(p, ch) ==
  /\ IF Full(ch)
     THEN missed' = [missed EXCEPT ![ch] = @ \cup {rec[p]}] /\ UNCHANGED log
     ELSE log' = [log EXCEPT ![ch] = Append(@, rec[p])] /\ UNCHANGED missed
  /\ todo' = [todo EXCEPT ![p] = @ \ {ch}]

\* A subscriber receives; it does so when it likes, or never.
Receive(ch) ==
  /\ ch \in given
  /\ taken[ch] < Len(log[ch])
  /\ taken' = [taken EXCEPT ![ch] = @ + 1]
  /\ UNCHANGED <<isNil, closed, subs, mutexVars, pc, rec, chan, todo, made,
                 given, hasCancel, shut, cap, log, missed, called>>

-----------------------------------------------------------------------------
Goto(p, l) == pc' = [pc EXCEPT ![p] = l]

Init ==
  /\ isNil \in BOOLEAN
  /\ closed = FALSE
  /\ subs = {}
  /\ writer = None
  /\ readers = {}
  /\ waiting = {}
  /\ pc = [p \in Procs |-> "idle"]
  /\ rec = [p \in Procs |-> None]
  /\ chan = [p \in Procs |-> None]
  /\ todo = [p \in Procs |-> {}]
  /\ made = {}
  /\ given = {}
  /\ hasCancel = {}
  /\ shut = {}
  /\ cap = [ch \in Chans |-> 0]
  /\ log = [ch \in Chans |-> <<>>]
  /\ taken = [ch \in Chans |-> 0]
  /\ missed = [ch \in Chans |-> {}]
  /\ called = {}

-----------------------------------------------------------------------------
\* Publish

\* On a nil hub the call returns at once.
PublishCall(p, r) ==
  /\ pc[p] = "idle"
  /\ called' = called \cup {r}
  /\ IF isNil
     THEN UNCHANGED <<pc, rec>>
     ELSE rec' = [rec EXCEPT ![p] = r] /\ Goto(p, "publish")
  /\ UNCHANGED <<isNil, closed, subs, mutexVars, chan, todo, chanVars>>

PublishRLock(p) ==
  /\ pc[p] = "publish"
  /\ p \notin readers \cup waiting
  /\ RLock(p)
  /\ UNCHANGED <<isNil, closed, subs, pc, rec, chan, todo, chanVars, called>>

\* With the read lock: nothing to send on when the hub is closed.
PublishCheck(p) ==
  /\ pc[p] = "publish"
  /\ p \in readers
  /\ todo' = [todo EXCEPT ![p] = IF closed THEN {} ELSE subs]
  /\ Goto(p, "send")
  /\ UNCHANGED <<isNil, closed, subs, mutexVars, rec, chan, chanVars, called>>

\* One iteration of the range loop; a send on a closed channel panics.
PublishSend(p, ch) ==
  /\ pc[p] = "send"
  /\ ch \in todo[p]
  /\ IF ch \in shut
     THEN Goto(p, "panic") /\ UNCHANGED <<log, missed, todo>>
     ELSE TrySend(p, ch) /\ UNCHANGED pc
  /\ UNCHANGED <<isNil, closed, subs, mutexVars, rec, chan, made, given,
                 hasCancel, shut, cap, taken, called>>

\* The deferred RUnlock.
PublishReturn(p) ==
  /\ pc[p] = "send"
  /\ todo[p] = {}
  /\ RUnlock(p)
  /\ rec' = [rec EXCEPT ![p] = None]
  /\ Goto(p, "idle")
  /\ UNCHANGED <<isNil, closed, subs, chan, todo, chanVars, called>>

-----------------------------------------------------------------------------
\* Subscribe, the cancel function and Close

\* Mutant of Capacity: the argument is used as it comes.
CapacityAsGiven(buffer) == buffer

Capacity(buffer) == IF buffer <= 0 THEN DefaultBuffer ELSE buffer

\* make(chan): on a nil hub the channel is closed and returned at once.
SubscribeCall(p, ch, buffer) ==
  /\ pc[p] = "idle"
  /\ ch \notin made
  /\ made' = made \cup {ch}
  /\ cap' = [cap EXCEPT ![ch] = Capacity(buffer)]
  /\ IF isNil
     THEN /\ shut' = shut \cup {ch}
          /\ given' = given \cup {ch}
          /\ UNCHANGED <<pc, chan>>
     ELSE /\ chan' = [chan EXCEPT ![p] = ch]
          /\ Goto(p, "subscribe")
          /\ UNCHANGED <<shut, given>>
  /\ UNCHANGED <<isNil, closed, subs, mutexVars, rec, todo, hasCancel, log,
                 taken, missed, called>>

Register(p) ==
  /\ subs' = subs \cup {chan[p]}
  /\ hasCancel' = hasCancel \cup {chan[p]}
  /\ UNCHANGED shut

\* Mutant of Refuse: the channel is left open.
RefuseSilently(p) == UNCHANGED <<subs, hasCancel, shut>>

\* On a closed hub the channel is closed and its cancel function does nothing.
Refuse(p) ==
  /\ shut' = shut \cup {chan[p]}
  /\ UNCHANGED <<subs, hasCancel>>

\* With the lock.
Subscribe(p) ==
  /\ pc[p] = "subscribe"
  /\ HoldsLock(p)
  /\ IF closed THEN Refuse(p) ELSE Register(p)
  /\ given' = given \cup {chan[p]}
  /\ chan' = [chan EXCEPT ![p] = None]
  /\ Goto(p, "idle")
  /\ Unlock
  /\ UNCHANGED <<isNil, closed, rec, todo, made, cap, log, taken, missed,
                 called>>

\* Any goroutine may call a cancel function, at any time and again.
CancelCall(p, ch) ==
  /\ pc[p] = "idle"
  /\ ch \in hasCancel
  /\ chan' = [chan EXCEPT ![p] = ch]
  /\ Goto(p, "cancel")
  /\ UNCHANGED <<isNil, closed, subs, mutexVars, rec, todo, chanVars, called>>

\* Mutant of ToClose: the registration is not looked up.
ToCloseAlways(p) == {chan[p]}

\* The channel, unless someone has deregistered it before.
ToClose(p) == {chan[p]} \cap subs

\* With the lock: deregister and close. Closing a closed channel panics.
Cancel(p) ==
  /\ pc[p] = "cancel"
  /\ HoldsLock(p)
  /\ subs' = subs \ ToClose(p)
  /\ shut' = shut \cup ToClose(p)
  /\ Goto(p, IF ToClose(p) \cap shut # {} THEN "panic" ELSE "idle")
  /\ chan' = [chan EXCEPT ![p] = None]
  /\ Unlock
  /\ UNCHANGED <<isNil, closed, rec, todo, made, given, hasCancel, cap, log,
                 taken, missed, called>>

CloseCall(p) ==
  /\ pc[p] = "idle"
  /\ IF isNil THEN UNCHANGED pc ELSE Goto(p, "close")
  /\ UNCHANGED <<isNil, closed, subs, mutexVars, rec, chan, todo, chanVars,
                 called>>

\* With the lock: only the first Close goes on to close the channels.
CloseMark(p) ==
  /\ pc[p] = "close"
  /\ HoldsLock(p)
  /\ closed' = TRUE
  /\ IF closed
     THEN Goto(p, "idle") /\ Unlock
     ELSE Goto(p, "closing") /\ UNCHANGED mutexVars
  /\ UNCHANGED <<isNil, subs, rec, chan, todo, chanVars, called>>

\* Mutant of CloseAndDelete: the channel is only deleted.
DeleteOnly(ch) == subs' = subs \ {ch} /\ UNCHANGED shut

CloseAndDelete(ch) == subs' = subs \ {ch} /\ shut' = shut \cup {ch}

\* One iteration of the range loop.
CloseChannel(p, ch) ==
  /\ pc[p] = "closing"
  /\ ch \in subs
  /\ IF ch \in shut
     THEN Goto(p, "panic") /\ UNCHANGED <<subs, shut>>
     ELSE CloseAndDelete(ch) /\ UNCHANGED pc
  /\ UNCHANGED <<isNil, closed, mutexVars, rec, chan, todo, made, given,
                 hasCancel, cap, log, taken, missed, called>>

CloseReturn(p) ==
  /\ pc[p] = "closing"
  /\ subs = {}
  /\ Goto(p, "idle")
  /\ Unlock
  /\ UNCHANGED <<isNil, closed, subs, rec, chan, todo, chanVars, called>>

\* mu.Lock() in Subscribe, in cancel and in Close.
Lock(p) ==
  /\ pc[p] \in {"subscribe", "cancel", "close"}
  /\ Announce(p)
  /\ UNCHANGED <<isNil, closed, subs, pc, rec, chan, todo, chanVars, called>>

-----------------------------------------------------------------------------
\* The steps a goroutine takes once it has called; a caller may always wait.
Step(p) ==
  \/ PublishRLock(p)
  \/ PublishCheck(p)
  \/ \E ch \in Chans : PublishSend(p, ch)
  \/ PublishReturn(p)
  \/ Lock(p)
  \/ Subscribe(p)
  \/ Cancel(p)
  \/ CloseMark(p)
  \/ \E ch \in Chans : CloseChannel(p, ch)
  \/ CloseReturn(p)

Call(p) ==
  \/ \E r \in Record \ called : PublishCall(p, r)
  \/ \E ch \in Chans, buffer \in Buffers : SubscribeCall(p, ch, buffer)
  \/ \E ch \in Chans : CancelCall(p, ch)
  \/ CloseCall(p)

Next ==
  \/ \E p \in Procs : Call(p) \/ Step(p)
  \/ \E ch \in Chans : Receive(ch)

Spec == Init /\ [][Next]_hubVars

\* A goroutine inside the hub keeps running, and Go's mutex hands itself over
\* to a goroutine that has waited for a millisecond, so that nobody waits for
\* Lock for ever. Nobody is obliged to call, nor to receive.
Fairness ==
  \A p \in Procs : WF_hubVars(Step(p)) /\ SF_hubVars(Lock(p))

FairSpec == Spec /\ Fairness

-----------------------------------------------------------------------------
TypeOK ==
  /\ isNil \in BOOLEAN /\ closed \in BOOLEAN
  /\ subs \subseteq Chans
  /\ writer \in Procs \cup {None}
  /\ readers \subseteq Procs /\ waiting \subseteq Procs
  /\ pc \in [Procs -> PCs]
  /\ rec \in [Procs -> Record \cup {None}]
  /\ chan \in [Procs -> Chans \cup {None}]
  /\ todo \in [Procs -> SUBSET Chans]
  /\ made \subseteq Chans /\ given \subseteq made /\ shut \subseteq given
  /\ hasCancel \subseteq given
  /\ cap \in [Chans -> Nat] /\ \A ch \in made : cap[ch] \in Caps
  /\ log \in [Chans -> Seq(Record)]
  /\ taken \in [Chans -> Nat]
  /\ missed \in [Chans -> SUBSET Record]
  /\ called \subseteq Record

\* No goroutine ever sends on a closed channel or closes a channel twice,
\* which would crash the program: Publish (hub.go:62) sends on channels that
\* cancel (hub.go:46) and Close (hub.go:82) close, from other goroutines.
NoPanic == \A p \in Procs : pc[p] # "panic"

\* A channel that Subscribe has returned is open exactly while it is
\* registered, so a subscriber that ranges over it ends when it has been
\* cancelled or the hub closed, and not before (hub.go:40, 45, 82).
OpenIffRegistered == given \ shut = subs

\* A queue of the abstract specification is absent until Subscribe returns.
Life == [ch \in Chans |-> CASE ch \notin given -> "absent"
                            [] ch \in given \ shut -> "open"
                            [] ch \in given \cap shut -> "shut"]

Room == [ch \in Chans |-> IF ch \in given THEN cap[ch] ELSE 0]

Promise == INSTANCE FanOut WITH
  hubOpen <- ~closed /\ ~isNil,
  life    <- Life,
  room    <- Room,
  put     <- log,
  got     <- taken

\* The hub is a lossy fan-out to bounded queues: records are only put in open
\* queues with room, each at most once, none after Close; and a nil hub is
\* just a closed one (hub.go:9-12).
ImplementsFanOut == Promise!Spec

\* Publish, Subscribe, cancel and Close all return although no subscriber
\* ever receives: "without blocking slow subscribers" (hub.go:52), and no
\* goroutine waits for ever for the lock, however many contend for it.
CallsReturn == \A p \in Procs : pc[p] # "idle" ~> pc[p] = "idle"

\* Once the hub is closed every channel handed out ends up closed, so no
\* subscriber is left waiting on a hub that has gone.
CloseReachesAll ==
  \A ch \in Chans : closed /\ ch \in given ~> ch \in shut
=============================================================================
