-------------------------- MODULE HubHistoryProofs --------------------------
(***************************************************************************)
(* Theorems about module HubHistory, for any number of goroutines,         *)
(* channels and records: what a Publish that has returned guarantees.      *)
(*                                                                         *)
(* Neither property is inductive.  RealTimeOrder needs that a record in    *)
(* flight has not returned, so that it is before nothing already sent      *)
(* (Past); DeliveredOrFull needs what a Publish still owes while it visits *)
(* its subscribers (Owing), and rests on the locking discipline of the     *)
(* hub's own invariant.                                                    *)
(***************************************************************************)
EXTENDS HubHistory, HubProofs

Past ==
  /\ returned \subseteq called
  /\ before \in [Record -> SUBSET Record]
  /\ owed \in [Record -> SUBSET Chans]
  /\ \A r \in Record : before[r] \subseteq returned /\ owed[r] \subseteq given
  /\ \A p \in Procs : pc[p] \in {"publish", "send"} => rec[p] \notin returned

\* The subscriber has the record, or had no room for it.
Settled(r, ch) ==
  \/ r \in missed[ch]
  \/ \E i \in DOMAIN log[ch] : log[ch][i] = r

Owing ==
  \A p \in Procs : pc[p] = "send" =>
    \A ch \in owed[rec[p]] \cap subs : ch \in todo[p] \/ Settled(rec[p], ch)

HInv == Past /\ Owing /\ RealTimeOrder /\ DeliveredOrFull

-----------------------------------------------------------------------------
\* A step of no Publish call that registers only channels not given before.
Aside ==
  /\ UNCHANGED <<isNil, called, rec, log, missed, todo>>
  /\ given \subseteq given'
  /\ subs' \cap given \subseteq subs
  /\ \A p \in Procs : pc'[p] \in {"publish", "send"} => pc'[p] = pc[p]
  /\ \A p \in Procs : pc[p] = "send" => pc'[p] = "send"

\* On a nil hub nothing is registered and nobody is inside.
LEMMA NilHub ==
  ASSUME IInv, isNil
  PROVE  subs = {} /\ \A p \in Procs : pc[p] = "idle"
BY DEF IInv, Registration

LEMMA AsideHist ==
  ASSUME IInv, IInv', HInv, Aside, History
  PROVE  HInv'
<1> USE DEF HInv, Aside, History
<1>1. /\ before' \in [Record -> SUBSET Record]
      /\ \A r \in Record : before'[r] = before[r]
      /\ owed' \in [Record -> SUBSET Chans]
      /\ \A r \in Record : owed'[r] = owed[r]
  BY DEF Past
<1>2. returned' = returned \cup DoneAtOnce
  BY DEF IInv, TypeOK
<1>3. CASE isNil
  <2>1. subs' = {} /\ \A p \in Procs : pc'[p] = "idle"
    BY <1>3, NilHub DEF IInv, Registration
  <2>2. returned' \subseteq called' /\ returned \subseteq returned'
    BY <1>2, <1>3 DEF DoneAtOnce, Past
  <2>3. Past'
    BY <1>1, <2>1, <2>2 DEF Past
  <2>4. RealTimeOrder'
    BY <1>1 DEF RealTimeOrder, IInv, Freshness, TypeOK
  <2> QED
    BY <2>1, <2>3, <2>4 DEF Owing, DeliveredOrFull
<1>4. CASE ~isNil
  <2>0. returned' = returned
    BY <1>2, <1>4 DEF DoneAtOnce
  <2>1. Past'
    BY <1>1, <2>0 DEF Past
  <2>2. \A r \in Record : owed'[r] \cap subs' \subseteq owed[r] \cap subs
    BY <1>1 DEF Past
  <2>3. \A r \in Record : \A ch \in Chans : Settled(r, ch)' = Settled(r, ch)
    BY DEF Settled
  <2>4. Owing'
    BY <2>2, <2>3 DEF Owing, IInv, Freshness, TypeOK
  <2>5. RealTimeOrder'
    BY <1>1 DEF RealTimeOrder, IInv, Freshness, TypeOK
  <2>6. DeliveredOrFull'
    BY <2>0, <2>2 DEF DeliveredOrFull, IInv, TypeOK, Past
  <2> QED
    BY <2>1, <2>4, <2>5, <2>6
<1> QED
  BY <1>3, <1>4

\* The record is new: nothing refers to it yet.
LEMMA PublishCallHist ==
  ASSUME IInv, IInv', HInv, NEW p \in Procs, NEW r \in Record \ called,
         PublishCall(p, r), History
  PROVE  HInv'
<1> USE DEF HInv, PublishCall, History
<1>1. /\ called' = called \cup {r}
      /\ UNCHANGED <<isNil, closed, subs, log, missed, todo, given>>
  BY DEF mutexVars, chanVars
<1>2. /\ before' \in [Record -> SUBSET Record]
      /\ owed' \in [Record -> SUBSET Chans]
      /\ before'[r] = returned /\ owed'[r] = subs
      /\ \A s \in Record : s # r => before'[s] = before[s] /\ owed'[s] = owed[s]
  BY <1>1 DEF Past, IInv, TypeOK
<1>3. \A q \in Procs : ~ (pc[q] = "send" /\ pc'[q] = "idle")
  BY DEF Goto, IInv, TypeOK
<1>4. returned' = returned \cup DoneAtOnce
  BY <1>3
<1>5. /\ subs \subseteq given
      /\ \A q \in Procs : pc[q] \in {"publish", "send"} => rec[q] # r
      /\ \A ch \in Chans : \A i \in DOMAIN log[ch] :
           log[ch][i] \in Record /\ log[ch][i] # r
  BY DEF IInv, Registration, Freshness, TypeOK
<1>6. RealTimeOrder'
  BY <1>1, <1>2, <1>5 DEF RealTimeOrder
<1>7. CASE isNil
  <2>1. subs' = {} /\ \A q \in Procs : pc'[q] = "idle"
    BY <1>7, NilHub
  <2>2. returned' \subseteq called' /\ returned \subseteq returned'
    BY <1>1, <1>4, <1>7 DEF DoneAtOnce, Past
  <2>3. Past'
    BY <1>1, <1>2, <1>5, <2>1, <2>2 DEF Past
  <2> QED
    BY <1>6, <2>1, <2>3 DEF Owing, DeliveredOrFull
<1>8. CASE ~isNil
  <2>1. /\ returned' = returned
        /\ r \notin returned
    BY <1>4, <1>8 DEF DoneAtOnce, Past
  <2>2. /\ pc' = [pc EXCEPT ![p] = "publish"]
        /\ rec' = [rec EXCEPT ![p] = r]
    BY <1>8 DEF Goto
  <2>3. Past'
    <3>1. \A q \in Procs :
            pc'[q] \in {"publish", "send"} => rec'[q] \notin returned'
      BY <2>1, <2>2 DEF Past, IInv, TypeOK
    <3> QED
      BY <1>1, <1>2, <1>5, <2>1, <3>1 DEF Past
  <2>4. \A s \in Record : \A ch \in Chans : Settled(s, ch)' = Settled(s, ch)
    BY <1>1 DEF Settled
  <2>5. Owing'
    <3>1. \A q \in Procs : pc'[q] = "send" =>
            pc[q] = "send" /\ rec'[q] = rec[q] /\ rec[q] \in Record \ {r}
      BY <1>5, <2>2 DEF IInv, TypeOK, Freshness
    <3> QED
      BY <1>1, <1>2, <2>4, <3>1 DEF Owing, IInv, TypeOK
  <2>6. DeliveredOrFull'
    <3>1. \A s \in returned : s \in Record /\ s # r
      BY <2>1 DEF Past, IInv, TypeOK
    <3> QED
      BY <1>1, <1>2, <2>1, <3>1 DEF DeliveredOrFull
  <2> QED
    BY <1>6, <2>3, <2>5, <2>6
<1> QED
  BY <1>7, <1>8

\* With the read lock, a closed hub has no subscribers left to be visited.
LEMMA PublishCheckHist ==
  ASSUME IInv, IInv', HInv, NEW p \in Procs, PublishCheck(p), History
  PROVE  HInv'
<1> USE DEF HInv, PublishCheck, History
<1>1. /\ UNCHANGED <<isNil, closed, subs, rec, log, missed, given, called>>
      /\ pc' = [pc EXCEPT ![p] = "send"]
      /\ pc[p] = "publish"
  BY DEF mutexVars, chanVars, Goto
<1>2. ~isNil
  BY <1>1, NilHub
<1>3. subs \subseteq todo'[p] /\ \A q \in Procs : q # p => todo'[q] = todo[q]
  <2>1. closed => subs = {}
    BY DEF IInv, Locking, Registration
  <2> QED
    BY <2>1 DEF IInv, TypeOK
<1>4. /\ returned' = returned
      /\ before' = before
      /\ owed' = owed
  <2>1. \A q \in Procs : ~ (pc[q] = "send" /\ pc'[q] = "idle")
    BY <1>1 DEF IInv, TypeOK
  <2> QED
    BY <1>1, <1>2, <2>1 DEF DoneAtOnce, Past
<1>5. Past'
  BY <1>1, <1>4 DEF Past, IInv, TypeOK
<1>6. Owing'
  <2>1. \A r \in Record : \A ch \in Chans : Settled(r, ch)' = Settled(r, ch)
    BY <1>1 DEF Settled
  <2> QED
    BY <1>1, <1>3, <1>4, <2>1 DEF Owing, IInv, TypeOK, Freshness
<1>7. RealTimeOrder' /\ DeliveredOrFull'
  BY <1>1, <1>4 DEF RealTimeOrder, DeliveredOrFull
<1> QED
  BY <1>5, <1>6, <1>7

\* The visit settles the record with the subscriber, and what is appended has
\* not returned, so it is before nothing.
LEMMA PublishSendHist ==
  ASSUME IInv, IInv', HInv, NEW p \in Procs, NEW ch \in Chans,
         PublishSend(p, ch), History
  PROVE  HInv'
<1> USE DEF HInv, History
<1>1. /\ pc[p] = "send" /\ ch \in todo[p]
      /\ UNCHANGED <<isNil, closed, subs, pc, rec, given, called>>
      /\ TrySend(p, ch)
  BY DEF PublishSend, IInv, Registration, TypeOK
<1>2. ~isNil
  BY <1>1, NilHub
<1>3. returned' = returned /\ before' = before /\ owed' = owed
  BY <1>1, <1>2 DEF DoneAtOnce, Past
<1>4. rec[p] \in Record /\ rec[p] \notin returned
  BY <1>1 DEF Past, IInv, Freshness, TypeOK
<1>5. Past'
  BY <1>1, <1>3 DEF Past
<1>6. \A c \in Chans : log[c] \in Seq(Record)
  BY DEF IInv, TypeOK
<1>7. /\ \A c \in Chans : c # ch => log'[c] = log[c]
      /\ log'[ch] = log[ch] \/ log'[ch] = Append(log[ch], rec[p])
  BY <1>1 DEF TrySend, IInv, TypeOK
<1>8. /\ DOMAIN Append(log[ch], rec[p]) = 1 .. Len(log[ch]) + 1
      /\ DOMAIN log[ch] = 1 .. Len(log[ch]) /\ Len(log[ch]) \in Nat
      /\ \A i \in 1 .. Len(log[ch]) : Append(log[ch], rec[p])[i] = log[ch][i]
      /\ Append(log[ch], rec[p])[Len(log[ch]) + 1] = rec[p]
  BY <1>4, <1>6
<1>9. \A c \in Chans : \A i \in DOMAIN log[c] :
        i \in DOMAIN log'[c] /\ log'[c][i] = log[c][i]
  <2>1. CASE log'[ch] = log[ch]
    BY <1>7, <2>1
  <2>2. CASE log'[ch] = Append(log[ch], rec[p])
    <3>1. \A i \in DOMAIN log[ch] :
            i \in DOMAIN log'[ch] /\ log'[ch][i] = log[ch][i]
      BY <1>8, <2>2
    <3> QED
      BY <1>7, <3>1
  <2> QED
    BY <1>7, <2>1, <2>2
<1>10. \A c \in Chans : \A i \in DOMAIN log'[c] :
         \/ i \in DOMAIN log[c] /\ log'[c][i] = log[c][i]
         \/ i = Len(log[c]) + 1 /\ log'[c][i] = rec[p]
  <2>1. CASE log'[ch] = log[ch]
    BY <1>7, <2>1
  <2>2. CASE log'[ch] = Append(log[ch], rec[p])
    <3>1. \A i \in DOMAIN log'[ch] :
            \/ i \in DOMAIN log[ch] /\ log'[ch][i] = log[ch][i]
            \/ i = Len(log[ch]) + 1 /\ log'[ch][i] = rec[p]
      BY <1>8, <2>2
    <3> QED
      BY <1>7, <3>1
  <2> QED
    BY <1>7, <2>1, <2>2
<1>11. \A c \in Chans : missed[c] \subseteq missed'[c]
  <2>1. \/ missed' = missed
        \/ missed' = [missed EXCEPT ![ch] = @ \cup {rec[p]}]
    BY <1>1 DEF TrySend
  <2> QED
    BY <2>1 DEF IInv, TypeOK
<1>12. \A r \in Record : \A c \in Chans : Settled(r, c) => Settled(r, c)'
  BY <1>9, <1>11 DEF Settled
<1>13. Settled(rec[p], ch)'
  <2>1. CASE Full(ch)
    BY <1>1, <2>1 DEF TrySend, Settled, IInv, TypeOK
  <2>2. CASE ~Full(ch)
    <3>1. log'[ch] = Append(log[ch], rec[p])
      BY <1>1, <2>2 DEF TrySend, IInv, TypeOK
    <3>2. /\ Len(log[ch]) + 1 \in DOMAIN log'[ch]
          /\ log'[ch][Len(log[ch]) + 1] = rec[p]
      BY <1>4, <1>6, <3>1
    <3> QED
      BY <1>1, <3>2 DEF Settled
  <2> QED
    BY <2>1, <2>2
<1>14. Owing'
  <2>1. \A q \in Procs : \A c \in todo[q] : c \in todo'[q] \/ (q = p /\ c = ch)
    BY <1>1 DEF TrySend, IInv, TypeOK
  <2>2. \A q \in Procs : pc[q] = "send" =>
          rec[q] \in Record /\ owed[rec[q]] \subseteq Chans
    BY DEF Past, IInv, Freshness, TypeOK
  <2> QED
    BY <1>1, <1>3, <1>12, <1>13, <2>1, <2>2 DEF Owing
<1>15. RealTimeOrder'
  <2> SUFFICES ASSUME NEW c \in Chans, NEW i \in DOMAIN log'[c],
                      NEW j \in DOMAIN log'[c], i < j
               PROVE  log'[c][j] \notin before[log'[c][i]]
    BY <1>3 DEF RealTimeOrder
  <2>1. log'[c][i] \in Record
    BY <1>4, <1>6, <1>10
  <2>2. CASE j \in DOMAIN log[c] /\ log'[c][j] = log[c][j]
    <3>1. i \in DOMAIN log[c] /\ log'[c][i] = log[c][i]
      BY <1>6, <1>10, <2>2
    <3> QED
      BY <2>2, <3>1 DEF RealTimeOrder
  <2>3. CASE log'[c][j] = rec[p]
    BY <1>4, <2>1, <2>3 DEF Past
  <2> QED
    BY <1>10, <2>2, <2>3
<1>16. DeliveredOrFull'
  <2>1. \A r \in returned : r \in Record /\ owed[r] \subseteq Chans
    BY DEF Past, IInv, TypeOK
  <2>2. \A r \in returned : \A c \in owed[r] \cap subs : Settled(r, c)
    BY DEF DeliveredOrFull, Settled
  <2>3. \A r \in returned' : \A c \in owed'[r] \cap subs' : Settled(r, c)'
    BY <1>1, <1>3, <1>12, <2>1, <2>2
  <2> QED
    BY <2>3 DEF DeliveredOrFull, Settled
<1> QED
  BY <1>5, <1>14, <1>15, <1>16

\* All subscribers have been visited: what was owed is settled.
LEMMA PublishReturnHist ==
  ASSUME IInv, IInv', HInv, NEW p \in Procs, PublishReturn(p), History
  PROVE  HInv'
<1> USE DEF HInv, PublishReturn, History
<1>1. /\ pc[p] = "send" /\ todo[p] = {}
      /\ pc' = [pc EXCEPT ![p] = "idle"]
      /\ rec' = [rec EXCEPT ![p] = None]
      /\ UNCHANGED <<isNil, subs, todo, log, missed, given, called>>
  BY DEF chanVars, Goto
<1>2. ~isNil
  BY <1>1, NilHub
<1>3. before' = before /\ owed' = owed
  BY <1>1 DEF Past
<1>4. returned' = returned \cup {rec[p]}
  <2>1. {rec[q] : q \in {s \in Procs : pc[s] = "send" /\ pc'[s] = "idle"}}
          = {rec[p]}
    BY <1>1 DEF IInv, TypeOK
  <2> QED
    BY <1>2, <2>1 DEF DoneAtOnce
<1>5. rec[p] \in called /\ rec[p] \in Record
  BY <1>1 DEF IInv, Freshness, TypeOK
<1>6. \A q \in Procs : pc'[q] \in {"publish", "send"} =>
        q # p /\ pc'[q] = pc[q] /\ rec'[q] = rec[q] /\ rec[q] # rec[p]
  BY <1>1 DEF IInv, Freshness, TypeOK
<1>7. Past'
  BY <1>1, <1>3, <1>4, <1>5, <1>6 DEF Past
<1>8. \A r \in Record : \A ch \in Chans : Settled(r, ch)' = Settled(r, ch)
  BY <1>1 DEF Settled
<1>9. \A r \in Record : owed[r] \subseteq Chans
  BY DEF Past
<1>10. Owing'
  BY <1>1, <1>3, <1>6, <1>8, <1>9 DEF Owing, IInv, Freshness, TypeOK
<1>11. RealTimeOrder'
  BY <1>1, <1>3 DEF RealTimeOrder
<1>12. DeliveredOrFull'
  <2>1. \A ch \in owed[rec[p]] \cap subs : Settled(rec[p], ch)
    BY <1>1 DEF Owing
  <2> QED
    BY <1>1, <1>3, <1>4, <2>1 DEF DeliveredOrFull, Settled
<1> QED
  BY <1>7, <1>10, <1>11, <1>12

-----------------------------------------------------------------------------
\* The other steps have no part in a Publish that has begun.
LEMMA CallAside ==
  ASSUME IInv, NEW p \in Procs,
         \/ \E ch \in Chans, buffer \in Buffers : SubscribeCall(p, ch, buffer)
         \/ \E ch \in Chans : CancelCall(p, ch)
         \/ CloseCall(p)
  PROVE  Aside
<1>1. CASE \E ch \in Chans, buffer \in Buffers : SubscribeCall(p, ch, buffer)
  BY <1>1 DEF SubscribeCall, Aside, Goto, mutexVars, IInv, TypeOK
<1>2. CASE (\E ch \in Chans : CancelCall(p, ch)) \/ CloseCall(p)
  BY <1>2 DEF CancelCall, CloseCall, Aside, Goto, mutexVars, chanVars, IInv,
              TypeOK
<1> QED
  BY <1>1, <1>2

LEMMA LockedAside ==
  ASSUME IInv, NEW p \in Procs,
         \/ PublishRLock(p) \/ Lock(p) \/ CloseMark(p) \/ CloseReturn(p)
         \/ \E ch \in Chans : CloseChannel(p, ch)
  PROVE  Aside
<1>1. CASE PublishRLock(p) \/ Lock(p)
  BY <1>1 DEF PublishRLock, Lock, Aside, chanVars
<1>2. CASE CloseMark(p) \/ CloseReturn(p)
  BY <1>2 DEF CloseMark, CloseReturn, Aside, Goto, chanVars, IInv, TypeOK
<1>3. CASE \E ch \in Chans : CloseChannel(p, ch)
  BY <1>3 DEF CloseChannel, CloseAndDelete, Aside, IInv, Registration
<1> QED
  BY <1>1, <1>2, <1>3

\* What Subscribe registers nobody has been given before.
LEMMA SubscribeAside ==
  ASSUME IInv, NEW p \in Procs, Subscribe(p) \/ Cancel(p)
  PROVE  Aside
<1>1. CASE Subscribe(p)
  <2>1. subs' \subseteq subs \cup {chan[p]} /\ chan[p] \notin given
    BY <1>1 DEF Subscribe, Register, Refuse, IInv, Registration
  <2> QED
    BY <1>1, <2>1 DEF Subscribe, Aside, Goto, IInv, TypeOK
<1>2. CASE Cancel(p)
  <2>1. pc' = [pc EXCEPT ![p] = "idle"]
    BY <1>2 DEF Cancel, ToClose, Goto, IInv, Registration
  <2> QED
    BY <1>2, <2>1 DEF Cancel, Aside, IInv, TypeOK
<1> QED
  BY <1>1, <1>2

LEMMA HistInitInv == HistInit => HInv
<1> SUFFICES ASSUME HistInit PROVE HInv
  OBVIOUS
<1>1. Past /\ Owing
  BY DEF HistInit, Init, Past, Owing
<1>2. RealTimeOrder /\ DeliveredOrFull
  BY DEF HistInit, Init, RealTimeOrder, DeliveredOrFull
<1> QED
  BY <1>1, <1>2 DEF HInv

\* The inductive invariant of the hub and its callers' memory.
LEMMA HistStepInv == IInv /\ HInv /\ [HistNext]_histVars => IInv' /\ HInv'
<1> SUFFICES ASSUME IInv, HInv, [HistNext]_histVars PROVE IInv' /\ HInv'
  OBVIOUS
<1>1. IInv'
  <2>1. CASE HistNext
    BY <2>1, StepInv DEF HistNext
  <2>2. CASE UNCHANGED histVars
    BY <2>2, StepInv DEF histVars
  <2> QED
    BY <2>1, <2>2
<1>2. CASE UNCHANGED histVars
  BY <1>1, <1>2 DEF HInv, Past, Owing, Settled, RealTimeOrder, DeliveredOrFull,
                    histVars, hubVars, mutexVars, chanVars
<1>3. ASSUME NEW p \in Procs, Call(p), History PROVE HInv'
  BY <1>1, <1>3, PublishCallHist, CallAside, AsideHist DEF Call
<1>4. ASSUME NEW p \in Procs, Step(p), History PROVE HInv'
  BY <1>1, <1>4, PublishCheckHist, PublishSendHist, PublishReturnHist,
     LockedAside, SubscribeAside, AsideHist DEF Step
<1>5. ASSUME NEW ch \in Chans, Receive(ch), History PROVE HInv'
  <2>1. Aside
    BY <1>5 DEF Receive, Aside
  <2> QED
    BY <1>1, <1>5, <2>1, AsideHist
<1>6. CASE HistNext
  BY <1>1, <1>3, <1>4, <1>5, <1>6 DEF HistNext, Next
<1> QED
  BY <1>2, <1>6

THEOREM HistInvariance == HistSpec => [](IInv /\ HInv)
<1>1. HistInit => IInv /\ HInv
  BY InitInv, HistInitInv DEF HistInit
<1> QED
  BY <1>1, HistStepInv, PTL DEF HistSpec

\* Records whose Publish calls do not overlap reach every subscriber in the
\* order of the calls (hub.go:57-66).
THEOREM CallOrder == HistSpec => []RealTimeOrder
BY HistInvariance, PTL DEF HInv

\* A Publish that has returned has left nobody out who was registered before
\* it was called and still is: the record was sent to that subscriber, or its
\* buffer was full (hub.go:61-65).
THEOREM Completeness == HistSpec => []DeliveredOrFull
BY HistInvariance, PTL DEF HInv
=============================================================================
