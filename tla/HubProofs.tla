----------------------------- MODULE HubProofs -----------------------------
(***************************************************************************)
(* Theorems about module Hub, for any number of goroutines, channels and   *)
(* records: its types, that it never panics, that a channel is open        *)
(* exactly while it is registered, and that it implements FanOut.          *)
(*                                                                         *)
(* NoPanic is not inductive. What makes it so is the locking discipline    *)
(* (Locking: who is where when the lock is held), what a goroutine in the  *)
(* critical section may rely on (Registration), and, for the refinement,   *)
(* that a record in flight is new to the channels still to be visited      *)
(* (Freshness).                                                            *)
(***************************************************************************)
EXTENDS Hub, TLAPS

Locking ==
  /\ writer # None => pc[writer] \in {"subscribe", "cancel", "close", "closing"}
  /\ \A p \in Procs : pc[p] = "closing" => writer = p /\ readers = {} /\ closed
  /\ \A p \in readers : pc[p] \in {"publish", "send"}
  /\ \A p \in waiting : pc[p] = "publish"
  /\ \A p \in Procs : pc[p] = "send" => p \in readers
  /\ readers \cap waiting = {}

Registration ==
  /\ subs = given \ shut
  /\ closed => subs = {} \/ \E p \in Procs : pc[p] = "closing"
  /\ isNil => subs = {} /\ hasCancel = {} /\ \A p \in Procs : pc[p] = "idle"
  /\ \A p \in Procs : pc[p] = "send" => todo[p] \subseteq subs
  /\ \A p \in Procs : pc[p] = "subscribe" => chan[p] \in made \ given
  /\ \A p, q \in Procs : pc[p] = "subscribe" /\ pc[q] = "subscribe" /\ p # q
                           => chan[p] # chan[q]
  /\ \A p \in Procs : pc[p] = "cancel" => chan[p] \in given

Freshness ==
  /\ \A p \in Procs : pc[p] \in {"publish", "send"} => rec[p] \in called
  /\ \A p, q \in Procs :
       pc[p] \in {"publish", "send"} /\ pc[q] \in {"publish", "send"} /\ p # q
         => rec[p] # rec[q]
  /\ \A ch \in Chans : \A i \in DOMAIN log[ch] : log[ch][i] \in called
  /\ \A p \in Procs, ch \in Chans : \A i \in DOMAIN log[ch] :
       log[ch][i] = rec[p] =>
         ~ (pc[p] = "publish" \/ (pc[p] = "send" /\ ch \in todo[p]))

IInv == TypeOK /\ NoPanic /\ Locking /\ Registration /\ Freshness

-----------------------------------------------------------------------------
\* Every step preserves the invariant.

LEMMA PublishCallInv ==
  ASSUME IInv, NEW p \in Procs, NEW r \in Record \ called, PublishCall(p, r)
  PROVE  IInv'
<1> USE DEF IInv, PublishCall, Goto, mutexVars, chanVars
<1>1. CASE isNil
  <2>1. TypeOK'
    BY <1>1 DEF TypeOK
  <2>2. NoPanic'
    BY <1>1 DEF NoPanic
  <2>3. Locking'
    BY <1>1 DEF Locking
  <2>4. Registration'
    BY <1>1 DEF Registration
  <2>5. Freshness'
    BY <1>1 DEF Freshness, TypeOK
  <2> QED
    BY <2>1, <2>2, <2>3, <2>4, <2>5
<1>2. CASE ~isNil
  <2>0. /\ DOMAIN pc = Procs /\ DOMAIN rec = Procs
        /\ pc' = [pc EXCEPT ![p] = "publish"] /\ rec' = [rec EXCEPT ![p] = r]
    <3>1. DOMAIN pc = Procs /\ DOMAIN rec = Procs
      BY DEF TypeOK
    <3> QED
      BY <1>2, <3>1
  <2>1. TypeOK'
    BY <1>2 DEF TypeOK, PCs
  <2>2. NoPanic'
    BY <1>2 DEF NoPanic, TypeOK
  <2>3. Locking'
    BY <1>2 DEF Locking, TypeOK
  <2>4. Registration'
    <3>1. /\ pc'[p] = "publish" /\ pc[p] = "idle"
          /\ \A q \in Procs : q # p => pc'[q] = pc[q]
          /\ UNCHANGED <<isNil, closed, subs, chan, todo, made, given, shut, hasCancel>>
      BY <2>0
    <3> HIDE DEF PublishCall
    <3> QED
      BY <1>2, <3>1 DEF Registration
  <2>5. Freshness'
    <3>1. \A q \in Procs : q # p => pc'[q] = pc[q] /\ rec'[q] = rec[q]
      BY <2>0
    <3>2. pc'[p] = "publish" /\ rec'[p] = r /\ r \notin called
      BY <2>0
    <3>3. called' = called \cup {r} /\ log' = log /\ todo' = todo
      BY <1>2
    <3> QED
      BY <3>1, <3>2, <3>3 DEF Freshness
  <2> QED
    BY <2>1, <2>2, <2>3, <2>4, <2>5
<1> QED
  BY <1>1, <1>2

LEMMA PublishCheckInv ==
  ASSUME IInv, NEW p \in Procs, PublishCheck(p)
  PROVE  IInv'
<1> USE DEF IInv, PublishCheck, Goto, mutexVars, chanVars
<1>0. /\ pc' = [pc EXCEPT ![p] = "send"]
      /\ todo'[p] \subseteq subs
      /\ \A q \in Procs : q # p => todo'[q] = todo[q]
  BY DEF TypeOK
<1>1. TypeOK'
  BY DEF TypeOK, PCs
<1>2. NoPanic'
  BY <1>0 DEF NoPanic, TypeOK
<1>3. Locking'
  BY <1>0 DEF Locking, TypeOK
<1>4. Registration'
  BY <1>0 DEF Registration, TypeOK
<1>5. Freshness'
  BY <1>0 DEF Freshness, TypeOK
<1> QED
  BY <1>1, <1>2, <1>3, <1>4, <1>5

LEMMA PublishSendInv ==
  ASSUME IInv, NEW p \in Procs, NEW ch \in Chans, PublishSend(p, ch)
  PROVE  IInv'
<1> USE DEF IInv, PublishSend
\* The channel is one of subs, which are open.
<1>1. /\ ch \notin shut
      /\ pc[p] = "send" /\ ch \in todo[p]
      /\ UNCHANGED <<isNil, closed, subs, mutexVars, pc, rec, chan, made, given,
                     hasCancel, shut, cap, taken, called>>
  BY DEF Registration, TypeOK
<1>2. todo' = [todo EXCEPT ![p] = @ \ {ch}]
  BY <1>1 DEF TrySend
<1>3. rec[p] \in called /\ rec[p] \in Record
  BY <1>1 DEF Freshness, TypeOK
<1>4. \/ log' = log
      \/ log' = [log EXCEPT ![ch] = Append(@, rec[p])]
  BY <1>1 DEF TrySend
<1>5. TypeOK'
  <2>1. log' \in [Chans -> Seq(Record)]
    <3>1. log[ch] \in Seq(Record)
      BY DEF TypeOK
    <3>2. Append(log[ch], rec[p]) \in Seq(Record)
      BY <1>3, <3>1
    <3> QED
      BY <1>4, <3>2 DEF TypeOK
  <2>2. missed' \in [Chans -> SUBSET Record]
    <3>1. \/ missed' = missed
          \/ missed' = [missed EXCEPT ![ch] = @ \cup {rec[p]}]
      BY <1>1 DEF TrySend
    <3>2. missed[ch] \cup {rec[p]} \in SUBSET Record
      BY <1>3 DEF TypeOK
    <3> QED
      BY <3>1, <3>2 DEF TypeOK
  <2>3. todo' \in [Procs -> SUBSET Chans]
    BY <1>2 DEF TypeOK
  <2> QED
    BY <1>1, <2>1, <2>2, <2>3 DEF TypeOK, mutexVars
<1>6. NoPanic'
  BY <1>1 DEF NoPanic
<1>7. Locking'
  BY <1>1 DEF Locking, mutexVars
<1>8. Registration'
  BY <1>1, <1>2 DEF Registration, TypeOK
<1>9. Freshness'
  <2>1. \A c \in Chans : \A i \in DOMAIN log'[c] :
          \/ i \in DOMAIN log[c] /\ log'[c][i] = log[c][i]
          \/ c = ch /\ log'[c][i] = rec[p]
    <3>1. \A c \in Chans : log[c] \in Seq(Record)
      BY DEF TypeOK
    <3>2. \A i \in DOMAIN Append(log[ch], rec[p]) :
            \/ i \in DOMAIN log[ch] /\ Append(log[ch], rec[p])[i] = log[ch][i]
            \/ Append(log[ch], rec[p])[i] = rec[p]
      BY <3>1
    <3>3. CASE log' = log
      BY <3>3
    <3>4. CASE log' = [log EXCEPT ![ch] = Append(@, rec[p])]
      <4>1. log'[ch] = Append(log[ch], rec[p])
        BY <3>4 DEF TypeOK
      <4>2. \A c \in Chans : c # ch => log'[c] = log[c]
        BY <3>4 DEF TypeOK
      <4> QED
        BY <3>2, <4>1, <4>2
    <3> QED
      BY <1>4, <3>3, <3>4
  <2>2. \A q \in Procs : todo'[q] \subseteq todo[q]
    BY <1>2 DEF TypeOK
  <2>3. ch \notin todo'[p]
    BY <1>2 DEF TypeOK
  <2>4. \A c \in Chans : \A i \in DOMAIN log'[c] : log'[c][i] \in called'
    BY <1>1, <1>3, <2>1 DEF Freshness
  <2>5. ASSUME NEW q \in Procs, NEW c \in Chans, NEW i \in DOMAIN log'[c],
               log'[c][i] = rec'[q]
        PROVE  ~ (pc'[q] = "publish" \/ (pc'[q] = "send" /\ c \in todo'[q]))
    <3>1. CASE i \in DOMAIN log[c] /\ log'[c][i] = log[c][i]
      BY <1>1, <2>2, <2>5, <3>1 DEF Freshness
    <3>2. CASE c = ch /\ log'[c][i] = rec[p]
      BY <1>1, <2>2, <2>3, <2>5, <3>2 DEF Freshness
    <3> QED
      BY <2>1, <3>1, <3>2
  <2> QED
    BY <1>1, <2>4, <2>5 DEF Freshness
<1> QED
  BY <1>5, <1>6, <1>7, <1>8, <1>9

LEMMA PublishRLockInv ==
  ASSUME IInv, NEW p \in Procs, PublishRLock(p)
  PROVE  IInv'
<1> USE DEF IInv, PublishRLock, RLock, mutexVars, chanVars
<1>1. TypeOK'
  BY DEF TypeOK
<1>2. NoPanic'
  BY DEF NoPanic
<1>3. Locking'
  BY NoneAssumption DEF Locking, TypeOK
<1>4. Registration'
  BY DEF Registration
<1>5. Freshness'
  BY DEF Freshness
<1> QED
  BY <1>1, <1>2, <1>3, <1>4, <1>5

LEMMA PublishReturnInv ==
  ASSUME IInv, NEW p \in Procs, PublishReturn(p)
  PROVE  IInv'
<1> USE DEF IInv, PublishReturn, RUnlock, Goto, mutexVars, chanVars
<1>1. TypeOK'
  BY DEF TypeOK, PCs
<1>2. NoPanic'
  BY DEF NoPanic, TypeOK
<1>3. Locking'
  BY DEF Locking, TypeOK
<1>4. Registration'
  BY DEF Registration, Locking, TypeOK
<1>5. Freshness'
  BY DEF Freshness, TypeOK
<1> QED
  BY <1>1, <1>2, <1>3, <1>4, <1>5

LEMMA LockInv ==
  ASSUME IInv, NEW p \in Procs, Lock(p)
  PROVE  IInv'
<1> USE DEF IInv, Lock, Announce, mutexVars, chanVars
<1>1. TypeOK'
  BY DEF TypeOK
<1>2. NoPanic'
  BY DEF NoPanic
<1>3. Locking'
  BY NoneAssumption DEF Locking, TypeOK
<1>4. Registration'
  BY DEF Registration
<1>5. Freshness'
  BY DEF Freshness
<1> QED
  BY <1>1, <1>2, <1>3, <1>4, <1>5

LEMMA SubscribeCallInv ==
  ASSUME IInv, NEW p \in Procs, NEW ch \in Chans, NEW buffer \in Buffers,
         SubscribeCall(p, ch, buffer)
  PROVE  IInv'
<1> USE DEF IInv, SubscribeCall, mutexVars
<1>1. Capacity(buffer) \in Caps /\ Capacity(buffer) \in Nat
  BY BuffersAssumption, DefaultBufferAssumption DEF Capacity, Caps
<1>2. TypeOK'
  <2>1. /\ cap' \in [Chans -> Nat]
        /\ \A c \in made' : cap'[c] \in Caps
    BY <1>1 DEF TypeOK
  <2>2. /\ pc' \in [Procs -> PCs]
        /\ chan' \in [Procs -> Chans \cup {None}]
    BY DEF TypeOK, PCs, Goto
  <2> QED
    BY <2>1, <2>2 DEF TypeOK
<1>3. NoPanic'
  BY DEF NoPanic, TypeOK, Goto
<1>4. Locking'
  <2>1. CASE isNil
    BY <2>1 DEF Locking
  <2>2. CASE ~isNil
    BY <2>2 DEF Locking, TypeOK, Goto
  <2> QED
    BY <2>1, <2>2
<1>5. Registration'
  <2>1. CASE isNil
    BY <2>1 DEF Registration, TypeOK
  <2>2. CASE ~isNil
    <3>1. /\ pc' = [pc EXCEPT ![p] = "subscribe"]
          /\ chan' = [chan EXCEPT ![p] = ch]
          /\ made' = made \cup {ch} /\ ch \notin made
          /\ UNCHANGED <<isNil, closed, subs, todo, given, shut>>
      BY <2>2 DEF Goto
    <3> QED
      BY <2>2, <3>1 DEF Registration, TypeOK
  <2> QED
    BY <2>1, <2>2
<1>6. Freshness'
  <2>1. \A q \in Procs : /\ pc'[q] \in {"publish", "send"} => pc'[q] = pc[q]
                         /\ rec'[q] = rec[q] /\ todo'[q] = todo[q]
    BY DEF TypeOK, Goto
  <2>2. log' = log /\ called' = called
    OBVIOUS
  <2> QED
    BY <2>1, <2>2 DEF Freshness
<1> QED
  BY <1>2, <1>3, <1>4, <1>5, <1>6

LEMMA SubscribeInv ==
  ASSUME IInv, NEW p \in Procs, Subscribe(p)
  PROVE  IInv'
<1> USE DEF IInv, Subscribe, HoldsLock, Unlock
<1>1. /\ chan[p] \in made \ given
      /\ chan[p] \in Chans
      /\ writer = p /\ readers = {}
  BY DEF Registration, TypeOK
<1>2. pc' = [pc EXCEPT ![p] = "idle"] /\ chan' = [chan EXCEPT ![p] = None]
  BY DEF Goto
<1>3. TypeOK'
  BY <1>1, <1>2 DEF TypeOK, PCs, Refuse, Register
<1>4. NoPanic'
  BY <1>2 DEF NoPanic, TypeOK
<1>5. Locking'
  BY <1>1, <1>2 DEF Locking, TypeOK
<1>6. Registration'
  <2>1. CASE closed
    BY <1>1, <1>2, <2>1 DEF Registration, TypeOK, Refuse, Locking
  <2>2. CASE ~closed
    BY <1>1, <1>2, <2>2 DEF Registration, TypeOK, Register, Locking
  <2> QED
    BY <2>1, <2>2
<1>7. Freshness'
  BY <1>2 DEF Freshness, TypeOK
<1> QED
  BY <1>3, <1>4, <1>5, <1>6, <1>7

LEMMA CancelCallInv ==
  ASSUME IInv, NEW p \in Procs, NEW ch \in Chans, CancelCall(p, ch)
  PROVE  IInv'
<1> USE DEF IInv, CancelCall, Goto, mutexVars, chanVars
<1>1. TypeOK'
  BY DEF TypeOK, PCs
<1>2. NoPanic'
  BY DEF NoPanic, TypeOK
<1>3. Locking'
  BY DEF Locking, TypeOK
<1>4. Registration'
  BY DEF Registration, TypeOK
<1>5. Freshness'
  BY DEF Freshness, TypeOK
<1> QED
  BY <1>1, <1>2, <1>3, <1>4, <1>5

LEMMA CancelInv ==
  ASSUME IInv, NEW p \in Procs, Cancel(p)
  PROVE  IInv'
<1> USE DEF IInv, Cancel, HoldsLock, Unlock
\* What is to be closed is registered, so it is open.
<1>1. /\ chan[p] \in given
      /\ ToClose(p) \subseteq subs /\ ToClose(p) \cap shut = {}
      /\ writer = p /\ readers = {}
  BY DEF Registration, ToClose
<1>2. pc' = [pc EXCEPT ![p] = "idle"] /\ chan' = [chan EXCEPT ![p] = None]
  BY <1>1 DEF Goto
<1>3. TypeOK'
  BY <1>1, <1>2 DEF TypeOK, PCs, Registration
<1>4. NoPanic'
  BY <1>2 DEF NoPanic, TypeOK
<1>5. Locking'
  BY <1>1, <1>2 DEF Locking, TypeOK
<1>6. Registration'
  <2>1. \A q \in Procs : pc[q] # "send"
    BY <1>1 DEF Locking
  <2>2. subs' = given' \ shut'
    BY <1>1 DEF Registration
  <2>3. closed' => subs' = {} \/ \E q \in Procs : pc'[q] = "closing"
    BY <1>2 DEF Registration, TypeOK
  <2> QED
    BY <1>1, <1>2, <2>1, <2>2, <2>3 DEF Registration, TypeOK
<1>7. Freshness'
  BY <1>2 DEF Freshness, TypeOK
<1> QED
  BY <1>3, <1>4, <1>5, <1>6, <1>7

LEMMA CloseCallInv ==
  ASSUME IInv, NEW p \in Procs, CloseCall(p)
  PROVE  IInv'
<1> USE DEF IInv, CloseCall, mutexVars, chanVars
<1>1. CASE isNil
  BY <1>1 DEF TypeOK, NoPanic, Locking, Registration, Freshness
<1>2. CASE ~isNil
  <2>0. pc' = [pc EXCEPT ![p] = "close"]
    BY <1>2 DEF Goto
  <2>1. TypeOK'
    BY <2>0 DEF TypeOK, PCs
  <2>2. NoPanic'
    BY <2>0 DEF NoPanic, TypeOK
  <2>3. Locking'
    BY <2>0 DEF Locking, TypeOK
  <2>4. Registration'
    BY <1>2, <2>0 DEF Registration, TypeOK
  <2>5. Freshness'
    BY <2>0 DEF Freshness, TypeOK
  <2> QED
    BY <2>1, <2>2, <2>3, <2>4, <2>5
<1> QED
  BY <1>1, <1>2

LEMMA CloseMarkInv ==
  ASSUME IInv, NEW p \in Procs, CloseMark(p)
  PROVE  IInv'
<1> USE DEF IInv, CloseMark, HoldsLock, chanVars
<1>1. CASE closed
  <2>0. /\ pc' = [pc EXCEPT ![p] = "idle"]
        /\ writer' = None /\ readers' = waiting /\ waiting' = {}
    BY <1>1 DEF Goto, Unlock
  <2>1. TypeOK'
    BY <2>0 DEF TypeOK, PCs
  <2>2. NoPanic'
    BY <2>0 DEF NoPanic, TypeOK
  <2>3. Locking'
    BY <2>0, <1>1 DEF Locking, TypeOK
  <2>4. Registration'
    <3>1. closed' => subs' = {} \/ \E q \in Procs : pc'[q] = "closing"
      BY <2>0, <1>1 DEF Registration, TypeOK
    <3> QED
      BY <2>0, <3>1 DEF Registration, TypeOK
  <2>5. Freshness'
    BY <2>0 DEF Freshness, TypeOK
  <2> QED
    BY <2>1, <2>2, <2>3, <2>4, <2>5
<1>2. CASE ~closed
  <2>0. /\ pc' = [pc EXCEPT ![p] = "closing"]
        /\ UNCHANGED <<writer, readers, waiting>>
    BY <1>2 DEF Goto, mutexVars
  <2>1. TypeOK'
    BY <2>0 DEF TypeOK, PCs
  <2>2. NoPanic'
    BY <2>0 DEF NoPanic, TypeOK
  <2>3. Locking'
    BY <2>0 DEF Locking, TypeOK
  <2>4. Registration'
    BY <2>0 DEF Registration, TypeOK
  <2>5. Freshness'
    BY <2>0 DEF Freshness, TypeOK
  <2> QED
    BY <2>1, <2>2, <2>3, <2>4, <2>5
<1> QED
  BY <1>1, <1>2

LEMMA CloseChannelInv ==
  ASSUME IInv, NEW p \in Procs, NEW ch \in Chans, CloseChannel(p, ch)
  PROVE  IInv'
<1> USE DEF IInv, CloseChannel, mutexVars
<1>1. /\ ch \in given /\ ch \notin shut
      /\ subs' = subs \ {ch} /\ shut' = shut \cup {ch} /\ pc' = pc
  BY DEF Registration, CloseAndDelete
<1>2. TypeOK'
  BY <1>1 DEF TypeOK
<1>3. NoPanic'
  BY <1>1 DEF NoPanic
<1>4. Locking'
  BY <1>1 DEF Locking
<1>5. Registration'
  BY <1>1 DEF Registration, Locking, TypeOK
<1>6. Freshness'
  BY <1>1 DEF Freshness
<1> QED
  BY <1>2, <1>3, <1>4, <1>5, <1>6

LEMMA CloseReturnInv ==
  ASSUME IInv, NEW p \in Procs, CloseReturn(p)
  PROVE  IInv'
<1> USE DEF IInv, CloseReturn, Unlock, chanVars
<1>0. pc' = [pc EXCEPT ![p] = "idle"] /\ writer = p /\ readers = {}
  BY DEF Goto, Locking
<1>1. TypeOK'
  BY <1>0 DEF TypeOK, PCs
<1>2. NoPanic'
  BY <1>0 DEF NoPanic, TypeOK
<1>3. Locking'
  BY <1>0 DEF Locking, TypeOK
<1>4. Registration'
  BY <1>0 DEF Registration, TypeOK
<1>5. Freshness'
  BY <1>0 DEF Freshness, TypeOK
<1> QED
  BY <1>1, <1>2, <1>3, <1>4, <1>5

LEMMA ReceiveInv ==
  ASSUME IInv, NEW ch \in Chans, Receive(ch)
  PROVE  IInv'
<1> USE DEF IInv, Receive, mutexVars
<1>1. TypeOK'
  BY DEF TypeOK
<1>2. NoPanic' /\ Locking'
  BY DEF NoPanic, Locking
<1>3. Registration' /\ Freshness'
  BY DEF Registration, Freshness
<1> QED
  BY <1>1, <1>2, <1>3

LEMMA InitInv == Init => IInv
<1> SUFFICES ASSUME Init PROVE IInv
  OBVIOUS
<1> USE DEF Init
<1>1. TypeOK
  <2>1. <<>> \in Seq(Record)
    OBVIOUS
  <2>2. log \in [Chans -> Seq(Record)]
    BY <2>1
  <2>3. /\ cap \in [Chans -> Nat] /\ taken \in [Chans -> Nat]
        /\ missed \in [Chans -> SUBSET Record]
        /\ todo \in [Procs -> SUBSET Chans]
    OBVIOUS
  <2> QED
    BY <2>2, <2>3 DEF TypeOK, PCs
<1>2. NoPanic /\ Locking
  BY DEF NoPanic, Locking
<1>3. Registration /\ Freshness
  BY DEF Registration, Freshness
<1> QED
  BY <1>1, <1>2, <1>3 DEF IInv

\* The inductive invariant of the hub.
LEMMA StepInv == IInv /\ [Next]_hubVars => IInv'
<1> SUFFICES ASSUME IInv, [Next]_hubVars PROVE IInv'
  OBVIOUS
<1>1. CASE UNCHANGED hubVars
  BY <1>1 DEF IInv, TypeOK, NoPanic, Locking, Registration, Freshness, hubVars,
              mutexVars, chanVars
<1>2. ASSUME NEW p \in Procs, Call(p) PROVE IInv'
  BY <1>2, PublishCallInv, SubscribeCallInv, CancelCallInv, CloseCallInv DEF Call
<1>3. ASSUME NEW p \in Procs, Step(p) PROVE IInv'
  BY <1>3, PublishRLockInv, PublishCheckInv, PublishSendInv, PublishReturnInv,
     LockInv, SubscribeInv, CancelInv, CloseMarkInv, CloseChannelInv,
     CloseReturnInv DEF Step
<1>4. ASSUME NEW ch \in Chans, Receive(ch) PROVE IInv'
  BY <1>4, ReceiveInv
<1> QED
  BY <1>1, <1>2, <1>3, <1>4 DEF Next

THEOREM Invariance == Spec => []IInv
BY InitInv, StepInv, PTL DEF Spec

\* The variables of the hub keep their types.
THEOREM TypeCorrectness == Spec => []TypeOK
BY Invariance, PTL DEF IInv

\* Whatever the goroutines do, none of them sends on a closed channel or
\* closes a channel twice (hub.go:45-46, 62-64, 81-83).
THEOREM Safety == Spec => []NoPanic
BY Invariance, PTL DEF IInv

\* A subscription is open exactly while it is registered.
THEOREM Subscriptions == Spec => []OpenIffRegistered
<1>1. IInv => OpenIffRegistered
  BY DEF IInv, Registration, OpenIffRegistered
<1> QED
  BY <1>1, Invariance, PTL

-----------------------------------------------------------------------------
\* The hub implements FanOut.

Abstract == <<~closed /\ ~isNil, Life, Room, log, taken>>

LEMMA InitRefines == Init => Promise!Init
  BY DEF Init, Promise!Init, Life, Room

\* A step that hands out no channel, closes none and moves no record is
\* invisible, whatever it does to the capacity of a channel not given.
LEMMA Invisible ==
  ASSUME UNCHANGED <<isNil, closed, given, shut, log, taken>>,
         \A ch \in given : cap'[ch] = cap[ch]
  PROVE  UNCHANGED Promise!vars
BY DEF Promise!vars, Life, Room

LEMMA SendRefines ==
  ASSUME IInv, NEW p \in Procs, NEW ch \in Chans, PublishSend(p, ch)
  PROVE  [Promise!Next]_(Promise!vars)
<1> USE DEF IInv, PublishSend
<1>1. /\ pc[p] = "send" /\ ch \in todo[p] /\ ch \in subs
      /\ ch \in given /\ ch \notin shut
      /\ UNCHANGED <<isNil, closed, given, shut, cap, taken>>
  BY DEF Registration, TypeOK
\* A closed hub has subscribers only while Close holds the lock, and p has
\* the read lock.
<1>2. ~closed /\ ~isNil
  <2>1. p \in readers
    BY <1>1 DEF Locking
  <2>2. \A q \in Procs : pc[q] # "closing"
    BY <2>1 DEF Locking
  <2> QED
    BY <1>1, <2>2 DEF Registration
<1>3. CASE Full(ch)
  <2>1. log' = log
    BY <1>1, <1>3 DEF TrySend
  <2> QED
    BY <1>1, <2>1, Invisible
<1>4. CASE ~Full(ch)
  <2>1. log' = [log EXCEPT ![ch] = Append(@, rec[p])]
    BY <1>1, <1>4 DEF TrySend
  <2>2. rec[p] \in Record
    BY <1>1 DEF Freshness, TypeOK
  <2>3. rec[p] \notin {log[ch][i] : i \in DOMAIN log[ch]}
    BY <1>1 DEF Freshness
  <2>4. Len(log[ch]) - taken[ch] < Room[ch]
    <3>1. Len(log[ch]) \in Nat /\ taken[ch] \in Nat /\ cap[ch] \in Nat
      BY DEF TypeOK
    <3> QED
      BY <1>1, <1>4, <3>1 DEF Full, Room
  <2>5. Life[ch] = "open" /\ Life' = Life /\ Room' = Room
    BY <1>1 DEF Life, Room
  <2>6. Promise!Put(ch, rec[p])
    BY <1>1, <1>2, <2>1, <2>3, <2>4, <2>5 DEF Promise!Put
  <2> QED
    BY <2>2, <2>6 DEF Promise!Next
<1> QED
  BY <1>3, <1>4

LEMMA SubscribeCallRefines ==
  ASSUME IInv, NEW p \in Procs, NEW ch \in Chans, NEW buffer \in Buffers,
         SubscribeCall(p, ch, buffer)
  PROVE  [Promise!Next]_(Promise!vars)
<1> USE DEF IInv, SubscribeCall
<1>1. /\ ch \notin given
      /\ cap' = [cap EXCEPT ![ch] = Capacity(buffer)]
      /\ Capacity(buffer) \in Caps
  BY BuffersAssumption, DefaultBufferAssumption DEF TypeOK, Capacity, Caps
<1>2. \A c \in given : cap'[c] = cap[c]
  BY <1>1 DEF TypeOK
<1>3. CASE ~isNil
  BY <1>2, <1>3, Invisible
<1>4. CASE isNil
  <2>1. /\ given' = given \cup {ch} /\ shut' = shut \cup {ch}
        /\ UNCHANGED <<isNil, closed, log, taken>>
    BY <1>4
  <2>2. /\ Life[ch] = "absent"
        /\ Life' = [Life EXCEPT ![ch] = IF ~closed /\ ~isNil THEN "open"
                                                            ELSE "shut"]
    BY <1>1, <1>4, <2>1 DEF Life
  <2>3. Room' = [Room EXCEPT ![ch] = Capacity(buffer)]
    BY <1>1, <1>2, <2>1 DEF Room, TypeOK
  <2>4. \E c \in Caps : Room' = [Room EXCEPT ![ch] = c]
    BY <1>1, <2>3
  <2>5. UNCHANGED <<~closed /\ ~isNil, log, taken>>
    BY <2>1
  <2>6. Promise!HandOut(ch)
    BY <2>2, <2>4, <2>5, Zenon DEF Promise!HandOut
  <2> QED
    BY <2>6 DEF Promise!Next
<1> QED
  BY <1>3, <1>4

LEMMA SubscribeRefines ==
  ASSUME IInv, NEW p \in Procs, Subscribe(p)
  PROVE  [Promise!Next]_(Promise!vars)
<1> USE DEF IInv, Subscribe
<1> DEFINE ch == chan[p]
<1>1. /\ ch \in Chans /\ ch \in made /\ ch \notin given /\ ch \notin shut
      /\ cap[ch] \in Caps /\ ~isNil
  BY DEF Registration, TypeOK
<1>2. /\ given' = given \cup {ch}
      /\ UNCHANGED <<isNil, closed, cap, log, taken>>
  OBVIOUS
<1>3. shut' = IF closed THEN shut \cup {ch} ELSE shut
  BY DEF Refuse, Register
<1>4. /\ Life[ch] = "absent"
      /\ Life' = [Life EXCEPT ![ch] = IF ~closed /\ ~isNil THEN "open"
                                                          ELSE "shut"]
  BY <1>1, <1>2, <1>3 DEF Life
<1>5. Room' = [Room EXCEPT ![ch] = cap[ch]]
  BY <1>1, <1>2 DEF Room
<1>6. \E c \in Caps : Room' = [Room EXCEPT ![ch] = c]
  BY <1>1, <1>5
<1>7. UNCHANGED <<~closed /\ ~isNil, log, taken>>
  BY <1>2
<1>8. Promise!HandOut(ch)
  BY <1>4, <1>6, <1>7, Zenon DEF Promise!HandOut
<1> QED
  BY <1>1, <1>8 DEF Promise!Next

LEMMA ShutRefines ==
  ASSUME IInv, NEW ch \in subs, shut' = shut \cup {ch},
         UNCHANGED <<isNil, closed, given, cap, log, taken>>
  PROVE  [Promise!Next]_(Promise!vars)
<1>1. ch \in given /\ ch \notin shut /\ ch \in Chans
  BY DEF IInv, Registration, TypeOK
<1>2. /\ Life[ch] = "open" /\ Life' = [Life EXCEPT ![ch] = "shut"]
      /\ Room' = Room
  BY <1>1 DEF Life, Room
<1>3. Promise!Shut(ch)
  BY <1>2 DEF Promise!Shut
<1> QED
  BY <1>1, <1>3 DEF Promise!Next

LEMMA CancelRefines ==
  ASSUME IInv, NEW p \in Procs, Cancel(p)
  PROVE  [Promise!Next]_(Promise!vars)
<1> USE DEF Cancel, ToClose
<1>1. CASE chan[p] \in subs
  BY <1>1, ShutRefines
<1>2. CASE chan[p] \notin subs
  BY <1>2, Invisible
<1> QED
  BY <1>1, <1>2

LEMMA CloseMarkRefines ==
  ASSUME IInv, NEW p \in Procs, CloseMark(p)
  PROVE  [Promise!Next]_(Promise!vars)
<1> USE DEF CloseMark, chanVars
<1>1. CASE closed
  BY <1>1, Invisible DEF IInv, TypeOK
<1>2. CASE ~closed
  <2>1. ~isNil
    BY DEF IInv, Registration
  <2>2. Life' = Life /\ Room' = Room
    BY DEF Life, Room
  <2>3. Promise!CloseHub
    BY <1>2, <2>1, <2>2 DEF Promise!CloseHub
  <2> QED
    BY <2>3 DEF Promise!Next
<1> QED
  BY <1>1, <1>2

LEMMA ReceiveRefines ==
  ASSUME IInv, NEW ch \in Chans, Receive(ch)
  PROVE  [Promise!Next]_(Promise!vars)
<1>1. Life' = Life /\ Room' = Room
  BY DEF Receive, Life, Room
<1>2. Promise!Get(ch)
  BY <1>1 DEF Receive, Promise!Get
<1> QED
  BY <1>2 DEF Promise!Next

\* Every step of the hub is a step of FanOut or invisible to it.
LEMMA StepRefines ==
  IInv /\ [Next]_hubVars => [Promise!Next]_(Promise!vars)
<1> SUFFICES ASSUME IInv, [Next]_hubVars PROVE [Promise!Next]_(Promise!vars)
  OBVIOUS
<1>1. CASE UNCHANGED hubVars
  BY <1>1, Invisible DEF hubVars, chanVars
<1>2. ASSUME NEW p \in Procs, Call(p) PROVE [Promise!Next]_(Promise!vars)
  <2>1. ASSUME NEW r \in Record \ called, PublishCall(p, r)
        PROVE  [Promise!Next]_(Promise!vars)
    BY <2>1, Invisible DEF PublishCall, chanVars
  <2>2. ASSUME NEW ch \in Chans, CancelCall(p, ch)
        PROVE  [Promise!Next]_(Promise!vars)
    BY <2>2, Invisible DEF CancelCall, chanVars
  <2>3. CASE CloseCall(p)
    BY <2>3, Invisible DEF CloseCall, chanVars
  <2> QED
    BY <1>2, <2>1, <2>2, <2>3, SubscribeCallRefines DEF Call
<1>3. ASSUME NEW p \in Procs, Step(p) PROVE [Promise!Next]_(Promise!vars)
  <2>1. CASE PublishRLock(p) \/ PublishCheck(p) \/ PublishReturn(p) \/ Lock(p)
             \/ CloseReturn(p)
    BY <2>1, Invisible DEF PublishRLock, PublishCheck, PublishReturn, Lock,
                           CloseReturn, chanVars
  <2>2. ASSUME NEW ch \in Chans, CloseChannel(p, ch)
        PROVE  [Promise!Next]_(Promise!vars)
    <3>1. shut' = shut \cup {ch}
      BY <2>2 DEF CloseChannel, CloseAndDelete, IInv, Registration
    <3> QED
      BY <2>2, <3>1, ShutRefines DEF CloseChannel
  <2> QED
    BY <1>3, <2>1, <2>2, SendRefines, SubscribeRefines, CancelRefines,
       CloseMarkRefines DEF Step
<1>4. ASSUME NEW ch \in Chans, Receive(ch) PROVE [Promise!Next]_(Promise!vars)
  BY <1>4, ReceiveRefines
<1> QED
  BY <1>1, <1>2, <1>3, <1>4 DEF Next

\* The hub, with its lock, its goroutines and its loops over the subscribers,
\* is a lossy fan-out to bounded queues; a nil hub is a closed one.
THEOREM Refinement == Spec => ImplementsFanOut
<1>1. Spec => []IInv
  BY Invariance
<1> QED
  BY <1>1, InitRefines, StepRefines, PTL DEF Spec, ImplementsFanOut, Promise!Spec
=============================================================================
