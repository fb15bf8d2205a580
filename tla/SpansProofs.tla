---------------------------- MODULE SpansProofs ----------------------------
(***************************************************************************)
(* Theorems about module Spans, for any number of goroutines, spans,       *)
(* channels and records: spans use the hub as module Hub demands, so that  *)
(* its theorems hold of the composition, and every subscriber receives the *)
(* records of a span in order, its start before everything else of it, of  *)
(* its children and of its trace.                                          *)
(*                                                                         *)
(* The order in a channel comes from three facts about what is not in it   *)
(* yet: a record that has been published has its place in the span's story *)
(* (Stories); at most one record of a span is in flight, the last of the   *)
(* story, by the span's mutex or because nobody has been given the span    *)
(* (Turns); and what a span refers to has been given away (Traces).        *)
(*                                                                         *)
(* That a story is complete is an invariant about what is on its way:      *)
(* while a channel has the start of a span and has missed nothing, each    *)
(* record of the span is in the channel or is carried by a goroutine that  *)
(* has still to come to that channel (Tales).                              *)
(*                                                                         *)
(* That a view is faithful needs no invariant of its own: a log in that    *)
(* order is Tidy, and by induction on its length the store that is fed     *)
(* with it shows what was received (Mirrors).                              *)
(***************************************************************************)
EXTENDS SpanView, HubProofs, FiniteSetTheorems, WellFoundedInduction

\* Where a record that has been published is in the story of its span.
Told(r) == /\ r.n < Len(emitted[r.span])
           /\ r = emitted[r.span][r.n + 1]

Stories ==
  /\ \A s \in Span :
       /\ hubOf[s] = None <=> emitted[s] = <<>>
       /\ \A i \in DOMAIN emitted[s] :
            /\ emitted[s][i].span = s /\ emitted[s][i].n = i - 1
            /\ emitted[s][i].kind = "start" <=> i = 1
            /\ emitted[s][i].kind \in Terminal => i = Len(emitted[s]) /\ ended[s]
  /\ called \subseteq SpanRecord
  /\ \A r \in called : Told(r)

\* The goroutines that wait for a span's mutex fit in the bound.
Budget ==
  \A s \in Span :
    /\ IsFiniteSet(Pending(s))
    /\ hubOf[s] # None =>
         Len(emitted[s]) + Cardinality(Pending(s)) <= MaxRecords + 1

InFlight(p) == rec[p] # None

\* What a goroutine has the turn to do.
TurnOf(p) ==
  /\ job[p].call \in {"lock", "publish"} =>
       /\ job[p].span \in known
       /\ job[p].kind \in Notes \cup Terminal
  /\ job[p].call = "start" =>
       /\ job[p].span \in Span \ known
       /\ Len(emitted[job[p].span]) = 1
  /\ job[p].call = "publish" =>
       /\ mutex[job[p].span] = p
       /\ Len(emitted[job[p].span]) # 1
  /\ InFlight(p) =>
       /\ pc[p] \in {"publish", "send"}
       /\ job[p].call \in {"start", "publish"}
       /\ rec[p].span = job[p].span
       /\ rec[p].n = Len(emitted[job[p].span]) - 1

Turns ==
  /\ \A s \in known : hubOf[s] # None
  /\ \A p \in Procs : TurnOf(p)
  /\ \A p, q \in Procs :
       job[p].call = "start" /\ job[q].call = "start" /\ p # q =>
         job[p].span # job[q].span

Traces ==
  \A s \in Span : hubOf[s] # None =>
    IF parentOf[s] = None THEN traceOf[s] = s
    ELSE /\ parentOf[s] \in known /\ traceOf[s] \in known
         /\ traceOf[s] = traceOf[parentOf[s]]
         /\ parentOf[traceOf[s]] = None

SpansInv ==
  IInv /\ SpansTypeOK /\ Stories /\ Budget /\ Turns /\ Traces
         /\ SpanOrder /\ StartFirst

-----------------------------------------------------------------------------
LEMMA SpansInitInv == SpansInit => SpansInv
<1> SUFFICES ASSUME SpansInit PROVE SpansInv
  OBVIOUS
<1> USE DEF SpansInit
<1>1. IInv
  BY InitInv
<1>2. SpansTypeOK
  <2>1. emitted \in [Span -> Seq(SpanRecord)]
    OBVIOUS
  <2> QED
    BY <1>1, <2>1 DEF SpansTypeOK, IInv, NoJob, HubRef
<1>3. Stories /\ Traces
  BY DEF Stories, Traces, Init
<1>4. Budget
  <2> SUFFICES ASSUME NEW s \in Span PROVE IsFiniteSet(Pending(s))
    BY DEF Budget
  <2>1. Pending(s) = {}
    BY DEF Pending, NoJob
  <2> QED
    BY <2>1, FS_EmptySet
<1>5. Turns
  BY DEF Turns, TurnOf, NoJob, InFlight, Init
<1>6. SpanOrder /\ StartFirst
  BY DEF SpanOrder, StartFirst, Init
<1> QED
  BY <1>1, <1>2, <1>3, <1>4, <1>5, <1>6 DEF SpansInv

-----------------------------------------------------------------------------
\* Spans use the hub as module Hub says: the records they publish are new.

LEMMA NextRecordIsNew ==
  ASSUME SpansTypeOK, Stories, NEW s \in Span, NEW k \in Kinds,
         Len(emitted[s]) <= MaxRecords
  PROVE  NextRecord(s, k) \in SpanRecord /\ NextRecord(s, k) \in Record \ called
<1>1. Len(emitted[s]) \in 0 .. MaxRecords
  BY MaxRecordsAssumption DEF SpansTypeOK
<1>2. NextRecord(s, k) \in SpanRecord
  BY <1>1 DEF NextRecord, SpanRecord
<1>3. NextRecord(s, k) \notin called
  BY <1>1 DEF Stories, Told, NextRecord
<1> QED
  BY <1>2, <1>3, RecordAssumption

\* There is room in the bound for a goroutine that has waited for the mutex.
LEMMA RoomForMethod ==
  ASSUME SpansTypeOK, Turns, Budget, NEW p \in Procs, job[p].call = "lock"
  PROVE  /\ job[p].span \in known /\ job[p].span \in Span
         /\ job[p].kind \in Kinds /\ job[p].kind # "start"
         /\ Len(emitted[job[p].span]) <= MaxRecords
<1> DEFINE s == job[p].span
<1>1. /\ s \in known /\ s \in Span /\ hubOf[s] # None
      /\ job[p].kind \in Notes \cup Terminal
  BY DEF Turns, TurnOf, SpansTypeOK
<1>2. p \in Pending(s) /\ IsFiniteSet(Pending(s))
  BY <1>1 DEF Pending, Budget
<1>3. Cardinality(Pending(s)) \in Nat /\ Cardinality(Pending(s)) # 0
  BY <1>2, FS_CardinalityType, FS_EmptySet
<1>4. Len(emitted[s]) \in Nat
  BY <1>1 DEF SpansTypeOK
<1> QED
  BY <1>1, <1>3, <1>4, MaxRecordsAssumption, KindsAssumption DEF Budget, Kinds

LEMMA StartIsHubStep ==
  ASSUME SpansInv, NEW p \in Procs, NEW c, NEW h, NEW s \in Span,
         StartOn(p, c, h, s)
  PROVE  [Next]_hubVars
<1>1. CASE h = "hub"
  <2>1. emitted[s] = <<>> /\ Len(emitted[s]) <= MaxRecords
    BY MaxRecordsAssumption DEF SpansInv, Stories, StartOn
  <2>2. NextRecord(s, "start") \in Record \ called
    BY <2>1, NextRecordIsNew DEF SpansInv, Kinds
  <2>3. PublishCall(p, NextRecord(s, "start"))
    BY <1>1 DEF StartOn
  <2> QED
    BY <2>2, <2>3 DEF Next, Call
<1>2. CASE h # "hub"
  BY <1>2 DEF StartOn
<1> QED
  BY <1>1, <1>2

LEMMA PublishIsHubStep ==
  ASSUME SpansInv, NEW p \in Procs, MethodPublish(p)
  PROVE  [Next]_hubVars
<1> DEFINE s == job[p].span
           r == NextRecord(s, job[p].kind)
<1>1. CASE hubOf[s] = "hub"
  <2>1. r \in Record \ called
    BY RoomForMethod, NextRecordIsNew DEF SpansInv, MethodPublish
  <2>2. PublishCall(p, r)
    BY <1>1 DEF MethodPublish
  <2> QED
    BY <2>1, <2>2 DEF Next, Call
<1>2. CASE hubOf[s] # "hub"
  BY <1>2 DEF MethodPublish
<1> QED
  BY <1>1, <1>2

LEMMA UsesHub == SpansInv /\ [SpansNext]_vars => [Next]_hubVars
<1> SUFFICES ASSUME SpansInv, [SpansNext]_vars PROVE [Next]_hubVars
  OBVIOUS
<1>1. CASE UNCHANGED vars
  BY <1>1 DEF vars
<1>2. ASSUME NEW p \in Procs, SpanCall(p) PROVE [Next]_hubVars
  BY <1>2, StartIsHubStep
     DEF SpanCall, HubStart, Start, Annotate, End, MethodCall
<1>3. ASSUME NEW p \in Procs, SpanStep(p) PROVE [Next]_hubVars
  BY <1>3, PublishIsHubStep DEF SpanStep, StartReturn, MethodSilent, MethodReturn
<1>4. ASSUME NEW p \in Procs, HubCall(p) PROVE Next
  BY <1>4 DEF HubCall, Next, Call
<1>5. ASSUME NEW p \in Procs, Step(p) PROVE Next
  BY <1>5 DEF Next
<1>6. ASSUME NEW ch \in Chans, Receive(ch) PROVE Next
  BY <1>6 DEF Next
<1> QED
  BY <1>1, <1>2, <1>3, <1>4, <1>5, <1>6 DEF SpansNext

-----------------------------------------------------------------------------
\* A step of the hub that is not the call of a Publish

HubMove == \/ \E p \in Procs : HubCall(p)
           \/ \E p \in Procs : Step(p) /\ UNCHANGED spanVars
           \/ \E ch \in Chans : Receive(ch) /\ UNCHANGED spanVars

\* Records that are in flight stay where they are or are done.
LEMMA MoveFlight ==
  ASSUME IInv, HubMove
  PROVE  /\ UNCHANGED <<called, spanVars>>
         /\ \A q \in Procs :
              rec'[q] # None => /\ rec'[q] = rec[q]
                                /\ pc[q] \in {"publish", "send"} =>
                                     pc'[q] \in {"publish", "send", "panic"}
<1> DEFINE Stays(q) == rec'[q] # None =>
                         /\ rec'[q] = rec[q]
                         /\ pc[q] \in {"publish", "send"} =>
                              pc'[q] \in {"publish", "send", "panic"}
<1> USE DEF IInv, TypeOK, Goto, chanVars
<1>1. ASSUME NEW p \in Procs, HubCall(p)
      PROVE  UNCHANGED called /\ \A q \in Procs : Stays(q)
  BY <1>1 DEF HubCall, Free, SubscribeCall, CancelCall, CloseCall
<1>2. ASSUME NEW p \in Procs, Step(p)
      PROVE  UNCHANGED called /\ \A q \in Procs : Stays(q)
  <2>1. CASE PublishRLock(p) \/ Lock(p)
    BY <2>1 DEF PublishRLock, Lock
  <2>2. CASE PublishCheck(p)
    BY <2>2 DEF PublishCheck
  <2>3. ASSUME NEW ch \in Chans, PublishSend(p, ch)
        PROVE  UNCHANGED called /\ \A q \in Procs : Stays(q)
    BY <2>3 DEF PublishSend
  <2>4. CASE PublishReturn(p)
    BY <2>4 DEF PublishReturn
  <2>5. CASE Subscribe(p) \/ Cancel(p) \/ CloseMark(p) \/ CloseReturn(p)
    BY <2>5 DEF Subscribe, Cancel, CloseMark, CloseReturn
  <2>6. ASSUME NEW ch \in Chans, CloseChannel(p, ch)
        PROVE  UNCHANGED called /\ \A q \in Procs : Stays(q)
    BY <2>6 DEF CloseChannel
  <2> QED
    BY <1>2, <2>1, <2>2, <2>3, <2>4, <2>5, <2>6 DEF Step
<1>3. ASSUME NEW ch \in Chans, Receive(ch)
      PROVE  UNCHANGED called /\ \A q \in Procs : Stays(q)
  BY <1>3 DEF Receive
<1> QED
  BY <1>1, <1>2, <1>3 DEF HubMove, HubCall

\* A channel gets at most one record more: one in flight that it does not have.
LEMMA MoveLog ==
  ASSUME IInv, HubMove, NEW ch \in Chans
  PROVE  \/ log'[ch] = log[ch]
         \/ \E p \in Procs :
              /\ pc[p] = "send" /\ rec[p] \in called
              /\ \A i \in DOMAIN log[ch] : log[ch][i] # rec[p]
              /\ log'[ch] = Append(log[ch], rec[p])
<1> USE DEF IInv
<1>1. CASE UNCHANGED log
  BY <1>1
<1>2. ASSUME NEW p \in Procs, NEW c \in Chans, PublishSend(p, c)
      PROVE  \/ log'[ch] = log[ch]
             \/ /\ pc[p] = "send" /\ rec[p] \in called
                /\ \A i \in DOMAIN log[ch] : log[ch][i] # rec[p]
                /\ log'[ch] = Append(log[ch], rec[p])
  BY <1>2 DEF PublishSend, TrySend, Freshness, TypeOK
<1> QED
  BY <1>1, <1>2
     DEF HubMove, HubCall, SubscribeCall, CancelCall, CloseCall, Step, Receive,
         PublishRLock, Lock, PublishCheck, PublishReturn, Subscribe, Cancel,
         CloseMark, CloseChannel, CloseReturn, chanVars

\* Of the span of a record in flight, everything published before is further
\* to the front of its story: it does not end the span.
LEMMA LastOfStory ==
  ASSUME SpansTypeOK, Stories, Turns, NEW p \in Procs, InFlight(p),
         rec[p] \in called, NEW r \in called, r # rec[p],
         r.span = rec[p].span
  PROVE  /\ r.n < rec[p].n /\ r.kind \notin Terminal
         /\ rec[p].span \in known
<1> DEFINE s == rec[p].span
<1>1. /\ r \in SpanRecord /\ rec[p] \in SpanRecord
      /\ Told(r) /\ Told(rec[p]) /\ s \in Span /\ emitted[s] \in Seq(SpanRecord)
  <2>1. r \in SpanRecord /\ rec[p] \in SpanRecord /\ Told(r) /\ Told(rec[p])
    BY DEF Stories
  <2>2. s \in Span
    BY <2>1 DEF SpanRecord
  <2>3. emitted[s] \in Seq(SpanRecord)
    BY <2>2 DEF SpansTypeOK
  <2> QED
    BY <2>1, <2>2, <2>3
<1>2. /\ r.n \in Nat /\ rec[p].n = Len(emitted[s]) - 1
      /\ Len(emitted[s]) \in Nat
  <2>1. r.n \in 0 .. MaxRecords
    BY <1>1 DEF SpanRecord
  <2> QED
    BY <1>1, <2>1, MaxRecordsAssumption DEF Turns, TurnOf
<1>3. r.n # rec[p].n
  BY <1>1 DEF Told
<1>4. r.n < Len(emitted[s]) - 1
  BY <1>1, <1>2, <1>3 DEF Told
<1>5. r.n + 1 \in DOMAIN emitted[s] /\ r.n + 1 # Len(emitted[s])
  BY <1>1, <1>2, <1>4
<1>6. r.kind \notin Terminal
  BY <1>1, <1>5 DEF Stories, Told
<1>7. s \in known
  <2>1. \A i, j \in Nat : i < j - 1 => j # 1
    OBVIOUS
  <2>2. Len(emitted[s]) # 1
    BY <1>2, <1>4, <2>1
  <2> QED
    BY <2>2 DEF Turns, TurnOf
<1> QED
  BY <1>2, <1>4, <1>6, <1>7

\* What a channel has when a step of the hub is over.
LEMMA MoveOrder ==
  ASSUME SpansInv, HubMove
  PROVE  SpanOrder' /\ StartFirst'
<1>0. UNCHANGED <<called, parentOf, traceOf>>
  BY MoveFlight DEF SpansInv, spanVars
<1> SUFFICES ASSUME NEW ch \in Chans,
                    NEW i \in DOMAIN log'[ch], NEW j \in DOMAIN log'[ch], i < j
             PROVE  LET s == log'[ch][i].span
                    IN  /\ s = log'[ch][j].span =>
                             /\ log'[ch][i].n < log'[ch][j].n
                             /\ log'[ch][i].kind \notin Terminal
                        /\ log'[ch][j].kind = "start" =>
                             log'[ch][j].span \notin {s, parentOf[s], traceOf[s]}
  BY <1>0 DEF SpanOrder, StartFirst
<1>1. CASE log'[ch] = log[ch]
  BY <1>1 DEF SpansInv, SpanOrder, StartFirst
<1>2. ASSUME NEW p \in Procs, pc[p] = "send", rec[p] \in called,
             \A k \in DOMAIN log[ch] : log[ch][k] # rec[p],
             log'[ch] = Append(log[ch], rec[p])
      PROVE  LET s == log'[ch][i].span
             IN  /\ s = log'[ch][j].span =>
                      /\ log'[ch][i].n < log'[ch][j].n
                      /\ log'[ch][i].kind \notin Terminal
                 /\ log'[ch][j].kind = "start" =>
                      log'[ch][j].span \notin {s, parentOf[s], traceOf[s]}
  <2>0. log[ch] \in Seq(Record)
    BY DEF SpansInv, IInv, TypeOK
  <2>1. CASE j \in DOMAIN log[ch]
    <3>1. \A k \in DOMAIN log[ch] : log'[ch][k] = log[ch][k]
      BY <1>2, <2>0
    <3>2. i \in DOMAIN log[ch]
      <4>1. /\ i \in 1 .. Len(log[ch]) + 1 /\ j \in 1 .. Len(log[ch])
            /\ Len(log[ch]) \in Nat /\ DOMAIN log[ch] = 1 .. Len(log[ch])
        BY <1>2, <2>0, <2>1
      <4> QED
        BY <4>1
    <3>3. SpanOrder /\ StartFirst
      BY DEF SpansInv
    <3>4. /\ log'[ch][i] = log[ch][i] /\ log'[ch][j] = log[ch][j]
          /\ UNCHANGED <<parentOf, traceOf>>
      BY <1>0, <2>1, <3>1, <3>2
    <3>5. log[ch][i].span = log[ch][j].span =>
            log[ch][i].n < log[ch][j].n /\ log[ch][i].kind \notin Terminal
      BY <2>1, <3>2, <3>3 DEF SpanOrder
    <3>6. log[ch][j].kind = "start" =>
            log[ch][j].span \notin {log[ch][i].span, parentOf[log[ch][i].span],
                                    traceOf[log[ch][i].span]}
      BY <2>1, <3>2, <3>3 DEF StartFirst
    <3> QED
      BY <3>4, <3>5, <3>6
  <2>2. CASE j \notin DOMAIN log[ch]
    <3> DEFINE r == log[ch][i]
               t == rec[p].span
    <3>1. /\ i \in DOMAIN log[ch] /\ log'[ch][i] = r /\ log'[ch][j] = rec[p]
      BY <1>2, <2>0, <2>2
    <3>2. r \in called /\ r # rec[p]
      BY <1>2, <3>1 DEF SpansInv, IInv, Freshness
    <3>3. rec[p] # None
      BY <1>2, NoneAssumption DEF SpansInv, IInv, TypeOK
    <3>4. r.span = t => /\ r.n < rec[p].n /\ r.kind \notin Terminal
                        /\ t \in known
      BY <1>2, <3>2, <3>3, LastOfStory DEF SpansInv, InFlight
    <3>5. ASSUME rec[p].kind = "start"
          PROVE  t \notin {r.span, parentOf[r.span], traceOf[r.span]}
      <4>1. /\ r \in SpanRecord /\ r.span \in Span /\ hubOf[r.span] # None
        <5>1. r \in SpanRecord /\ Told(r) /\ r.span \in Span /\ r.n \in Nat
          BY <3>2, MaxRecordsAssumption DEF SpansInv, Stories, SpanRecord
        <5>2. emitted[r.span] # <<>>
          BY <5>1 DEF Told
        <5> QED
          BY <5>1, <5>2 DEF SpansInv, Stories
      <4>2. t \in Span /\ t \notin known
        <5>1. Told(rec[p]) /\ t \in Span /\ rec[p].n \in Nat
          BY <1>2, MaxRecordsAssumption DEF SpansInv, Stories, SpanRecord
        <5>2. rec[p].n = 0 /\ Len(emitted[t]) = 1
          <6>1. emitted[t] \in Seq(SpanRecord)
            BY <5>1 DEF SpansInv, SpansTypeOK
          <6>2. rec[p].n + 1 \in DOMAIN emitted[t]
            BY <5>1, <6>1 DEF Told
          <6>3. rec[p].n + 1 = 1
            BY <3>5, <5>1, <6>2 DEF SpansInv, Stories, Told
          <6>4. rec[p].n = Len(emitted[t]) - 1 /\ Len(emitted[t]) \in Nat
            BY <3>3, <6>1 DEF SpansInv, Turns, TurnOf, InFlight
          <6> QED
            BY <5>1, <6>3, <6>4
        <5> QED
          BY <3>3, <5>1, <5>2 DEF SpansInv, Turns, TurnOf, InFlight
      <4>3. r.span # t
        BY <3>4, <4>2
      <4> QED
        BY <4>1, <4>2, <4>3, SpanAssumption DEF SpansInv, Traces
    <3> QED
      BY <3>1, <3>4, <3>5
  <2> QED
    BY <2>1, <2>2
<1> QED
  BY <1>1, <1>2, MoveLog DEF SpansInv

LEMMA MoveInv ==
  ASSUME SpansInv, HubMove, IInv'
  PROVE  SpansInv'
<1>0. UNCHANGED <<called, hubOf, traceOf, parentOf, ended, mutex, known, job,
                  emitted>>
  BY MoveFlight DEF SpansInv, spanVars
<1>1. SpansTypeOK'
  BY <1>0 DEF SpansInv, SpansTypeOK, IInv
<1>2. Stories' /\ Traces'
  BY <1>0 DEF SpansInv, Stories, Told, Traces
<1>3. Budget'
  BY <1>0 DEF SpansInv, Budget, Pending
<1>4. Turns'
  <2>1. \A q \in Procs : rec'[q] # None => /\ rec'[q] = rec[q]
                                           /\ pc'[q] \in {"publish", "send"}
    BY MoveFlight DEF SpansInv, Turns, TurnOf, InFlight, IInv, NoPanic
  <2> QED
    BY <1>0, <2>1 DEF SpansInv, Turns, TurnOf, InFlight
<1> QED
  BY <1>1, <1>2, <1>3, <1>4, MoveOrder DEF SpansInv

-----------------------------------------------------------------------------
\* The calls on spans. None of them touches a channel.

LEMMA StartReturnInv ==
  ASSUME SpansInv, IInv', NEW p \in Procs, StartReturn(p)
  PROVE  SpansInv'
<1> DEFINE s == job[p].span
<1>0. /\ UNCHANGED <<called, log, pc, rec, hubOf, traceOf, parentOf, ended, mutex,
                     emitted>>
      /\ known' = known \cup {s} /\ s \in Span
      /\ job[p].call = "start" /\ pc[p] = "idle" /\ rec[p] = None
      /\ job'[p] = NoJob /\ \A q \in Procs : q # p => job'[q] = job[q]
  <2>1. job[p].call = "start" /\ pc[p] = "idle" /\ s \in Span /\ rec[p] = None
    BY DEF SpansInv, StartReturn, Turns, TurnOf, InFlight
  <2>2. job'[p] = NoJob /\ \A q \in Procs : q # p => job'[q] = job[q]
    BY DEF SpansInv, SpansTypeOK, StartReturn
  <2> QED
    BY <2>1, <2>2 DEF StartReturn, hubVars, chanVars
<1>1. SpansTypeOK'
  BY <1>0 DEF SpansInv, SpansTypeOK, IInv, StartReturn, NoJob
<1>2. Stories' /\ Traces'
  BY <1>0 DEF SpansInv, Stories, Told, Traces
<1>3. Budget'
  <2>1. \A x \in Span : Pending(x)' = Pending(x)
    BY <1>0 DEF Pending, NoJob
  <2> QED
    BY <1>0, <2>1 DEF SpansInv, Budget
<1>4. Turns'
  <2>1. hubOf[s] # None
    BY <1>0 DEF SpansInv, Turns, TurnOf, Stories
  <2>2. \A q \in Procs : q # p /\ job[q].call = "start" => job[q].span # s
    BY <1>0 DEF SpansInv, Turns, TurnOf
  <2> QED
    BY <1>0, <2>1, <2>2 DEF SpansInv, Turns, TurnOf, InFlight, NoJob
<1>5. SpanOrder' /\ StartFirst'
  BY <1>0 DEF SpansInv, SpanOrder, StartFirst
<1> QED
  BY <1>1, <1>2, <1>3, <1>4, <1>5 DEF SpansInv

LEMMA MethodCallInv ==
  ASSUME SpansInv, IInv', NEW p \in Procs, NEW s \in known,
         NEW k \in Notes \cup Terminal, MethodCall(p, s, k)
  PROVE  SpansInv'
<1>0. /\ UNCHANGED <<called, log, pc, rec, hubOf, traceOf, parentOf, ended, mutex,
                     known, emitted>>
      /\ s \in Span /\ k \in Kinds
      /\ pc[p] = "idle" /\ job[p] = NoJob /\ rec[p] = None
      /\ job'[p] = [call |-> "lock", span |-> s, kind |-> k]
      /\ \A q \in Procs : q # p => job'[q] = job[q]
  <2>1. UNCHANGED <<called, log, pc, rec, hubOf, traceOf, parentOf, ended, mutex,
                    known, emitted>>
    BY DEF MethodCall, hubVars, chanVars
  <2>2. s \in Span /\ k \in Kinds /\ DOMAIN job = Procs
    BY DEF SpansInv, SpansTypeOK, Kinds
  <2>3. pc[p] = "idle" /\ job[p] = NoJob
    BY DEF MethodCall, Free
  <2>4. rec[p] = None
    BY <2>3 DEF SpansInv, Turns, TurnOf, InFlight
  <2>5. /\ job'[p] = [call |-> "lock", span |-> s, kind |-> k]
        /\ \A q \in Procs : q # p => job'[q] = job[q]
    BY <2>2 DEF MethodCall
  <2> QED
    BY <2>1, <2>2, <2>3, <2>4, <2>5
<1>1. SpansTypeOK'
  BY <1>0 DEF SpansInv, SpansTypeOK, IInv, MethodCall
<1>2. Stories' /\ Traces'
  BY <1>0 DEF SpansInv, Stories, Told, Traces
<1>3. Budget'
  <2> SUFFICES ASSUME NEW x \in Span
               PROVE  /\ IsFiniteSet(Pending(x)')
                      /\ hubOf'[x] # None =>
                           Len(emitted'[x]) + Cardinality(Pending(x)')
                             <= MaxRecords + 1
    BY DEF Budget
  <2>1. CASE x # s
    <3>1. Pending(x)' = Pending(x)
      BY <1>0, <2>1 DEF Pending, NoJob
    <3> QED
      BY <1>0, <3>1 DEF SpansInv, Budget
  <2>2. CASE x = s
    <3>1. Pending(x)' = Pending(x) \cup {p} /\ p \notin Pending(x)
      BY <1>0, <2>2 DEF Pending, NoJob
    <3>2. /\ IsFiniteSet(Pending(x)')
          /\ Cardinality(Pending(x)') = Cardinality(Pending(x)) + 1
          /\ Cardinality(Pending(x)) \in Nat
      BY <3>1, FS_AddElement, FS_CardinalityType DEF SpansInv, Budget
    <3>3. /\ Len(emitted[x]) + Cardinality(Pending(x)) <= MaxRecords
          /\ Len(emitted[x]) \in Nat
      BY <2>2 DEF MethodCall, SpansInv, SpansTypeOK
    <3> QED
      BY <1>0, <3>2, <3>3, MaxRecordsAssumption
  <2> QED
    BY <2>1, <2>2
<1>4. Turns'
  BY <1>0 DEF SpansInv, Turns, TurnOf, InFlight, NoJob
<1>5. SpanOrder' /\ StartFirst'
  BY <1>0 DEF SpansInv, SpanOrder, StartFirst
<1> QED
  BY <1>1, <1>2, <1>3, <1>4, <1>5 DEF SpansInv

\* A goroutine that leaves the queue for a span's mutex.
LEMMA FewerPending ==
  ASSUME SpansInv, NEW p \in Procs, job[p].call = "lock",
         job'[p].call # "lock", \A q \in Procs : q # p => job'[q] = job[q],
         NEW x \in Span
  PROVE  /\ IsFiniteSet(Pending(x)') /\ Cardinality(Pending(x)) \in Nat
         /\ x # job[p].span => Pending(x)' = Pending(x)
         /\ x = job[p].span =>
              Cardinality(Pending(x)') = Cardinality(Pending(x)) - 1
<1>1. IsFiniteSet(Pending(x)) /\ Cardinality(Pending(x)) \in Nat
  BY FS_CardinalityType DEF SpansInv, Budget
<1>2. CASE x # job[p].span
  BY <1>1, <1>2 DEF Pending
<1>3. CASE x = job[p].span
  <2>1. Pending(x)' = Pending(x) \ {p} /\ p \in Pending(x)
    BY <1>3 DEF Pending
  <2> QED
    BY <1>1, <1>3, <2>1, FS_RemoveElement
<1> QED
  BY <1>2, <1>3

LEMMA MethodSilentInv ==
  ASSUME SpansInv, IInv', NEW p \in Procs, MethodSilent(p)
  PROVE  SpansInv'
<1>0. /\ UNCHANGED <<called, log, pc, rec, hubOf, traceOf, parentOf, ended, mutex,
                     known, emitted>>
      /\ job[p].call = "lock" /\ job'[p] = NoJob
      /\ \A q \in Procs : q # p => job'[q] = job[q]
  BY DEF SpansInv, SpansTypeOK, MethodSilent, hubVars, chanVars
<1>1. SpansTypeOK'
  BY <1>0 DEF SpansInv, SpansTypeOK, IInv, MethodSilent, NoJob
<1>2. Stories' /\ Traces'
  BY <1>0 DEF SpansInv, Stories, Told, Traces
<1>3. Budget'
  <2> SUFFICES ASSUME NEW x \in Span
               PROVE  /\ IsFiniteSet(Pending(x)')
                      /\ hubOf'[x] # None =>
                           Len(emitted'[x]) + Cardinality(Pending(x)')
                             <= MaxRecords + 1
    BY DEF Budget
  <2>1. Len(emitted[x]) \in Nat
    BY DEF SpansInv, SpansTypeOK
  <2>2. /\ IsFiniteSet(Pending(x)') /\ Cardinality(Pending(x)) \in Nat
        /\ \/ Pending(x)' = Pending(x)
           \/ Cardinality(Pending(x)') = Cardinality(Pending(x)) - 1
    BY <1>0, FewerPending DEF NoJob
  <2>3. hubOf[x] # None =>
          Len(emitted[x]) + Cardinality(Pending(x)) <= MaxRecords + 1
    BY DEF SpansInv, Budget
  <2> QED
    BY <1>0, <2>1, <2>2, <2>3, MaxRecordsAssumption
<1>4. Turns'
  BY <1>0 DEF SpansInv, Turns, TurnOf, InFlight, NoJob
<1>5. SpanOrder' /\ StartFirst'
  BY <1>0 DEF SpansInv, SpanOrder, StartFirst
<1> QED
  BY <1>1, <1>2, <1>3, <1>4, <1>5 DEF SpansInv

LEMMA MethodReturnInv ==
  ASSUME SpansInv, IInv', NEW p \in Procs, MethodReturn(p)
  PROVE  SpansInv'
<1> DEFINE s == job[p].span
<1>0. /\ UNCHANGED <<called, log, pc, rec, hubOf, traceOf, parentOf, ended, known,
                     emitted>>
      /\ job[p].call = "publish" /\ rec[p] = None /\ s \in Span
      /\ job'[p] = NoJob /\ \A q \in Procs : q # p => job'[q] = job[q]
      /\ \A x \in Span : x # s => mutex'[x] = mutex[x]
  <2>1. job[p].call = "publish" /\ pc[p] = "idle" /\ s \in known /\ rec[p] = None
    BY DEF SpansInv, MethodReturn, Turns, TurnOf, InFlight
  <2>2. /\ job'[p] = NoJob /\ \A q \in Procs : q # p => job'[q] = job[q]
        /\ \A x \in Span : x # s => mutex'[x] = mutex[x]
    BY DEF SpansInv, SpansTypeOK, MethodReturn
  <2> QED
    BY <2>1, <2>2 DEF MethodReturn, hubVars, chanVars, SpansInv, SpansTypeOK
<1>1. SpansTypeOK'
  BY <1>0 DEF SpansInv, SpansTypeOK, IInv, MethodReturn, NoJob
<1>2. Stories' /\ Traces'
  BY <1>0 DEF SpansInv, Stories, Told, Traces
<1>3. Budget'
  <2>1. \A x \in Span : Pending(x)' = Pending(x)
    BY <1>0 DEF Pending, NoJob
  <2> QED
    BY <1>0, <2>1 DEF SpansInv, Budget
<1>4. Turns'
  <2>1. \A q \in Procs : q # p /\ job[q].call = "publish" => /\ job[q].span # s
                                                             /\ job[q].span \in Span
    BY <1>0 DEF SpansInv, Turns, TurnOf, SpansTypeOK
  <2> QED
    BY <1>0, <2>1 DEF SpansInv, Turns, TurnOf, InFlight, NoJob
<1>5. SpanOrder' /\ StartFirst'
  BY <1>0 DEF SpansInv, SpanOrder, StartFirst
<1> QED
  BY <1>1, <1>2, <1>3, <1>4, <1>5 DEF SpansInv

\* What a call of Publish for a new record does to flights and records.
LEMMA Launch ==
  ASSUME IInv, NEW p \in Procs, NEW r, PublishCall(p, r)
  PROVE  /\ called' = called \cup {r} /\ log' = log /\ pc[p] = "idle"
         /\ \A q \in Procs : q # p => pc'[q] = pc[q] /\ rec'[q] = rec[q]
         /\ \/ rec'[p] = r /\ pc'[p] = "publish"
            \/ rec'[p] = rec[p]
BY DEF IInv, TypeOK, PublishCall, Goto, chanVars

\* A record at the end of its span's story.
LEMMA StoryGrows ==
  ASSUME SpansTypeOK, NEW s \in Span, NEW r \in SpanRecord,
         r.span = s, r.n = Len(emitted[s]),
         emitted'[s] = Append(emitted[s], r),
         \A x \in Span : x # s => emitted'[x] = emitted[x]
  PROVE  /\ emitted[s] \in Seq(SpanRecord) /\ Len(emitted[s]) \in Nat
         /\ Len(emitted'[s]) = Len(emitted[s]) + 1 /\ emitted'[s] # <<>>
         /\ emitted'[s][Len(emitted[s]) + 1] = r
         /\ \A i \in DOMAIN emitted[s] : emitted'[s][i] = emitted[s][i]
         /\ Told(r)'
         /\ \A q \in SpanRecord : Told(q) => Told(q)'
<1>1. emitted[s] \in Seq(SpanRecord) /\ Len(emitted[s]) \in Nat
  BY DEF SpansTypeOK
<1>2. /\ Len(emitted'[s]) = Len(emitted[s]) + 1 /\ emitted'[s] # <<>>
      /\ emitted'[s][Len(emitted[s]) + 1] = r
      /\ \A i \in DOMAIN emitted[s] : emitted'[s][i] = emitted[s][i]
  BY <1>1
<1>3. Told(r)'
  BY <1>1, <1>2 DEF Told
<1>4. ASSUME NEW q \in SpanRecord, Told(q) PROVE Told(q)'
  <2>1. q.span \in Span /\ q.n \in Nat
    <3>1. q.n \in 0 .. MaxRecords
      BY DEF SpanRecord
    <3> QED
      BY <3>1, MaxRecordsAssumption DEF SpanRecord
  <2>2. CASE q.span # s
    BY <1>4, <2>1, <2>2 DEF Told
  <2>3. CASE q.span = s
    <3>1. q.n + 1 \in DOMAIN emitted[s] /\ q.n < Len(emitted'[s])
      BY <1>1, <1>2, <1>4, <2>1, <2>3 DEF Told
    <3> QED
      BY <1>2, <1>4, <2>3, <3>1 DEF Told
  <2> QED
    BY <2>2, <2>3
<1> QED
  BY <1>1, <1>2, <1>3, <1>4

LEMMA MethodPublishInv ==
  ASSUME SpansInv, IInv', NEW p \in Procs, MethodPublish(p)
  PROVE  SpansInv'
<1>s. PICK s \in Span, k \in Kinds :
        /\ s = job[p].span /\ k = job[p].kind
        /\ s \in known /\ k # "start" /\ Len(emitted[s]) <= MaxRecords
  BY RoomForMethod DEF SpansInv, MethodPublish
<1>0. /\ hubOf[s] # None /\ ~ended[s] /\ mutex[s] = None /\ rec[p] = None
      /\ job[p].call = "lock"
  BY <1>s DEF MethodPublish, Ended, Unlocked, SpansInv, Turns, TurnOf, InFlight
<1>r. PICK r \in SpanRecord : r = NextRecord(s, k)
  BY <1>s, NextRecordIsNew DEF SpansInv
<1>1. r \notin called /\ r.span = s /\ r.kind = k /\ r.n = Len(emitted[s])
  BY <1>s, <1>r, NextRecordIsNew DEF SpansInv, NextRecord
<1>2. /\ emitted'[s] = Append(emitted[s], r)
      /\ ended'[s] <=> k \in Terminal
      /\ \A x \in Span : x # s => emitted'[x] = emitted[x] /\ ended'[x] = ended[x]
      /\ UNCHANGED <<hubOf, traceOf, parentOf, known>>
  BY <1>s, <1>0, <1>r DEF SpansInv, SpansTypeOK, MethodPublish
<1>3. /\ \A x \in Span : x # s => mutex'[x] = mutex[x]
      /\ \A q \in Procs : q # p => job'[q] = job[q]
      /\ \/ job'[p] = NoJob
         \/ /\ job'[p].call = "publish" /\ job'[p].span = s /\ job'[p].kind = k
            /\ mutex'[s] = p
      /\ mutex' \in [Span -> Procs \cup {None}]
  <2>1. CASE hubOf[s] = "hub"
    <3>1. /\ mutex' = [mutex EXCEPT ![s] = p]
          /\ job' = [job EXCEPT ![p].call = "publish"]
      BY <1>s, <2>1 DEF MethodPublish
    <3>2. /\ mutex \in [Span -> Procs \cup {None}]
          /\ DOMAIN job = Procs
          /\ job[p] \in [call : {"none", "start", "lock", "publish"},
                         span : Span \cup {None}, kind : Kinds \cup {"none"}]
      BY DEF SpansInv, SpansTypeOK
    <3>3. job'[p] = [job[p] EXCEPT !.call = "publish"]
      BY <3>1, <3>2
    <3>4. /\ job'[p].call = "publish" /\ job'[p].span = s /\ job'[p].kind = k
      BY <1>s, <3>2, <3>3
    <3>5. \A q \in Procs : q # p => job'[q] = job[q]
      BY <3>1, <3>2
    <3> QED
      BY <3>1, <3>2, <3>4, <3>5
  <2>2. CASE hubOf[s] # "hub"
    BY <1>s, <2>2 DEF SpansInv, SpansTypeOK, MethodPublish
  <2> QED
    BY <2>1, <2>2
<1>4. /\ log' = log /\ called \subseteq called' /\ called' \subseteq called \cup {r}
      /\ \A q \in Procs : q # p => pc'[q] = pc[q] /\ rec'[q] = rec[q]
      /\ rec'[p] = None
           \/ (rec'[p] = r /\ pc'[p] = "publish" /\ job'[p].call = "publish")
  <2>1. CASE hubOf[s] = "hub"
    <3>1. PublishCall(p, r) /\ job' = [job EXCEPT ![p].call = "publish"]
      BY <1>s, <1>r, <2>1 DEF MethodPublish
    <3>2. job'[p].call = "publish"
      BY <3>1 DEF SpansInv, SpansTypeOK
    <3> QED
      BY <1>s, <1>0, <3>1, <3>2, Launch DEF SpansInv
  <2>2. CASE hubOf[s] # "hub"
    BY <1>s, <1>0, <2>2 DEF MethodPublish, hubVars, chanVars
  <2> QED
    BY <2>1, <2>2
<1>5. /\ emitted[s] \in Seq(SpanRecord) /\ Len(emitted[s]) \in Nat
      /\ Len(emitted'[s]) = Len(emitted[s]) + 1 /\ emitted'[s] # <<>>
      /\ emitted'[s][Len(emitted[s]) + 1] = r
      /\ \A i \in DOMAIN emitted[s] : emitted'[s][i] = emitted[s][i]
      /\ Told(r)'
      /\ \A q \in SpanRecord : Told(q) => Told(q)'
  BY <1>s, <1>0, <1>1, <1>2, StoryGrows DEF SpansInv
<1>6. emitted[s] # <<>> /\ Len(emitted[s]) > 0
  BY <1>s, <1>0, <1>5 DEF SpansInv, Stories
<1>7. SpansTypeOK'
  <2>1. emitted' \in [Span -> Seq(SpanRecord)]
    BY <1>s, <1>r DEF SpansInv, SpansTypeOK, MethodPublish
  <2>2. job' \in [Procs -> [call : {"none", "start", "lock", "publish"},
                           span : Span \cup {None}, kind : Kinds \cup {"none"}]]
    <3> DEFINE Job == [call : {"none", "start", "lock", "publish"},
                       span : Span \cup {None}, kind : Kinds \cup {"none"}]
    <3>1. job \in [Procs -> Job] /\ NoJob \in Job
      BY DEF SpansInv, SpansTypeOK, NoJob
    <3>2. [job[p] EXCEPT !.call = "publish"] \in Job
      BY <3>1
    <3>3. \E v \in Job : job' = [job EXCEPT ![p] = v]
      BY <3>1, <3>2 DEF MethodPublish
    <3> HIDE DEF Job
    <3>4. job' \in [Procs -> Job]
      BY <3>1, <3>3
    <3> QED
      BY <3>4 DEF Job
  <2>3. ended' \in [Span -> BOOLEAN]
    <3>1. ended' = [ended EXCEPT ![s] = (k \in Terminal)]
      BY <1>s DEF MethodPublish
    <3>2. (k \in Terminal) \in BOOLEAN
      OBVIOUS
    <3>3. \A f \in [Span -> BOOLEAN], b \in BOOLEAN :
            [f EXCEPT ![s] = b] \in [Span -> BOOLEAN]
      OBVIOUS
    <3> QED
      BY <3>1, <3>2, <3>3, Zenon DEF SpansInv, SpansTypeOK
  <2> QED
    BY <1>2, <1>3, <2>1, <2>2, <2>3 DEF SpansInv, SpansTypeOK, IInv
<1>8. Stories'
  <2>1. ASSUME NEW x \in Span
        PROVE  /\ hubOf'[x] = None <=> emitted'[x] = <<>>
               /\ \A i \in DOMAIN emitted'[x] :
                    /\ emitted'[x][i].span = x /\ emitted'[x][i].n = i - 1
                    /\ emitted'[x][i].kind = "start" <=> i = 1
                    /\ emitted'[x][i].kind \in Terminal =>
                         i = Len(emitted'[x]) /\ ended'[x]
    <3>1. CASE x # s
      BY <1>2, <3>1 DEF SpansInv, Stories
    <3>2. CASE x = s
      <4>1. hubOf'[s] # None /\ emitted'[s] # <<>>
        BY <1>s, <1>0, <1>2, <1>5
      <4>2. ASSUME NEW i \in DOMAIN emitted'[s]
            PROVE  /\ emitted'[s][i].span = s /\ emitted'[s][i].n = i - 1
                   /\ emitted'[s][i].kind = "start" <=> i = 1
                   /\ emitted'[s][i].kind \in Terminal =>
                        i = Len(emitted'[s]) /\ ended'[s]
        <5>1. CASE i \in DOMAIN emitted[s]
          <6>1. /\ emitted[s][i].span = s /\ emitted[s][i].n = i - 1
                /\ emitted[s][i].kind = "start" <=> i = 1
                /\ emitted[s][i].kind \notin Terminal
            BY <1>s, <1>0, <5>1 DEF SpansInv, Stories
          <6>2. emitted'[s][i] = emitted[s][i]
            BY <1>5, <5>1
          <6> QED
            BY <6>1, <6>2
        <5>2. CASE i \notin DOMAIN emitted[s]
          <6>1. i = Len(emitted[s]) + 1
            BY <1>2, <1>5, <5>2
          <6>2. emitted'[s][i] = r /\ r.span = s /\ r.n = i - 1 /\ r.kind # "start"
            BY <1>s, <1>1, <1>5, <6>1
          <6>3. i # 1
            BY <1>5, <1>6, <6>1
          <6>4. i = Len(emitted'[s]) /\ (r.kind \in Terminal => ended'[s])
            BY <1>1, <1>2, <1>5, <6>1
          <6> QED
            BY <6>2, <6>3, <6>4
        <5> QED
          BY <5>1, <5>2
      <4> QED
        BY <3>2, <4>1, <4>2
    <3> QED
      BY <3>1, <3>2
  <2>2. called' \subseteq SpanRecord /\ \A q \in called' : Told(q)'
    BY <1>1, <1>4, <1>5 DEF SpansInv, Stories
  <2> QED
    BY <2>1, <2>2 DEF Stories
<1>9. Traces'
  BY <1>2 DEF SpansInv, Traces
<1>10. Budget'
  <2> SUFFICES ASSUME NEW x \in Span
               PROVE  /\ IsFiniteSet(Pending(x)')
                      /\ hubOf'[x] # None =>
                           Len(emitted'[x]) + Cardinality(Pending(x)')
                             <= MaxRecords + 1
    BY DEF Budget
  <2>0. job'[p].call # "lock"
    BY <1>s, <1>0, <1>3 DEF NoJob, SpansInv, SpansTypeOK
  <2>1. /\ IsFiniteSet(Pending(x)') /\ Cardinality(Pending(x)) \in Nat
        /\ x # s => Pending(x)' = Pending(x)
        /\ x = s => Cardinality(Pending(x)') = Cardinality(Pending(x)) - 1
    BY <1>s, <1>0, <1>3, <2>0, FewerPending
  <2>2. hubOf[x] # None =>
          Len(emitted[x]) + Cardinality(Pending(x)) <= MaxRecords + 1
    BY DEF SpansInv, Budget
  <2>3. CASE x # s
    BY <1>2, <2>1, <2>2, <2>3
  <2>4. CASE x = s
    BY <1>2, <1>5, <2>1, <2>2, <2>4, MaxRecordsAssumption
  <2> QED
    BY <2>3, <2>4
<1>11. Turns'
  <2>1. \A q \in Procs : q # p /\ job[q].call \in {"start", "publish"} =>
          job[q].span # s /\ job[q].span \in Span
    BY <1>s, <1>0, NoneAssumption DEF SpansInv, Turns, TurnOf, SpansTypeOK
  <2>2. job'[p] = NoJob => rec'[p] = None
    BY <1>4 DEF NoJob
  <2>3. job'[p] # NoJob =>
          /\ job'[p].call = "publish" /\ job'[p].span = s
          /\ job'[p].kind \in Notes \cup Terminal
          /\ mutex'[s] = p /\ Len(emitted'[s]) # 1
    BY <1>s, <1>0, <1>3, <1>5, <1>6 DEF Kinds
  <2>4. rec'[p] # None => /\ pc'[p] = "publish" /\ rec'[p].span = s
                          /\ rec'[p].n = Len(emitted'[s]) - 1
    BY <1>1, <1>4, <1>5
  <2>5. \A q \in Procs : q # p =>
          /\ job'[q] = job[q] /\ rec'[q] = rec[q] /\ pc'[q] = pc[q]
          /\ job[q].call \in {"start", "publish"} =>
               /\ emitted'[job[q].span] = emitted[job[q].span]
               /\ mutex'[job[q].span] = mutex[job[q].span]
    BY <1>2, <1>3, <1>4, <2>1
  <2>6. ASSUME NEW q \in Procs, q # p PROVE TurnOf(q)'
    <3>1. TurnOf(q)
      BY DEF SpansInv, Turns
    <3>2. job'[q] = job[q] /\ rec'[q] = rec[q] /\ pc'[q] = pc[q] /\ known' = known
      BY <1>2, <2>5, <2>6
    <3>3. job[q].call \in {"start", "publish"} =>
            /\ emitted'[job[q].span] = emitted[job[q].span]
            /\ mutex'[job[q].span] = mutex[job[q].span]
      BY <2>5, <2>6
    <3>4. InFlight(q)' =>
            /\ pc'[q] \in {"publish", "send"}
            /\ job'[q].call \in {"start", "publish"}
            /\ rec'[q].span = job'[q].span
            /\ rec'[q].n = Len(emitted'[job'[q].span]) - 1
      BY <3>1, <3>2, <3>3 DEF TurnOf, InFlight
    <3>5. job'[q].call = "publish" =>
            /\ mutex'[job'[q].span] = q
            /\ Len(emitted'[job'[q].span]) # 1
      BY <3>1, <3>2, <3>3 DEF TurnOf
    <3>6. job'[q].call = "start" =>
            /\ job'[q].span \in Span \ known'
            /\ Len(emitted'[job'[q].span]) = 1
      BY <3>1, <3>2, <3>3 DEF TurnOf
    <3>7. job'[q].call \in {"lock", "publish"} =>
            /\ job'[q].span \in known'
            /\ job'[q].kind \in Notes \cup Terminal
      BY <3>1, <3>2 DEF TurnOf
    <3> QED
      BY <3>4, <3>5, <3>6, <3>7 DEF TurnOf
  <2>7. job'[p].call # "start"
    BY <2>3 DEF NoJob
  <2>8. \A q1, q2 \in Procs :
          job'[q1].call = "start" /\ job'[q2].call = "start" /\ q1 # q2 =>
            job'[q1].span # job'[q2].span
    BY <1>3, <2>7 DEF SpansInv, Turns, TurnOf
  <2>9. TurnOf(p)'
    <3>1. CASE job'[p] = NoJob
      BY <2>2, <3>1 DEF TurnOf, InFlight, NoJob
    <3>2. CASE job'[p] # NoJob
      BY <1>s, <1>2, <2>3, <2>4, <3>2 DEF TurnOf, InFlight
    <3> QED
      BY <3>1, <3>2
  <2> QED
    BY <1>2, <2>6, <2>8, <2>9 DEF SpansInv, Turns
<1>12. SpanOrder' /\ StartFirst'
  BY <1>2, <1>4 DEF SpansInv, SpanOrder, StartFirst
<1> QED
  BY <1>7, <1>8, <1>9, <1>10, <1>11, <1>12 DEF SpansInv

LEMMA StartOnInv ==
  ASSUME SpansInv, IInv', NEW p \in Procs, NEW c \in Contexts, NEW h \in HubRef,
         NEW s \in Span, StartOn(p, c, h, s)
  PROVE  SpansInv'
<1>0. /\ pc[p] = "idle" /\ job[p] = NoJob /\ rec[p] = None
      /\ hubOf[s] = None /\ emitted[s] = <<>> /\ s \notin known /\ h # None
      /\ c.span \in known \cup {None}
  <2>1. pc[p] = "idle" /\ job[p] = NoJob /\ hubOf[s] = None /\ h # None
    BY DEF StartOn, Free, IsNil
  <2> QED
    BY <2>1 DEF SpansInv, Stories, Turns, TurnOf, InFlight, Contexts
<1>r. PICK r \in SpanRecord : r = NextRecord(s, "start") /\ r \notin called
  BY <1>0, NextRecordIsNew, MaxRecordsAssumption DEF SpansInv, Kinds
<1>1. r.span = s /\ r.kind = "start" /\ r.n = 0
  BY <1>0, <1>r DEF NextRecord
<1>2. /\ emitted'[s] = <<r>> /\ hubOf'[s] = h /\ parentOf'[s] = c.span
      /\ traceOf'[s] = TraceFor(c, s)
      /\ \A x \in Span : x # s => /\ emitted'[x] = emitted[x]
                                  /\ hubOf'[x] = hubOf[x]
                                  /\ parentOf'[x] = parentOf[x]
                                  /\ traceOf'[x] = traceOf[x]
      /\ known \subseteq known' /\ known' \subseteq known \cup {s}
      /\ UNCHANGED <<ended, mutex>>
  BY <1>r DEF SpansInv, SpansTypeOK, StartOn, Handed
<1>3. /\ \A q \in Procs : q # p => job'[q] = job[q]
      /\ \/ /\ job'[p] = [call |-> "start", span |-> s, kind |-> "start"]
            /\ known' = known
         \/ job'[p] = NoJob
  BY <1>0 DEF SpansInv, SpansTypeOK, StartOn, Handed
<1>4. /\ log' = log /\ called \subseteq called' /\ called' \subseteq called \cup {r}
      /\ \A q \in Procs : q # p => pc'[q] = pc[q] /\ rec'[q] = rec[q]
      /\ \/ rec'[p] = None
         \/ /\ rec'[p] = r /\ pc'[p] = "publish"
            /\ job'[p] = [call |-> "start", span |-> s, kind |-> "start"]
  <2>1. CASE h = "hub"
    <3>1. /\ PublishCall(p, r)
          /\ job' = [job EXCEPT ![p] = [call |-> "start", span |-> s,
                                        kind |-> "start"]]
      BY <1>r, <2>1 DEF StartOn
    <3>2. job'[p] = [call |-> "start", span |-> s, kind |-> "start"]
      BY <3>1 DEF SpansInv, SpansTypeOK
    <3> QED
      BY <1>0, <3>1, <3>2, Launch DEF SpansInv
  <2>2. CASE h # "hub"
    BY <1>0, <2>2 DEF StartOn, hubVars, chanVars
  <2> QED
    BY <2>1, <2>2
<1>5. /\ Len(emitted'[s]) = 1 /\ emitted'[s] # <<>> /\ emitted'[s][1] = r
      /\ Told(r)'
      /\ \A q \in SpanRecord : Told(q) => Told(q)'
  <2>1. r.n = Len(emitted[s]) /\ emitted'[s] = Append(emitted[s], r)
    BY <1>0, <1>1, <1>2
  <2> QED
    BY <1>1, <1>2, <2>1, StoryGrows DEF SpansInv
<1>6. /\ SpansTypeOK'
  <2>1. emitted' \in [Span -> Seq(SpanRecord)]
    BY <1>r DEF SpansInv, SpansTypeOK, StartOn
  <2>2. job' \in [Procs -> [call : {"none", "start", "lock", "publish"},
                           span : Span \cup {None}, kind : Kinds \cup {"none"}]]
    <3> DEFINE Job == [call : {"none", "start", "lock", "publish"},
                       span : Span \cup {None}, kind : Kinds \cup {"none"}]
    <3>1. job \in [Procs -> Job]
      BY DEF SpansInv, SpansTypeOK
    <3>2. [call |-> "start", span |-> s, kind |-> "start"] \in Job
      BY DEF Kinds
    <3>3. job' = job \/ \E v \in Job : job' = [job EXCEPT ![p] = v]
      BY <3>2 DEF StartOn
    <3> HIDE DEF Job
    <3>4. job' \in [Procs -> Job]
      BY <3>1, <3>3
    <3> QED
      BY <3>4 DEF Job
  <2>3. hubOf' \in [Span -> HubRef]
    BY DEF SpansInv, SpansTypeOK, StartOn
  <2>4. TraceFor(c, s) \in Span \cup {None} /\ c.span \in Span \cup {None}
    BY <1>0 DEF SpansInv, SpansTypeOK, TraceFor
  <2>5. /\ traceOf' \in [Span -> Span \cup {None}]
        /\ parentOf' \in [Span -> Span \cup {None}]
    BY <2>4 DEF SpansInv, SpansTypeOK, StartOn
  <2> QED
    BY <1>2, <2>1, <2>2, <2>3, <2>5 DEF SpansInv, SpansTypeOK, IInv
<1>7. Stories'
  <2>1. ASSUME NEW x \in Span
        PROVE  /\ hubOf'[x] = None <=> emitted'[x] = <<>>
               /\ \A i \in DOMAIN emitted'[x] :
                    /\ emitted'[x][i].span = x /\ emitted'[x][i].n = i - 1
                    /\ emitted'[x][i].kind = "start" <=> i = 1
                    /\ emitted'[x][i].kind \in Terminal =>
                         i = Len(emitted'[x]) /\ ended'[x]
    <3>1. CASE x # s
      BY <1>2, <3>1 DEF SpansInv, Stories
    <3>2. CASE x = s
      BY <1>0, <1>1, <1>2, <1>5, <3>2, KindsAssumption
    <3> QED
      BY <3>1, <3>2
  <2>2. called' \subseteq SpanRecord /\ \A q \in called' : Told(q)'
    BY <1>4, <1>5 DEF SpansInv, Stories
  <2> QED
    BY <2>1, <2>2 DEF Stories
<1>8. Budget'
  <2> SUFFICES ASSUME NEW x \in Span
               PROVE  /\ IsFiniteSet(Pending(x)')
                      /\ hubOf'[x] # None =>
                           Len(emitted'[x]) + Cardinality(Pending(x)')
                             <= MaxRecords + 1
    BY DEF Budget
  <2>1. Pending(x)' = Pending(x)
    BY <1>0, <1>3 DEF Pending, NoJob
  <2>2. CASE x # s
    BY <1>2, <2>1, <2>2 DEF SpansInv, Budget
  <2>3. CASE x = s
    <3>1. Pending(x) = {}
      BY <1>0, <2>3 DEF Pending, SpansInv, Turns, TurnOf
    <3>2. IsFiniteSet({}) /\ Cardinality({}) = 0
      BY FS_EmptySet
    <3>3. Pending(x)' = {} /\ Len(emitted'[x]) = 1
      BY <1>5, <2>1, <2>3, <3>1
    <3> QED
      BY <3>2, <3>3, MaxRecordsAssumption
  <2> QED
    BY <2>2, <2>3
\* Nobody has been given the span, so nothing refers to it.
<1>9. Traces'
  <2> SUFFICES ASSUME NEW x \in Span, hubOf'[x] # None
               PROVE  IF parentOf'[x] = None THEN traceOf'[x] = x
                      ELSE /\ parentOf'[x] \in known' /\ traceOf'[x] \in known'
                           /\ traceOf'[x] = traceOf'[parentOf'[x]]
                           /\ parentOf'[traceOf'[x]] = None
    BY DEF Traces
  <2>1. known \subseteq Span
    BY DEF SpansInv, SpansTypeOK
  <2>2. CASE x # s
    BY <1>0, <1>2, <2>1, <2>2 DEF SpansInv, Traces
  <2>3. CASE x = s /\ c.span = None
    BY <1>2, <2>3 DEF TraceFor
  <2>4. CASE x = s /\ c.span # None
    <3>1. /\ c.span \in known /\ c.span \in Span /\ c.span # s
          /\ hubOf[c.span] # None
          /\ traceOf'[s] = traceOf[c.span] /\ parentOf'[s] = c.span
      BY <1>0, <1>2, <2>1, <2>4 DEF TraceFor, SpansInv, Turns
    <3>2. traceOf[c.span] \in known /\ parentOf[traceOf[c.span]] = None
      BY <3>1 DEF SpansInv, Traces
    <3> QED
      BY <1>0, <1>2, <2>1, <2>4, <3>1, <3>2
  <2> QED
    BY <2>2, <2>3, <2>4
<1>10. Turns'
  <2>1. ASSUME NEW q \in Procs, q # p PROVE TurnOf(q)'
    <3>1. TurnOf(q)
      BY DEF SpansInv, Turns
    <3>2. job'[q] = job[q] /\ rec'[q] = rec[q] /\ pc'[q] = pc[q]
      BY <1>3, <1>4, <2>1
    <3>3. job[q].call \in {"start", "publish", "lock"} =>
            job[q].span \in Span /\ job[q].span # s
      <4>1. job[q].call = "start" => Len(emitted[job[q].span]) = 1
        BY <3>1 DEF TurnOf
      <4>2. Len(emitted[s]) # 1
        BY <1>0
      <4> QED
        BY <1>0, <3>1, <4>1, <4>2 DEF TurnOf, SpansInv, SpansTypeOK
    <3>4. job[q].call \in {"start", "publish", "lock"} =>
            /\ emitted'[job[q].span] = emitted[job[q].span]
            /\ mutex'[job[q].span] = mutex[job[q].span]
            /\ job[q].span \in known' <=> job[q].span \in known
      BY <1>2, <3>3
    <3>5. InFlight(q)' =>
            /\ pc'[q] \in {"publish", "send"}
            /\ job'[q].call \in {"start", "publish"}
            /\ rec'[q].span = job'[q].span
            /\ rec'[q].n = Len(emitted'[job'[q].span]) - 1
      BY <3>1, <3>2, <3>4 DEF TurnOf, InFlight
    <3> QED
      BY <3>1, <3>2, <3>3, <3>4, <3>5 DEF TurnOf
  <2>2. TurnOf(p)'
    <3>1. CASE job'[p] = NoJob
      <4>1. rec'[p] = None
        BY <1>4, <3>1 DEF NoJob
      <4> QED
        BY <3>1, <4>1 DEF TurnOf, InFlight, NoJob
    <3>2. CASE job'[p] = [call |-> "start", span |-> s, kind |-> "start"]
      <4>1. known' = known
        BY <1>3, <3>2 DEF NoJob
      <4>2. job'[p].call = "start" /\ job'[p].span = s
        BY <3>2
      <4>3. rec'[p] # None => /\ rec'[p].span = s /\ rec'[p].n = 0
                              /\ pc'[p] = "publish"
        BY <1>1, <1>4
      <4>4. job'[p].span \in Span \ known' /\ Len(emitted'[job'[p].span]) = 1
        BY <1>0, <1>5, <4>1, <4>2
      <4>5. InFlight(p)' => /\ pc'[p] = "publish" /\ rec'[p].span = job'[p].span
                            /\ rec'[p].n = Len(emitted'[job'[p].span]) - 1
        BY <4>2, <4>3, <4>4 DEF InFlight
      <4> QED
        BY <4>2, <4>4, <4>5 DEF TurnOf
    <3> QED
      BY <1>3, <3>1, <3>2
  <2>3. \A x \in known' : hubOf'[x] # None
    <3>1. \A x \in known : x \in Span /\ hubOf[x] # None
      BY DEF SpansInv, Turns, SpansTypeOK
    <3> QED
      BY <1>0, <1>2, <3>1
  <2>4. \A q1, q2 \in Procs :
          job'[q1].call = "start" /\ job'[q2].call = "start" /\ q1 # q2 =>
            job'[q1].span # job'[q2].span
    <3>1. \A q \in Procs : job[q].call = "start" => job[q].span # s
      BY <1>0 DEF SpansInv, Turns, TurnOf
    <3> QED
      BY <1>3, <3>1 DEF SpansInv, Turns, NoJob
  <2> QED
    BY <2>1, <2>2, <2>3, <2>4 DEF Turns
<1>11. SpanOrder' /\ StartFirst'
  <2>1. \A ch \in Chans : \A i \in DOMAIN log[ch] :
          log[ch][i].span \in Span \ {s}
    <3> SUFFICES ASSUME NEW r1 \in called PROVE r1.span \in Span \ {s}
      BY DEF SpansInv, IInv, Freshness
    <3>1. r1 \in SpanRecord /\ Told(r1) /\ r1.n \in Nat /\ r1.span \in Span
      BY MaxRecordsAssumption DEF SpansInv, Stories, SpanRecord
    <3> QED
      BY <1>0, <3>1 DEF Told
  <2> QED
    BY <1>2, <1>4, <2>1 DEF SpansInv, SpanOrder, StartFirst
<1> QED
  BY <1>6, <1>7, <1>8, <1>9, <1>10, <1>11 DEF SpansInv

LEMMA SpansStepInv == SpansInv /\ [SpansNext]_vars => SpansInv'
<1> SUFFICES ASSUME SpansInv, [SpansNext]_vars PROVE SpansInv'
  OBVIOUS
<1>1. IInv'
  BY UsesHub, StepInv DEF SpansInv
<1>2. CASE UNCHANGED vars
  <2>1. UNCHANGED <<called, log, pc, rec>>
    BY <1>2 DEF vars, hubVars, chanVars
  <2>2. UNCHANGED spanVars
    BY <1>2 DEF vars
  <2>3. SpansTypeOK'
    BY <1>1, <2>2 DEF SpansInv, SpansTypeOK, IInv, spanVars
  <2>4. Stories' /\ Traces'
    BY <2>1, <2>2 DEF SpansInv, Stories, Told, Traces, spanVars
  <2>5. Budget' /\ Turns'
    BY <2>1, <2>2 DEF SpansInv, Budget, Pending, Turns, TurnOf, InFlight, spanVars
  <2>6. SpanOrder' /\ StartFirst'
    BY <2>1, <2>2 DEF SpansInv, SpanOrder, StartFirst, spanVars
  <2> QED
    BY <1>1, <2>3, <2>4, <2>5, <2>6 DEF SpansInv
<1>3. ASSUME NEW p \in Procs, SpanCall(p) PROVE SpansInv'
  <2>1. ASSUME NEW c \in Contexts, NEW h \in HubRef, NEW s \in Span,
               HubStart(p, c, h, s)
        PROVE  SpansInv'
    BY <1>1, <2>1, StartOnInv DEF HubStart
  <2>2. ASSUME NEW c \in Contexts, NEW s \in Span, Start(p, c, s)
        PROVE  SpansInv'
    <3>1. HubForStart(c) \in HubRef
      BY DEF Contexts, HubForStart, SpansInv, SpansTypeOK
    <3> QED
      BY <1>1, <2>2, <3>1, StartOnInv DEF Start
  <2> QED
    BY <1>1, <1>3, <2>1, <2>2, MethodCallInv DEF SpanCall, Annotate, End
<1>4. ASSUME NEW p \in Procs, SpanStep(p) PROVE SpansInv'
  BY <1>1, <1>4, StartReturnInv, MethodSilentInv, MethodPublishInv,
     MethodReturnInv DEF SpanStep
<1>5. CASE HubMove
  BY <1>1, <1>5, MoveInv
<1> QED
  BY <1>2, <1>3, <1>4, <1>5 DEF SpansNext, HubMove

\* The invariant that order, starts and traces rest on.
THEOREM SpansInvariance == SpansSpec => []SpansInv
  BY SpansInitInv, SpansStepInv, PTL DEF SpansSpec

\* The variables of the spans keep their types.
THEOREM SpansTypeCorrectness == SpansSpec => []SpansTypeOK
  BY SpansInvariance, PTL DEF SpansInv

\* Spans use the hub as module Hub demands of its callers: no record is
\* published twice. So what is proved of the hub holds of the composition.
THEOREM Composition == SpansSpec => Spec
<1>1. SpansInit => Init
  BY DEF SpansInit
<1> QED
  BY <1>1, UsesHub, SpansInvariance, PTL DEF SpansSpec, Spec

\* The records of a span reach a subscriber in the order they were emitted,
\* and none after its end (sap.go:102, 175, 252).
THEOREM Order == SpansSpec => []SpanOrder
  BY SpansInvariance, PTL DEF SpansInv

\* The start of a span reaches a subscriber before any other record of the
\* span, of its children and of its trace (sap.go:231).
THEOREM StartsFirst == SpansSpec => []StartFirst
  BY SpansInvariance, PTL DEF SpansInv

\* A span shares the trace of its parent, and a trace has one root.
THEOREM OneTrace == SpansSpec => []TracesAreTrees
<1>1. SpansInv => TracesAreTrees
  BY DEF SpansInv, Traces, TracesAreTrees
<1> QED
  BY <1>1, SpansInvariance, PTL

-----------------------------------------------------------------------------
\* That a story is complete: every record of it is in the channel or on its
\* way there.

Comes(p, ch) == pc[p] = "publish" \/ (pc[p] = "send" /\ ch \in todo[p])

Has(ch, r) == \E i \in DOMAIN log[ch] : log[ch][i] = r

Reaches(r, ch) == Has(ch, r) \/ \E p \in Procs : Comes(p, ch) /\ rec[p] = r

\* The channel has the start of the span and has missed nothing.
Begun(ch, s) ==
  /\ ch \in subs /\ missed[ch] = {}
  /\ \E r \in called : Has(ch, r) /\ r.span = s /\ r.kind = "start"

OnHub  == \A r \in called : hubOf[r.span] = "hub"

Unborn == \A ch \in Chans \ given : log[ch] = <<>>

Tales ==
  \A ch \in Chans, s \in Span : Begun(ch, s) =>
    \A i \in DOMAIN emitted[s] : Reaches(emitted[s][i], ch)

TaleInv == SpansInv /\ OnHub /\ Unborn /\ Tales

\* What a step of the hub does for a channel: it keeps what it has, gets
\* nothing but from a goroutine that sends, nothing before it is given; and,
\* registered and without a miss, it loses nothing that was on its way.
Delivers(ch) ==
  /\ \A r : Has(ch, r) => Has(ch, r)'
  /\ \A r : Has(ch, r)' =>
       Has(ch, r) \/ \E p \in Procs : pc[p] = "send" /\ rec[p] = r /\ r \in called
  /\ given \subseteq given' /\ (ch \in given \/ log'[ch] = <<>>)
  /\ ch \in subs' =>
       \/ ch \notin given
       \/ /\ ch \in subs
          /\ missed'[ch] = {} =>
               /\ missed[ch] = {}
               /\ \A r \in Record : Reaches(r, ch) => Reaches(r, ch)'

\* A step that touches no flight and no channel but to deregister it.
LEMMA DeliversAside ==
  ASSUME NEW ch \in Chans, Unborn,
         UNCHANGED <<log, missed>>, given \subseteq given',
         ch \in subs' => ch \in subs \/ ch \notin given,
         \A p \in Procs : Comes(p, ch) => Comes(p, ch)' /\ rec'[p] = rec[p]
  PROVE  Delivers(ch)
<1>1. \A r : Has(ch, r)' <=> Has(ch, r)
  BY DEF Has
<1>2. \A r : Reaches(r, ch) => Reaches(r, ch)'
  BY <1>1 DEF Reaches
<1>3. ch \in given \/ log'[ch] = <<>>
  BY DEF Unborn
<1> QED
  BY <1>1, <1>2, <1>3 DEF Delivers

LEMMA DeliversSend ==
  ASSUME IInv, Unborn, NEW ch \in Chans, NEW p \in Procs, NEW c \in Chans,
         PublishSend(p, c)
  PROVE  Delivers(ch)
<1>1. /\ c \in subs /\ c \in given /\ c \notin shut
      /\ pc[p] = "send" /\ rec[p] \in called /\ TrySend(p, c)
      /\ UNCHANGED <<pc, rec, given, subs>>
  BY DEF IInv, TypeOK, Registration, Freshness, PublishSend
<1>2. todo' = [todo EXCEPT ![p] = @ \ {c}] /\ todo \in [Procs -> SUBSET Chans]
  BY <1>1 DEF TrySend, IInv, TypeOK
<1>3. \A q \in Procs : Comes(q, ch) => Comes(q, ch)' \/ (q = p /\ ch = c)
  BY <1>1, <1>2 DEF Comes
<1>4. CASE ch # c
  <2>1. log'[ch] = log[ch] /\ missed'[ch] = missed[ch]
    BY <1>1, <1>4 DEF TrySend, IInv, TypeOK
  <2>2. \A r : Has(ch, r)' <=> Has(ch, r)
    BY <2>1 DEF Has
  <2>3. \A r : Reaches(r, ch) => Reaches(r, ch)'
    BY <1>1, <1>3, <1>4, <2>2 DEF Reaches
  <2> QED
    BY <1>1, <2>1, <2>2, <2>3 DEF Delivers, Unborn
<1>5. CASE ch = c /\ Full(c)
  <2>1. log' = log /\ missed'[ch] = missed[ch] \cup {rec[p]}
    BY <1>1, <1>5 DEF TrySend, IInv, TypeOK
  <2>2. \A r : Has(ch, r)' <=> Has(ch, r)
    BY <2>1 DEF Has
  <2> QED
    BY <1>1, <1>5, <2>1, <2>2 DEF Delivers
<1>6. CASE ch = c /\ ~Full(c)
  <2>1. log[ch] \in Seq(Record) /\ rec[p] \in Record
    BY <1>1 DEF IInv, TypeOK
  <2>2. log'[ch] = Append(log[ch], rec[p]) /\ missed' = missed
    BY <1>1, <1>6 DEF TrySend, IInv, TypeOK
  <2>3. /\ DOMAIN log'[ch] = 1 .. Len(log[ch]) + 1
        /\ DOMAIN log[ch] = 1 .. Len(log[ch]) /\ Len(log[ch]) \in Nat
        /\ \A i \in DOMAIN log[ch] : log'[ch][i] = log[ch][i]
        /\ log'[ch][Len(log[ch]) + 1] = rec[p]
    BY <2>1, <2>2
  <2>4. \A r : Has(ch, r)' <=> Has(ch, r) \/ r = rec[p]
    BY <2>3 DEF Has
  <2>5. \A r : Reaches(r, ch) => Reaches(r, ch)'
    BY <1>1, <1>3, <2>4 DEF Reaches
  <2> QED
    BY <1>1, <1>6, <2>2, <2>4, <2>5 DEF Delivers
<1> QED
  BY <1>4, <1>5, <1>6

LEMMA HubDelivers ==
  ASSUME IInv, Unborn, [Next]_hubVars, NEW ch \in Chans
  PROVE  Delivers(ch)
<1> DEFINE Keeps == \A p \in Procs : Comes(p, ch) => Comes(p, ch)' /\ rec'[p] = rec[p]
<1>0. /\ DOMAIN pc = Procs /\ DOMAIN rec = Procs /\ DOMAIN todo = Procs
  BY DEF IInv, TypeOK
<1>1. CASE UNCHANGED hubVars
  BY <1>1, DeliversAside DEF hubVars, chanVars, Comes
<1>2. ASSUME NEW p \in Procs, NEW r \in Record \ called, PublishCall(p, r)
      PROVE  Delivers(ch)
  <2>1. Keeps
    BY <1>0, <1>2 DEF PublishCall, Goto, Comes
  <2> QED
    BY <1>2, <2>1, DeliversAside DEF PublishCall, chanVars
<1>3. ASSUME NEW p \in Procs, NEW c \in Chans, NEW b \in Buffers,
             SubscribeCall(p, c, b)
      PROVE  Delivers(ch)
  <2>1. Keeps
    BY <1>0, <1>3 DEF SubscribeCall, Goto, Comes
  <2> QED
    BY <1>3, <2>1, DeliversAside DEF SubscribeCall
<1>4. ASSUME NEW p \in Procs, NEW c \in Chans, CancelCall(p, c)
      PROVE  Delivers(ch)
  <2>1. Keeps
    BY <1>0, <1>4 DEF CancelCall, Goto, Comes
  <2> QED
    BY <1>4, <2>1, DeliversAside DEF CancelCall, chanVars
<1>5. ASSUME NEW p \in Procs, CloseCall(p) PROVE Delivers(ch)
  <2>1. Keeps
    BY <1>0, <1>5 DEF CloseCall, Goto, Comes
  <2> QED
    BY <1>5, <2>1, DeliversAside DEF CloseCall, chanVars
<1>6. ASSUME NEW p \in Procs, PublishRLock(p) \/ Lock(p) PROVE Delivers(ch)
  <2>1. UNCHANGED <<subs, pc, rec, todo, chanVars>>
    BY <1>6 DEF PublishRLock, Lock
  <2> QED
    BY <2>1, DeliversAside DEF chanVars, Comes
\* The channels to visit are those registered, unless there are none.
<1>7. ASSUME NEW p \in Procs, PublishCheck(p) PROVE Delivers(ch)
  <2>1. closed => subs = {}
    BY <1>7 DEF IInv, Locking, Registration, PublishCheck
  <2>2. UNCHANGED <<subs, rec, chanVars>>
        /\ pc'[p] = "send" /\ todo'[p] = subs
        /\ \A q \in Procs : q # p => pc'[q] = pc[q] /\ todo'[q] = todo[q]
    BY <1>0, <1>7, <2>1 DEF PublishCheck, Goto
  <2>3. ch \in subs => Keeps
    BY <2>2 DEF Comes
  <2>4. CASE ch \in subs
    BY <2>2, <2>3, <2>4, DeliversAside DEF chanVars
  <2>5. CASE ch \notin subs
    <3>1. \A r : Has(ch, r)' <=> Has(ch, r)
      BY <2>2 DEF chanVars, Has
    <3> QED
      BY <2>2, <2>5, <3>1 DEF Delivers, chanVars, Unborn
  <2> QED
    BY <2>4, <2>5
<1>8. ASSUME NEW p \in Procs, NEW c \in Chans, PublishSend(p, c)
      PROVE  Delivers(ch)
  BY <1>8, DeliversSend
<1>9. ASSUME NEW p \in Procs, PublishReturn(p) PROVE Delivers(ch)
  <2>1. Keeps
    BY <1>0, <1>9 DEF PublishReturn, Goto, Comes
  <2> QED
    BY <1>9, <2>1, DeliversAside DEF PublishReturn, chanVars
<1>10. ASSUME NEW p \in Procs, Subscribe(p) PROVE Delivers(ch)
  <2>1. Keeps
    BY <1>0, <1>10 DEF Subscribe, Goto, Comes
  <2>2. chan[p] \notin given /\ subs' \subseteq subs \cup {chan[p]}
    BY <1>10 DEF IInv, Registration, Subscribe, Register, Refuse
  <2> QED
    BY <1>10, <2>1, <2>2, DeliversAside DEF Subscribe
<1>11. ASSUME NEW p \in Procs, Cancel(p) PROVE Delivers(ch)
  <2>1. Keeps
    BY <1>0, <1>11 DEF Cancel, Goto, Comes
  <2> QED
    BY <1>11, <2>1, DeliversAside DEF Cancel
<1>12. ASSUME NEW p \in Procs, CloseMark(p) PROVE Delivers(ch)
  <2>1. Keeps
    BY <1>0, <1>12 DEF CloseMark, Goto, Comes
  <2> QED
    BY <1>12, <2>1, DeliversAside DEF CloseMark, chanVars
<1>13. ASSUME NEW p \in Procs, NEW c \in Chans, CloseChannel(p, c)
       PROVE  Delivers(ch)
  <2>1. Keeps
    BY <1>0, <1>13 DEF CloseChannel, Goto, Comes
  <2>2. subs' \subseteq subs
    BY <1>13 DEF CloseChannel, CloseAndDelete
  <2> QED
    BY <1>13, <2>1, <2>2, DeliversAside DEF CloseChannel
<1>14. ASSUME NEW p \in Procs, CloseReturn(p) PROVE Delivers(ch)
  <2>1. Keeps
    BY <1>0, <1>14 DEF CloseReturn, Goto, Comes
  <2> QED
    BY <1>14, <2>1, DeliversAside DEF CloseReturn, chanVars
<1>15. ASSUME NEW c \in Chans, Receive(c) PROVE Delivers(ch)
  BY <1>15, DeliversAside DEF Receive, Comes
<1> QED
  BY <1>1, <1>2, <1>3, <1>4, <1>5, <1>6, <1>7, <1>8, <1>9, <1>10, <1>11, <1>12,
     <1>13, <1>14, <1>15 DEF Next, Call, Step

\* A span on the hub that has been started publishes what it emits.
LEMMA Emits ==
  ASSUME SpansInv, [SpansNext]_vars, NEW s \in Span,
         hubOf[s] # None, hubOf[s] = "hub"
  PROVE  \/ emitted'[s] = emitted[s]
         \/ \E p \in Procs, k \in Kinds :
              /\ PublishCall(p, NextRecord(s, k))
              /\ emitted'[s] = Append(emitted[s], NextRecord(s, k))
<1>0. DOMAIN emitted = Span
  BY DEF SpansInv, SpansTypeOK
<1>1. CASE UNCHANGED vars
  BY <1>1 DEF vars, spanVars
<1>2. ASSUME NEW p \in Procs, NEW c, NEW h, NEW x \in Span, StartOn(p, c, h, x)
      PROVE  emitted'[s] = emitted[s]
  BY <1>0, <1>2 DEF StartOn
<1>3. ASSUME NEW p \in Procs, SpanCall(p)
      PROVE  emitted'[s] = emitted[s]
  BY <1>2, <1>3 DEF SpanCall, HubStart, Start, Annotate, End, MethodCall
<1>4. ASSUME NEW p \in Procs, MethodPublish(p), emitted'[s] # emitted[s]
      PROVE  \E k \in Kinds :
               /\ PublishCall(p, NextRecord(s, k))
               /\ emitted'[s] = Append(emitted[s], NextRecord(s, k))
  <2>1. job[p].span \in Span /\ job[p].kind \in Kinds
    BY <1>4, RoomForMethod DEF SpansInv, MethodPublish
  <2>2. emitted' = [emitted EXCEPT ![job[p].span] =
                      Append(emitted[job[p].span],
                             NextRecord(job[p].span, job[p].kind))]
    BY <1>0, <1>4, <2>1 DEF MethodPublish
  <2>3. job[p].span = s
    BY <1>0, <1>4, <2>1, <2>2
  <2>4. emitted'[s] = Append(emitted[s], NextRecord(s, job[p].kind))
    BY <1>0, <2>2, <2>3
  <2>5. PublishCall(p, NextRecord(s, job[p].kind))
    BY <1>4, <2>3 DEF MethodPublish
  <2> QED
    BY <2>1, <2>4, <2>5
<1>5. ASSUME NEW p \in Procs, StartReturn(p) \/ MethodSilent(p) \/ MethodReturn(p)
      PROVE  emitted'[s] = emitted[s]
  BY <1>5 DEF StartReturn, MethodSilent, MethodReturn
<1>6. CASE HubMove
  BY <1>6, MoveFlight DEF SpansInv, spanVars
<1> QED
  BY <1>1, <1>3, <1>4, <1>5, <1>6 DEF SpansNext, SpanStep, HubMove

\* Only spans of the hub publish on it, and they stay there.
LEMMA OnHubStep ==
  ASSUME SpansInv, OnHub, [SpansNext]_vars
  PROVE  OnHub'
<1>0. /\ DOMAIN hubOf = Span
      /\ \A r \in called : r.span \in Span /\ hubOf[r.span] # None
  <2>1. DOMAIN hubOf = Span
    BY DEF SpansInv, SpansTypeOK
  <2>2. ASSUME NEW r \in called PROVE r.span \in Span /\ hubOf[r.span] # None
    <3>1. r \in SpanRecord /\ Told(r) /\ r.span \in Span /\ r.n \in Nat
      BY MaxRecordsAssumption DEF SpansInv, Stories, SpanRecord
    <3>2. emitted[r.span] # <<>>
      BY <3>1 DEF Told
    <3> QED
      BY <3>1, <3>2 DEF SpansInv, Stories
  <2> QED
    BY <2>1, <2>2
<1>1. ASSUME UNCHANGED <<called, hubOf>> PROVE OnHub'
  BY <1>1 DEF OnHub
<1>2. ASSUME NEW p \in Procs, NEW c, NEW h, NEW s \in Span, StartOn(p, c, h, s)
      PROVE  OnHub'
  <2>1. /\ hubOf'[s] = h /\ \A x \in Span : x # s => hubOf'[x] = hubOf[x]
        /\ hubOf[s] = None
    BY <1>0, <1>2 DEF StartOn
  <2>2. \A r \in called : hubOf'[r.span] = "hub"
    BY <1>0, <2>1 DEF OnHub
  <2>3. \A r \in called' : r \in called \/ (h = "hub" /\ r.span = s)
    BY <1>2 DEF StartOn, PublishCall, NextRecord, hubVars
  <2> QED
    BY <2>1, <2>2, <2>3 DEF OnHub
<1>3. ASSUME NEW p \in Procs, SpanCall(p) PROVE OnHub'
  BY <1>1, <1>2, <1>3
     DEF SpanCall, HubStart, Start, Annotate, End, MethodCall, hubVars
<1>4. ASSUME NEW p \in Procs, MethodPublish(p) PROVE OnHub'
  <2>1. /\ hubOf' = hubOf
        /\ \A r \in called' :
             r \in called \/ (hubOf[job[p].span] = "hub" /\ r.span = job[p].span)
    BY <1>4 DEF MethodPublish, PublishCall, NextRecord, hubVars
  <2> QED
    BY <2>1 DEF OnHub
<1>5. ASSUME NEW p \in Procs, StartReturn(p) \/ MethodSilent(p) \/ MethodReturn(p)
      PROVE  OnHub'
  BY <1>1, <1>5 DEF StartReturn, MethodSilent, MethodReturn, hubVars
<1>6. CASE HubMove
  BY <1>1, <1>6, MoveFlight DEF SpansInv, spanVars
<1>7. CASE UNCHANGED vars
  BY <1>1, <1>7 DEF vars, hubVars, spanVars
<1> QED
  BY <1>3, <1>4, <1>5, <1>6, <1>7 DEF SpansNext, SpanStep, HubMove

\* While the start of a span is in flight it is the whole story.
LEMMA StartIsAll ==
  ASSUME SpansInv, NEW p \in Procs, pc[p] = "send", rec[p] \in called,
         rec[p].kind = "start"
  PROVE  \A i \in DOMAIN emitted[rec[p].span] :
           emitted[rec[p].span][i] = rec[p]
<1> DEFINE s == rec[p].span
<1>1. Told(rec[p]) /\ s \in Span /\ rec[p].n \in Nat
  BY MaxRecordsAssumption DEF SpansInv, Stories, SpanRecord
<1>2. emitted[s] \in Seq(SpanRecord) /\ Len(emitted[s]) \in Nat
  BY <1>1 DEF SpansInv, SpansTypeOK
<1>3. rec[p].n + 1 \in DOMAIN emitted[s]
  BY <1>1, <1>2 DEF Told
<1>4. rec[p].n + 1 = 1
  BY <1>1, <1>3 DEF SpansInv, Stories, Told
<1>5. rec[p].n = Len(emitted[s]) - 1
  <2>1. rec[p] # None
    BY NoneAssumption DEF SpansInv, IInv, TypeOK
  <2>2. TurnOf(p)
    BY DEF SpansInv, Turns
  <2> QED
    BY <2>1, <2>2 DEF TurnOf, InFlight
<1>6. DOMAIN emitted[s] = {1} /\ emitted[s][1] = rec[p]
  BY <1>1, <1>2, <1>4, <1>5 DEF Told
<1> QED
  BY <1>6

LEMMA TalesStep ==
  ASSUME TaleInv, [SpansNext]_vars
  PROVE  Tales'
<1> SUFFICES ASSUME NEW ch \in Chans, NEW s \in Span, Begun(ch, s)',
                    NEW i \in DOMAIN emitted'[s], NEW e, e = emitted'[s][i]
             PROVE  Reaches(e, ch)'
  BY DEF Tales, Reaches, Has, Comes
<1>0. SpansInv /\ IInv /\ Delivers(ch)
  BY UsesHub, HubDelivers DEF TaleInv, SpansInv
<1>1. PICK r \in called' : /\ Has(ch, r)' /\ r.span = s /\ r.kind = "start"
                           /\ ch \in subs' /\ missed'[ch] = {}
  BY DEF Begun
<1>2. ch \in given
  <2>1. log'[ch] # <<>>
    BY <1>1 DEF Has
  <2> QED
    BY <1>0, <2>1 DEF Delivers
<1>3. /\ ch \in subs /\ missed[ch] = {}
      /\ \A q \in Record : Reaches(q, ch) => Reaches(q, ch)'
  BY <1>0, <1>1, <1>2 DEF Delivers
<1>4. \/ Has(ch, r) /\ r \in called
      \/ \E p \in Procs : pc[p] = "send" /\ rec[p] = r /\ r \in called
  BY <1>0, <1>1 DEF Delivers, IInv, Freshness, Has
<1>5. hubOf[s] = "hub" /\ hubOf[s] # None
  <2>1. hubOf[s] = "hub" /\ Told(r) /\ r.n \in Nat
    BY <1>1, <1>4, MaxRecordsAssumption
       DEF TaleInv, OnHub, SpansInv, Stories, SpanRecord
  <2>2. emitted[s] # <<>>
    BY <1>1, <2>1 DEF Told
  <2> QED
    BY <1>0, <2>1, <2>2 DEF SpansInv, Stories
<1>6. emitted[s] \in Seq(SpanRecord) /\ SpanRecord \subseteq Record
  BY <1>0, RecordAssumption DEF SpansInv, SpansTypeOK
<1>7. ASSUME Has(ch, r), r \in called, NEW j \in DOMAIN emitted[s],
             e = emitted[s][j]
      PROVE  Reaches(e, ch)'
  <2>1. Begun(ch, s)
    BY <1>1, <1>3, <1>7 DEF Begun
  <2>2. Reaches(e, ch)
    BY <1>7, <2>1 DEF TaleInv, Tales
  <2>3. e \in Record
    BY <1>6, <1>7
  <2> QED
    BY <1>3, <2>2, <2>3
<1>8. CASE emitted'[s] = emitted[s]
  <2>1. CASE Has(ch, r) /\ r \in called
    BY <1>7, <1>8, <2>1
  <2>2. ASSUME NEW p \in Procs, pc[p] = "send", rec[p] = r, r \in called
        PROVE  Reaches(e, ch)'
    <3>1. e = r
      BY <1>0, <1>1, <1>8, <2>2, StartIsAll
    <3>2. Reaches(r, ch)'
      BY <1>1 DEF Reaches
    <3> QED
      BY <3>1, <3>2
  <2> QED
    BY <1>4, <2>1, <2>2
<1>9. ASSUME NEW p \in Procs, NEW k \in Kinds, PublishCall(p, NextRecord(s, k)),
             emitted'[s] = Append(emitted[s], NextRecord(s, k))
      PROVE  Reaches(e, ch)'
  <2>1. log' = log /\ called' = called \cup {NextRecord(s, k)} /\ ~isNil
    BY <1>0, <1>3, <1>9 DEF PublishCall, chanVars, IInv, Registration
  <2>2. rec'[p] = NextRecord(s, k) /\ pc'[p] = "publish"
    BY <1>0, <1>9, <2>1 DEF PublishCall, Goto, IInv, TypeOK
  <2>3. Has(ch, r) /\ r \in called
    <3>1. Has(ch, r)
      BY <1>1, <2>1 DEF Has
    <3> QED
      BY <1>0, <3>1 DEF IInv, Freshness, Has
  <2>4. CASE i \in DOMAIN emitted[s]
    <3>1. e = emitted[s][i]
      BY <1>6, <1>9, <2>4
    <3> QED
      BY <1>7, <2>3, <2>4, <3>1
  <2>5. CASE i \notin DOMAIN emitted[s]
    <3>1. e = NextRecord(s, k)
      BY <1>6, <1>9, <2>5
    <3>2. Comes(p, ch)' /\ rec'[p] = e
      BY <2>2, <3>1 DEF Comes
    <3> QED
      BY <3>2 DEF Reaches
  <2> QED
    BY <2>4, <2>5
<1> QED
  BY <1>0, <1>5, <1>8, <1>9, Emits

LEMMA TaleStepInv == TaleInv /\ [SpansNext]_vars => TaleInv'
<1> SUFFICES ASSUME TaleInv, [SpansNext]_vars PROVE TaleInv'
  OBVIOUS
<1>1. SpansInv' /\ OnHub' /\ Tales'
  BY SpansStepInv, OnHubStep, TalesStep DEF TaleInv
<1>2. \A ch \in Chans : Delivers(ch)
  BY UsesHub, HubDelivers DEF TaleInv, SpansInv
<1>3. Unborn'
  BY <1>2 DEF Unborn, Delivers
<1> QED
  BY <1>1, <1>3 DEF TaleInv

LEMMA TaleInitInv == SpansInit => TaleInv
<1> SUFFICES ASSUME SpansInit PROVE TaleInv
  OBVIOUS
<1>1. SpansInv
  BY SpansInitInv
<1>2. OnHub /\ Unborn /\ Tales
  BY DEF SpansInit, Init, OnHub, Unborn, Tales, Begun
<1> QED
  BY <1>1, <1>2 DEF TaleInv

\* A story has only what was emitted, and at most the last record is coming.
LEMMA TaleIsComplete == TaleInv => CompleteStory
<1> SUFFICES ASSUME TaleInv, NEW ch \in subs, NEW s \in Span, missed[ch] = {},
                    NEW b \in ToSet(log[ch]), b.span = s, b.kind = "start"
             PROVE  LET story == {r \in ToSet(log[ch]) : r.span = s}
                        all   == ToSet(emitted[s])
                    IN  \/ story = all
                        \/ \E p \in Procs : /\ rec[p] \in all
                                            /\ story = all \ {rec[p]}
  BY DEF CompleteStory
<1> DEFINE story == {r \in ToSet(log[ch]) : r.span = s}
           all   == ToSet(emitted[s])
<1>0. SpansInv /\ ch \in Chans
  BY DEF TaleInv, SpansInv, IInv, TypeOK
<1>1. \A r \in ToSet(log[ch]) : r \in called
  BY <1>0 DEF SpansInv, IInv, Freshness, ToSet
<1>2. emitted[s] \in Seq(SpanRecord) /\ SpanRecord \subseteq Record
  BY <1>0, RecordAssumption DEF SpansInv, SpansTypeOK
<1>3. story \subseteq all
  <2> SUFFICES ASSUME NEW r \in story PROVE r \in all
    OBVIOUS
  <2>1. r \in SpanRecord /\ Told(r) /\ r.span = s /\ r.n \in Nat
    BY <1>0, <1>1, MaxRecordsAssumption DEF SpansInv, Stories, SpanRecord
  <2>2. r.n + 1 \in DOMAIN emitted[s] /\ r = emitted[s][r.n + 1]
    BY <1>2, <2>1 DEF Told
  <2> QED
    BY <2>2 DEF ToSet
<1>4. Begun(ch, s)
  <2>1. Has(ch, b) /\ b \in called
    BY <1>1 DEF Has, ToSet
  <2> QED
    BY <2>1 DEF Begun
<1>5. ASSUME NEW e \in all, e \notin story
      PROVE  /\ \E p \in Procs : rec[p] = e
             /\ e = emitted[s][Len(emitted[s])]
  <2>1. PICK i \in DOMAIN emitted[s] : e = emitted[s][i]
    BY <1>5 DEF ToSet
  <2>2. e.span = s /\ e.n = i - 1 /\ e \in Record
    BY <1>0, <1>2, <2>1 DEF SpansInv, Stories
  <2>3. ~ Has(ch, e)
    BY <1>5, <2>2 DEF Has, ToSet
  <2>4. Reaches(e, ch)
    BY <1>0, <1>4, <2>1 DEF TaleInv, Tales
  <2>5. PICK p \in Procs : rec[p] = e
    BY <2>3, <2>4 DEF Reaches
  <2>6. e.n = Len(emitted[s]) - 1
    BY <1>0, <2>2, <2>5, NoneAssumption DEF SpansInv, Turns, TurnOf, InFlight
  <2>7. i = Len(emitted[s])
    BY <1>2, <2>2, <2>6
  <2> QED
    BY <2>1, <2>5, <2>7
<1>6. CASE \E e \in all : e \notin story
  <2>1. PICK e \in all : e \notin story
    BY <1>6
  <2>2. PICK p \in Procs : rec[p] = e
    BY <1>5, <2>1
  <2>3. \A x \in all : x \notin story => x = e
    BY <1>5, <2>1
  <2>4. story = all \ {e}
    BY <1>3, <2>1, <2>3
  <2> QED
    BY <2>1, <2>2, <2>4
<1>7. CASE all \subseteq story
  BY <1>3, <1>7
<1> QED
  BY <1>6, <1>7

\* A subscriber that has the start of a span, is registered and never had a
\* full buffer has every record of the span, but for the one that is being
\* published (sap.go:231, 252; hub.go:52).
THEOREM StoriesAreComplete == SpansSpec => []CompleteStory
  BY TaleInitInv, TaleStepInv, TaleIsComplete, PTL DEF SpansSpec

-----------------------------------------------------------------------------
\* The view of a log (module SpanView)

\* A store that can tell a span's last attribute.
Drawn(v) ==
  /\ DOMAIN v = {"allow", "roots", "byID", "node", "stale"}
  /\ v.allow = FALSE /\ v.byID \subseteq Span /\ DOMAIN v.node = Span
  /\ \A x \in Span : DOMAIN v.node[x] = DOMAIN View!Blank
  /\ \A x \in v.byID : \E q : v.node[x].attrs = Shown(q)

\* A span is shown in w as in v.
Alike(v, w, x) ==
  /\ w.node[x].up = v.node[x].up /\ w.node[x].attrs = v.node[x].attrs
  /\ w.node[x].done = v.node[x].done /\ w.node[x].how = v.node[x].how

LEMMA KindsAre ==
  ASSUME NEW r \in SpanRecord
  PROVE  /\ r.span \in Span /\ r.span # None
         /\ \/ r.kind = "start" /\ r.kind \notin Terminal
            \/ r.kind = "update" /\ r.kind \notin Terminal
            \/ r.kind = "event" /\ r.kind \notin Terminal
            \/ r.kind \in Terminal /\ r.kind \notin {"start", "update", "event"}
BY ViewAssumption, SpanAssumption DEF SpanRecord, Kinds

LEMMA ShowsStart ==
  ASSUME NEW v, Drawn(v), NEW r \in SpanRecord, r.kind = "start",
         parentOf[r.span] \in Span \cup {None},
         NEW w, w = View!Apply(v, Message(r))
  PROVE  /\ Drawn(w)
         /\ IF r.span \notin v.byID /\ parentOf[r.span] \in v.byID \cup {None}
            THEN /\ w.byID = v.byID \cup {r.span}
                 /\ w.node[r.span].up = parentOf[r.span]
                 /\ w.node[r.span].attrs = Shown(r)
                 /\ w.node[r.span].done = FALSE
                 /\ \A x \in Span : x # r.span => Alike(v, w, x)
            ELSE w = v
<1> DEFINE s == r.span
           u == parentOf[s]
           m == Message(r)
<1>1. /\ s \in Span /\ s # None /\ m.kind = "start" /\ m.id = s /\ m.up = u
      /\ m.at = None /\ m.attrs = Shown(r)
  BY KindsAre DEF Message
<1> HIDE DEF m
<1>2. w = View!ApplyStarted(v, m)
  BY <1>1 DEF View!Apply, m
<1>3. View!Ignored(v, m) <=> ~ (s \notin v.byID /\ u \in v.byID \cup {None})
  BY <1>1 DEF View!Ignored, View!Orphan, Drawn
<1>4. CASE View!Ignored(v, m)
  BY <1>2, <1>3, <1>4 DEF View!ApplyStarted
<1>5. CASE ~View!Ignored(v, m)
  <2> DEFINE span == [View!Blank EXCEPT !.up = u, !.at = View!TimeValue(None),
                                        !.attrs = Shown(r)]
             born == [v EXCEPT !.byID = v.byID \cup {s},
                               !.node = [v.node EXCEPT ![s] = span]]
  <2>1. /\ DOMAIN span = DOMAIN View!Blank /\ span.up = u
        /\ span.attrs = Shown(r) /\ span.done = FALSE
    BY DEF View!Blank
  <2> HIDE DEF span
  <2>2. w = IF u \in v.byID
            THEN [born EXCEPT !.node[u].kids = View!AddLast(@, s)]
            ELSE [born EXCEPT !.roots = View!AddLast(@, s)]
    BY <1>1, <1>2, <1>5 DEF View!ApplyStarted, span
  <2>3. /\ DOMAIN born = DOMAIN v /\ born.byID = v.byID \cup {s}
        /\ born.node = [v.node EXCEPT ![s] = span] /\ born.allow = v.allow
    BY DEF Drawn
  <2>4. /\ DOMAIN born.node = Span /\ born.node[s] = span
        /\ \A x \in Span : x # s => born.node[x] = v.node[x]
        /\ s \notin v.byID /\ v.byID \subseteq Span
    BY <1>1, <1>3, <1>5, <2>3 DEF Drawn
  <2> HIDE DEF born
  <2>5. CASE u \in v.byID
    <3> DEFINE kids == View!AddLast(born.node[u].kids, s)
    <3>1. /\ w = [born EXCEPT !.node = [born.node EXCEPT ![u] =
                    [born.node[u] EXCEPT !.kids = kids]]]
          /\ u \in Span /\ u # s
      BY <2>2, <2>4, <2>5
    <3> HIDE DEF kids
    <3>2. /\ DOMAIN w = DOMAIN v /\ w.byID = born.byID /\ w.allow = v.allow
          /\ w.node = [born.node EXCEPT ![u] =
                         [born.node[u] EXCEPT !.kids = kids]]
      BY <2>3, <3>1 DEF Drawn
    <3>3. /\ DOMAIN w.node = Span
          /\ \A x \in Span : x # u => w.node[x] = born.node[x]
          /\ w.node[u] = [v.node[u] EXCEPT !.kids = kids]
      BY <2>4, <3>1, <3>2
    <3>4. Alike(v, w, u) /\ DOMAIN w.node[u] = DOMAIN v.node[u]
      BY <3>1, <3>3 DEF Alike, Drawn, View!Blank
    <3>5. \A x \in Span : x # s => Alike(v, w, x) /\ DOMAIN w.node[x] = DOMAIN v.node[x]
      BY <2>4, <3>3, <3>4 DEF Alike
    <3>6. w.node[s] = span /\ w.byID = v.byID \cup {s}
      BY <1>1, <2>3, <2>4, <3>1, <3>2, <3>3
    <3>7. Drawn(w)
      <4>1. /\ DOMAIN w = {"allow", "roots", "byID", "node", "stale"}
            /\ w.allow = FALSE /\ w.byID \subseteq Span /\ DOMAIN w.node = Span
        BY <1>1, <3>2, <3>3, <3>6 DEF Drawn
      <4>2. \A x \in Span : DOMAIN w.node[x] = DOMAIN View!Blank
        BY <2>1, <3>5, <3>6 DEF Drawn
      <4>3. \A x \in w.byID : \E q : w.node[x].attrs = Shown(q)
        <5>1. w.node[s].attrs = Shown(r)
          BY <2>1, <3>6
        <5>2. \A x \in v.byID : x # s => w.node[x].attrs = v.node[x].attrs
          BY <2>4, <3>5 DEF Alike
        <5> QED
          BY <3>6, <5>1, <5>2 DEF Drawn
      <4> QED
        BY <4>1, <4>2, <4>3 DEF Drawn
    <3> QED
      BY <1>3, <1>5, <2>1, <3>5, <3>6, <3>7
  <2>6. CASE u \notin v.byID
    <3>1. /\ DOMAIN w = DOMAIN v /\ w.byID = born.byID /\ w.allow = v.allow
          /\ w.node = born.node
      BY <2>2, <2>3, <2>6 DEF Drawn
    <3>2. \A x \in Span : x # s => Alike(v, w, x) /\ DOMAIN w.node[x] = DOMAIN v.node[x]
      BY <2>4, <3>1 DEF Alike
    <3>3. w.node[s] = span /\ w.byID = v.byID \cup {s}
      BY <2>3, <2>4, <3>1
    <3>4. Drawn(w)
      BY <1>1, <2>1, <2>4, <3>1, <3>2, <3>3 DEF Drawn, Alike
    <3> QED
      BY <1>3, <1>5, <2>1, <3>2, <3>3, <3>4
  <2> QED
    BY <2>5, <2>6
<1> QED
  BY <1>4, <1>5

\* One attribute in place of the last.
LEMMA MergeOne ==
  ASSUME NEW q, NEW r
  PROVE  View!FoldLeft(View!Merge, Shown(q), Shown(r)) = Shown(r)
<1> DEFINE old == Shown(q)
           new == Shown(r)
           it == [S \in SUBSET DOMAIN new |->
                    IF S = {} THEN old ELSE View!Merge(old, new[1])]
<1>1. DOMAIN new = {1} /\ new[1] = [key |-> "k", val |-> r.n]
      /\ Len(old) = 1 /\ old[1].key = "k"
  BY DEF Shown
<1>2. View!Merge(old, new[1]) = new
  <2>1. {i \in 1 .. Len(old) : old[i].key = new[1].key} = {1}
    BY <1>1
  <2>2. View!Min({1}) = 1
    BY DEF View!Min
  <2>3. View!Merge(old, new[1]) = [old EXCEPT ![1] = new[1]]
    <3> DEFINE a == new[1]
               I == {i \in 1 .. Len(old) : old[i].key = a.key}
    <3>1. I = {1} /\ a.key # None
      BY <1>1, ViewAssumption
    <3> DEFINE i == IF I # {} THEN View!Min(I) ELSE 0
    <3>2. View!Merge(old, a) =
            CASE a.key = None -> old
              [] a.key # None /\ i # 0 -> [old EXCEPT ![i] = a]
              [] OTHER -> Append(old, a)
      BY DEF View!Merge, View!SelectInSeq
    <3>3. i = 1
      <4> HIDE DEF I
      <4> QED
        BY <2>2, <3>1
    <3> HIDE DEF I, old, new, i
    <3>4. View!Merge(old, a) = [old EXCEPT ![i] = a]
      BY <3>1, <3>2, <3>3
    <3> QED
      BY <3>3, <3>4
  <2> QED
    BY <2>3 DEF Shown
<1> DEFINE Iter(g) == g = [S \in SUBSET DOMAIN new |->
                             IF S = {} THEN old
                             ELSE View!Merge(g[S \ {View!Max(S)}],
                                             new[View!Max(S)])]
           h == CHOOSE g : Iter(g)
<1>3. View!FoldLeft(View!Merge, old, new) = h[DOMAIN new]
  BY DEF View!FoldLeft, View!MapThenFoldSet
<1>4. View!Max({1}) = 1
  BY DEF View!Max
<1> HIDE DEF old, new
<1>5. Iter(it)
  <2>1. ASSUME NEW S \in SUBSET DOMAIN new
        PROVE  it[S] = IF S = {} THEN old
                       ELSE View!Merge(it[S \ {View!Max(S)}], new[View!Max(S)])
    <3>1. S = {} \/ S = {1}
      BY <1>1
    <3>2. CASE S = {}
      BY <3>2
    <3>3. CASE S = {1}
      <4>1. S \ {View!Max(S)} = {} /\ new[View!Max(S)] = new[1]
        BY <1>4, <3>3
      <4>2. it[{}] = old /\ it[S] = View!Merge(old, new[1]) /\ S # {}
        BY <3>3
      <4> QED
        BY <4>1, <4>2
    <3> QED
      BY <3>1, <3>2, <3>3
  <2> HIDE DEF it
  <2>2. it = [S \in SUBSET DOMAIN new |-> it[S]]
    BY DEF it
  <2> QED
    BY <2>1, <2>2
<1>6. Iter(h)
  <2> HIDE DEF Iter
  <2> QED
    BY <1>5
<1> HIDE DEF h
<1>7. h[{}] = old /\ h[{1}] = View!Merge(h[{}], new[1])
  <2>1. \A S \in SUBSET DOMAIN new :
          h[S] = IF S = {} THEN old
                 ELSE View!Merge(h[S \ {View!Max(S)}], new[View!Max(S)])
    BY <1>6
  <2>2. {} \in SUBSET DOMAIN new /\ {1} \in SUBSET DOMAIN new /\ {1} \ {1} = {}
    BY <1>1
  <2>3. h[{}] = old
    BY <2>1, <2>2
  <2>4. h[{1}] = View!Merge(h[{1} \ {1}], new[1])
    BY <1>4, <2>1, <2>2
  <2> QED
    BY <2>2, <2>3, <2>4
<1> QED
  BY <1>1, <1>2, <1>3, <1>7 DEF old, new

\* What a record that is not ignored does to its span.
Takes(v, w, r) ==
  LET old == v.node[r.span]
      new == w.node[r.span]
  IN  /\ new.up = old.up
      /\ r.kind = "update" => new.attrs = Shown(r)
      /\ r.kind # "update" => new.attrs = old.attrs
      /\ new.done <=> r.kind \in Terminal
      /\ r.kind \in Terminal => new.how = r.kind

\* A node written twice is what was written last.
Written(v, s, a) == [v EXCEPT !.node = [v.node EXCEPT ![s] = a]]

LEMMA OverAgain ==
  ASSUME NEW v, Drawn(v), NEW s \in Span, NEW a
  PROVE  /\ Written(v, s, a).node[s] = a
         /\ \A b : Written(Written(v, s, a), s, b) = Written(v, s, b)
<1>1. DOMAIN v.node = Span /\ "node" \in DOMAIN v
  BY DEF Drawn
<1>2. PICK w : w = Written(v, s, a)
  OBVIOUS
<1>3. w.node = [v.node EXCEPT ![s] = a] /\ DOMAIN w = DOMAIN v
      /\ \A f \in DOMAIN v : f # "node" => w[f] = v[f]
  BY <1>1, <1>2 DEF Written
<1>4. ASSUME NEW b
      PROVE  Written(w, s, b) = Written(v, s, b)
  <2>1. [w.node EXCEPT ![s] = b] = [v.node EXCEPT ![s] = b]
    BY <1>1, <1>3
  <2>2. PICK f : f = [v.node EXCEPT ![s] = b]
    OBVIOUS
  <2>3. [w EXCEPT !.node = f] = [v EXCEPT !.node = f]
    BY <1>1, <1>3
  <2> QED
    BY <2>1, <2>2, <2>3 DEF Written
<1>5. w.node[s] = a
  BY <1>1, <1>3
<1> QED
  BY <1>2, <1>4, <1>5

LEMMA EndedNode ==
  ASSUME NEW v, Drawn(v), NEW m, m.id \in Span, View!Writable(v, m.id)
  PROVE  LET n1 == [v.node[m.id] EXCEPT !.done = TRUE]
             n2 == [n1 EXCEPT !.endedAt = View!TimeValue(m.at)]
             n3 == [n2 EXCEPT !.how = m.how]
             n  == [n3 EXCEPT !.error = m.error]
         IN  View!ApplyEnded(v, m) = Written(v, m.id, n)
<1>1. PICK s \in Span : s = m.id
  OBVIOUS
<1>2. PICK n1 : n1 = [v.node[s] EXCEPT !.done = TRUE]
  OBVIOUS
<1>3. PICK n2 : n2 = [n1 EXCEPT !.endedAt = View!TimeValue(m.at)]
  OBVIOUS
<1>4. PICK n3 : n3 = [n2 EXCEPT !.how = m.how]
  OBVIOUS
<1>5. PICK n : n = [n3 EXCEPT !.error = m.error]
  OBVIOUS
<1>6. PICK w1 : w1 = Written(v, s, [v.node[s] EXCEPT !.done = TRUE])
  OBVIOUS
<1>7. PICK w2 : w2 = Written(w1, s, [w1.node[s] EXCEPT !.endedAt = View!TimeValue(m.at)])
  OBVIOUS
<1>8. PICK w3 : w3 = Written(w2, s, [w2.node[s] EXCEPT !.how = m.how])
  OBVIOUS
<1>9. View!ApplyEnded(v, m) = Written(w3, s, [w3.node[s] EXCEPT !.error = m.error])
  <2>1. View!ApplyEnded(v, m) =
          [v EXCEPT !.node[s].done = TRUE,
                    !.node[s].endedAt = View!TimeValue(m.at),
                    !.node[s].how = m.how, !.node[s].error = m.error]
    BY <1>1 DEF View!ApplyEnded
  <2> QED
    BY <1>6, <1>7, <1>8, <2>1 DEF Written
<1>10. w1 = Written(v, s, n1)
  BY <1>2, <1>6
<1>11. w2 = Written(v, s, n2)
  BY <1>3, <1>7, <1>10, OverAgain
<1>12. w3 = Written(v, s, n3)
  BY <1>4, <1>8, <1>11, OverAgain
<1>13. View!ApplyEnded(v, m) = Written(v, s, n)
  BY <1>5, <1>9, <1>12, OverAgain
<1> QED
  BY <1>1, <1>2, <1>3, <1>4, <1>5, <1>13

LEMMA ShowsRest ==
  ASSUME NEW v, Drawn(v), NEW r \in SpanRecord, r.kind # "start",
         NEW w, w = View!Apply(v, Message(r))
  PROVE  /\ Drawn(w) /\ w.byID = v.byID
         /\ \A x \in Span : x # r.span => Alike(v, w, x)
         /\ IF r.span \in v.byID /\ ~v.node[r.span].done THEN Takes(v, w, r)
            ELSE w = v
<1> DEFINE s == r.span
           m == Message(r)
           Kept == /\ Drawn(w) /\ w.byID = v.byID
                   /\ \A x \in Span : x # s => Alike(v, w, x)
<1>1. s \in Span /\ DOMAIN v.node = Span /\ DOMAIN v.node[s] = DOMAIN View!Blank
      /\ v.byID \subseteq Span
  BY KindsAre DEF Drawn
<1>a. View!Writable(v, s) <=> s \in v.byID /\ ~v.node[s].done
  BY DEF View!Writable
\* What is written changes the node of the span, and nothing else.
<1>2. ASSUME NEW n, DOMAIN n = DOMAIN View!Blank,
             w = [v EXCEPT !.node = [v.node EXCEPT ![s] = n]],
             \E q : n.attrs = Shown(q)
      PROVE  Kept /\ w.node[s] = n
  <2>1. /\ DOMAIN w = DOMAIN v /\ w.byID = v.byID /\ w.allow = v.allow
        /\ w.node = [v.node EXCEPT ![s] = n]
    BY <1>2 DEF Drawn
  <2>2. /\ DOMAIN w.node = Span /\ w.node[s] = n
        /\ \A x \in Span : x # s => w.node[x] = v.node[x]
    BY <1>1, <2>1
  <2>3. Drawn(w)
    BY <1>2, <2>1, <2>2 DEF Drawn
  <2> QED
    BY <2>1, <2>2, <2>3 DEF Alike
<1>3. ASSUME ~View!Writable(v, s), w = v
      PROVE  Kept
  BY <1>3 DEF Alike
<1>4. CASE ~View!Writable(v, s)
  <2>1. m.id = s
    BY KindsAre DEF Message
  <2> HIDE DEF m
  <2>2. View!ApplyUpdated(v, m) = v /\ View!ApplyEnded(v, m) = v
        /\ View!ApplyEvent(v, m) = v
    BY <1>4, <2>1 DEF View!ApplyUpdated, View!ApplyEnded, View!ApplyEvent
  <2>3. m.kind \in {"update", "end", "event"}
    BY KindsAre DEF Message, m
  <2>4. w = v
    BY <2>2, <2>3 DEF View!Apply, m
  <2> QED
    BY <1>a, <1>3, <1>4, <2>4
<1>5. ASSUME View!Writable(v, s), r.kind = "update"
      PROVE  Kept /\ Takes(v, w, r)
  <2>1. m.kind = "update" /\ m.id = s /\ m.attrs = Shown(r) /\ r.kind \notin Terminal
    BY <1>5, KindsAre DEF Message
  <2> HIDE DEF m
  <2>2. w = View!ApplyUpdated(v, m)
    BY <2>1 DEF View!Apply, m
  <2>3. s \in v.byID /\ ~v.node[s].done
    BY <1>a, <1>5
  <2>4. PICK q : v.node[s].attrs = Shown(q)
    BY <2>3 DEF Drawn
  <2> DEFINE n == [v.node[s] EXCEPT !.attrs = Shown(r)]
  <2>5. w = [v EXCEPT !.node = [v.node EXCEPT ![s] = n]]
    BY <1>5, <2>1, <2>2, <2>4, MergeOne DEF View!ApplyUpdated
  <2>6. /\ DOMAIN n = DOMAIN View!Blank /\ n.up = v.node[s].up
        /\ n.attrs = Shown(r) /\ n.done = v.node[s].done
    BY <1>1 DEF View!Blank
  <2> HIDE DEF n
  <2>7. Kept /\ w.node[s] = n
    BY <1>2, <2>5, <2>6
  <2> HIDE DEF Kept
  <2> QED
    BY <1>5, <2>1, <2>3, <2>6, <2>7 DEF Takes
<1>6. ASSUME View!Writable(v, s), r.kind = "event"
      PROVE  Kept /\ Takes(v, w, r)
  <2>1. m.kind = "event" /\ m.id = s /\ r.kind \notin Terminal
    BY <1>6, KindsAre DEF Message
  <2> HIDE DEF m
  <2>2. w = View!ApplyEvent(v, m)
    BY <2>1 DEF View!Apply, m
  <2>3. s \in v.byID /\ ~v.node[s].done
    BY <1>a, <1>6
  <2> DEFINE evs == Append(v.node[s].events,
                      [at |-> View!TimeValue(m.at), severity |-> m.severity,
                       attrs |-> m.attrs])
             n == [v.node[s] EXCEPT !.events = evs]
  <2>5. w = [v EXCEPT !.node = [v.node EXCEPT ![s] = n]]
    BY <1>6, <2>1, <2>2 DEF View!ApplyEvent
  <2> HIDE DEF evs
  <2>6. /\ DOMAIN n = DOMAIN View!Blank /\ n.up = v.node[s].up
        /\ n.attrs = v.node[s].attrs /\ n.done = v.node[s].done
    BY <1>1 DEF View!Blank
  <2> HIDE DEF n
  <2>7. \E q : n.attrs = Shown(q)
    BY <2>3, <2>6 DEF Drawn
  <2>8. Kept /\ w.node[s] = n
    BY <1>2, <2>5, <2>6, <2>7
  <2> HIDE DEF Kept
  <2> QED
    BY <1>6, <2>1, <2>3, <2>6, <2>8 DEF Takes
<1>7. ASSUME View!Writable(v, s), r.kind \in Terminal
      PROVE  Kept /\ Takes(v, w, r)
  <2>1. m.kind = "end" /\ m.id = s /\ m.how = r.kind /\ r.kind # "update"
    BY <1>7, KindsAre DEF Message
  <2> HIDE DEF m
  <2>2. w = View!ApplyEnded(v, m)
    BY <2>1 DEF View!Apply, m
  <2>3. s \in v.byID /\ ~v.node[s].done
    BY <1>a, <1>7
  <2> DEFINE n1 == [v.node[s] EXCEPT !.done = TRUE]
             n2 == [n1 EXCEPT !.endedAt = View!TimeValue(m.at)]
             n3 == [n2 EXCEPT !.how = m.how]
             n == [n3 EXCEPT !.error = m.error]
  <2>5. w = [v EXCEPT !.node = [v.node EXCEPT ![s] = n]]
    <3>1. m.id \in Span /\ View!Writable(v, m.id)
      BY <1>1, <1>7, <2>1
    <3> QED
      BY <2>1, <2>2, <3>1, EndedNode DEF Written
  <2>6. /\ DOMAIN n = DOMAIN View!Blank /\ n.up = v.node[s].up
        /\ n.attrs = v.node[s].attrs /\ n.done = TRUE /\ n.how = r.kind
    BY <1>1, <2>1 DEF View!Blank
  <2> HIDE DEF n
  <2>7. \E q : n.attrs = Shown(q)
    BY <2>3, <2>6 DEF Drawn
  <2>8. Kept /\ w.node[s] = n
    BY <1>2, <2>5, <2>6, <2>7
  <2> HIDE DEF Kept
  <2> QED
    BY <1>7, <2>1, <2>3, <2>6, <2>8 DEF Takes
<1>8. CASE View!Writable(v, s)
  <2>1. r.kind = "update" \/ r.kind = "event" \/ r.kind \in Terminal
    BY KindsAre
  <2>2. Kept /\ Takes(v, w, r)
    BY <1>5, <1>6, <1>7, <1>8, <2>1
  <2> QED
    BY <1>a, <1>8, <2>2
<1> QED
  BY <1>4, <1>8

-----------------------------------------------------------------------------
\* A log is tidy when its records come as SpanOrder and StartFirst say.
Tidy(l) ==
  /\ l \in Seq(SpanRecord)
  /\ \A i \in DOMAIN l : l[i].kind = "start" <=> l[i].n = 0
  /\ \A i, j \in DOMAIN l :
       i < j /\ l[i].span = l[j].span => l[i].n < l[j].n /\ l[i].kind \notin Terminal
  /\ \A i, j \in DOMAIN l :
       i < j /\ l[j].kind = "start" => parentOf[l[i].span] # l[j].span

\* The positions of a span's records among the first k.
Of(l, k, s) == {i \in 1 .. k : l[i].span = s}

\* A span is shown as the first k records of the log say.
Shows(v, l, k, s) ==
  LET node == v.node[s]
  IN  /\ node.up = parentOf[s]
      /\ \E i \in Of(l, k, s) :
           /\ l[i].kind \in {"start", "update"} /\ node.attrs = Shown(l[i])
           /\ \A j \in Of(l, k, s) : l[j].kind \in {"start", "update"} => j <= i
      /\ node.done <=> \E i \in Of(l, k, s) : l[i].kind \in Terminal
      /\ node.done => \E i \in Of(l, k, s) : l[i].kind \in Terminal /\ node.how = l[i].kind

\* What the store has become after the first k records.
Mirrors(v, l, k) ==
  /\ Drawn(v)
  /\ \A s \in Span :
       /\ s \in v.byID <=> /\ \E i \in Of(l, k, s) : l[i].kind = "start"
                           /\ parentOf[s] \in v.byID \cup {None}
       /\ s \in v.byID => Shows(v, l, k, s)

LEMMA EmptyMirrors ==
  ASSUME NEW l
  PROVE  Mirrors(View!Empty(FALSE), l, 0)
<1>1. \A s \in Span : Of(l, 0, s) = {}
  BY DEF Of
<1>2. Drawn(View!Empty(FALSE)) /\ View!Empty(FALSE).byID = {}
  BY DEF Drawn, View!Empty
<1> HIDE DEF View!Empty
<1> QED
  BY <1>1, <1>2 DEF Mirrors

LEMMA OneMore ==
  ASSUME NEW l, NEW k \in Nat, NEW s
  PROVE  Of(l, k + 1, s) = IF l[k + 1].span = s THEN Of(l, k, s) \cup {k + 1}
                           ELSE Of(l, k, s)
<1>1. 1 .. (k + 1) = (1 .. k) \cup {k + 1}
  OBVIOUS
<1> QED
  BY <1>1 DEF Of

\* A record of another span changes nothing that a span shows.
LEMMA ShowsAside ==
  ASSUME NEW v, NEW w, NEW l, NEW k \in Nat, NEW s, s # l[k + 1].span,
         Alike(v, w, s), Shows(v, l, k, s)
  PROVE  Shows(w, l, k + 1, s)
<1>1. Of(l, k + 1, s) = Of(l, k, s)
  BY OneMore
<1> QED
  BY <1>1 DEF Alike, Shows

LEMMA StartMirrors ==
  ASSUME NEW l, Tidy(l), parentOf \in [Span -> Span \cup {None}],
         NEW k \in Nat, k + 1 \in DOMAIN l, l[k + 1].kind = "start",
         NEW v, Mirrors(v, l, k), NEW w, w = View!Apply(v, Message(l[k + 1]))
  PROVE  Mirrors(w, l, k + 1)
<1> DEFINE r == l[k + 1]
           s == r.span
           u == parentOf[s]
<1>0. r \in SpanRecord /\ s \in Span /\ r.n = 0 /\ u \in Span \cup {None}
  BY KindsAre DEF Tidy
<1>1. \A i \in 1 .. k : i \in DOMAIN l /\ i < k + 1 /\ l[i].n >= 0
  <2>1. \A i \in 1 .. k : i \in DOMAIN l /\ i < k + 1
    BY DEF Tidy
  <2>2. \A i \in DOMAIN l : l[i] \in SpanRecord
    BY DEF Tidy
  <2> QED
    BY <2>1, <2>2, MaxRecordsAssumption DEF SpanRecord
<1>2. Of(l, k, s) = {}
  <2> SUFFICES ASSUME NEW i \in 1 .. k, l[i].span = s PROVE FALSE
    BY DEF Of
  <2>1. l[i].n < r.n
    BY <1>1 DEF Tidy
  <2>2. l[i].n \in Int
    <3>1. i \in DOMAIN l
      BY <1>1
    <3>2. l[i] \in SpanRecord
      BY <3>1 DEF Tidy
    <3> QED
      BY <3>2, MaxRecordsAssumption DEF SpanRecord
  <2> QED
    BY <1>0, <1>1, <2>1, <2>2
<1>3. Of(l, k + 1, s) = {k + 1} /\ \A x \in Span : x # s => Of(l, k + 1, x) = Of(l, k, x)
  BY <1>2, OneMore
<1>4. \A i \in 1 .. k : parentOf[l[i].span] # s
  BY <1>1 DEF Tidy
<1>5. s \notin v.byID /\ Drawn(v)
  BY <1>0, <1>2 DEF Mirrors
<1>8. /\ Drawn(w)
      /\ IF u \in v.byID \cup {None}
         THEN /\ w.byID = v.byID \cup {s}
              /\ w.node[s].up = u /\ w.node[s].attrs = Shown(r)
              /\ w.node[s].done = FALSE
              /\ \A x \in Span : x # s => Alike(v, w, x)
         ELSE w = v
  <2>1. r.kind = "start" /\ parentOf[r.span] \in Span \cup {None}
    BY <1>0
  <2>2. r.span \notin v.byID
    BY <1>5
  <2>3. w = View!Apply(v, Message(r))
    OBVIOUS
  <2> HIDE DEF r
  <2>4. /\ Drawn(w)
        /\ IF r.span \notin v.byID /\ parentOf[r.span] \in v.byID \cup {None}
           THEN /\ w.byID = v.byID \cup {r.span}
                /\ w.node[r.span].up = parentOf[r.span]
                /\ w.node[r.span].attrs = Shown(r)
                /\ w.node[r.span].done = FALSE
                /\ \A x \in Span : x # r.span => Alike(v, w, x)
           ELSE w = v
    BY <1>0, <1>5, <2>1, <2>3, ShowsStart
  <2> QED
    BY <2>2, <2>4
<1> HIDE DEF r, s
<1>6. CASE u \in v.byID \cup {None}
  <2>1. /\ Drawn(w) /\ w.byID = v.byID \cup {s}
        /\ w.node[s].up = u /\ w.node[s].attrs = Shown(r) /\ w.node[s].done = FALSE
        /\ \A x \in Span : x # s => Alike(v, w, x)
    BY <1>6, <1>8
  <2>2. Shows(w, l, k + 1, s)
    BY <1>0, <1>3, <2>1, KindsAre DEF Shows, r
  <2>3. ASSUME NEW x \in Span, x # s
        PROVE  /\ x \in w.byID <=> /\ \E i \in Of(l, k + 1, x) : l[i].kind = "start"
                                   /\ parentOf[x] \in w.byID \cup {None}
               /\ x \in w.byID => Shows(w, l, k + 1, x)
    <3>1. Of(l, k, x) # {} => parentOf[x] # s
      BY <1>4 DEF Of
    <3>2. x \in w.byID <=> /\ \E i \in Of(l, k + 1, x) : l[i].kind = "start"
                           /\ parentOf[x] \in w.byID \cup {None}
      BY <1>3, <2>1, <2>3, <3>1 DEF Mirrors
    <3>3. x \in w.byID => Shows(w, l, k + 1, x)
      BY <2>1, <2>3, ShowsAside DEF Mirrors, r, s
    <3> QED
      BY <3>2, <3>3
  <2>4. /\ s \in w.byID /\ \E i \in Of(l, k + 1, s) : l[i].kind = "start"
        /\ parentOf[s] \in w.byID \cup {None}
    BY <1>3, <1>6, <2>1
  <2> QED
    BY <2>1, <2>2, <2>3, <2>4 DEF Mirrors
<1>7. CASE u \notin v.byID \cup {None}
  <2>1. w = v
    BY <1>7, <1>8
  <2>2. \A x \in Span : x # s => Alike(v, w, x)
    BY <2>1 DEF Alike
  <2>3. ASSUME NEW x \in Span, x # s
        PROVE  /\ x \in w.byID <=> /\ \E i \in Of(l, k + 1, x) : l[i].kind = "start"
                                   /\ parentOf[x] \in w.byID \cup {None}
               /\ x \in w.byID => Shows(w, l, k + 1, x)
    <3>1. x \in w.byID => Shows(w, l, k + 1, x)
      BY <2>1, <2>2, <2>3, ShowsAside DEF Mirrors, r, s
    <3> QED
      BY <1>3, <2>1, <2>3, <3>1 DEF Mirrors
  <2> QED
    BY <1>0, <1>5, <1>7, <2>1, <2>3 DEF Mirrors
<1> QED
  BY <1>6, <1>7

LEMMA RestMirrors ==
  ASSUME NEW l, Tidy(l), NEW k \in Nat, k + 1 \in DOMAIN l, l[k + 1].kind # "start",
         NEW v, Mirrors(v, l, k), NEW w, w = View!Apply(v, Message(l[k + 1]))
  PROVE  Mirrors(w, l, k + 1)
<1> DEFINE r == l[k + 1]
           s == r.span
<1>1. r \in SpanRecord /\ s \in Span /\ Drawn(v)
  BY KindsAre DEF Tidy, Mirrors
<1>2. \A i \in Of(l, k, s) : l[i].kind \notin Terminal
  <2>1. \A i \in 1 .. k : i \in DOMAIN l /\ i < k + 1
    BY DEF Tidy
  <2> QED
    BY <2>1 DEF Of, Tidy
<1>3. /\ Drawn(w) /\ w.byID = v.byID
      /\ \A x \in Span : x # s => Alike(v, w, x)
      /\ IF s \in v.byID /\ ~v.node[s].done THEN Takes(v, w, r) ELSE w = v
  <2>1. w = View!Apply(v, Message(r)) /\ r.kind # "start"
    OBVIOUS
  <2> HIDE DEF r
  <2> QED
    BY <1>1, <2>1, ShowsRest
<1>4. Of(l, k + 1, s) = Of(l, k, s) \cup {k + 1} /\ l[k + 1] = r
  BY OneMore
<1>5. ASSUME NEW x \in Span
      PROVE  (\E i \in Of(l, k + 1, x) : l[i].kind = "start") <=>
             (\E i \in Of(l, k, x) : l[i].kind = "start")
  BY OneMore
<1>6. ASSUME s \in v.byID
      PROVE  Shows(w, l, k + 1, s)
  <2>1. Shows(v, l, k, s)
    BY <1>1, <1>6 DEF Mirrors
  <2>2. Takes(v, w, r)
    BY <1>2, <1>3, <1>6, <2>1 DEF Shows
  <2>3. w.node[s].up = parentOf[s]
    BY <2>1, <2>2 DEF Takes, Shows
  <2>4. /\ w.node[s].done <=> \E i \in Of(l, k + 1, s) : l[i].kind \in Terminal
        /\ w.node[s].done => \E i \in Of(l, k + 1, s) :
                               l[i].kind \in Terminal /\ w.node[s].how = l[i].kind
    <3>1. (\E i \in Of(l, k + 1, s) : l[i].kind \in Terminal) <=> r.kind \in Terminal
      BY <1>2, <1>4
    <3>2. w.node[s].done <=> r.kind \in Terminal
      BY <2>2 DEF Takes
    <3>3. r.kind \in Terminal => w.node[s].how = r.kind
      BY <2>2 DEF Takes
    <3> QED
      BY <1>4, <3>1, <3>2, <3>3
  <2>5. \A j \in Of(l, k + 1, s) : j \in Int /\ j <= k + 1
    BY DEF Of
  <2>6. PICK i \in Of(l, k, s) :
           /\ l[i].kind \in {"start", "update"} /\ v.node[s].attrs = Shown(l[i])
           /\ \A j \in Of(l, k, s) : l[j].kind \in {"start", "update"} => j <= i
    BY <2>1 DEF Shows
  <2>7. \E j \in Of(l, k + 1, s) :
           /\ l[j].kind \in {"start", "update"} /\ w.node[s].attrs = Shown(l[j])
           /\ \A m \in Of(l, k + 1, s) : l[m].kind \in {"start", "update"} => m <= j
    <3>1. CASE r.kind = "update"
      <4>1. w.node[s].attrs = Shown(r)
        BY <2>2, <3>1 DEF Takes
      <4> QED
        BY <1>4, <2>5, <3>1, <4>1
    <3>2. CASE r.kind # "update"
      <4>1. w.node[s].attrs = v.node[s].attrs
        BY <2>2, <3>2 DEF Takes
      <4>2. i \in Of(l, k + 1, s) /\ r.kind \notin {"start", "update"}
        BY <1>4, <3>2
      <4>3. \A m \in Of(l, k + 1, s) : l[m].kind \in {"start", "update"} => m <= i
        BY <1>4, <2>6, <4>2
      <4> QED
        BY <2>6, <4>1, <4>2, <4>3
    <3> QED
      BY <3>1, <3>2
  <2> QED
    BY <2>3, <2>4, <2>7 DEF Shows
<1>7. ASSUME NEW x \in Span, x # s, x \in v.byID
      PROVE  Shows(w, l, k + 1, x)
  BY <1>3, <1>7, ShowsAside DEF Mirrors
<1> HIDE DEF r, s
<1>8. \A x \in Span :
        x \in w.byID <=> /\ \E i \in Of(l, k + 1, x) : l[i].kind = "start"
                         /\ parentOf[x] \in w.byID \cup {None}
  BY <1>3, <1>5 DEF Mirrors
<1>9. \A x \in Span : x \in w.byID => Shows(w, l, k + 1, x)
  BY <1>3, <1>6, <1>7
<1> QED
  BY <1>3, <1>8, <1>9 DEF Mirrors

-----------------------------------------------------------------------------
\* Strict inclusion is well founded on finite sets, which gives induction.
LEMMA ByInduction ==
  ASSUME NEW T, 0 \in T, \A n \in Nat : n \in T => n + 1 \in T
  PROVE  Nat \subseteq T
<1> SUFFICES ASSUME NEW c \in Nat, c \notin T PROVE FALSE
  OBVIOUS
<1> DEFINE F == {1 .. n : n \in Nat \ T}
<1>1. F \subseteq FiniteSubsetsOf(Nat) /\ F # {}
  <2>1. \A n \in Nat : 1 .. n \in SUBSET Nat /\ IsFiniteSet(1 .. n)
    BY FS_Interval
  <2> QED
    BY <2>1 DEF FiniteSubsetsOf
<1>2. PICK U \in F : \A V \in F : <<V, U>> \notin StrictSubsetOrdering(Nat)
  <2> HIDE DEF F
  <2> QED
    BY <1>1, FS_StrictSubsetOrderingWellFounded, WFMin
<1>3. PICK n \in Nat \ T : U = 1 .. n
  OBVIOUS
<1>4. n # 0 /\ n - 1 \in Nat /\ (n - 1) + 1 = n
  OBVIOUS
<1>5. n - 1 \notin T
  BY <1>3, <1>4
<1>6. 1 .. (n - 1) \in F /\ 1 .. (n - 1) \subseteq 1 .. n /\ 1 .. (n - 1) # 1 .. n
  <2>1. n \in 1 .. n /\ n \notin 1 .. (n - 1)
    BY <1>4
  <2> QED
    BY <1>4, <1>5, <2>1
<1>7. 1 .. (n - 1) \in SUBSET Nat /\ 1 .. n \in SUBSET Nat
  BY <1>4
<1> QED
  BY <1>2, <1>3, <1>6, <1>7 DEF StrictSubsetOrdering

\* f[n] is what the store has become after the first n records.
Views(f, l, m) ==
  f = [n \in 0 .. m |-> IF n = 0 THEN View!Empty(FALSE)
                        ELSE View!Apply(f[n - 1], Message(l[n]))]

LEMMA ViewsExist ==
  ASSUME NEW l, NEW k \in Nat
  PROVE  \E f : Views(f, l, k)
<1> DEFINE T == {m \in Nat : \E f : Views(f, l, m)}
<1>1. 0 \in T
  <2>1. Views([n \in 0 .. 0 |-> View!Empty(FALSE)], l, 0)
    BY DEF Views
  <2> QED
    BY <2>1
<1>2. ASSUME NEW m \in Nat, m \in T PROVE m + 1 \in T
  <2>1. PICK f : Views(f, l, m)
    BY <1>2
  <2> DEFINE h == [n \in 0 .. m + 1 |->
                     IF n = m + 1 THEN View!Apply(f[m], Message(l[m + 1])) ELSE f[n]]
  <2>2. ASSUME NEW n \in 0 .. m + 1
        PROVE  h[n] = IF n = 0 THEN View!Empty(FALSE)
                      ELSE View!Apply(h[n - 1], Message(l[n]))
    <3>1. CASE n = m + 1
      <4>1. n # 0 /\ n - 1 = m /\ m \in 0 .. m + 1 /\ m # m + 1
        BY <3>1
      <4>2. h[n - 1] = f[m] /\ h[n] = View!Apply(f[m], Message(l[n]))
        BY <3>1, <4>1
      <4> QED
        BY <4>1, <4>2
    <3>2. CASE n # m + 1
      <4>1. n \in 0 .. m
        BY <3>2
      <4>2. f[n] = IF n = 0 THEN View!Empty(FALSE)
                   ELSE View!Apply(f[n - 1], Message(l[n]))
        BY <2>1, <4>1 DEF Views
      <4>3. h[n] = f[n]
        BY <3>2
      <4>4. n # 0 => h[n - 1] = f[n - 1]
        BY <4>1
      <4> HIDE DEF h
      <4> QED
        BY <4>2, <4>3, <4>4
    <3> QED
      BY <3>1, <3>2
  <2>3. Views(h, l, m + 1)
    BY <2>2 DEF Views
  <2> QED
    BY <2>3
<1>3. Nat \subseteq T
  <2> HIDE DEF T
  <2> QED
    BY <1>1, <1>2, ByInduction
<1> QED
  BY <1>3

LEMMA ViewMirrors ==
  ASSUME NEW l, Tidy(l), parentOf \in [Span -> Span \cup {None}]
  PROVE  Mirrors(ViewOf(l), l, Len(l))
<1> DEFINE f == CHOOSE g : Views(g, l, Len(l))
<1>1. ViewOf(l) = f[Len(l)]
  BY DEF ViewOf, Views
<1>2. Len(l) \in Nat /\ DOMAIN l = 1 .. Len(l)
  BY DEF Tidy
<1>3. Views(f, l, Len(l))
  <2>1. \E g : Views(g, l, Len(l))
    BY <1>2, ViewsExist
  <2> QED
    BY <2>1
<1> HIDE DEF f
<1> DEFINE T == {k \in Nat : k <= Len(l) => Mirrors(f[k], l, k)}
<1>4. 0 \in T
  <2>1. f[0] = View!Empty(FALSE)
    BY <1>2, <1>3 DEF Views
  <2> QED
    BY <2>1, EmptyMirrors
<1>5. ASSUME NEW k \in Nat, k \in T PROVE k + 1 \in T
  <2> SUFFICES ASSUME k + 1 <= Len(l) PROVE Mirrors(f[k + 1], l, k + 1)
    OBVIOUS
  <2>1. k + 1 \in DOMAIN l /\ Mirrors(f[k], l, k)
    BY <1>2, <1>5
  <2>2. f[k + 1] = View!Apply(f[k], Message(l[k + 1]))
    <3>1. k + 1 \in 0 .. Len(l) /\ k + 1 # 0 /\ (k + 1) - 1 = k
      BY <1>2
    <3> QED
      BY <1>3, <3>1 DEF Views
  <2> QED
    BY <2>1, <2>2, StartMirrors, RestMirrors
<1>6. Nat \subseteq T
  <2> HIDE DEF T
  <2> QED
    BY <1>4, <1>5, ByInduction
<1> QED
  BY <1>1, <1>2, <1>6

\* The log of every channel is tidy.
LEMMA LogIsTidy ==
  ASSUME SpansInv, NEW ch \in Chans
  PROVE  Tidy(log[ch])
<1> DEFINE l == log[ch]
<1>1. l \in Seq(Record)
  BY DEF SpansInv, IInv, TypeOK
<1>2. \A i \in DOMAIN l : l[i] \in called
  BY DEF SpansInv, IInv, Freshness
<1>3. \A i \in DOMAIN l : l[i] \in SpanRecord /\ Told(l[i])
  BY <1>2 DEF SpansInv, Stories
<1>4. /\ l \in Seq(SpanRecord)
      /\ DOMAIN l = 1 .. Len(l) /\ Len(l) \in Nat
  BY <1>1, <1>3
<1>5. ASSUME NEW i \in DOMAIN l
      PROVE  l[i].kind = "start" <=> l[i].n = 0
  <2> DEFINE r == l[i]
  <2>1. r \in SpanRecord /\ Told(r)
    BY <1>3
  <2> HIDE DEF r
  <2>2. r.span \in Span /\ r.n \in Nat
    BY <2>1, MaxRecordsAssumption DEF SpanRecord
  <2>3. emitted[r.span] \in Seq(SpanRecord)
    BY <2>2 DEF SpansInv, SpansTypeOK
  <2>4. r.n + 1 \in DOMAIN emitted[r.span] /\ emitted[r.span][r.n + 1] = r
    BY <2>1, <2>2, <2>3 DEF Told
  <2>5. r.kind = "start" <=> r.n + 1 = 1
    BY <2>2, <2>4 DEF SpansInv, Stories
  <2> QED
    BY <2>2, <2>5 DEF r
<1>6. \A i, j \in DOMAIN l :
        i < j /\ l[i].span = l[j].span => l[i].n < l[j].n /\ l[i].kind \notin Terminal
  BY DEF SpansInv, SpanOrder
<1>7. \A i, j \in DOMAIN l :
        i < j /\ l[j].kind = "start" => parentOf[l[i].span] # l[j].span
  BY DEF SpansInv, StartFirst
<1> QED
  BY <1>4, <1>5, <1>6, <1>7 DEF Tidy

\* The order of a span's records is that of their numbers.
LEMMA LaterIsGreater ==
  ASSUME NEW l, Tidy(l), NEW i \in DOMAIN l, NEW j \in DOMAIN l, i <= j,
         l[i].span = l[j].span
  PROVE  l[i].n <= l[j].n
<1>1. DOMAIN l = 1 .. Len(l) /\ l[i] \in SpanRecord /\ l[j] \in SpanRecord
  BY DEF Tidy
<1>2. l[i].n \in Int /\ l[j].n \in Int
  BY <1>1, MaxRecordsAssumption DEF SpanRecord
<1>3. i < j \/ i = j
  BY <1>1
<1>4. i < j => l[i].n < l[j].n
  BY DEF Tidy
<1> QED
  BY <1>2, <1>3, <1>4

LEMMA ViewIsRight == SpansInv => ViewIsFaithful
<1> SUFFICES ASSUME SpansInv, NEW ch \in Chans, NEW s \in Span
             PROVE  LET l     == log[ch]
                        view  == ViewOf(l)
                        node  == view.node[s]
                        story == {r \in ToSet(l) : r.span = s}
                        notes == {r \in story : r.kind \in {"start", "update"}}
                        ends  == {r \in story : r.kind \in Terminal}
                    IN  /\ s \in view.byID <=>
                             /\ \E r \in story : r.kind = "start"
                             /\ parentOf[s] \in view.byID \cup {None}
                        /\ s \in view.byID =>
                             /\ node.up = parentOf[s]
                             /\ \E r \in notes : /\ node.attrs = Shown(r)
                                                 /\ \A q \in notes : q.n <= r.n
                             /\ node.done <=> ends # {}
                             /\ node.done => \E r \in ends : node.how = r.kind
  BY DEF ViewIsFaithful
<1> DEFINE l     == log[ch]
           view  == ViewOf(l)
           node  == view.node[s]
           story == {r \in ToSet(l) : r.span = s}
           notes == {r \in story : r.kind \in {"start", "update"}}
           ends  == {r \in story : r.kind \in Terminal}
           at    == Of(l, Len(l), s)
<1>1. Tidy(l)
  BY LogIsTidy
<1> HIDE DEF l
<1>2. Mirrors(view, l, Len(l))
  BY <1>1, ViewMirrors DEF SpansInv, SpansTypeOK
<1> HIDE DEF view
<1>3. DOMAIN l = 1 .. Len(l)
  BY <1>1 DEF Tidy
<1>4. /\ \A i \in at : i \in DOMAIN l /\ l[i].span = s /\ l[i] \in story
      /\ \A r \in story : \E i \in at : l[i] = r
  BY <1>3 DEF Of, ToSet
<1> HIDE DEF at, story
<1>5. s \in view.byID <=> /\ \E r \in story : r.kind = "start"
                          /\ parentOf[s] \in view.byID \cup {None}
  BY <1>2, <1>4 DEF Mirrors, at
<1>6. ASSUME s \in view.byID
      PROVE  /\ node.up = parentOf[s]
             /\ \E r \in notes : /\ node.attrs = Shown(r)
                                 /\ \A q \in notes : q.n <= r.n
             /\ node.done <=> ends # {}
             /\ node.done => \E r \in ends : node.how = r.kind
  <2>1. /\ node.up = parentOf[s]
        /\ \E i \in at :
             /\ l[i].kind \in {"start", "update"} /\ node.attrs = Shown(l[i])
             /\ \A j \in at : l[j].kind \in {"start", "update"} => j <= i
        /\ node.done <=> \E i \in at : l[i].kind \in Terminal
        /\ node.done => \E i \in at : l[i].kind \in Terminal /\ node.how = l[i].kind
    BY <1>2, <1>6 DEF Mirrors, Shows, at
  <2>2. PICK i \in at : /\ l[i].kind \in {"start", "update"} /\ node.attrs = Shown(l[i])
                        /\ \A j \in at : l[j].kind \in {"start", "update"} => j <= i
    BY <2>1
  <2>3. \A q \in notes : q.n <= l[i].n
    BY <1>1, <1>4, <2>2, LaterIsGreater
  <2>4. l[i] \in notes
    BY <1>4, <2>2
  <2>5. node.done <=> ends # {}
    BY <1>4, <2>1
  <2>6. node.done => \E r \in ends : node.how = r.kind
    BY <1>4, <2>1
  <2> QED
    BY <2>1, <2>2, <2>3, <2>4, <2>5, <2>6
<1> QED
  BY <1>5, <1>6 DEF l, view, story

\* What a viewer shows of the spans is what its subscription has received, and
\* it ignores nothing but the spans whose start, or whose parent's start, was
\* lost (state.go:239-275).
THEOREM ViewsAreFaithful == SpansSpec => []ViewIsFaithful
  BY SpansInvariance, ViewIsRight, PTL
=============================================================================
