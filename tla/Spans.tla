------------------------------- MODULE Spans -------------------------------
(***************************************************************************)
(* Spans (src/sap.go) that goroutines start, annotate and end on the hub   *)
(* of module Hub, while others subscribe, cancel and close.                *)
(*                                                                         *)
(* A span's methods hold the span's mutex over the whole Publish, so that  *)
(* the records of one span reach the hub one at a time; Start publishes    *)
(* without it, before it gives the span to anyone.                         *)
(*                                                                         *)
(* The program has this hub and another one that nobody subscribes to; a   *)
(* hub reference may also be nil. A context carries a span and a hub: as   *)
(* ContextWithHub applies to any context, those the program can hold are   *)
(* all the pairs of a span it has been given and a hub. Identifiers are    *)
(* fresh random numbers (newID): a span stands for its own identifier, and *)
(* for that of the trace it is the root of.                                *)
(***************************************************************************)
EXTENDS Hub, SequencesExt

CONSTANTS Span,        \* identities of the spans
          Notes,       \* records that annotate a span: "update", "event"
          Terminal,    \* records that end it: "complete", "error"
          MaxRecords   \* bound: records a span publishes after its start

ASSUME MaxRecordsAssumption == MaxRecords \in Nat
ASSUME SpanAssumption == None \notin Span
ASSUME KindsAssumption == "start" \notin Notes \cup Terminal

VARIABLES
  hubOf,     \* hubOf[s]: Span.hub, None until s is started
  traceOf,   \* traceOf[s]: Span.traceID
  parentOf,  \* parentOf[s]: Span.parentID, None for ""
  ended,     \* ended[s]: Span.ended
  mutex,     \* mutex[s]: the goroutine that holds Span.mu
  known,     \* spans that a Start has returned
  job,       \* job[p]: the call on a span that p is making
  emitted    \* history. emitted[s]: the records s has published, in order

spanVars == <<hubOf, traceOf, parentOf, ended, mutex, known, job, emitted>>
vars     == <<hubVars, spanVars>>

HubRef == {"hub", "other", None}
Kinds  == {"start"} \cup Notes \cup Terminal

\* The records of the spans; n counts those of one span.
SpanRecord == [kind : Kinds, span : Span, n : 0 .. MaxRecords]

ASSUME RecordAssumption == SpanRecord \subseteq Record

NextRecord(s, k) == [kind |-> k, span |-> s, n |-> Len(emitted[s])]

NoJob == [call |-> "none", span |-> None, kind |-> "none"]

Free(p) == pc[p] = "idle" /\ job[p] = NoJob

IsNil(h) == h = None \/ (h = "hub" /\ isNil)

SpansInit ==
  /\ Init
  /\ hubOf = [s \in Span |-> None]
  /\ traceOf = [s \in Span |-> None]
  /\ parentOf = [s \in Span |-> None]
  /\ ended = [s \in Span |-> FALSE]
  /\ mutex = [s \in Span |-> None]
  /\ known = {}
  /\ job = [p \in Procs |-> NoJob]
  /\ emitted = [s \in Span |-> <<>>]

-----------------------------------------------------------------------------
\* Contexts and Start

Contexts == [span : known \cup {None}, hub : HubRef]

\* The hub of package-level Start: the parent's, else the context's.
HubForStart(c) == IF c.span # None THEN hubOf[c.span] ELSE c.hub

\* Mutant of TraceFor: a trace does not cross hubs.
TraceOnSameHub(c, s) ==
  IF c.span # None /\ hubOf[c.span] = c.hub THEN traceOf[c.span] ELSE s

TraceFor(c, s) == IF c.span # None THEN traceOf[c.span] ELSE s

\* Mutant of Handed: the span is given away before its start is published.
HandedEarly(h, s) == known \cup {s}

\* What the program knows when startWithHub calls Publish: on the other hub
\* the record reaches nobody, and Start has as good as returned.
Handed(h, s) == IF h = "hub" THEN known ELSE known \cup {s}

\* startWithHub with a hub that is not nil (with a nil one the span is inert
\* and nothing changes).
StartOn(p, c, h, s) ==
  /\ Free(p)
  /\ ~IsNil(h)
  /\ hubOf[s] = None
  /\ hubOf' = [hubOf EXCEPT ![s] = h]
  /\ traceOf' = [traceOf EXCEPT ![s] = TraceFor(c, s)]
  /\ parentOf' = [parentOf EXCEPT ![s] = c.span]
  /\ emitted' = [emitted EXCEPT ![s] = <<NextRecord(s, "start")>>]
  /\ IF h = "hub"
     THEN /\ PublishCall(p, NextRecord(s, "start"))
          /\ job' = [job EXCEPT ![p] = [call |-> "start", span |-> s,
                                        kind |-> "start"]]
     ELSE UNCHANGED <<hubVars, job>>
  /\ known' = Handed(h, s)
  /\ UNCHANGED <<ended, mutex>>

HubStart(p, c, h, s) == StartOn(p, c, h, s)

Start(p, c, s) == StartOn(p, c, HubForStart(c), s)

StartReturn(p) ==
  /\ job[p].call = "start"
  /\ pc[p] = "idle"
  /\ known' = known \cup {job[p].span}
  /\ job' = [job EXCEPT ![p] = NoJob]
  /\ UNCHANGED <<hubVars, hubOf, traceOf, parentOf, ended, mutex, emitted>>

-----------------------------------------------------------------------------
\* SetAttributes ("update"), AddEvent ("event"), Complete and Error, on any
\* span the program has been given. (Without attributes SetAttributes changes
\* nothing, nor does any method of an inert span.)

Pending(s) == {q \in Procs : job[q].call = "lock" /\ job[q].span = s}

MethodCall(p, s, k) ==
  /\ Free(p)
  /\ Len(emitted[s]) + Cardinality(Pending(s)) <= MaxRecords
  /\ job' = [job EXCEPT ![p] = [call |-> "lock", span |-> s, kind |-> k]]
  /\ UNCHANGED <<hubVars, hubOf, traceOf, parentOf, ended, mutex, known, emitted>>

Annotate(p, s, k) == MethodCall(p, s, k)

End(p, s, k) == MethodCall(p, s, k)

\* Mutant of Unlocked: the methods do without the span's mutex.
NoMutex(s) == TRUE

Unlocked(s) == mutex[s] = None

\* Mutant of Ended: the check is left out.
NeverEnded(s) == FALSE

Ended(s) == ended[s]

MethodSilent(p) ==
  /\ job[p].call = "lock"
  /\ Unlocked(job[p].span)
  /\ Ended(job[p].span)
  /\ job' = [job EXCEPT ![p] = NoJob]
  /\ UNCHANGED <<hubVars, hubOf, traceOf, parentOf, ended, mutex, known, emitted>>

\* With the span's mutex, the record is made and its Publish called.
MethodPublish(p) ==
  LET s == job[p].span
      r == NextRecord(s, job[p].kind)
  IN  /\ job[p].call = "lock"
      /\ Unlocked(s)
      /\ ~Ended(s)
      /\ ended' = [ended EXCEPT ![s] = job[p].kind \in Terminal]
      /\ emitted' = [emitted EXCEPT ![s] = Append(@, r)]
      /\ IF hubOf[s] = "hub"
         THEN /\ PublishCall(p, r)
              /\ mutex' = [mutex EXCEPT ![s] = p]
              /\ job' = [job EXCEPT ![p].call = "publish"]
         ELSE /\ job' = [job EXCEPT ![p] = NoJob]
              /\ UNCHANGED <<hubVars, mutex>>
      /\ UNCHANGED <<hubOf, traceOf, parentOf, known>>

\* The deferred Unlock.
MethodReturn(p) ==
  /\ job[p].call = "publish"
  /\ pc[p] = "idle"
  /\ mutex' = [mutex EXCEPT ![job[p].span] = None]
  /\ job' = [job EXCEPT ![p] = NoJob]
  /\ UNCHANGED <<hubVars, hubOf, traceOf, parentOf, ended, known, emitted>>

-----------------------------------------------------------------------------
SpanStep(p) ==
  \/ StartReturn(p)
  \/ MethodSilent(p)
  \/ MethodPublish(p)
  \/ MethodReturn(p)

SpanCall(p) ==
  \/ \E c \in Contexts, h \in HubRef, s \in Span : HubStart(p, c, h, s)
  \/ \E c \in Contexts, s \in Span : Start(p, c, s)
  \/ \E s \in known, k \in Notes : Annotate(p, s, k)
  \/ \E s \in known, k \in Terminal : End(p, s, k)

\* The calls on the hub that are not made by a span's own methods.
HubCall(p) ==
  /\ Free(p)
  /\ \/ \E ch \in Chans, buffer \in Buffers : SubscribeCall(p, ch, buffer)
     \/ \E ch \in Chans : CancelCall(p, ch)
     \/ CloseCall(p)
  /\ UNCHANGED spanVars

SpansNext ==
  \/ \E p \in Procs : SpanCall(p) \/ SpanStep(p) \/ HubCall(p)
  \/ \E p \in Procs : Step(p) /\ UNCHANGED spanVars
  \/ \E ch \in Chans : Receive(ch) /\ UNCHANGED spanVars

SpansSpec == SpansInit /\ [][SpansNext]_vars

-----------------------------------------------------------------------------
SpansTypeOK ==
  /\ TypeOK
  /\ hubOf \in [Span -> HubRef]
  /\ traceOf \in [Span -> Span \cup {None}]
  /\ parentOf \in [Span -> Span \cup {None}]
  /\ ended \in [Span -> BOOLEAN]
  /\ mutex \in [Span -> Procs \cup {None}]
  /\ known \subseteq Span
  /\ job \in [Procs -> [call : {"none", "start", "lock", "publish"},
                        span : Span \cup {None}, kind : Kinds \cup {"none"}]]
  /\ emitted \in [Span -> Seq(SpanRecord)]

\* Every subscriber, however much it misses, receives the records of a span
\* in the order they were emitted and none after its end: SetAttributes,
\* AddEvent, Complete and Error of several goroutines exclude each other
\* until the record is in every channel (sap.go:102, 175, 252).
SpanOrder ==
  \A ch \in Chans : \A i, j \in DOMAIN log[ch] :
    i < j /\ log[ch][i].span = log[ch][j].span =>
      log[ch][i].n < log[ch][j].n /\ log[ch][i].kind \notin Terminal

\* Every subscriber receives the start of a span before any other record of
\* it, of its children and of its trace: Start publishes before it returns
\* the context and the span (sap.go:231), so nobody can be ahead of it.
StartFirst ==
  \A ch \in Chans : \A i, j \in DOMAIN log[ch] :
    LET s == log[ch][i].span
    IN  i < j /\ log[ch][j].kind = "start" =>
          log[ch][j].span \notin {s, parentOf[s], traceOf[s]}

\* A subscriber that has the start of a span, is still registered and never
\* had a full buffer has every record of that span: all that were emitted,
\* except the one that is being published, if any. (That they are in order is
\* SpanOrder.)
CompleteStory ==
  \A ch \in subs, s \in Span :
    LET story == {r \in ToSet(log[ch]) : r.span = s}
        all   == ToSet(emitted[s])
    IN  missed[ch] = {} /\ (\E r \in story : r.kind = "start") =>
          \/ story = all
          \/ \E p \in Procs : rec[p] \in all /\ story = all \ {rec[p]}

\* A span shares the trace of its parent, whichever hubs the two are on, and
\* a trace has one root.
TracesAreTrees ==
  \A s \in Span : hubOf[s] # None =>
    IF parentOf[s] = None THEN traceOf[s] = s
    ELSE /\ traceOf[s] = traceOf[parentOf[s]]
         /\ parentOf[s] \in known
         /\ parentOf[traceOf[s]] = None
=============================================================================
