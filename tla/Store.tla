------------------------------- MODULE Store -------------------------------
(***************************************************************************)
(* The span tree that a viewer builds from the records it receives         *)
(* (src/state/state.go), as operators on the value of one Store:           *)
(*                                                                         *)
(*   allow  Store.allowUnknownParents                                      *)
(*   roots  the identifiers of Store.roots, in order                       *)
(*   byID   the keys of Store.byID                                         *)
(*   node   node[x]: the SpanState of x, Blank when x is not tracked       *)
(*   stale  Store.staleOpenAt, None for a span that has no mark            *)
(*                                                                         *)
(* The code's recursive walks over Children are stated by the sets of      *)
(* spans they reach; module StoreWalk has the walks and MCStore compares.  *)
(***************************************************************************)
EXTENDS Integers, SequencesExt

CONSTANTS SpanID,   \* span identifiers
          None      \* the empty identifier, an unset time or mark

ASSUME StoreNoneAssumption == None \notin SpanID

Blank == [up |-> None, at |-> None, endedAt |-> None, attrs |-> <<>>,
          events |-> <<>>, kids |-> <<>>, done |-> FALSE, how |-> None,
          error |-> None]

Empty(allow) == [allow |-> allow, roots |-> <<>>, byID |-> {},
                 node |-> [x \in SpanID |-> Blank],
                 stale |-> [x \in SpanID |-> None]]

-----------------------------------------------------------------------------
\* The tree below a span

ClosedUnder(st, S) == \A x \in S : ToSet(st.node[x].kids) \subseteq S

\* X and what its members' Children lead to, step by step.
Below(st, X) ==
  LET closed == {S \in SUBSET SpanID : X \subseteq S /\ ClosedUnder(st, S)}
  IN  {y \in SpanID : \A S \in closed : y \in S}

\* What a walk from the roots meets.
InTree(st) == Below(st, ToSet(st.roots))

Open(st, x) == ~st.node[x].done

FindSpan(st, x) == IF x \in InTree(st) THEN x ELSE None

\* How far y is below the one of the siblings X that it belongs to.
Distance(st, X, y) ==
  Cardinality({z \in Below(st, X) \ {y} : y \in Below(st, {z})})

\* The depth that FindSpan returns with a span.
Depth(st, x) == Distance(st, ToSet(st.roots), x)

HasOpenSpans(st) == \E x \in InTree(st) : Open(st, x)

-----------------------------------------------------------------------------
\* Clear, MarkOpenSpansStale, ClearOpenSpans and LimitRoots

Clear(st) == Empty(st.allow)

\* Mutant of MarkOf: a second disconnection restarts the clock.
MarkAnew(st, x, now) == now

\* An open span keeps the mark it has.
MarkOf(st, x, now) == IF st.stale[x] = None THEN now ELSE st.stale[x]

MarkOpenSpansStale(st, now) ==
  LET open == {x \in InTree(st) : Open(st, x)}
  IN  [st EXCEPT !.stale = [x \in SpanID |-> IF x \in open
                                             THEN MarkOf(st, x, now)
                                             ELSE st.stale[x]]]

\* Mutant of Forget: the mark outlives the span.
ForgetButMark(st, gone) ==
  [st EXCEPT !.byID = @ \ gone,
             !.node = [x \in SpanID |-> IF x \in gone THEN Blank ELSE @[x]]]

\* deleteSpan on every span of the set.
Forget(st, gone) ==
  [st EXCEPT !.byID  = @ \ gone,
             !.node  = [x \in SpanID |-> IF x \in gone THEN Blank ELSE @[x]],
             !.stale = [x \in SpanID |-> IF x \in gone THEN None ELSE @[x]]]

\* What is left of the first n entries when those of gone are taken out.
Without(seq, gone) ==
  LET left[n \in 0 .. Len(seq)] ==
        IF n = 0 THEN <<>>
        ELSE IF seq[n] \in gone THEN left[n - 1]
        ELSE Append(left[n - 1], seq[n])
  IN  left[Len(seq)]

\* Mutants of Doomed: the descendants of an open span stay behind; a closed
\* span goes when anything below it is open.
DoomedAlone(st) == {x \in InTree(st) : Open(st, x)}

DoomedTrees(st) ==
  {x \in InTree(st) : \E y \in Below(st, {x}) : Open(st, y)}

\* The open spans, each with its whole subtree.
Doomed(st) == Below(st, {x \in InTree(st) : Open(st, x)})

\* Every span without the children that are gone.
Pruned(st, gone) ==
  [x \in SpanID |-> [st.node[x] EXCEPT !.kids = Without(@, gone)]]

ClearOpenSpans(st) ==
  LET gone == Doomed(st)
      kept == Forget(st, gone)
  IN  [kept EXCEPT !.roots = Without(@, gone), !.node = Pruned(kept, gone)]

\* Mutant of Excess: one root too many stays.
ExcessButOne(st, limit) == Len(st.roots) - limit - 1

\* How many roots there are too many: the oldest go.
Excess(st, limit) == Len(st.roots) - limit

LimitRoots(st, limit) ==
  LET n == Excess(st, limit)
  IN  IF limit <= 0 THEN Clear(st)
      ELSE IF n <= 0 THEN st
      ELSE [Forget(st, Below(st, ToSet(SubSeq(st.roots, 1, n))))
              EXCEPT !.roots = SubSeq(@, n + 1, Len(@))]

-----------------------------------------------------------------------------
\* Apply, for a record [kind, id, ...] of one of four kinds

\* Mutant of Merge: a repeated key is appended.
MergeAppend(attrs, a) == IF a.key = None THEN attrs ELSE Append(attrs, a)

\* The place of the first attribute with the key, 0 if there is none.
FirstWith(attrs, k) == SelectInSeq(attrs, LAMBDA a : a.key = k)

\* The first attribute with the same key is replaced, in place; one with an
\* empty key is skipped.
Merge(attrs, a) ==
  LET i == FirstWith(attrs, a.key)
  IN  CASE a.key = None -> attrs
        [] a.key # None /\ i # 0 -> [attrs EXCEPT ![i] = a]
        [] OTHER -> Append(attrs, a)

\* timeValue: the nil check compares an interface that holds a *Timestamp, and
\* is never true; AsTime makes a missing timestamp the Unix epoch.
Epoch == 0

TimeValue(ts) == IF ts = None THEN Epoch ELSE ts

\* Mutant of AddLast: the newest comes first.
AddFirst(seq, x) == <<x>> \o seq

AddLast(seq, x) == Append(seq, x)

Orphan(st, r) == r.up # None /\ r.up \notin st.byID

\* Mutants of Ignored: the empty identifier is let through; so is a span with
\* an unknown parent whatever the options say.
IgnoredUnlessEmpty(st, r) == r.id \in st.byID \/ (Orphan(st, r) /\ ~st.allow)

IgnoredUnlessOrphan(st, r) == r.id = None \/ r.id \in st.byID

\* The early returns of applyStarted; a second start of a span is one.
Ignored(st, r) ==
  r.id = None \/ r.id \in st.byID \/ (Orphan(st, r) /\ ~st.allow)

\* With a known parent the span is the parent's last child, whether the parent
\* has ended or not; otherwise it is the last root.
ApplyStarted(st, r) ==
  LET span == [Blank EXCEPT !.up = r.up, !.at = TimeValue(r.at),
                             !.attrs = r.attrs]
      born == [st EXCEPT !.byID = @ \cup {r.id}, !.node[r.id] = span]
  IN  IF Ignored(st, r) THEN st
      ELSE IF r.up \in st.byID
      THEN [born EXCEPT !.node[r.up].kids = AddLast(@, r.id)]
      ELSE [born EXCEPT !.roots = AddLast(@, r.id)]

\* Mutant of Writable: an ended span still takes records.
KnownOnly(st, x) == x \in st.byID

\* Updates, events and ends reach a span that is tracked and has not ended.
Writable(st, x) == x \in st.byID /\ ~st.node[x].done

ApplyUpdated(st, r) ==
  IF ~Writable(st, r.id) THEN st
  ELSE [st EXCEPT !.node[r.id].attrs = FoldLeft(Merge, @, r.attrs)]

ApplyEnded(st, r) ==
  IF ~Writable(st, r.id) THEN st
  ELSE [st EXCEPT !.node[r.id].done = TRUE,
                  !.node[r.id].endedAt = TimeValue(r.at),
                  !.node[r.id].how = r.how,
                  !.node[r.id].error = r.error]

ApplyEvent(st, r) ==
  IF ~Writable(st, r.id) THEN st
  ELSE [st EXCEPT !.node[r.id].events =
          Append(@, [at |-> TimeValue(r.at), severity |-> r.severity,
                     attrs |-> r.attrs])]

Apply(st, r) ==
  CASE r.kind = "start"  -> ApplyStarted(st, r)
    [] r.kind = "update" -> ApplyUpdated(st, r)
    [] r.kind = "end"    -> ApplyEnded(st, r)
    [] r.kind = "event"  -> ApplyEvent(st, r)
=============================================================================
