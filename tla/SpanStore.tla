----------------------------- MODULE SpanStore -----------------------------
(***************************************************************************)
(* One Store of module Store as a viewer drives it: any records, in any    *)
(* order, and Clear, ClearOpenSpans, LimitRoots and MarkOpenSpansStale in  *)
(* between.                                                                *)
(***************************************************************************)
EXTENDS Timeline, FiniteSetsExt

CONSTANTS Records,    \* the records that can arrive
          Limits,     \* arguments of LimitRoots
          Times,      \* readings of the clock
          MaxEvents   \* bound: events of one span that has not ended

ASSUME RecordsAssumption ==
  \A r \in Records : /\ r.kind \in {"start", "update", "end", "event"}
                     /\ r.id \in SpanID \cup {None}
                     /\ r.kind = "start" => r.up \in SpanID \cup {None}
                     /\ r.kind \in {"start", "event"} => r.at = None \/ r.at \in Int
                     /\ r.kind # "end" => r.attrs \in Seq(ToSet(r.attrs))
ASSUME LimitsAssumption == Limits \subseteq Int
ASSUME TimesAssumption == None \notin Times

\* No time of an entry is the zero time.
ASSUME ZeroTimeAssumption == None \notin Int

VARIABLES store,
          arrived   \* history. the tracked spans in the order of their starts

storeVars == <<store, arrived>>

StoreInit ==
  /\ \E allow \in BOOLEAN : store = Empty(allow)
  /\ arrived = <<>>

\* What becomes of the history: spans that left are dropped, a new one is last.
Arrivals(now) ==
  LET stayed == Without(arrived, SpanID \ now.byID)
      new == {x \in now.byID : ~Contains(arrived, x)}
  IN  stayed \o SetToSeq(new)

Becomes(now) == store' = now /\ arrived' = Arrivals(now)

Receive(r) ==
  /\ r.kind = "event" /\ r.id \in store.byID /\ Open(store, r.id) =>
       Len(store.node[r.id].events) < MaxEvents
  /\ Becomes(Apply(store, r))

DoClear == Becomes(Clear(store))

DoClearOpenSpans == Becomes(ClearOpenSpans(store))

DoLimitRoots(limit) == Becomes(LimitRoots(store, limit))

DoMarkOpenSpansStale(now) == Becomes(MarkOpenSpansStale(store, now))

StoreNext ==
  \/ \E r \in Records : Receive(r)
  \/ DoClear
  \/ DoClearOpenSpans
  \/ \E limit \in Limits : DoLimitRoots(limit)
  \/ \E now \in Times : DoMarkOpenSpansStale(now)

StoreSpec == StoreInit /\ [][StoreNext]_storeVars

-----------------------------------------------------------------------------
NodeOK(n) ==
  /\ n.up \in SpanID \cup {None}
  /\ n.done \in BOOLEAN
  /\ \A i \in DOMAIN n.kids : n.kids[i] \in SpanID

StoreTypeOK ==
  /\ store.allow \in BOOLEAN
  /\ store.byID \subseteq SpanID
  /\ \A i \in DOMAIN store.roots : store.roots[i] \in SpanID
  /\ \A x \in SpanID : NodeOK(store.node[x])
  /\ store.stale \in [SpanID -> Times \cup {None}]

\* The tree and the index agree: the walk from the roots meets exactly the
\* spans of byID, each in one place, below the parent it names; what is not
\* tracked has neither a mark nor children. (state.go:232-235, 260-265: the
\* map, the tree and the marks are updated separately by every operation.)
Forest ==
  /\ InTree(store) = store.byID
  /\ IsInjective(store.roots)
  /\ \A x \in store.byID :
       /\ IsInjective(store.node[x].kids)
       /\ \A y \in ToSet(store.node[x].kids) :
            /\ store.node[y].up = x
            /\ ~Contains(store.roots, y)
  /\ \A x \in SpanID \ store.byID :
       store.node[x] = Blank /\ store.stale[x] = None

\* Without the option every root is the root of its trace: it names no parent.
RootsAreRoots ==
  ~store.allow => \A x \in ToSet(store.roots) : store.node[x].up = None

\* Roots and siblings stay in the order their starts arrived, however many
\* spans are cleared or evicted in between: LimitRoots evicts the oldest.
ArrivalOrder ==
  \A seq \in {store.roots} \cup {store.node[x].kids : x \in SpanID} :
    seq = Without(arrived, SpanID \ ToSet(seq))

\* A span that has ended shows what it showed then for as long as it is
\* tracked: late or repeated records, a second end with another outcome and
\* every clean-up leave it alone.
EndIsFinal ==
  [][\A x \in store.byID \cap store'.byID :
       store.node[x].done =>
         [store'.node[x] EXCEPT !.kids = <<>>] =
         [store.node[x] EXCEPT !.kids = <<>>]]_storeVars

\* A stale mark, once set, keeps its time until the span leaves the store,
\* and it is only set on a span that is open (state.go:148-150).
MarksKeepTheirTime ==
  [][\A x \in SpanID :
       /\ store.stale[x] # None /\ x \in store'.byID =>
            store'.stale[x] = store.stale[x]
       /\ store.stale[x] = None /\ store'.stale[x] # None =>
            ~store'.node[x].done]_storeVars

\* ClearOpenSpans would keep exactly the closed spans with no open ancestor,
\* and LimitRoots exactly the newest roots with what is below them, so that a
\* viewer that pauses or trims now loses nothing else.
RemovalIsExact ==
  /\ LET after == ClearOpenSpans(store)
     IN  \A x \in store.byID : x \in after.byID <=>
           /\ store.node[x].done
           /\ Contains(store.roots, x) \/ store.node[x].up \in after.byID
  /\ \A n \in Limits :
       LET after == LimitRoots(store, n)
       IN  /\ Len(after.roots) = Min({Max({n, 0}), Len(store.roots)})
           /\ IsSuffix(after.roots, store.roots)
           /\ \A x \in store.byID : x \in after.byID <=>
                IF Contains(store.roots, x) THEN Contains(after.roots, x)
                ELSE store.node[x].up \in after.byID

KeysOf(attrs) == [i \in DOMAIN attrs |-> attrs[i].key]

LastWith(attrs, k) == SelectLastInSeq(attrs, LAMBDA a : a.key = k)

\* The attributes that a record can bring.
AttrLists == {r.attrs : r \in {s \in Records : s.kind # "end"}}

\* Whatever a span shows and whatever an update brings, the first attribute
\* of a key is afterwards the last one received, other keys are untouched, no
\* shown key moves, and a new key is appended once (state.go:276-291).
MergeIsOverride ==
  \A x \in store.byID, list \in AttrLists :
    LET old == store.node[x].attrs
        new == FoldLeft(Merge, old, list)
        added == SubSeq(new, Len(old) + 1, Len(new))
    IN  /\ IsPrefix(KeysOf(old), KeysOf(new))
        /\ IsInjective(KeysOf(added))
        /\ ToSet(KeysOf(added)) = ToSet(KeysOf(list)) \ (ToSet(KeysOf(old)) \cup {None})
        /\ \A k \in ToSet(KeysOf(new)) \ {None} :
             new[FirstWith(new, k)] = IF LastWith(list, k) = 0
                                      THEN old[FirstWith(old, k)]
                                      ELSE list[LastWith(list, k)]

\* The timeline has every event and child once, in chronological order, and
\* ties in the order of insertion, events before children (timeline.go:18-20).
\* No entry of a store has the zero time: a missing one is the Unix epoch.
Chronological ==
  \A x \in store.byID :
    LET items == TimelineItems(store, x)
        all   == Unsorted(store, x)
    IN  /\ Len(items) = Len(all) /\ ToSet(items) = ToSet(all)
        /\ \A i, j \in DOMAIN items : i < j =>
             \/ items[i].at < items[j].at
             \/ items[i].at = items[j].at /\ items[i].index < items[j].index
=============================================================================
