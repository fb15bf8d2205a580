-------------------------- MODULE SpanStoreProofs --------------------------
(***************************************************************************)
(* Theorems about module SpanStore, for any number of spans, any records   *)
(* and any limits. What a span shows when it has ended stays and a stale   *)
(* mark keeps its time: these need only that the store keeps its shape,    *)
(* and what each operation does to one span (Kept, of StoreProofs).        *)
(*                                                                         *)
(* The rest is from one invariant (StoreInv): the store is a forest that   *)
(* agrees with its index (Good), its marks are readings of the clock, and  *)
(* every list of siblings is what the history of arrivals is without the   *)
(* other spans (Ordered). An operation takes a set of spans out that is    *)
(* closed under children (IsCut), adds one span as the last of its list    *)
(* (IsBorn), or leaves every span in its place.                            *)
(*                                                                         *)
(* That timelines are in order rests on what sorting does (SortedIs, of    *)
(* StoreProofs) and on every tracked entry having a time (Timed).          *)
(*                                                                         *)
(* What an update makes of a list of attributes is a fold of Merge; the    *)
(* fold is a sequence of merges (MergedAppend, of StoreProofs), and         *)
(* Overridden, by induction on the update, says what it does to each entry.*)
(***************************************************************************)
EXTENDS SpanStore, StoreProofs

LEMMA RecordsAre ==
  ASSUME NEW r \in Records
  PROVE  IsRecord(r)
BY RecordsAssumption DEF IsRecord

-----------------------------------------------------------------------------
LEMMA StoreStep ==
  ASSUME Shape(store), [StoreNext]_storeVars
  PROVE  Shape(store') /\ Kept(store, store')
<1>1. CASE UNCHANGED storeVars
  BY <1>1, SameKept DEF storeVars
<1>2. ASSUME NEW r \in Records, Receive(r)
      PROVE  Shape(store') /\ Kept(store, store')
  BY <1>2, RecordsAre, ApplyKept DEF Receive, Becomes
<1>3. CASE DoClear
  BY <1>3, ClearKept DEF DoClear, Becomes
<1>4. CASE DoClearOpenSpans
  BY <1>4, ClearOpenSpansKept DEF DoClearOpenSpans, Becomes
<1>5. ASSUME NEW limit \in Limits, DoLimitRoots(limit)
      PROVE  Shape(store') /\ Kept(store, store')
  BY <1>5, LimitRootsKept DEF DoLimitRoots, Becomes
<1>6. ASSUME NEW now \in Times, DoMarkOpenSpansStale(now)
      PROVE  Shape(store') /\ Kept(store, store')
  BY <1>6, MarkKept DEF DoMarkOpenSpansStale, Becomes
<1> QED
  BY <1>1, <1>2, <1>3, <1>4, <1>5, <1>6 DEF StoreNext

\* No record and no clean-up takes a node or a mark out of its map.
THEOREM StoreShape == StoreSpec => []Shape(store)
<1>1. StoreInit => Shape(store)
  BY EmptyShape DEF StoreInit
<1>2. Shape(store) /\ [StoreNext]_storeVars => Shape(store)'
  BY StoreStep
<1> QED
  BY <1>1, <1>2, PTL DEF StoreSpec

\* A span that has ended keeps its attributes, events, times and outcome for
\* as long as it is tracked (state.go:279, 296, 310).
THEOREM EndsAreFinal == StoreSpec => EndIsFinal
<1>1. Shape(store) /\ [StoreNext]_storeVars =>
        [\A x \in store.byID \cap store'.byID :
           store.node[x].done =>
             [store'.node[x] EXCEPT !.kids = <<>>] =
             [store.node[x] EXCEPT !.kids = <<>>]]_storeVars
  BY StoreStep DEF Kept, Face
<1> QED
  BY <1>1, StoreShape, PTL DEF StoreSpec, EndIsFinal

\* A stale mark keeps its time while the span is tracked, and is only set on a
\* span that is open (state.go:148-150).
THEOREM MarksKeep == StoreSpec => MarksKeepTheirTime
<1>1. Shape(store) /\ [StoreNext]_storeVars =>
        [\A x \in SpanID :
           /\ store.stale[x] # None /\ x \in store'.byID =>
                store'.stale[x] = store.stale[x]
           /\ store.stale[x] = None /\ store'.stale[x] # None =>
                ~store'.node[x].done]_storeVars
  BY StoreStep DEF Kept
<1> QED
  BY <1>1, StoreShape, PTL DEF StoreSpec, MarksKeepTheirTime

-----------------------------------------------------------------------------
(***************************************************************************)
(* The order of roots and siblings. It is that of arr, what is tracked in  *)
(* the order of the starts.                                                *)
(***************************************************************************)
InOrder(arr, seq) == seq = Without(arr, SpanID \ ToSet(seq))

Ordered(st, arr) ==
  /\ arr \in Seq(SpanID) /\ ToSet(arr) = st.byID
  /\ InOrder(arr, st.roots)
  /\ \A x \in SpanID : InOrder(arr, st.node[x].kids)

\* Arrivals, for a history arr.
ArrivalsFrom(arr, now) ==
  Without(arr, SpanID \ now.byID) \o
    SetToSeq({x \in now.byID : ~Contains(arr, x)})

LEMMA ContainsIs ==
  ASSUME NEW s \in Seq(SpanID), NEW x
  PROVE  Contains(s, x) <=> x \in ToSet(s)
<1>1. ToSet(s) = {s[i] : i \in 1 .. Len(s)}
  BY ToSetIn
<1> QED
  BY <1>1 DEF Contains

LEMMA NoOneNew ==
  SetToSeq({}) = <<>>
<1>1. Cardinality({}) = 0
  BY FS_EmptySet
<1>2. \A f \in [1 .. 0 -> {}] : f = <<>>
  OBVIOUS
<1>3. <<>> \in [1 .. 0 -> {}] /\ IsInjective(<<>>)
  BY EmptySet
<1> QED
  BY <1>1, <1>2, <1>3 DEF SetToSeq

LEMMA OneNew ==
  ASSUME NEW x
  PROVE  SetToSeq({x}) = <<x>>
<1>1. Cardinality({x}) = 1
  BY FS_Singleton
<1>2. \A f \in [1 .. 1 -> {x}] : f = <<x>>
  OBVIOUS
<1>3. <<x>> \in [1 .. 1 -> {x}] /\ IsInjective(<<x>>)
  BY DEF IsInjective
<1> QED
  BY <1>1, <1>2, <1>3 DEF SetToSeq

\* No span is new: what is left of the history.
LEMMA NoArrival ==
  ASSUME NEW st, NEW arr, Ordered(st, arr), NEW now, now.byID \subseteq st.byID
  PROVE  ArrivalsFrom(arr, now) = Without(arr, SpanID \ now.byID)
<1>1. arr \in Seq(SpanID) /\ ToSet(arr) = st.byID
  BY DEF Ordered
<1>2. {x \in now.byID : ~Contains(arr, x)} = {}
  BY <1>1, ContainsIs
<1>3. Without(arr, SpanID \ now.byID) \in Seq(SpanID)
  BY <1>1, WithoutSeq
<1>4. ArrivalsFrom(arr, now) = Without(arr, SpanID \ now.byID) \o <<>>
  BY <1>2, NoOneNew DEF ArrivalsFrom
<1> QED
  BY <1>3, <1>4, ConcatEmptySeq

\* What is in order stays in order when gone is taken out.
LEMMA InOrderWithout ==
  ASSUME NEW arr \in Seq(SpanID), NEW seq \in Seq(SpanID), InOrder(arr, seq),
         NEW gone, NEW kept, ToSet(seq) \ gone \subseteq kept
  PROVE  InOrder(Without(arr, SpanID \ kept), Without(seq, gone))
<1> DEFINE others == SpanID \ ToSet(seq)
           left == Without(seq, gone)
           rest == SpanID \ ToSet(left)
<1>1. ToSet(left) = ToSet(seq) \ gone /\ ToSet(arr) \subseteq SpanID
      /\ ToSet(seq) \subseteq SpanID
  BY WithoutSeq, ToSetIn
<1>2. left = Without(arr, others \cup gone)
  BY WithoutTwice DEF InOrder
<1>3. Without(Without(arr, SpanID \ kept), rest) =
        Without(arr, (SpanID \ kept) \cup rest)
  BY WithoutTwice
<1>4. \A x \in ToSet(arr) :
        x \in others \cup gone <=> x \in (SpanID \ kept) \cup rest
  BY <1>1
<1>5. Without(arr, others \cup gone) = Without(arr, (SpanID \ kept) \cup rest)
  <2> HIDE DEF others, rest
  <2> QED
    BY <1>4, WithoutSame
<1> QED
  BY <1>2, <1>3, <1>5 DEF InOrder

LEMMA NothingInOrder ==
  ASSUME NEW arr \in Seq(SpanID)
  PROVE  InOrder(arr, <<>>)
<1>1. /\ Without(arr, SpanID) \in Seq(SpanID)
      /\ ToSet(Without(arr, SpanID)) = ToSet(arr) \ SpanID
      /\ ToSet(arr) \subseteq SpanID
  BY WithoutSeq, ToSetIn
<1>2. Without(arr, SpanID) = <<>>
  BY <1>1, EmptyWithoutMembers
<1> QED
  BY <1>2, EmptySet DEF InOrder

LEMMA CutOrdered ==
  ASSUME NEW st, Good(st), NEW gone, NEW now, IsCut(st, gone, now),
         NEW arr, Ordered(st, arr)
  PROVE  Ordered(now, ArrivalsFrom(arr, now))
<1> DEFINE left == ArrivalsFrom(arr, now)
<1>1. /\ Typed(st) /\ IsForest(st) /\ st.byID \subseteq SpanID
      /\ arr \in Seq(SpanID) /\ ToSet(arr) = st.byID
      /\ now.byID = st.byID \ gone /\ now.roots = Without(st.roots, gone)
  BY DEF Good, Typed, Shape, Ordered, IsCut
<1>2. left = Without(arr, SpanID \ now.byID)
  BY <1>1, NoArrival
<1> HIDE DEF left
<1>3. left \in Seq(SpanID) /\ ToSet(left) = now.byID
  <2>1. left \in Seq(SpanID) /\ ToSet(left) = ToSet(arr) \ (SpanID \ now.byID)
    BY <1>1, <1>2, WithoutSeq
  <2> QED
    BY <1>1, <2>1
<1>4. /\ ToSet(st.roots) \subseteq st.byID /\ ClosedUnder(st, st.byID)
  BY <1>1, TreeFacts DEF IsForest
<1>5. InOrder(left, now.roots)
  <2>1. st.roots \in Seq(SpanID) /\ InOrder(arr, st.roots)
    BY <1>1 DEF Typed, Ordered
  <2> QED
    BY <1>1, <1>2, <1>4, <2>1, InOrderWithout
<1>6. ASSUME NEW x \in SpanID PROVE InOrder(left, now.node[x].kids)
  <2>1. CASE x \in gone
    <3>1. now.node[x].kids = <<>>
      BY <2>1, BlankIs DEF IsCut
    <3> QED
      BY <1>3, <3>1, NothingInOrder
  <2>2. CASE x \notin gone
    <3>1. /\ now.node[x].kids = Without(st.node[x].kids, gone)
          /\ st.node[x].kids \in Seq(SpanID) /\ InOrder(arr, st.node[x].kids)
      BY <1>1, <2>2 DEF IsCut, Typed, Ordered
    <3>2. ToSet(st.node[x].kids) \subseteq st.byID
      <4>1. CASE x \in st.byID
        BY <1>4, <4>1 DEF ClosedUnder
      <4>2. CASE x \notin st.byID
        BY <1>1, <4>2, BlankIs, EmptySet DEF IsForest
      <4> QED
        BY <4>1, <4>2
    <3> QED
      BY <1>1, <1>2, <3>1, <3>2, InOrderWithout
  <2> QED
    BY <2>1, <2>2
<1> QED
  BY <1>3, <1>5, <1>6 DEF Ordered, left

LEMMA BornOrdered ==
  ASSUME NEW st, Good(st), NEW r, r.id \in SpanID, r.id \notin st.byID,
         NEW now, IsBorn(st, r, now), NEW arr, Ordered(st, arr)
  PROVE  Ordered(now, ArrivalsFrom(arr, now))
<1> DEFINE x == r.id
           last == Append(arr, x)
<1>1. /\ Typed(st) /\ IsForest(st) /\ st.byID \subseteq SpanID
      /\ arr \in Seq(SpanID) /\ ToSet(arr) = st.byID
      /\ now.byID = st.byID \cup {x} /\ x \in SpanID /\ x \notin st.byID
  BY DEF Good, Typed, Shape, Ordered, IsBorn
<1>2. ArrivalsFrom(arr, now) = last
  <2>1. {y \in now.byID : ~Contains(arr, y)} = {x}
    BY <1>1, ContainsIs
  <2>2. Without(arr, SpanID \ now.byID) = arr
    <3>1. ToSet(arr) \cap (SpanID \ now.byID) = {}
      BY <1>1
    <3> QED
      BY <1>1, <3>1, WithoutNone
  <2>3. ArrivalsFrom(arr, now) = arr \o <<x>>
    BY <2>1, <2>2, OneNew DEF ArrivalsFrom
  <2> QED
    BY <1>1, <2>3, AppendIsConcat
<1>3. last \in Seq(SpanID) /\ ToSet(last) = now.byID
  BY <1>1, AppendSet, AppendProperties
<1>4. ASSUME NEW seq \in Seq(SpanID), InOrder(arr, seq), x \notin ToSet(seq)
      PROVE  InOrder(last, seq) /\ InOrder(last, Append(seq, x))
  <2> DEFINE others == SpanID \ ToSet(seq)
             more == SpanID \ ToSet(Append(seq, x))
  <2>1. Without(last, others) = Without(arr, others)
    BY <1>1, <1>4, WithoutAppend
  <2>2. ToSet(Append(seq, x)) = ToSet(seq) \cup {x}
    BY <1>1, <1>4, AppendSet
  <2>3. Without(arr, more) = Without(arr, others)
    <3>1. \A y \in ToSet(arr) : y \in more <=> y \in others
      BY <1>1, <2>2
    <3> HIDE DEF more, others
    <3> QED
      BY <1>1, <3>1, WithoutSame
  <2>4. Without(last, more) = Append(Without(arr, more), x)
    BY <1>1, <2>2, WithoutAppend
  <2>5. seq = Without(arr, others)
    BY <1>4 DEF InOrder
  <2> QED
    BY <2>1, <2>3, <2>4, <2>5 DEF InOrder
<1>5. /\ ToSet(st.roots) \subseteq st.byID /\ ClosedUnder(st, st.byID)
  BY <1>1, TreeFacts DEF IsForest
<1>6. InOrder(last, now.roots)
  <2>1. /\ st.roots \in Seq(SpanID) /\ InOrder(arr, st.roots)
        /\ x \notin ToSet(st.roots)
    BY <1>1, <1>5 DEF Typed, Ordered
  <2>2. now.roots = st.roots \/ now.roots = Append(st.roots, x)
    BY DEF IsBorn
  <2> HIDE DEF last
  <2> QED
    BY <1>4, <2>1, <2>2
<1>7. ASSUME NEW y \in SpanID PROVE InOrder(last, now.node[y].kids)
  <2>1. CASE y = x
    <3>1. now.node[y].kids = <<>>
      BY <2>1 DEF IsBorn
    <3> QED
      BY <1>3, <3>1, NothingInOrder
  <2>2. CASE y # x
    <3>1. st.node[y].kids \in Seq(SpanID) /\ InOrder(arr, st.node[y].kids)
      BY <1>1 DEF Typed, Ordered
    <3>2. x \notin ToSet(st.node[y].kids)
      <4>1. CASE y \in st.byID
        BY <1>1, <1>5, <4>1 DEF ClosedUnder
      <4>2. CASE y \notin st.byID
        BY <1>1, <4>2, BlankIs, EmptySet DEF IsForest
      <4> QED
        BY <4>1, <4>2
    <3>3. \/ now.node[y].kids = st.node[y].kids
          \/ now.node[y].kids = Append(st.node[y].kids, x)
      BY <2>2 DEF IsBorn
    <3> HIDE DEF last
    <3> QED
      BY <1>4, <3>1, <3>2, <3>3
  <2> QED
    BY <2>1, <2>2
<1> QED
  BY <1>2, <1>3, <1>6, <1>7 DEF Ordered

LEMMA SameOrdered ==
  ASSUME NEW st, Good(st), NEW now, now.byID = st.byID, now.roots = st.roots,
         \A x \in SpanID : now.node[x].kids = st.node[x].kids,
         NEW arr, Ordered(st, arr)
  PROVE  Ordered(now, ArrivalsFrom(arr, now))
<1>1. arr \in Seq(SpanID) /\ ToSet(arr) = st.byID
  BY DEF Ordered
<1>2. ToSet(arr) \cap (SpanID \ now.byID) = {}
  BY <1>1
<1>3. Without(arr, SpanID \ now.byID) = arr
  BY <1>1, <1>2, WithoutNone
<1>4. ArrivalsFrom(arr, now) = arr
  BY <1>3, NoArrival
<1> QED
  BY <1>4 DEF Ordered

LEMMA EmptyOrdered ==
  ASSUME NEW allow, NEW arr \in Seq(SpanID)
  PROVE  Ordered(Empty(allow), ArrivalsFrom(arr, Empty(allow)))
<1> DEFINE now == Empty(allow)
<1>1. now.byID = {} /\ now.roots = <<>> /\ \A x \in SpanID : now.node[x] = Blank
  BY DEF Empty
<1> HIDE DEF now
<1>2. {x \in now.byID : ~Contains(arr, x)} = {} /\ SpanID \ now.byID = SpanID
  BY <1>1
<1>3. Without(arr, SpanID) = <<>>
  BY NothingInOrder, EmptySet DEF InOrder
<1>4. ArrivalsFrom(arr, now) = <<>> \o <<>>
  BY <1>2, <1>3, NoOneNew DEF ArrivalsFrom
<1>5. <<>> \in Seq(SpanID) /\ ToSet(<<>>) = {} /\ <<>> \o <<>> = <<>>
  BY EmptySeq, EmptySet, ConcatEmptySeq
<1>6. InOrder(<<>>, <<>>)
  BY <1>5, NothingInOrder
<1> QED
  BY <1>1, <1>4, <1>5, <1>6, BlankIs DEF Ordered, now

-----------------------------------------------------------------------------
\* Every operation

Marked(st) == st.stale \in [SpanID -> Times \cup {None}]

StoreInv(st, arr) == Good(st) /\ Marked(st) /\ Ordered(st, arr)

LEMMA ClearInv ==
  ASSUME NEW st, NEW arr, StoreInv(st, arr)
  PROVE  StoreInv(Clear(st), ArrivalsFrom(arr, Clear(st)))
<1>1. st.allow \in BOOLEAN /\ arr \in Seq(SpanID)
  BY DEF StoreInv, Good, Typed, Ordered
<1>2. Good(Clear(st)) /\ Ordered(Clear(st), ArrivalsFrom(arr, Clear(st)))
  BY <1>1, EmptyGood, EmptyOrdered DEF Clear
<1>3. Marked(Clear(st))
  BY DEF Marked, Clear, Empty
<1> QED
  BY <1>2, <1>3 DEF StoreInv

LEMMA SameInv ==
  ASSUME NEW st, NEW arr, StoreInv(st, arr)
  PROVE  StoreInv(st, ArrivalsFrom(arr, st))
BY SameOrdered DEF StoreInv

LEMMA CutInv ==
  ASSUME NEW st, NEW arr, StoreInv(st, arr), NEW gone \in SUBSET st.byID,
         ClosedUnder(st, gone), NEW now, IsCut(st, gone, now)
  PROVE  StoreInv(now, ArrivalsFrom(arr, now))
<1>1. Good(now) /\ Ordered(now, ArrivalsFrom(arr, now))
  BY CutGood, CutOrdered DEF StoreInv
<1>2. Marked(now)
  BY DEF Marked, StoreInv, IsCut
<1> QED
  BY <1>1, <1>2 DEF StoreInv

LEMMA ClearOpenSpansInv ==
  ASSUME NEW st, NEW arr, StoreInv(st, arr)
  PROVE  StoreInv(ClearOpenSpans(st), ArrivalsFrom(arr, ClearOpenSpans(st)))
<1>1. Good(st) /\ Typed(st)
  BY DEF StoreInv, Good
<1> QED
  BY <1>1, DoomedFacts, ClearOpenSpansIsCut, CutInv

LEMMA LimitRootsInv ==
  ASSUME NEW st, NEW arr, StoreInv(st, arr), NEW limit \in Int
  PROVE  StoreInv(LimitRoots(st, limit), ArrivalsFrom(arr, LimitRoots(st, limit)))
<1>1. Good(st) /\ Len(st.roots) \in Nat
  BY LenProperties DEF StoreInv, Good, Typed
<1>2. CASE limit <= 0
  BY <1>2, ClearInv DEF LimitRoots
<1>3. CASE limit > 0 /\ Len(st.roots) <= limit
  BY <1>1, <1>3, SameInv DEF LimitRoots, Excess
<1>4. CASE limit > 0 /\ Len(st.roots) > limit
  <2> DEFINE n == Len(st.roots) - limit
  <2>1. n \in 1 .. Len(st.roots) /\ IsCut(st, Evicted(st, n), LimitRoots(st, limit))
    BY <1>1, <1>4, LimitRootsIsCut
  <2> HIDE DEF n
  <2>2. Evicted(st, n) \subseteq st.byID /\ ClosedUnder(st, Evicted(st, n))
    BY <1>1, <2>1, EvictedFacts
  <2> QED
    BY <2>1, <2>2, CutInv
<1> QED
  BY <1>1, <1>2, <1>3, <1>4

LEMMA MarkInv ==
  ASSUME NEW st, NEW arr, StoreInv(st, arr), NEW time \in Times
  PROVE  StoreInv(MarkOpenSpansStale(st, time),
                  ArrivalsFrom(arr, MarkOpenSpansStale(st, time)))
<1> DEFINE now == MarkOpenSpansStale(st, time)
<1>1. Good(st)
  BY DEF StoreInv
<1>2. /\ Good(now) /\ now.byID = st.byID /\ now.roots = st.roots
      /\ now.node = st.node
      /\ \A x \in SpanID : now.stale[x] \in {time, st.stale[x]}
  BY <1>1, MarkGood
<1>3. now.stale = [x \in SpanID |-> now.stale[x]]
  BY <1>1 DEF MarkOpenSpansStale, Good, Typed, Shape
<1> HIDE DEF now
<1>4. Ordered(now, ArrivalsFrom(arr, now))
  BY <1>2, SameOrdered DEF StoreInv
<1>5. Marked(now)
  BY <1>2, <1>3 DEF Marked, StoreInv
<1> QED
  BY <1>2, <1>4, <1>5 DEF StoreInv, now

LEMMA ApplyInv ==
  ASSUME NEW st, NEW arr, StoreInv(st, arr), NEW r \in Records
  PROVE  StoreInv(Apply(st, r), ArrivalsFrom(arr, Apply(st, r)))
<1> DEFINE now == Apply(st, r)
<1>0. Good(st) /\ Typed(st) /\ Shape(st) /\ IsRecord(r)
      /\ r.id \in SpanID \cup {None}
  BY RecordsAre DEF StoreInv, Good, Typed, IsRecord
<1>1. CASE r.kind = "start" /\ Ignored(st, r)
  BY <1>1, SameInv DEF Apply, ApplyStarted
<1>2. CASE r.kind = "start" /\ ~Ignored(st, r)
  <2>1. now = ApplyStarted(st, r) /\ r.up \in SpanID \cup {None}
    BY <1>0, <1>2 DEF Apply, IsRecord
  <2>2. Good(now) /\ IsBorn(st, r, now) /\ r.id \in SpanID /\ r.id \notin st.byID
    BY <1>0, <1>2, <2>1, StartedGood, StartedIs DEF Ignored
  <2> HIDE DEF now
  <2>3. Ordered(now, ArrivalsFrom(arr, now))
    BY <1>0, <2>2, BornOrdered DEF StoreInv
  <2>4. Marked(now)
    BY <2>2 DEF Marked, StoreInv, IsBorn
  <2> QED
    BY <2>2, <2>3, <2>4 DEF StoreInv, now
<1>3. CASE r.kind # "start" /\ ~Writable(st, r.id)
  BY <1>0, <1>3, SameInv
     DEF IsRecord, Apply, ApplyUpdated, ApplyEnded, ApplyEvent
<1>4. CASE r.kind # "start" /\ Writable(st, r.id)
  <2>1. /\ Good(now) /\ now.byID = st.byID /\ now.roots = st.roots
        /\ \A x \in SpanID : now.node[x].kids = st.node[x].kids
    BY <1>0, <1>4, WriteGood
  <2>2. now.stale = st.stale
    <3>1. PICK n : IsWrite(st, r.id, n, now)
      BY <1>0, <1>4, WriteIs
    <3> HIDE DEF now
    <3> QED
      BY <1>0, <3>1 DEF Shape, IsWrite
  <2> HIDE DEF now
  <2>3. Ordered(now, ArrivalsFrom(arr, now))
    BY <2>1, SameOrdered DEF StoreInv
  <2>4. Marked(now)
    BY <2>2 DEF Marked, StoreInv
  <2> QED
    BY <2>1, <2>3, <2>4 DEF StoreInv, now
<1> QED
  BY <1>1, <1>2, <1>3, <1>4

LEMMA StoreInvInit ==
  ASSUME StoreInit
  PROVE  StoreInv(store, arrived)
<1>1. PICK allow \in BOOLEAN : store = Empty(allow)
  BY DEF StoreInit
<1>2. arrived = <<>> /\ <<>> \in Seq(SpanID) /\ ToSet(<<>>) = {}
  BY EmptySeq, EmptySet DEF StoreInit
<1>3. /\ store.byID = {} /\ store.roots = <<>>
      /\ \A x \in SpanID : store.node[x] = Blank /\ store.stale[x] = None
  BY <1>1 DEF Empty
<1>4. InOrder(arrived, <<>>)
  BY <1>2, NothingInOrder
<1>5. Ordered(store, arrived)
  BY <1>2, <1>3, <1>4, BlankIs DEF Ordered
<1>6. Good(store)
  BY <1>1, EmptyGood
<1>7. Marked(store)
  BY <1>1 DEF Marked, Empty
<1> QED
  BY <1>5, <1>6, <1>7 DEF StoreInv

LEMMA StoreInvStep ==
  ASSUME StoreInv(store, arrived), [StoreNext]_storeVars
  PROVE  StoreInv(store', arrived')
<1>0. \A now : Becomes(now) => /\ store' = now
                               /\ arrived' = ArrivalsFrom(arrived, now)
  BY DEF Becomes, Arrivals, ArrivalsFrom
<1>1. CASE UNCHANGED storeVars
  BY <1>1 DEF storeVars
<1>2. ASSUME NEW r \in Records, Receive(r)
      PROVE  StoreInv(store', arrived')
  BY <1>0, <1>2, ApplyInv DEF Receive
<1>3. CASE DoClear
  BY <1>0, <1>3, ClearInv DEF DoClear
<1>4. CASE DoClearOpenSpans
  BY <1>0, <1>4, ClearOpenSpansInv DEF DoClearOpenSpans
<1>5. ASSUME NEW limit \in Limits, DoLimitRoots(limit)
      PROVE  StoreInv(store', arrived')
  BY <1>0, <1>5, LimitRootsInv, LimitsAssumption DEF DoLimitRoots
<1>6. ASSUME NEW now \in Times, DoMarkOpenSpansStale(now)
      PROVE  StoreInv(store', arrived')
  BY <1>0, <1>6, MarkInv DEF DoMarkOpenSpansStale
<1> QED
  BY <1>1, <1>2, <1>3, <1>4, <1>5, <1>6 DEF StoreNext

LEMMA StoreInvAlways == StoreSpec => []StoreInv(store, arrived)
<1>1. StoreInit => StoreInv(store, arrived)
  BY StoreInvInit
<1>2. StoreInv(store, arrived) /\ [StoreNext]_storeVars =>
        StoreInv(store, arrived)'
  BY StoreInvStep
<1> QED
  BY <1>1, <1>2, PTL DEF StoreSpec

\* The store has its type.
THEOREM StoreTyped == StoreSpec => []StoreTypeOK
<1>1. StoreInv(store, arrived) => StoreTypeOK
  <2> SUFFICES ASSUME StoreInv(store, arrived) PROVE StoreTypeOK
    OBVIOUS
  <2>1. Typed(store) /\ Shape(store) /\ Marked(store)
    BY DEF StoreInv, Good, Typed
  <2>2. \A i \in DOMAIN store.roots : store.roots[i] \in SpanID
    BY <2>1, LenProperties DEF Typed
  <2>3. ASSUME NEW x \in SpanID PROVE NodeOK(store.node[x])
    <3>1. store.node[x].kids \in Seq(SpanID)
      BY <2>1 DEF Typed
    <3>2. \A i \in DOMAIN store.node[x].kids : store.node[x].kids[i] \in SpanID
      BY <3>1, LenProperties
    <3> QED
      BY <2>1, <3>2 DEF NodeOK, Typed
  <2>4. store.stale \in [SpanID -> Times \cup {None}]
    BY <2>1 DEF Marked
  <2> QED
    BY <2>1, <2>2, <2>3, <2>4 DEF StoreTypeOK, Typed, Shape
<1> QED
  BY <1>1, StoreInvAlways, PTL

\* The map, the tree and the marks, which every operation updates separately,
\* agree: whatever records arrive and whatever is cleared or evicted, a walk
\* from the roots meets exactly the spans of the map, each once and below the
\* parent it names, and what has left leaves no mark (state.go:232-265).
THEOREM StoreIsForest == StoreSpec => []Forest
<1>1. StoreInv(store, arrived) => Forest
  <2> SUFFICES ASSUME StoreInv(store, arrived) PROVE Forest
    OBVIOUS
  <2>1. IsForest(store) /\ store.roots \in Seq(SpanID)
    BY DEF StoreInv, Good, Typed
  <2>2. \A y : Contains(store.roots, y) <=> y \in ToSet(store.roots)
    BY <2>1, ContainsIs
  <2> QED
    BY <2>1, <2>2 DEF Forest, IsForest
<1> QED
  BY <1>1, StoreInvAlways, PTL

\* A store that does not allow unknown parents has no root that names one:
\* eviction and clearing take a span's descendants with it, so that none is
\* left to be taken for a root (state.go:228-230).
THEOREM RootsNameNoParent == StoreSpec => []RootsAreRoots
<1>1. StoreInv(store, arrived) => RootsAreRoots
  BY DEF StoreInv, Good, Grounded, RootsAreRoots
<1> QED
  BY <1>1, StoreInvAlways, PTL

\* Roots and siblings are in the order of their starts after any number of
\* removals, so that the roots LimitRoots drops are the oldest (state.go:160).
THEOREM OrderOfArrival == StoreSpec => []ArrivalOrder
<1>1. StoreInv(store, arrived) => ArrivalOrder
  BY DEF StoreInv, Ordered, InOrder, ArrivalOrder
<1> QED
  BY <1>1, StoreInvAlways, PTL

-----------------------------------------------------------------------------
\* What the removals leave

LEMMA MinOfTwo ==
  ASSUME NEW a \in Int, NEW b \in Int
  PROVE  /\ Min({a, b}) = IF a <= b THEN a ELSE b
         /\ Max({a, b}) = IF a <= b THEN b ELSE a
<1>1. \E x \in {a, b} : \A y \in {a, b} : x <= y
  OBVIOUS
<1>2. \E x \in {a, b} : \A y \in {a, b} : x >= y
  OBVIOUS
<1> QED
  BY <1>1, <1>2 DEF Min, Max

LEMMA ReverseIs ==
  ASSUME NEW s \in Seq(SpanID)
  PROVE  /\ Reverse(s) \in Seq(SpanID) /\ Len(Reverse(s)) = Len(s)
         /\ \A i \in 1 .. Len(s) : Reverse(s)[i] = s[Len(s) - i + 1]
<1>1. Len(s) \in Nat /\ \A i \in 1 .. Len(s) : s[i] \in SpanID
  BY LenProperties
<1>2. Reverse(s) = [i \in 1 .. Len(s) |-> s[Len(s) - i + 1]]
  BY DEF Reverse
<1>3. \A i \in 1 .. Len(s) : Len(s) - i + 1 \in 1 .. Len(s)
  BY <1>1
<1>4. Reverse(s) \in [1 .. Len(s) -> SpanID]
  BY <1>1, <1>2, <1>3
<1>5. Reverse(s) \in Seq(SpanID)
  BY <1>1, <1>4
<1> QED
  BY <1>1, <1>2, <1>4, <1>5, LenProperties

\* What follows the first n entries of a sequence is a suffix of it.
LEMMA SuffixIs ==
  ASSUME NEW s \in Seq(SpanID), NEW n \in 0 .. Len(s)
  PROVE  LET b == SubSeq(s, n + 1, Len(s))
         IN  Len(b) = Len(s) - n /\ IsSuffix(b, s)
<1> DEFINE b == SubSeq(s, n + 1, Len(s))
           m == Len(s) - n
<1>1. Len(s) \in Nat /\ n \in Nat /\ m \in 0 .. Len(s) /\ Len(s) - m = n
  BY LenProperties
<1>2. b \in Seq(SpanID) /\ Len(b) = m /\ \A i \in 1 .. m : b[i] = s[n + i]
  BY TwoParts
<1> HIDE DEF b
<1> DEFINE x == Reverse(b)
           y == Reverse(s)
<1>3. /\ x \in Seq(SpanID) /\ Len(x) = m
      /\ \A i \in 1 .. m : x[i] = b[m - i + 1]
  <2> HIDE DEF m
  <2> QED
    BY <1>2, ReverseIs
<1>4. /\ y \in Seq(SpanID) /\ Len(y) = Len(s)
      /\ \A i \in 1 .. Len(s) : y[i] = s[Len(s) - i + 1]
  BY ReverseIs
<1> HIDE DEF x, y
<1>5. ASSUME NEW i \in 1 .. m PROVE x[i] = y[i]
  <2>1. /\ m - i + 1 \in 1 .. m /\ i \in 1 .. Len(s)
        /\ n + (m - i + 1) = Len(s) - i + 1
    BY <1>1
  <2> QED
    BY <1>2, <1>3, <1>4, <2>1
<1>6. m \in 0 .. Len(x) /\ m \in 0 .. Len(y)
  BY <1>1, <1>3, <1>4
<1>7. /\ SubSeq(x, 1, m) \in Seq(SpanID) /\ Len(SubSeq(x, 1, m)) = m
      /\ \A i \in 1 .. m : SubSeq(x, 1, m)[i] = x[i]
  <2> HIDE DEF m
  <2> QED
    BY <1>3, <1>6, TwoParts
<1>8. /\ SubSeq(y, 1, m) \in Seq(SpanID) /\ Len(SubSeq(y, 1, m)) = m
      /\ \A i \in 1 .. m : SubSeq(y, 1, m)[i] = y[i]
  <2> HIDE DEF m
  <2> QED
    BY <1>4, <1>6, TwoParts
<1>9. SubSeq(x, 1, m) = SubSeq(y, 1, m)
  <2> HIDE DEF m
  <2> QED
    BY <1>5, <1>7, <1>8, SeqEqual
<1>10. IsPrefix(x, y)
  BY <1>1, <1>3, <1>4, <1>9 DEF IsPrefix
<1> QED
  BY <1>2, <1>10 DEF IsSuffix, x, y, b

\* Every span that is not a root is a child of the parent it names.
LEMMA UpIs ==
  ASSUME NEW st, Good(st), NEW x \in st.byID, x \notin ToSet(st.roots)
  PROVE  st.node[x].up \in st.byID /\ x \in ToSet(st.node[st.node[x].up].kids)
<1>1. Typed(st) /\ IsForest(st) /\ InTree(st) = st.byID
  BY DEF Good, IsForest
<1>2. PICK z \in st.byID : x \in ToSet(st.node[z].kids)
  BY <1>1, TreeFacts
<1> QED
  BY <1>1, <1>2 DEF IsForest

LEMMA ClearedIs ==
  ASSUME NEW st, Good(st), NEW x \in st.byID
  PROVE  x \notin Doomed(st) <=>
           /\ st.node[x].done
           /\ x \in ToSet(st.roots) \/ st.node[x].up \in st.byID \ Doomed(st)
<1> DEFINE gone == Doomed(st)
<1>1. /\ IsForest(st) /\ gone \subseteq st.byID /\ ClosedUnder(st, gone)
      /\ \A y \in st.byID : ~st.node[y].done => y \in gone
      /\ \A y \in gone : st.node[y].done =>
           \E z \in gone : y \in ToSet(st.node[z].kids)
  BY DoomedFacts DEF Good
<1> HIDE DEF gone
<1>2. ASSUME x \notin gone, x \notin ToSet(st.roots)
      PROVE  st.node[x].up \in st.byID \ gone
  <2>1. /\ st.node[x].up \in st.byID
        /\ x \in ToSet(st.node[st.node[x].up].kids)
    BY <1>2, UpIs
  <2> QED
    BY <1>1, <1>2, <2>1 DEF ClosedUnder
<1>3. ASSUME x \in gone, st.node[x].done
      PROVE  x \notin ToSet(st.roots) /\ st.node[x].up \in gone
  <2>1. PICK z \in gone : x \in ToSet(st.node[z].kids)
    BY <1>1, <1>3
  <2> QED
    BY <1>1, <2>1 DEF IsForest
<1> QED
  BY <1>1, <1>2, <1>3 DEF gone

LEMMA LimitedIs ==
  ASSUME NEW st, Good(st), NEW limit \in Int
  PROVE  LET after == LimitRoots(st, limit)
         IN  /\ Len(after.roots) = Min({Max({limit, 0}), Len(st.roots)})
             /\ IsSuffix(after.roots, st.roots)
             /\ \A x \in st.byID : x \in after.byID <=>
                  IF x \in ToSet(st.roots) THEN x \in ToSet(after.roots)
                  ELSE st.node[x].up \in after.byID
<1> DEFINE after == LimitRoots(st, limit)
           m == Len(st.roots)
<1>1. /\ IsForest(st) /\ st.roots \in Seq(SpanID) /\ m \in Nat
      /\ ToSet(st.roots) \subseteq st.byID /\ InTree(st) = st.byID
  BY LenProperties, TreeFacts DEF Good, Typed, IsForest
<1>2. /\ Max({limit, 0}) = (IF limit <= 0 THEN 0 ELSE limit)
      /\ Min({Max({limit, 0}), m}) =
           IF limit <= 0 THEN 0 ELSE IF limit <= m THEN limit ELSE m
  <2>1. Max({limit, 0}) = IF limit <= 0 THEN 0 ELSE limit
    BY MinOfTwo
  <2> DEFINE k == Max({limit, 0})
  <2>2. k \in Int
    BY <2>1
  <2> HIDE DEF k
  <2>3. Min({k, m}) = IF k <= m THEN k ELSE m
    BY <1>1, <2>2, MinOfTwo
  <2> QED
    BY <1>1, <2>1, <2>3 DEF k
<1> HIDE DEF m
<1>3. CASE limit <= 0
  <2>1. after.roots = <<>> /\ after.byID = {}
    BY <1>3 DEF LimitRoots, Clear, Empty
  <2> HIDE DEF after
  <2>2. SubSeq(st.roots, m + 1, Len(st.roots)) = <<>>
    BY <1>1, SubSeqEmpty DEF m
  <2>3. m \in 0 .. Len(st.roots)
    BY <1>1 DEF m
  <2>4. Len(<<>>) = 0 /\ IsSuffix(<<>>, st.roots) /\ ToSet(<<>>) = {}
    BY <1>1, <2>2, <2>3, SuffixIs, EmptySet
  <2> QED
    BY <1>2, <1>3, <2>1, <2>4 DEF m, after
<1>4. CASE limit > 0 /\ m <= limit
  <2>1. after = st
    BY <1>1, <1>4 DEF LimitRoots, Excess, m
  <2> HIDE DEF after
  <2>2. SubSeq(st.roots, 0 + 1, Len(st.roots)) = st.roots
    BY <1>1, SubSeqFull
  <2>3. 0 \in 0 .. Len(st.roots)
    BY <1>1 DEF m
  <2>4. IsSuffix(st.roots, st.roots)
    BY <1>1, <2>2, <2>3, SuffixIs
  <2>5. m = IF limit <= 0 THEN 0 ELSE IF limit <= m THEN limit ELSE m
    BY <1>1, <1>4
  <2>6. \A x \in st.byID : x \notin ToSet(st.roots) => st.node[x].up \in st.byID
    BY UpIs
  <2> QED
    BY <1>2, <2>1, <2>4, <2>5, <2>6 DEF m, after
<1>5. CASE limit > 0 /\ m > limit
  <2> DEFINE n == m - limit
             gone == Evicted(st, n)
  <2>1. n \in 1 .. m /\ n \in 0 .. m /\ m - n = limit
    BY <1>1, <1>5
  <2>2. /\ IsCut(st, gone, after)
        /\ after.roots = SubSeq(st.roots, n + 1, Len(st.roots))
    BY <1>1, <1>5, LimitRootsIsCut DEF m
  <2> HIDE DEF n, after
  <2>3. /\ gone \subseteq st.byID /\ ClosedUnder(st, gone)
        /\ \A z \in st.byID : \A y \in ToSet(st.node[z].kids) :
             y \in gone => z \in gone
    BY <2>1, EvictedFacts DEF m
  <2> HIDE DEF gone
  <2>4. Len(after.roots) = limit /\ IsSuffix(after.roots, st.roots)
    BY <1>1, <2>1, <2>2, SuffixIs DEF m
  <2>5. ToSet(after.roots) = ToSet(st.roots) \ gone /\ after.byID = st.byID \ gone
    <3>1. after.roots = Without(st.roots, gone) /\ after.byID = st.byID \ gone
      BY <2>2 DEF IsCut
    <3> QED
      BY <1>1, <3>1, WithoutSeq
  <2>6. ASSUME NEW x \in st.byID, x \notin ToSet(st.roots)
        PROVE  x \in gone <=> st.node[x].up \in gone
    <3>1. /\ st.node[x].up \in st.byID
          /\ x \in ToSet(st.node[st.node[x].up].kids)
      BY <2>6, UpIs
    <3> QED
      BY <2>3, <3>1 DEF ClosedUnder
  <2>7. limit = IF limit <= 0 THEN 0 ELSE IF limit <= m THEN limit ELSE m
    BY <1>1, <1>5
  <2>8. ASSUME NEW x \in st.byID
        PROVE  x \in after.byID <=>
                 IF x \in ToSet(st.roots) THEN x \in ToSet(after.roots)
                 ELSE st.node[x].up \in after.byID
    <3>1. CASE x \in ToSet(st.roots)
      BY <2>5, <3>1
    <3>2. CASE x \notin ToSet(st.roots)
      BY <2>5, <2>6, <3>2, UpIs
    <3> QED
      BY <3>1, <3>2
  <2> QED
    BY <1>2, <2>4, <2>7, <2>8 DEF m, after
<1> QED
  BY <1>1, <1>3, <1>4, <1>5

\* Clearing the open spans loses exactly the spans with an open span at or
\* above them, and trimming exactly the trees of the oldest roots: nothing a
\* viewer still shows goes with them (state.go:171-221).
THEOREM RemovalsAreExact == StoreSpec => []RemovalIsExact
<1>1. StoreInv(store, arrived) => RemovalIsExact
  <2> SUFFICES ASSUME StoreInv(store, arrived) PROVE RemovalIsExact
    OBVIOUS
  <2>1. Good(store) /\ Typed(store) /\ store.roots \in Seq(SpanID)
    BY DEF StoreInv, Good, Typed
  <2>2. ClearOpenSpans(store).byID = store.byID \ Doomed(store)
    BY <2>1, ClearOpenSpansIsCut DEF IsCut
  <2>3. \A x : Contains(store.roots, x) <=> x \in ToSet(store.roots)
    BY <2>1, ContainsIs
  <2>4. ASSUME NEW n \in Limits
        PROVE  LimitRoots(store, n).roots \in Seq(SpanID)
    <3>1. StoreInv(LimitRoots(store, n), ArrivalsFrom(arrived, LimitRoots(store, n)))
      BY LimitRootsInv, LimitsAssumption
    <3> QED
      BY <3>1 DEF StoreInv, Good, Typed
  <2>5. \A n \in Limits : \A x :
          Contains(LimitRoots(store, n).roots, x) <=>
            x \in ToSet(LimitRoots(store, n).roots)
    BY <2>4, ContainsIs
  <2>6. \A x \in store.byID : x \in ClearOpenSpans(store).byID <=>
          /\ store.node[x].done
          /\ \/ Contains(store.roots, x)
             \/ store.node[x].up \in ClearOpenSpans(store).byID
    BY <2>1, <2>2, <2>3, ClearedIs
  <2>7. ASSUME NEW n \in Limits
        PROVE  LET after == LimitRoots(store, n)
               IN  /\ Len(after.roots) = Min({Max({n, 0}), Len(store.roots)})
                   /\ IsSuffix(after.roots, store.roots)
                   /\ \A x \in store.byID : x \in after.byID <=>
                        IF Contains(store.roots, x) THEN Contains(after.roots, x)
                        ELSE store.node[x].up \in after.byID
    BY <2>1, <2>3, <2>5, LimitedIs, LimitsAssumption
  <2> QED
    BY <2>6, <2>7 DEF RemovalIsExact
<1> QED
  BY <1>1, StoreInvAlways, PTL

-----------------------------------------------------------------------------
\* Timelines

LEMMA TimedStep ==
  ASSUME StoreInv(store, arrived), Timed(store), [StoreNext]_storeVars
  PROVE  Timed(store')
<1>0. Good(store)
  BY DEF StoreInv
<1>1. CASE UNCHANGED storeVars
  BY <1>1 DEF storeVars
<1>2. ASSUME NEW r \in Records, Receive(r) PROVE Timed(store')
  <2>1. IsRecord(r) /\ HasTime(r)
    BY RecordsAre, RecordsAssumption DEF HasTime, Timely
  <2>2. store' = Apply(store, r)
    BY <1>2 DEF Receive, Becomes
  <2>3. Timed(Apply(store, r))
    BY <1>0, <2>1, ApplyTimed
  <2> QED
    BY <2>2, <2>3
<1>3. CASE DoClear
  BY <1>3, EmptyTimed DEF DoClear, Becomes, Clear
<1>4. CASE DoClearOpenSpans
  BY <1>0, <1>4, ClearOpenSpansTimed DEF DoClearOpenSpans, Becomes
<1>5. ASSUME NEW limit \in Limits, DoLimitRoots(limit) PROVE Timed(store')
  BY <1>0, <1>5, LimitsAssumption, LimitRootsTimed DEF DoLimitRoots, Becomes
<1>6. ASSUME NEW now \in Times, DoMarkOpenSpansStale(now) PROVE Timed(store')
  <2>1. /\ store'.byID = store.byID /\ store'.node = store.node
    BY <1>0, <1>6, MarkGood DEF DoMarkOpenSpansStale, Becomes
  <2> QED
    BY <2>1 DEF Timed
<1> QED
  BY <1>1, <1>2, <1>3, <1>4, <1>5, <1>6 DEF StoreNext

\* What Chronological says of one span.
LEMMA TimelineInRow ==
  ASSUME Good(store), Timed(store), NEW x \in store.byID
  PROVE  LET items == TimelineItems(store, x)
             all   == Unsorted(store, x)
         IN  /\ Len(items) = Len(all) /\ ToSet(items) = ToSet(all)
             /\ \A i, j \in DOMAIN items : i < j =>
                  \/ items[i].at < items[j].at
                  \/ items[i].at = items[j].at /\ items[i].index < items[j].index
<1> DEFINE items == TimelineItems(store, x)
           all   == Unsorted(store, x)
           n     == Len(all)
<1>0. x \in SpanID
  BY DEF Good, Typed, Shape
<1>1. PICK S : items \in Seq(S)
  BY <1>0, TimelineIs
<1>2. PICK T : all \in Seq(T)
  BY <1>0, UnsortedIs
<1>3. /\ n \in Nat /\ \A i \in 1 .. n : all[i].at \in Int /\ all[i].index = i
  <2> DEFINE e == Len(store.node[x].events)
             k == Len(store.node[x].kids)
  <2>1. /\ e \in Nat /\ k \in Nat /\ n = e + k /\ Numbered(all)
        /\ \A i \in 1 .. e + k : all[i].at \in Int
    BY <1>0, UnsortedIs
  <2> HIDE DEF e, k, all
  <2> QED
    BY <2>1 DEF Numbered
<1>4. InOrderOf(all, n, items)
  BY <1>0, TimelineIs
<1> HIDE DEF items, all, n
<1>5. /\ Len(items) = n /\ InRow(items)
      /\ {items[i] : i \in 1 .. n} = {all[i] : i \in 1 .. n}
  BY <1>4 DEF InOrderOf
<1>6. DOMAIN items = 1 .. n /\ ToSet(items) = ToSet(all)
  <2>1. ToSet(items) = {items[i] : i \in 1 .. Len(items)}
    BY <1>1, ToSetIn
  <2>2. ToSet(all) = {all[i] : i \in 1 .. Len(all)}
    BY <1>2, ToSetIn
  <2>3. DOMAIN items = 1 .. n
    BY <1>1, <1>5
  <2> QED
    BY <1>5, <2>1, <2>2, <2>3 DEF n
<1>7. \A i \in 1 .. n : items[i].at \in Int /\ items[i].index \in Int
  <2> TAKE i \in 1 .. n
  <2>1. PICK j \in 1 .. n : items[i] = all[j]
    BY <1>5
  <2> QED
    BY <1>3, <2>1
<1>8. ASSUME NEW i \in 1 .. n, NEW j \in 1 .. n, i < j
      PROVE  \/ items[i].at < items[j].at
             \/ items[i].at = items[j].at /\ items[i].index < items[j].index
  <2>1. Precedes(items[i], items[j])
    BY <1>5, <1>8 DEF InRow
  <2>2. items[i].at # None /\ items[j].at # None
    BY <1>7, ZeroTimeAssumption
  <2> QED
    BY <2>1, <2>2 DEF Precedes
<1> QED
  BY <1>5, <1>6, <1>8 DEF items, all, n

\* For any spans and any records, the timeline of a span has every event and
\* child once, in chronological order, those of one time in the order of their
\* insertion with events before children: the sort is stable, and no order of
\* arrival, clean-up or eviction puts an entry elsewhere (timeline.go:18-50).
THEOREM TimelinesAreChronological == StoreSpec => []Chronological
<1>1. Good(store) /\ Timed(store) => Chronological
  BY TimelineInRow DEF Chronological
<1>2. StoreInit => Timed(store)
  BY EmptyTimed DEF StoreInit
<1>3. StoreInv(store, arrived) /\ Timed(store) /\ [StoreNext]_storeVars
        => Timed(store')
  BY TimedStep
<1>4. Timed(store)' <=> Timed(store')
  OBVIOUS
<1>5. StoreInv(store, arrived) => Good(store)
  BY DEF StoreInv
<1> QED
  BY <1>1, <1>2, <1>3, <1>4, <1>5, StoreInvAlways, PTL DEF StoreSpec

-----------------------------------------------------------------------------
(***************************************************************************)
(* What a span shows after an update.                                      *)
(***************************************************************************)
LEMMA LastIs ==
  ASSUME NEW S, NEW q \in Seq(S), NEW k
  PROVE  LET i == LastWith(q, k)
         IN  \/ i = 0 /\ \A j \in 1 .. Len(q) : q[j].key # k
             \/ i \in 1 .. Len(q) /\ q[i].key = k
                /\ \A j \in i + 1 .. Len(q) : q[j].key # k
<1> DEFINE I == {j \in 1 .. Len(q) : q[j].key = k}
<1>1. LastWith(q, k) = IF I # {} THEN Max(I) ELSE 0
  BY DEF LastWith, SelectLastInSeq
<1>2. Len(q) \in Nat /\ I \in SUBSET (1 .. Len(q))
  BY LenProperties
<1>3. CASE I = {}
  BY <1>1, <1>3
<1>4. CASE I # {}
  <2> DEFINE i == Max(I)
  <2>1. i \in I /\ \A j \in I : i >= j
    <3> HIDE DEF I
    <3> QED
      BY <1>2, <1>4, MaxIs
  <2>2. LastWith(q, k) = i
    BY <1>1, <1>4
  <2> HIDE DEF i
  <2>3. ASSUME NEW j \in i + 1 .. Len(q) PROVE q[j].key # k
    <3>1. i \in 1 .. Len(q) /\ j \in 1 .. Len(q) /\ ~(i >= j)
      BY <1>2, <2>1
    <3> QED
      BY <2>1, <3>1
  <2> QED
    BY <2>1, <2>2, <2>3
<1> QED
  BY <1>3, <1>4

-----------------------------------------------------------------------------
KeepsKeys(old, new) ==
  Len(old) <= Len(new) /\ \A i \in 1 .. Len(old) : new[i].key = old[i].key

AddsOnce(old, list, new) ==
  \A i \in Len(old) + 1 .. Len(new) :
    /\ new[i].key # None
    /\ \E j \in 1 .. Len(list) : list[j].key = new[i].key
    /\ \A j \in 1 .. i - 1 : new[j].key # new[i].key

HasAll(list, new) ==
  \A j \in 1 .. Len(list) : list[j].key # None =>
    \E i \in 1 .. Len(new) : new[i].key = list[j].key

IsFirst(new, i) == \A j \in 1 .. i - 1 : new[j].key # new[i].key

IsLast(list, i) == \A j \in i + 1 .. Len(list) : list[j].key # list[i].key

LastWins(old, list, new) ==
  \A i \in 1 .. Len(new) : new[i].key # None /\ IsFirst(new, i) =>
    \/ \E j \in 1 .. Len(list) : new[i] = list[j] /\ IsLast(list, j)
    \/ /\ i <= Len(old) /\ new[i] = old[i]
       /\ \A j \in 1 .. Len(list) : list[j].key # new[i].key

\* What MergeIsOverride says, entry by entry.
Overridden(old, list, new) ==
  /\ KeepsKeys(old, new)
  /\ AddsOnce(old, list, new)
  /\ HasAll(list, new)
  /\ LastWins(old, list, new)

\* One more attribute in the list.
LEMMA OverriddenStep ==
  ASSUME NEW S, NEW old \in Seq(S), NEW list \in Seq(S), NEW new \in Seq(S),
         NEW a \in S, Overridden(old, list, new)
  PROVE  Merge(new, a) \in Seq(S) /\ Overridden(old, Append(list, a), Merge(new, a))
<1> DEFINE u == Append(list, a)
           v == Merge(new, a)
           n == Len(old)
           m == Len(list)
           l == Len(new)
           f == FirstWith(new, a.key)
<1>1. /\ n \in Nat /\ m \in Nat /\ l \in Nat /\ Len(u) = m + 1
      /\ u[m + 1] = a /\ \A j \in 1 .. m : u[j] = list[j]
  OBVIOUS
<1>2. \/ f = 0 /\ \A j \in 1 .. l : new[j].key # a.key
      \/ f \in 1 .. l /\ new[f].key = a.key /\ \A j \in 1 .. f - 1 : new[j].key # a.key
  BY FirstIs
<1>3. v = IF a.key = None THEN new ELSE IF f = 0 THEN Append(new, a)
          ELSE [new EXCEPT ![f] = a]
  BY MergeIs
<1>4. /\ n <= l /\ \A i \in 1 .. n : new[i].key = old[i].key
  BY DEF Overridden, KeepsKeys
<1>5. \A i \in n + 1 .. l :
        /\ new[i].key # None
        /\ \E j \in 1 .. m : list[j].key = new[i].key
        /\ \A j \in 1 .. i - 1 : new[j].key # new[i].key
  BY DEF Overridden, AddsOnce
<1>6. \A j \in 1 .. m : list[j].key # None => \E i \in 1 .. l : new[i].key = list[j].key
  BY DEF Overridden, HasAll
<1>7. LastWins(old, list, new)
  BY DEF Overridden
<1> HIDE DEF u, v, n, m, l, f
\* What the last entry of u does not concern stays as it was.
<1>8. ASSUME NEW i \in 1 .. l, v[i] = new[i], new[i].key # None, IsFirst(new, i),
             new[i].key # a.key
      PROVE  \/ \E j \in 1 .. Len(u) : v[i] = u[j] /\ IsLast(u, j)
             \/ /\ i <= Len(old) /\ v[i] = old[i]
                /\ \A j \in 1 .. Len(u) : u[j].key # v[i].key
  <2>1. CASE \E j \in 1 .. m : new[i] = list[j] /\ IsLast(list, j)
    <3>1. PICK j \in 1 .. m : new[i] = list[j] /\ IsLast(list, j)
      BY <2>1
    <3>2. j \in 1 .. Len(u) /\ u[j] = v[i]
      BY <1>1, <1>8, <3>1
    <3>3. ASSUME NEW k \in j + 1 .. Len(u) PROVE u[k].key # u[j].key
      <4>1. CASE k = m + 1
        BY <1>1, <1>8, <3>2, <4>1
      <4>2. CASE k # m + 1
        <5>1. k \in j + 1 .. m /\ k \in 1 .. m
          BY <1>1, <4>2
        <5>2. list[k].key # list[j].key
          BY <3>1, <5>1 DEF IsLast, m
        <5> QED
          BY <1>1, <5>1, <5>2
      <4> QED
        BY <4>1, <4>2
    <3> QED
      BY <3>2, <3>3 DEF IsLast
  <2>2. CASE i <= n /\ new[i] = old[i] /\ \A j \in 1 .. m : list[j].key # new[i].key
    <3>1. ASSUME NEW j \in 1 .. Len(u) PROVE u[j].key # v[i].key
      <4>1. j = m + 1 \/ j \in 1 .. m
        BY <1>1
      <4> QED
        BY <1>1, <1>8, <2>2, <4>1
    <3> QED
      BY <1>8, <2>2, <3>1 DEF n
  <2> QED
    BY <1>7, <1>8, <2>1, <2>2 DEF LastWins, l, m, n
<1>9. IsLast(u, m + 1) /\ m + 1 \in 1 .. Len(u)
  <2>1. \A j \in m + 1 + 1 .. Len(u) : FALSE
    BY <1>1
  <2> QED
    BY <1>1, <2>1 DEF IsLast
<1>10. \A k : (\E j \in 1 .. m : list[j].key = k) => \E j \in 1 .. Len(u) : u[j].key = k
  BY <1>1
<1>11. CASE a.key = None
  <2>1. v = new
    BY <1>3, <1>11
  <2>2. KeepsKeys(old, v)
    BY <1>4, <2>1 DEF KeepsKeys, n, l
  <2>3. AddsOnce(old, u, v)
    BY <1>5, <1>10, <2>1 DEF AddsOnce, n, l
  <2>4. HasAll(u, v)
    <3>1. ASSUME NEW j \in 1 .. Len(u), u[j].key # None
          PROVE  \E i \in 1 .. l : v[i].key = u[j].key
      <4>1. j \in 1 .. m
        BY <1>1, <1>11, <3>1
      <4> QED
        BY <1>1, <1>6, <2>1, <3>1, <4>1
    <3> QED
      BY <2>1, <3>1 DEF HasAll, l
  <2>5. LastWins(old, u, v)
    BY <1>8, <1>11, <2>1 DEF LastWins, l
  <2> QED
    BY <2>1, <2>2, <2>3, <2>4, <2>5 DEF Overridden, u, v
<1>12. CASE a.key # None /\ f = 0
  <2>1. /\ v \in Seq(S) /\ Len(v) = l + 1 /\ v[l + 1] = a
        /\ \A i \in 1 .. l : v[i] = new[i]
    <3>1. v = Append(new, a)
      BY <1>3, <1>12
    <3> QED
      BY <3>1 DEF l
  <2>2. \A j \in 1 .. l : new[j].key # a.key
    BY <1>1, <1>2, <1>12
  <2>3. KeepsKeys(old, v)
    <3>1. Len(old) <= Len(v)
      BY <1>1, <1>4, <2>1 DEF n
    <3>2. ASSUME NEW i \in 1 .. Len(old) PROVE v[i].key = old[i].key
      <4>1. i \in 1 .. n /\ i \in 1 .. l
        BY <1>1, <1>4, <3>2 DEF n
      <4> QED
        BY <1>4, <2>1, <4>1
    <3> QED
      BY <3>1, <3>2 DEF KeepsKeys
  <2>4. AddsOnce(old, u, v)
    <3>1. ASSUME NEW i \in n + 1 .. Len(v)
          PROVE  /\ v[i].key # None
                 /\ \E j \in 1 .. Len(u) : u[j].key = v[i].key
                 /\ \A j \in 1 .. i - 1 : v[j].key # v[i].key
      <4>1. CASE i = l + 1
        <5>1. \A j \in 1 .. i - 1 : j \in 1 .. l
          BY <1>1, <4>1
        <5> QED
          BY <1>1, <1>9, <1>12, <2>1, <2>2, <4>1, <5>1
      <4>2. CASE i # l + 1
        <5>1. i \in n + 1 .. l /\ i \in 1 .. l
          BY <1>1, <2>1, <4>2
        <5>2. \A j \in 1 .. i - 1 : j \in 1 .. l
          BY <1>1, <5>1
        <5>3. \E j \in 1 .. Len(u) : u[j].key = new[i].key
          BY <1>5, <1>10, <5>1
        <5> QED
          BY <1>5, <2>1, <5>1, <5>2, <5>3
      <4> QED
        BY <4>1, <4>2
    <3> QED
      BY <3>1 DEF AddsOnce, n
  <2>5. HasAll(u, v)
    <3>1. ASSUME NEW j \in 1 .. Len(u), u[j].key # None
          PROVE  \E i \in 1 .. Len(v) : v[i].key = u[j].key
      <4>1. CASE j = m + 1
        <5>1. l + 1 \in 1 .. Len(v)
          BY <1>1, <2>1
        <5> QED
          BY <1>1, <2>1, <4>1, <5>1
      <4>2. CASE j # m + 1
        <5>1. j \in 1 .. m
          BY <1>1, <4>2
        <5>2. PICK i \in 1 .. l : new[i].key = list[j].key
          BY <1>1, <1>6, <3>1, <5>1
        <5>3. i \in 1 .. Len(v)
          BY <1>1, <2>1
        <5> QED
          BY <1>1, <2>1, <5>1, <5>2, <5>3
      <4> QED
        BY <4>1, <4>2
    <3> QED
      BY <3>1 DEF HasAll
  <2>6. LastWins(old, u, v)
    <3>1. ASSUME NEW i \in 1 .. Len(v), v[i].key # None, IsFirst(v, i)
          PROVE  \/ \E j \in 1 .. Len(u) : v[i] = u[j] /\ IsLast(u, j)
                 \/ /\ i <= Len(old) /\ v[i] = old[i]
                    /\ \A j \in 1 .. Len(u) : u[j].key # v[i].key
      <4>1. CASE i = l + 1
        BY <1>1, <1>9, <2>1, <4>1
      <4>2. CASE i # l + 1
        <5>1. i \in 1 .. l /\ \A j \in 1 .. i - 1 : j \in 1 .. l
          BY <1>1, <2>1, <4>2
        <5>2. v[i] = new[i] /\ IsFirst(new, i)
          BY <2>1, <3>1, <5>1 DEF IsFirst
        <5>3. new[i].key # None /\ new[i].key # a.key
          BY <2>2, <3>1, <5>1, <5>2
        <5> QED
          BY <1>8, <5>1, <5>2, <5>3
      <4> QED
        BY <4>1, <4>2
    <3> QED
      BY <3>1 DEF LastWins
  <2> QED
    BY <2>1, <2>3, <2>4, <2>5, <2>6 DEF Overridden, u, v
<1>13. CASE a.key # None /\ f # 0
  <2>0. f \in 1 .. l /\ new[f].key = a.key /\ \A j \in 1 .. f - 1 : new[j].key # a.key
    BY <1>2, <1>13
  <2>1. /\ v \in Seq(S) /\ Len(v) = l /\ v[f] = a
        /\ \A i \in 1 .. l : i # f => v[i] = new[i]
    <3>1. v = [new EXCEPT ![f] = a]
      BY <1>3, <1>13
    <3>2. f \in 1 .. Len(new)
      BY <2>0 DEF l
    <3> QED
      BY <3>1, <3>2 DEF l
  <2>2. \A i \in 1 .. l : v[i].key = new[i].key
    BY <2>0, <2>1
  <2>3. KeepsKeys(old, v)
    <3>1. \A i \in 1 .. n : i \in 1 .. l
      BY <1>1, <1>4
    <3> QED
      BY <1>4, <2>1, <2>2, <3>1 DEF KeepsKeys, n
  <2>4. AddsOnce(old, u, v)
    <3>1. ASSUME NEW i \in n + 1 .. l
          PROVE  /\ v[i].key # None
                 /\ \E j \in 1 .. Len(u) : u[j].key = v[i].key
                 /\ \A j \in 1 .. i - 1 : v[j].key # v[i].key
      <4>1. i \in 1 .. l /\ \A j \in 1 .. i - 1 : j \in 1 .. l
        BY <1>1
      <4>2. \E j \in 1 .. Len(u) : u[j].key = new[i].key
        BY <1>5, <1>10
      <4> QED
        BY <1>5, <2>2, <4>1, <4>2
    <3> QED
      BY <2>1, <3>1 DEF AddsOnce, n
  <2>5. HasAll(u, v)
    <3>1. ASSUME NEW j \in 1 .. Len(u), u[j].key # None
          PROVE  \E i \in 1 .. l : v[i].key = u[j].key
      <4>1. j = m + 1 \/ j \in 1 .. m
        BY <1>1
      <4> QED
        BY <1>1, <1>6, <2>0, <2>2, <3>1, <4>1
    <3> QED
      BY <2>1, <3>1 DEF HasAll
  <2>6. LastWins(old, u, v)
    <3>1. ASSUME NEW i \in 1 .. l, v[i].key # None, IsFirst(v, i)
          PROVE  \/ \E j \in 1 .. Len(u) : v[i] = u[j] /\ IsLast(u, j)
                 \/ /\ i <= Len(old) /\ v[i] = old[i]
                    /\ \A j \in 1 .. Len(u) : u[j].key # v[i].key
      <4>1. CASE i = f
        BY <1>1, <1>9, <2>1, <4>1
      <4>2. CASE i # f
        <5>1. \A j \in 1 .. i - 1 : j \in 1 .. l
          BY <1>1
        <5>2. v[i] = new[i] /\ IsFirst(new, i)
          BY <2>1, <2>2, <3>1, <4>2, <5>1 DEF IsFirst
        <5>3. new[i].key # a.key
          <6>1. f \in 1 .. i - 1 \/ i \in 1 .. f - 1
            BY <1>1, <2>0, <4>2
          <6> QED
            BY <2>0, <5>2, <6>1 DEF IsFirst
        <5> QED
          BY <1>8, <3>1, <5>2, <5>3
      <4> QED
        BY <4>1, <4>2
    <3> QED
      BY <2>1, <3>1 DEF LastWins
  <2> QED
    BY <2>1, <2>3, <2>4, <2>5, <2>6 DEF Overridden, u, v
<1> QED
  BY <1>11, <1>12, <1>13

LEMMA MergesOverridden ==
  ASSUME NEW S, NEW old \in Seq(S), NEW list \in Seq(S)
  PROVE  /\ FoldLeft(Merge, old, list) \in Seq(S)
         /\ Overridden(old, list, FoldLeft(Merge, old, list))
<1> DEFINE B == {s \in Seq(S) : /\ FoldLeft(Merge, old, s) \in Seq(S)
                               /\ Overridden(old, s, FoldLeft(Merge, old, s))}
<1>1. <<>> \in B
  <2>1. FoldLeft(Merge, old, <<>>) = old
    BY MergedEmpty
  <2>2. <<>> \in Seq(S) /\ Len(<<>>) = 0 /\ Len(old) \in Nat
    BY EmptySeq, LenProperties
  <2>3. Overridden(old, <<>>, old)
    BY <2>2 DEF Overridden, KeepsKeys, AddsOnce, HasAll, LastWins
  <2> QED
    BY <2>1, <2>2, <2>3
<1>2. ASSUME NEW s \in Seq(S), s \in B, NEW a \in S PROVE Append(s, a) \in B
  <2> DEFINE w == FoldLeft(Merge, old, s)
             g == FoldLeft(Merge, old, Append(s, a))
  <2>1. w \in Seq(S) /\ Overridden(old, s, w)
    BY <1>2
  <2>2. g = Merge(w, a)
    BY MergedAppend
  <2>3. Append(s, a) \in Seq(S)
    OBVIOUS
  <2> HIDE DEF w
  <2>4. Merge(w, a) \in Seq(S) /\ Overridden(old, Append(s, a), Merge(w, a))
    BY <2>1, OverriddenStep
  <2>5. g \in Seq(S) /\ Overridden(old, Append(s, a), g)
    BY <2>2, <2>4
  <2> QED
    BY <2>3, <2>5
<1>3. Seq(S) \subseteq B
  <2> HIDE DEF B
  <2> QED
    BY <1>1, <1>2, BySequences
<1> QED
  BY <1>3

-----------------------------------------------------------------------------
LEMMA KeysAre ==
  ASSUME NEW S, NEW q \in Seq(S)
  PROVE  /\ \E K : KeysOf(q) \in Seq(K)
         /\ Len(KeysOf(q)) = Len(q)
         /\ \A i \in 1 .. Len(q) : KeysOf(q)[i] = q[i].key
         /\ DOMAIN KeysOf(q) = 1 .. Len(q)
         /\ ToSet(KeysOf(q)) = {q[i].key : i \in 1 .. Len(q)}
<1> DEFINE K == {a.key : a \in S}
           w == KeysOf(q)
           n == Len(q)
<1>1. n \in Nat /\ DOMAIN q = 1 .. n /\ \A i \in 1 .. n : q[i] \in S
  OBVIOUS
<1>2. w = [i \in 1 .. n |-> q[i].key]
  BY <1>1 DEF KeysOf
<1>3. \A i \in 1 .. n : q[i].key \in K
  BY <1>1
<1> HIDE DEF n, K, w
<1>4. w \in [1 .. n -> K]
  BY <1>2, <1>3
<1>5. w \in Seq(K) /\ Len(w) = n
  BY <1>1, <1>4
<1>6. ToSet(w) = {q[i].key : i \in 1 .. n}
  BY <1>2 DEF ToSet
<1> QED
  BY <1>2, <1>5, <1>6 DEF w, n, K

LEMMA KeysStay ==
  ASSUME NEW S, NEW old \in Seq(S), NEW new \in Seq(S), KeepsKeys(old, new)
  PROVE  IsPrefix(KeysOf(old), KeysOf(new))
<1> DEFINE v == KeysOf(old)
           w == KeysOf(new)
           n == Len(old)
<1>0. PICK J, K : v \in Seq(J) /\ w \in Seq(K)
  BY KeysAre
<1>1. n \in Nat /\ Len(v) = n /\ Len(w) = Len(new)
  BY KeysAre
<1>2. n <= Len(new) /\ Len(new) \in Nat
  BY DEF KeepsKeys
<1>3. \A i \in 1 .. n : v[i] = w[i]
  <2>1. ASSUME NEW i \in 1 .. n PROVE v[i] = w[i]
    <3>1. i \in 1 .. Len(new)
      BY <1>1, <1>2
    <3>2. v[i] = old[i].key /\ w[i] = new[i].key
      BY <3>1, KeysAre
    <3> QED
      BY <3>2 DEF KeepsKeys
  <2> QED
    BY <2>1
<1> HIDE DEF v, w, n
<1>4. SubSeq(v, 1, n) = SubSeq(w, 1, n)
  <2>1. /\ SubSeq(v, 1, n) = [i \in 1 .. n |-> v[i]]
        /\ SubSeq(w, 1, n) = [i \in 1 .. n |-> w[i]]
    BY <1>0, <1>1, <1>2
  <2> QED
    BY <1>3, <2>1
<1>5. IsPrefix(v, w)
  BY <1>1, <1>2, <1>4 DEF IsPrefix
<1> QED
  BY <1>5 DEF v, w

LEMMA AddedAre ==
  ASSUME NEW S, NEW old \in Seq(S), NEW list \in Seq(S), NEW new \in Seq(S),
         Overridden(old, list, new)
  PROVE  LET added == SubSeq(new, Len(old) + 1, Len(new))
         IN  /\ IsInjective(KeysOf(added))
             /\ ToSet(KeysOf(added)) = ToSet(KeysOf(list)) \ (ToSet(KeysOf(old)) \cup {None})
<1> DEFINE n == Len(old)
           m == Len(list)
           l == Len(new)
           added == SubSeq(new, n + 1, l)
           keys == KeysOf(added)
<1>1. n \in Nat /\ m \in Nat /\ l \in Nat /\ n <= l /\ \A i \in 1 .. n : new[i].key = old[i].key
  BY DEF Overridden, KeepsKeys
<1>2. /\ added \in Seq(S) /\ Len(added) = l - n
      /\ \A i \in 1 .. l - n : added[i] = new[n + i]
  <2>1. added \in Seq(S)
    BY <1>1
  <2>2. Len(added) = l - n
    BY <1>1
  <2>3. ASSUME NEW i \in 1 .. l - n PROVE added[i] = new[n + i]
    BY <1>1
  <2> QED
    BY <2>1, <2>2, <2>3
<1>3. \A i \in n + 1 .. l :
        /\ new[i].key # None
        /\ \E j \in 1 .. m : list[j].key = new[i].key
        /\ \A j \in 1 .. i - 1 : new[j].key # new[i].key
  BY DEF Overridden, AddsOnce
<1>4. \A j \in 1 .. m : list[j].key # None => \E i \in 1 .. l : new[i].key = list[j].key
  BY DEF Overridden, HasAll
<1>5. /\ ToSet(KeysOf(old)) = {old[i].key : i \in 1 .. n}
      /\ ToSet(KeysOf(list)) = {list[i].key : i \in 1 .. m}
  BY KeysAre
<1> HIDE DEF n, m, l, added, keys
<1>6. /\ DOMAIN keys = 1 .. l - n
      /\ \A i \in 1 .. l - n : keys[i] = new[n + i].key
      /\ ToSet(keys) = {new[n + i].key : i \in 1 .. l - n}
  <2>1. /\ DOMAIN keys = 1 .. Len(added)
        /\ \A i \in 1 .. Len(added) : keys[i] = added[i].key
    BY <1>2, KeysAre DEF keys
  <2>2. DOMAIN keys = 1 .. l - n /\ \A i \in 1 .. l - n : keys[i] = new[n + i].key
    BY <1>2, <2>1
  <2> QED
    BY <2>2 DEF ToSet
<1>7. IsInjective(keys)
  <2>1. ASSUME NEW a \in 1 .. l - n, NEW b \in 1 .. l - n, a < b PROVE keys[a] # keys[b]
    <3>1. n + b \in n + 1 .. l /\ n + a \in 1 .. (n + b) - 1
      BY <1>1, <2>1
    <3>2. new[n + a].key # new[n + b].key
      BY <1>3, <3>1
    <3> QED
      BY <1>6, <3>2
  <2>2. \A a, b \in 1 .. l - n : a = b \/ a < b \/ b < a
    BY <1>1
  <2> QED
    BY <1>6, <2>1, <2>2 DEF IsInjective
<1>8. ASSUME NEW i \in 1 .. l - n
      PROVE  /\ new[n + i].key \in ToSet(KeysOf(list))
             /\ new[n + i].key \notin ToSet(KeysOf(old)) \cup {None}
  <2>1. n + i \in n + 1 .. l
    BY <1>1
  <2>2. ASSUME NEW j \in 1 .. n PROVE old[j].key # new[n + i].key
    <3>1. j \in 1 .. (n + i) - 1
      BY <1>1
    <3> QED
      BY <1>1, <1>3, <2>1, <3>1
  <2>3. PICK j \in 1 .. m : list[j].key = new[n + i].key
    BY <1>3, <2>1
  <2> QED
    BY <1>3, <1>5, <2>1, <2>2, <2>3
<1>9. ASSUME NEW k \in ToSet(KeysOf(list)), k \notin ToSet(KeysOf(old)), k # None
      PROVE  \E i \in 1 .. l - n : new[n + i].key = k
  <2>1. PICK j \in 1 .. m : list[j].key = k
    BY <1>5, <1>9
  <2>2. PICK i \in 1 .. l : new[i].key = k
    BY <1>4, <1>9, <2>1
  <2>3. i \notin 1 .. n
    BY <1>1, <1>5, <1>9, <2>2
  <2>4. i - n \in 1 .. l - n /\ n + (i - n) = i
    BY <1>1, <2>3
  <2> QED
    BY <2>2, <2>4
<1>10. ToSet(keys) = ToSet(KeysOf(list)) \ (ToSet(KeysOf(old)) \cup {None})
  <2>1. \A k \in ToSet(keys) : \E i \in 1 .. l - n : k = new[n + i].key
    BY <1>6
  <2>2. \A i \in 1 .. l - n : new[n + i].key \in ToSet(keys)
    BY <1>6
  <2>3. ToSet(keys) \subseteq ToSet(KeysOf(list)) \ (ToSet(KeysOf(old)) \cup {None})
    BY <1>8, <2>1
  <2>4. ToSet(KeysOf(list)) \ (ToSet(KeysOf(old)) \cup {None}) \subseteq ToSet(keys)
    BY <1>9, <2>2
  <2> QED
    BY <2>3, <2>4
<1> QED
  BY <1>7, <1>10 DEF keys, added, n, l

LEMMA FirstOfKeyIs ==
  ASSUME NEW S, NEW old \in Seq(S), NEW list \in Seq(S), NEW new \in Seq(S),
         Overridden(old, list, new), NEW k \in ToSet(KeysOf(new)) \ {None}
  PROVE  new[FirstWith(new, k)] = IF LastWith(list, k) = 0
                                  THEN old[FirstWith(old, k)]
                                  ELSE list[LastWith(list, k)]
<1> DEFINE i == FirstWith(new, k)
           g == LastWith(list, k)
           h == FirstWith(old, k)
           n == Len(old)
<1>0. n \in Nat /\ Len(list) \in Nat /\ Len(new) \in Nat
  OBVIOUS
<1>1. PICK c \in 1 .. Len(new) : new[c].key = k
  <2>1. ToSet(KeysOf(new)) = {new[c].key : c \in 1 .. Len(new)}
    BY KeysAre
  <2> QED
    BY <2>1
<1>2. i \in 1 .. Len(new) /\ new[i].key = k /\ \A j \in 1 .. i - 1 : new[j].key # k
  BY <1>1, FirstIs
<1>3. \/ g = 0 /\ \A j \in 1 .. Len(list) : list[j].key # k
      \/ g \in 1 .. Len(list) /\ list[g].key = k /\ \A j \in g + 1 .. Len(list) : list[j].key # k
  BY LastIs
<1>4. \/ h = 0 /\ \A j \in 1 .. n : old[j].key # k
      \/ h \in 1 .. n /\ old[h].key = k /\ \A j \in 1 .. h - 1 : old[j].key # k
  BY FirstIs
<1>5. n <= Len(new) /\ \A j \in 1 .. n : new[j].key = old[j].key
  BY DEF Overridden, KeepsKeys
<1> HIDE DEF i, g, h, n
<1>6. IsFirst(new, i) /\ new[i].key # None
  BY <1>2 DEF IsFirst
<1>7. \/ \E j \in 1 .. Len(list) : new[i] = list[j] /\ IsLast(list, j)
      \/ i <= n /\ new[i] = old[i] /\ \A j \in 1 .. Len(list) : list[j].key # new[i].key
  BY <1>2, <1>6 DEF Overridden, LastWins, n
<1>8. CASE \E j \in 1 .. Len(list) : new[i] = list[j] /\ IsLast(list, j)
  <2>1. PICK j \in 1 .. Len(list) : new[i] = list[j] /\ IsLast(list, j)
    BY <1>8
  <2>2. list[j].key = k /\ g \in 1 .. Len(list) /\ list[g].key = k
        /\ \A b \in g + 1 .. Len(list) : list[b].key # k
    BY <1>2, <1>3, <2>1
  <2>3. ~(g \in j + 1 .. Len(list)) /\ ~(j \in g + 1 .. Len(list))
    BY <2>1, <2>2 DEF IsLast
  <2>4. g = j /\ g # 0
    BY <1>0, <2>2, <2>3
  <2> QED
    BY <2>1, <2>4 DEF i, g
<1>9. CASE i <= n /\ new[i] = old[i] /\ \A j \in 1 .. Len(list) : list[j].key # new[i].key
  <2>1. i \in 1 .. n /\ old[i].key = k
    BY <1>0, <1>2, <1>9
  <2>2. g = 0
    BY <1>2, <1>3, <1>9
  <2>3. h \in 1 .. n /\ old[h].key = k /\ \A j \in 1 .. h - 1 : old[j].key # k
    BY <1>4, <2>1
  <2>4. ~(h \in 1 .. i - 1) /\ ~(i \in 1 .. h - 1)
    BY <1>0, <1>2, <1>5, <2>1, <2>3
  <2>5. h = i
    BY <1>0, <2>1, <2>3, <2>4
  <2> QED
    BY <1>9, <2>2, <2>5 DEF i, g, h
<1> QED
  BY <1>7, <1>8, <1>9

-----------------------------------------------------------------------------
IsList(attrs) == attrs \in Seq(ToSet(attrs))

\* Every span shows a list of attributes.
Listed(st) == \A x \in SpanID : IsList(st.node[x].attrs)

LEMMA ListIs ==
  ASSUME NEW S, NEW q \in Seq(S)
  PROVE  IsList(q)
<1>1. Len(q) \in Nat /\ q \in [1 .. Len(q) -> ToSet(q)]
  <2>1. Len(q) \in Nat /\ DOMAIN q = 1 .. Len(q) /\ q = [i \in 1 .. Len(q) |-> q[i]]
    BY LenProperties
  <2>2. \A i \in 1 .. Len(q) : q[i] \in ToSet(q)
    BY <2>1 DEF ToSet
  <2> QED
    BY <2>1, <2>2
<1> QED
  BY <1>1 DEF IsList

LEMMA ListsJoin ==
  ASSUME NEW p, IsList(p), NEW q, IsList(q)
  PROVE  \E S : p \in Seq(S) /\ q \in Seq(S)
<1> DEFINE S == ToSet(p) \cup ToSet(q)
<1>1. Len(p) \in Nat /\ p \in [1 .. Len(p) -> ToSet(p)]
  BY LenProperties DEF IsList
<1>2. Len(q) \in Nat /\ q \in [1 .. Len(q) -> ToSet(q)]
  BY LenProperties DEF IsList
<1>3. p \in [1 .. Len(p) -> S] /\ q \in [1 .. Len(q) -> S]
  BY <1>1, <1>2
<1>4. p \in Seq(S) /\ q \in Seq(S)
  <2> HIDE DEF S
  <2> QED
    BY <1>1, <1>2, <1>3
<1> QED
  BY <1>4

LEMMA BlankListed ==
  IsList(Blank.attrs)
<1>1. Blank.attrs = <<>> /\ <<>> \in Seq({})
  BY EmptySeq DEF Blank
<1> QED
  BY <1>1, ListIs

LEMMA StartListed ==
  ASSUME NEW st, Good(st), Listed(st), NEW r, r.id \in SpanID \cup {None},
         IsList(r.attrs), ~Ignored(st, r)
  PROVE  Listed(ApplyStarted(st, r))
<1> DEFINE now == ApplyStarted(st, r)
<1>0. Typed(st) /\ r.id \in SpanID /\ Shape(st)
  BY DEF Good, Typed, Ignored
<1>1. IsBorn(st, r, now)
  BY <1>0, StartedIs
<1> HIDE DEF now
<1>2. ASSUME NEW x \in SpanID PROVE IsList(now.node[x].attrs)
  <2>1. DOMAIN st.node[x] = DOMAIN Blank /\ IsList(st.node[x].attrs)
    BY <1>0 DEF Shape, Listed
  <2>2. CASE x = r.id
    <3>1. now.node[x] = [Blank EXCEPT !.up = r.up, !.at = TimeValue(r.at),
                                      !.attrs = r.attrs]
      BY <1>1, <2>2 DEF IsBorn
    <3>2. now.node[x].attrs = r.attrs
      BY <3>1 DEF Blank
    <3> QED
      BY <3>2
  <2>3. CASE x # r.id /\ x = r.up /\ r.up \in st.byID
    <3>1. now.node[x] = [st.node[x] EXCEPT !.kids = Append(@, r.id)]
      BY <1>1, <2>3 DEF IsBorn
    <3>2. now.node[x].attrs = st.node[x].attrs
      BY <2>1, <3>1, BlankIs
    <3> QED
      BY <2>1, <3>2
  <2>4. CASE x # r.id /\ ~(x = r.up /\ r.up \in st.byID)
    <3>1. now.node[x] = st.node[x]
      BY <1>1, <2>4 DEF IsBorn
    <3> QED
      BY <2>1, <3>1
  <2> QED
    BY <2>2, <2>3, <2>4
<1> QED
  BY <1>2 DEF Listed, now

LEMMA EndedIs ==
  ASSUME NEW st, NEW r, Writable(st, r.id)
  PROVE  ApplyEnded(st, r) =
           [st EXCEPT !.node = [@ EXCEPT ![r.id] =
              [st.node[r.id] EXCEPT !.done = TRUE, !.endedAt = TimeValue(r.at),
                                    !.how = r.how, !.error = r.error]]]
BY ZenonT(30) DEF ApplyEnded

LEMMA ApplyListed ==
  ASSUME NEW st, Good(st), Listed(st), NEW r, IsRecord(r),
         r.kind # "end" => IsList(r.attrs)
  PROVE  Listed(Apply(st, r))
<1>0. Typed(st) /\ Shape(st) /\ r.id \in SpanID \cup {None}
  BY DEF Good, Typed, IsRecord
<1>1. CASE r.kind = "start"
  <2>1. Apply(st, r) = ApplyStarted(st, r)
    BY <1>1 DEF Apply
  <2>2. CASE Ignored(st, r)
    BY <2>1, <2>2 DEF ApplyStarted
  <2>3. CASE ~Ignored(st, r)
    BY <1>0, <1>1, <2>1, <2>3, StartListed
  <2> QED
    BY <2>2, <2>3
<1>2. CASE r.kind # "start" /\ ~Writable(st, r.id)
  <2>1. Apply(st, r) = st
    BY <1>2 DEF IsRecord, Apply, ApplyUpdated, ApplyEnded, ApplyEvent
  <2> QED
    BY <2>1
<1>3. CASE r.kind # "start" /\ Writable(st, r.id)
  <2> DEFINE old == st.node[r.id]
             updated == [old EXCEPT !.attrs = FoldLeft(Merge, @, r.attrs)]
  <2>0. r.kind \in {"update", "end", "event"} /\ r.id \in SpanID
    BY <1>0, <1>3 DEF IsRecord, Writable, Shape
  <2>1. DOMAIN old = DOMAIN Blank /\ IsList(old.attrs)
    BY <1>0, <2>0 DEF Shape, Listed
  <2>2. CASE r.kind = "update"
    <3>1. Apply(st, r) = [st EXCEPT !.node = [@ EXCEPT ![r.id] = updated]]
      <4>1. Apply(st, r) = ApplyUpdated(st, r)
        BY <2>2 DEF Apply
      <4>2. ApplyUpdated(st, r) = [st EXCEPT !.node = [@ EXCEPT ![r.id] = updated]]
        BY <1>3 DEF ApplyUpdated
      <4> QED
        BY <4>1, <4>2
    <3>2. updated.attrs = FoldLeft(Merge, old.attrs, r.attrs)
      <4> HIDE DEF old
      <4> QED
        BY <2>1, BlankIs
    <3>3. PICK S : old.attrs \in Seq(S) /\ r.attrs \in Seq(S)
      BY <2>1, <2>2, ListsJoin
    <3>4. IsList(updated.attrs)
      BY <3>2, <3>3, MergesOverridden, ListIs
    <3> HIDE DEF updated
    <3>5. \A x \in SpanID : Apply(st, r).node[x] = IF x = r.id THEN updated ELSE st.node[x]
      BY <1>0, <2>0, <3>1 DEF Shape
    <3> QED
      BY <3>4, <3>5 DEF Listed
  <2>3. CASE r.kind \in {"end", "event"}
    <3>1. PICK n : IsWrite(st, r.id, n, Apply(st, r))
      BY <1>0, <1>3, WriteIs
    <3>2. Apply(st, r).node[r.id].attrs = old.attrs
      <4>1. CASE r.kind = "end"
        <5> DEFINE ended == [old EXCEPT !.done = TRUE, !.endedAt = TimeValue(r.at),
                                        !.how = r.how, !.error = r.error]
        <5>1. Apply(st, r) = ApplyEnded(st, r)
          BY <4>1 DEF Apply
        <5>2. ApplyEnded(st, r) = [st EXCEPT !.node = [@ EXCEPT ![r.id] = ended]]
          BY <1>3, EndedIs
        <5>3. ended.attrs = old.attrs
          <6> HIDE DEF old
          <6> QED
            BY <2>1, BlankIs
        <5> HIDE DEF ended, old
        <5>4. Apply(st, r).node[r.id] = ended
          BY <1>0, <2>0, <5>1, <5>2 DEF Shape
        <5> QED
          BY <5>3, <5>4
      <4>2. CASE r.kind = "event"
        <5> DEFINE e == [at |-> TimeValue(r.at), severity |-> r.severity,
                         attrs |-> r.attrs]
                   longer == [old EXCEPT !.events = Append(@, e)]
        <5>1. Apply(st, r) = [st EXCEPT !.node = [@ EXCEPT ![r.id] = longer]]
          BY <1>0, <1>3, <2>0, <4>2 DEF Apply, ApplyEvent, Shape
        <5>2. longer.attrs = old.attrs
          <6> HIDE DEF old, e
          <6> QED
            BY <2>1, BlankIs
        <5> HIDE DEF longer, old
        <5>3. Apply(st, r).node[r.id] = longer
          BY <1>0, <2>0, <5>1 DEF Shape
        <5> QED
          BY <5>2, <5>3
      <4> QED
        BY <2>3, <4>1, <4>2
    <3>3. \A x \in SpanID : x # r.id => Apply(st, r).node[x] = st.node[x]
      BY <1>0, <2>0, <3>1 DEF IsWrite, Shape
    <3> QED
      BY <3>2, <3>3 DEF Listed
  <2> QED
    BY <2>0, <2>2, <2>3
<1> QED
  BY <1>1, <1>2, <1>3

LEMMA ListedStep ==
  ASSUME StoreInv(store, arrived), Listed(store), [StoreNext]_storeVars
  PROVE  Listed(store')
<1>0. Good(store) /\ Shape(store)
  BY DEF StoreInv, Good, Typed
<1>1. CASE UNCHANGED storeVars
  BY <1>1 DEF storeVars
<1>2. ASSUME NEW r \in Records, Receive(r) PROVE Listed(store')
  <2>1. IsRecord(r) /\ (r.kind # "end" => IsList(r.attrs))
    BY RecordsAre, RecordsAssumption DEF IsList
  <2>2. Listed(Apply(store, r))
    BY <1>0, <2>1, ApplyListed
  <2> QED
    BY <1>2, <2>2 DEF Receive, Becomes
<1>3. CASE DoClear
  BY <1>3, BlankListed DEF DoClear, Becomes, Clear, Empty, Listed
<1>4. CASE DoClearOpenSpans
  <2>1. store' = ClearOpenSpans(store)
    BY <1>4 DEF DoClearOpenSpans, Becomes
  <2>2. ASSUME NEW x \in SpanID PROVE IsList(store'.node[x].attrs)
    <3>1. IF x \in Doomed(store) THEN store'.node[x] = Blank
          ELSE store'.node[x] = [store.node[x] EXCEPT !.kids = Without(@, Doomed(store))]
      BY <1>0, <2>1, ClearOpenSpansNodes
    <3>2. store'.node[x] = Blank \/ store'.node[x].attrs = store.node[x].attrs
      BY <1>0, <3>1, BlankIs DEF Shape
    <3> QED
      BY <3>2, BlankListed DEF Listed
  <2> QED
    BY <2>2 DEF Listed
<1>5. ASSUME NEW limit \in Limits, DoLimitRoots(limit) PROVE Listed(store')
  <2>1. store' = LimitRoots(store, limit) /\ limit \in Int
    BY <1>5, LimitsAssumption DEF DoLimitRoots, Becomes
  <2>2. CASE limit <= 0
    BY <2>1, <2>2, BlankListed DEF LimitRoots, Clear, Empty, Listed
  <2>3. CASE limit > 0
    <3>1. \A x \in SpanID : store'.node[x] \in {Blank, store.node[x]}
      BY <1>0, <2>1, <2>3, LimitRootsNodes
    <3> QED
      BY <3>1, BlankListed DEF Listed
  <2> QED
    BY <2>1, <2>2, <2>3
<1>6. ASSUME NEW now \in Times, DoMarkOpenSpansStale(now) PROVE Listed(store')
  <2>1. store'.node = store.node
    BY <1>0, <1>6, MarkGood DEF DoMarkOpenSpansStale, Becomes
  <2> QED
    BY <2>1 DEF Listed
<1> QED
  BY <1>1, <1>2, <1>3, <1>4, <1>5, <1>6 DEF StoreNext

\* For any spans, records and lists of attributes: whatever a span shows and
\* whatever an update brings, the first attribute of a key is afterwards the
\* last one received, other keys are untouched, no shown key moves, and a new
\* key is appended once (state.go:276-291).
THEOREM UpdatesOverride == StoreSpec => []MergeIsOverride
<1>1. Good(store) /\ Listed(store) => MergeIsOverride
  <2> SUFFICES ASSUME Good(store), Listed(store),
                      NEW x \in store.byID, NEW list \in AttrLists
               PROVE  LET old == store.node[x].attrs
                          new == FoldLeft(Merge, old, list)
                          added == SubSeq(new, Len(old) + 1, Len(new))
                      IN  /\ IsPrefix(KeysOf(old), KeysOf(new))
                          /\ IsInjective(KeysOf(added))
                          /\ ToSet(KeysOf(added)) =
                               ToSet(KeysOf(list)) \ (ToSet(KeysOf(old)) \cup {None})
                          /\ \A k \in ToSet(KeysOf(new)) \ {None} :
                               new[FirstWith(new, k)] = IF LastWith(list, k) = 0
                                                        THEN old[FirstWith(old, k)]
                                                        ELSE list[LastWith(list, k)]
    BY DEF MergeIsOverride
  <2> DEFINE old == store.node[x].attrs
             new == FoldLeft(Merge, old, list)
  <2>1. IsList(old) /\ IsList(list)
    <3>1. x \in SpanID
      BY DEF Good, Typed, Shape
    <3> QED
      BY <3>1, RecordsAssumption DEF Listed, AttrLists, IsList
  <2>2. PICK S : old \in Seq(S) /\ list \in Seq(S)
    <3> HIDE DEF old
    <3> QED
      BY <2>1, ListsJoin
  <2>3. new \in Seq(S) /\ Overridden(old, list, new)
    <3> HIDE DEF old
    <3> QED
      BY <2>2, MergesOverridden
  <2> HIDE DEF old, new
  <2>4. IsPrefix(KeysOf(old), KeysOf(new))
    BY <2>2, <2>3, KeysStay DEF Overridden
  <2>5. LET added == SubSeq(new, Len(old) + 1, Len(new))
        IN  /\ IsInjective(KeysOf(added))
            /\ ToSet(KeysOf(added)) = ToSet(KeysOf(list)) \ (ToSet(KeysOf(old)) \cup {None})
    BY <2>2, <2>3, AddedAre
  <2>6. ASSUME NEW k \in ToSet(KeysOf(new)) \ {None}
        PROVE  new[FirstWith(new, k)] = IF LastWith(list, k) = 0
                                        THEN old[FirstWith(old, k)]
                                        ELSE list[LastWith(list, k)]
    BY <2>2, <2>3, FirstOfKeyIs
  <2> QED
    BY <2>4, <2>5, <2>6 DEF old, new
<1>2. StoreInit => Listed(store)
  BY BlankListed DEF StoreInit, Empty, Listed
<1>3. StoreInv(store, arrived) /\ Listed(store) /\ [StoreNext]_storeVars
        => Listed(store')
  BY ListedStep
<1>4. Listed(store)' <=> Listed(store')
  OBVIOUS
<1>5. StoreInv(store, arrived) => Good(store)
  BY DEF StoreInv
<1> QED
  BY <1>1, <1>2, <1>3, <1>4, <1>5, StoreInvAlways, PTL DEF StoreSpec
=============================================================================
