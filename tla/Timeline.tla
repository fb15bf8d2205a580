------------------------------ MODULE Timeline ------------------------------
(***************************************************************************)
(* A span's events and children in the order the viewers show them         *)
(* (src/state/timeline.go). An item has the time of its entry, None for    *)
(* the zero time, its index before sorting and what it shows.              *)
(***************************************************************************)
EXTENDS Store

Unsorted(st, x) ==
  LET events == st.node[x].events
      kids   == st.node[x].kids
      n      == Len(events)
  IN  [i \in 1 .. n + Len(kids) |->
        IF i <= n
        THEN [at |-> events[i].at, index |-> i, show |-> None]
        ELSE [at |-> st.node[kids[i - n]].at, index |-> i, show |-> kids[i - n]]]

\* Mutant of After: items of the same time change places.
AfterOrEqual(l, r) ==
  CASE l.at = None /\ r.at = None -> l.index > r.index
    [] l.at = None /\ r.at # None -> TRUE
    [] l.at # None /\ r.at = None -> FALSE
    [] OTHER -> l.at >= r.at

\* The comparison function, when it says that l belongs after r.
After(l, r) ==
  CASE l.at = None /\ r.at = None -> l.index > r.index
    [] l.at = None /\ r.at # None -> TRUE
    [] l.at # None /\ r.at = None -> FALSE
    [] OTHER -> l.at > r.at

\* Where a stable sort puts l.
Before(l, r) == After(r, l) \/ (~After(l, r) /\ l.index < r.index)

\* A stable sort: an item goes before the first one that belongs after it.
InsertItem(sorted, item) ==
  LET i == SelectInSeq(sorted, LAMBDA s : After(s, item))
  IN  IF i = 0 THEN Append(sorted, item) ELSE InsertAt(sorted, i, item)

Sorted(items) ==
  LET first[n \in 0 .. Len(items)] ==
        IF n = 0 THEN <<>> ELSE InsertItem(first[n - 1], items[n])
  IN  first[Len(items)]

TimelineItems(st, x) == Sorted(Unsorted(st, x))
=============================================================================
