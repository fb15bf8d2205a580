----------------------------- MODULE StoreWalk -----------------------------
(***************************************************************************)
(* The recursive walks of src/state/state.go as the code writes them, to   *)
(* compare with the sets that module Store states them by.                 *)
(***************************************************************************)
EXTENDS Store

RECURSIVE FindBelow(_, _, _), HasOpenBelow(_, _), MarkBelow(_, _, _),
          DeleteSpan(_, _), KeepClosedSpan(_, _)

\* findSpan: the depth of x below a span, -1 when it is not there.
FindBelow(st, span, x) ==
  IF span = x THEN 0
  ELSE LET kids == st.node[span].kids
           i == SelectInSeq(kids, LAMBDA k : FindBelow(st, k, x) >= 0)
       IN  IF i = 0 THEN -1 ELSE 1 + FindBelow(st, kids[i], x)

HasOpenBelow(st, span) ==
  \/ ~st.node[span].done
  \/ \E k \in ToSet(st.node[span].kids) : HasOpenBelow(st, k)

MarkBelow(st, span, now) ==
  FoldLeft(LAMBDA s, k : MarkBelow(s, k, now),
           IF ~st.node[span].done /\ st.stale[span] = None
           THEN [st EXCEPT !.stale[span] = now] ELSE st,
           st.node[span].kids)

DeleteSpan(st, span) ==
  [FoldLeft(DeleteSpan,
            [st EXCEPT !.byID = @ \ {span}, !.stale[span] = None],
            st.node[span].kids) EXCEPT !.node[span] = Blank]

\* keepClosedSpan: the store and whether the span is kept.
KeepClosedSpan(st, span) ==
  IF ~st.node[span].done THEN [st |-> DeleteSpan(st, span), kept |-> FALSE]
  ELSE LET visit(acc, k) ==
             LET v == KeepClosedSpan(acc.st, k)
             IN  [st |-> v.st,
                  kids |-> IF v.kept THEN Append(acc.kids, k) ELSE acc.kids]
           all == FoldLeft(visit, [st |-> st, kids |-> <<>>],
                           st.node[span].kids)
       IN  [st |-> [all.st EXCEPT !.node[span].kids = all.kids], kept |-> TRUE]

\* FindSpan: the depth of x below the first root that has it, else -1.
WalkFind(st, x) ==
  LET i == SelectInSeq(st.roots, LAMBDA root : FindBelow(st, root, x) >= 0)
  IN  IF i = 0 THEN -1 ELSE FindBelow(st, st.roots[i], x)

WalkOpen(st) == \E i \in DOMAIN st.roots : HasOpenBelow(st, st.roots[i])

WalkMark(st, now) ==
  FoldLeft(LAMBDA s, root : MarkBelow(s, root, now), st, st.roots)

WalkClearOpen(st) ==
  LET visit(acc, root) ==
        LET v == KeepClosedSpan(acc.st, root)
        IN  [st |-> v.st,
             roots |-> IF v.kept THEN Append(acc.roots, root) ELSE acc.roots]
      all == FoldLeft(visit, [st |-> st, roots |-> <<>>], st.roots)
  IN  [all.st EXCEPT !.roots = all.roots]

WalkLimit(st, limit) ==
  LET remove == Len(st.roots) - limit
  IN  IF limit <= 0 THEN Clear(st)
      ELSE IF remove <= 0 THEN st
      ELSE [FoldLeft(DeleteSpan, st, SubSeq(st.roots, 1, remove))
              EXCEPT !.roots = SubSeq(st.roots, remove + 1, Len(st.roots))]
=============================================================================
