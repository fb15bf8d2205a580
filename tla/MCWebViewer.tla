---------------------------- MODULE MCWebViewer ----------------------------
(* WebViewer with a root that has a child, and perhaps other roots.          *)
EXTENDS WebViewer

CONSTANTS Top, Kid

\* What safeCSSIdent leaves of a key.
MCIdent(key) == key

MCStates == {[state |-> "connected", attempt |-> 1, err |-> None],
             [state |-> "retrying", attempt |-> 1, err |-> "eof"]}

MCParents == [x \in SpanID |-> IF x = Kid THEN {Top, None} ELSE {None}]

MCMaxEvents == [x \in SpanID |-> IF x = Top THEN 1 ELSE 0]
=============================================================================
