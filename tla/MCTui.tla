------------------------------- MODULE MCTui -------------------------------
(* Tui with a root that may have a child, which may be a root as well; any  *)
(* other span is below the child.                                            *)
EXTENDS Tui

CONSTANTS Top, Kid

MCParents == [x \in SpanID |-> CASE x = Top -> {None}
                                 [] x = Kid -> {Top, None}
                                 [] OTHER   -> {Kid}]

MCOneSize == {[width |-> 80, height |-> 6]}

MCSizes == MCOneSize \cup {[width |-> 100, height |-> 8]}

\* The child has attributes, or gets one.
MCLists == [x \in SpanID |->
              IF x = Kid THEN {<<>>, <<[key |-> Kid, val |-> 1]>>} ELSE {<<>>}]

\* It is shown before the event of the root, whichever came first.
MCTimes == [x \in SpanID |-> IF x = Kid THEN {1} ELSE {2}]

MCEvents == [x \in SpanID |-> IF x = Top THEN 1 ELSE 0]

MCNoLists == [x \in SpanID |-> {<<>>}]

MCOneTime == [x \in SpanID |-> {1}]

MCNoEvents == [x \in SpanID |-> 0]
=============================================================================
