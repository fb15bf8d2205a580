-------------------------------- MODULE Link --------------------------------
(***************************************************************************)
(* What the transport's client promises the viewer that holds its two      *)
(* channels (Stream, src/transport/sapsse/client.go), without connections, *)
(* handlers or buffers.                                                    *)
(*                                                                         *)
(* Records are numbered as they are published, and may be lost. The viewer *)
(* is given records in order and none twice, and only while the last state *)
(* it was told is "connected". States follow each other as the attempts of *)
(* a client do, and "disconnected" is the last one, with nothing after it. *)
(* Module Stream is shown to implement this specification.                 *)
(***************************************************************************)
EXTENDS Integers, Sequences

CONSTANT Lost   \* records that never arrive

VARIABLES published,  \* how many records there have been
          state,      \* the last state reported, "none" at first
          given       \* the records given to the viewer

linkVars == <<published, state, given>>

LinkInit == published = 0 /\ state = "none" /\ given = <<>>

PublishOne == published' = published + 1 /\ UNCHANGED <<state, given>>

\* What can be reported after each state.
Follows == [none         |-> {"connecting", "disconnected"},
            connecting   |-> {"connected", "retrying", "disconnected"},
            connected    |-> {"retrying", "disconnected"},
            retrying     |-> {"connecting", "disconnected"},
            disconnected |-> {}]

ReportState(s) ==
  /\ s \in Follows[state]
  /\ state' = s
  /\ UNCHANGED <<published, given>>

\* Newer than all that were given before.
Give(r) ==
  /\ state = "connected"
  /\ r \in 1 .. published \ Lost
  /\ \A i \in DOMAIN given : given[i] < r
  /\ given' = Append(given, r)
  /\ UNCHANGED <<published, state>>

LinkNext ==
  \/ PublishOne
  \/ \E s \in {"connecting", "connected", "retrying", "disconnected"} : ReportState(s)
  \/ \E r \in 1 .. published : Give(r)

LinkSpec == LinkInit /\ [][LinkNext]_linkVars
=============================================================================
