------------------------------- MODULE FanOut -------------------------------
(***************************************************************************)
(* What a hub promises its subscribers, without its lock or its threads.   *)
(*                                                                         *)
(* A subscription is a bounded queue that is handed out open, or already   *)
(* closed when the hub is (Hub, src/hub.go:9).  While the hub is open a    *)
(* record may be put in an open queue that has room, and no record is put  *)
(* in the same queue twice.  A queue is shut once, for good, and keeps     *)
(* what was put in it; once the hub is closed nothing is put in any queue. *)
(* Module Hub is shown to implement this specification.                    *)
(***************************************************************************)
EXTENDS Integers, Sequences

CONSTANTS Chans,    \* identities of the subscriber channels
          Record,   \* the records that can be published
          Caps      \* the capacities a subscription can have

VARIABLES hubOpen,  \* the hub accepts records
          life,     \* life[ch]: "absent", "open" or "shut"
          room,     \* room[ch]: the capacity of the channel, 0 while absent
          put,      \* put[ch]: every record ever put in the channel, in order
          got       \* got[ch]: how many of them the subscriber has received

vars == <<hubOpen, life, room, put, got>>

-----------------------------------------------------------------------------
Init ==
  /\ hubOpen \in BOOLEAN
  /\ life = [ch \in Chans |-> "absent"]
  /\ room = [ch \in Chans |-> 0]
  /\ put = [ch \in Chans |-> <<>>]
  /\ got = [ch \in Chans |-> 0]

HandOut(ch) ==
  /\ life[ch] = "absent"
  /\ \E c \in Caps : room' = [room EXCEPT ![ch] = c]
  /\ life' = [life EXCEPT ![ch] = IF hubOpen THEN "open" ELSE "shut"]
  /\ UNCHANGED <<hubOpen, put, got>>

Put(ch, r) ==
  /\ hubOpen
  /\ life[ch] = "open"
  /\ r \notin {put[ch][i] : i \in DOMAIN put[ch]}
  /\ Len(put[ch]) - got[ch] < room[ch]
  /\ put' = [put EXCEPT ![ch] = Append(@, r)]
  /\ UNCHANGED <<hubOpen, life, room, got>>

Get(ch) ==
  /\ got[ch] < Len(put[ch])
  /\ got' = [got EXCEPT ![ch] = @ + 1]
  /\ UNCHANGED <<hubOpen, life, room, put>>

Shut(ch) ==
  /\ life[ch] = "open"
  /\ life' = [life EXCEPT ![ch] = "shut"]
  /\ UNCHANGED <<hubOpen, room, put, got>>

CloseHub ==
  /\ hubOpen
  /\ hubOpen' = FALSE
  /\ UNCHANGED <<life, room, put, got>>

Next ==
  \/ \E ch \in Chans : HandOut(ch) \/ Get(ch) \/ Shut(ch)
  \/ \E ch \in Chans, r \in Record : Put(ch, r)
  \/ CloseHub

Spec == Init /\ [][Next]_vars
=============================================================================
