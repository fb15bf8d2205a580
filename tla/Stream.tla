------------------------------- MODULE Stream -------------------------------
(***************************************************************************)
(* The transport (src/transport/sapsse): a client that reconnects to a     *)
(* server whose handler relays the records of a hub, one subscription per  *)
(* connection, and hands them to a viewer on one Go channel and the state  *)
(* of its connection on another.                                           *)
(*                                                                         *)
(* The hub is what module Hub is shown to be: a Publish that holds the     *)
(* read lock cannot overlap a Subscribe, a cancel or a Close, so here it   *)
(* is one step, and records are numbered in the order of these steps. An   *)
(* HTTP response is a FIFO wire that can be cut at any time, which loses a *)
(* suffix of what is on it; the server learns of a cut later, by its       *)
(* request's context or by a write that fails. The server process may also *)
(* crash and start again with a new hub.                                   *)
(***************************************************************************)
EXTENDS Integers, SequencesExt

CONSTANTS MaxRecord,    \* bound: records are 1 .. MaxRecord
          MaxAttempt,   \* bound: connections are 1 .. MaxAttempt
          Buffer,       \* the handler's subscription (1024)
          RecordsCap,   \* capacity of the client's records channel (256)
          StatesCap,    \* capacity of its states channel (32)
          Unmarshalled, \* records that protojson fails to marshal
          Oversized     \* records whose line exceeds maxFrameBytes

ASSUME StreamAssumption ==
  /\ {MaxRecord, MaxAttempt} \subseteq Nat
  /\ {Buffer, RecordsCap, StatesCap} \subseteq Nat \ {0}

VARIABLES
  published, \* how many records the hub has been given
  closed,    \* the hub is closed
  subs,      \* the connections whose subscription is registered
  buf,       \* buf[c]: the subscription's channel
  handler,   \* handler[c]: where the handler of connection c stands
  writing,   \* writing[c]: the record it has received, 0 for none
  wire,      \* wire[c]: what is on its way to the client
  pipe,      \* pipe[c]: "none", "up", "ended" by the handler, or "cut"
  client,    \* where the client's goroutine stands
  attempt,   \* its attempt counter, and the current connection
  inHand,    \* the record it has read, 0 for none
  cancelled, \* ctx is done
  records,   \* the records channel
  states,    \* the states channel
  emitted,   \* history. every record sent on records
  reported,  \* history. the last state sent on states
  missed,    \* history. missed[c]: records dropped as the subscription was full
  since      \* history. since[c]: what was published when c was Connected

hubVars     == <<published, closed, subs, buf, missed>>
handlerVars == <<handler, writing>>
clientVars  == <<client, attempt, inHand, records, states, emitted, reported,
                 since>>
streamVars  == <<hubVars, handlerVars, wire, pipe, clientVars, cancelled>>

Conns    == 1 .. MaxAttempt
Record   == 1 .. MaxRecord
Greeting == 0   \* the ": connected" comment

StreamInit ==
  /\ published = 0 /\ closed = FALSE /\ subs = {}
  /\ buf = [c \in Conns |-> <<>>] /\ missed = [c \in Conns |-> {}]
  /\ handler = [c \in Conns |-> "none"] /\ writing = [c \in Conns |-> 0]
  /\ wire = [c \in Conns |-> <<>>] /\ pipe = [c \in Conns |-> "none"]
  /\ client = "loop" /\ attempt = 0 /\ inHand = 0
  /\ records = <<>> /\ states = <<>>
  /\ emitted = <<>> /\ reported = "none"
  /\ since = [c \in Conns |-> 0]
  /\ cancelled = FALSE

-----------------------------------------------------------------------------
\* The hub and the world

\* Mutant of HasRoom: off by one.
HasRoomForMore(c) == Len(buf[c]) <= Buffer

HasRoom(c) == Len(buf[c]) < Buffer

Publish ==
  LET r    == published + 1
      room == {c \in subs : HasRoom(c)}
  IN  /\ r \in Record
      /\ published' = r
      /\ IF closed THEN UNCHANGED <<buf, missed>>
         ELSE /\ buf' = [c \in Conns |-> IF c \in room THEN Append(buf[c], r)
                                                       ELSE buf[c]]
              /\ missed' = [c \in Conns |-> IF c \in subs \ room
                                            THEN missed[c] \cup {r}
                                            ELSE missed[c]]
      /\ UNCHANGED <<closed, subs, handlerVars, wire, pipe, clientVars,
                     cancelled>>

CloseHub ==
  /\ ~closed
  /\ closed' = TRUE
  /\ subs' = {}
  /\ UNCHANGED <<published, buf, missed, handlerVars, wire, pipe, clientVars,
                 cancelled>>

\* What the client has not received by then may be lost.
Cut(c) ==
  /\ pipe[c] \in {"up", "ended"}
  /\ pipe' = [pipe EXCEPT ![c] = "cut"]
  /\ \E n \in 0 .. Len(wire[c]) : wire' = [wire EXCEPT ![c] = SubSeq(@, 1, n)]
  /\ UNCHANGED <<hubVars, handlerVars, clientVars, cancelled>>

\* The server crashes and comes back: a new hub, and nobody on it.
Restart ==
  /\ \E c \in Conns : handler[c] \notin {"none", "gone"}
  /\ closed' = FALSE
  /\ subs' = {}
  /\ handler' = [c \in Conns |-> IF handler[c] = "none" THEN "none" ELSE "gone"]
  /\ writing' = [c \in Conns |-> 0]
  /\ buf' = [c \in Conns |-> <<>>]
  /\ pipe' = [c \in Conns |-> IF pipe[c] = "none" THEN "none" ELSE "cut"]
  /\ UNCHANGED <<published, missed, wire, clientVars, cancelled>>

Cancel ==
  /\ ~cancelled
  /\ cancelled' = TRUE
  /\ UNCHANGED <<hubVars, handlerVars, wire, pipe, clientVars>>

\* The viewer receives when it likes, or never.
TakeRecord ==
  /\ records # <<>>
  /\ records' = Tail(records)
  /\ UNCHANGED <<hubVars, handlerVars, wire, pipe, client, attempt, inHand,
                 states, emitted, reported, since, cancelled>>

TakeState ==
  /\ states # <<>>
  /\ states' = Tail(states)
  /\ UNCHANGED <<hubVars, handlerVars, wire, pipe, client, attempt, inHand,
                 records, emitted, reported, since, cancelled>>

-----------------------------------------------------------------------------
\* The handler of connection c

\* Mutant of Opening: the greeting goes out before the subscription.
GreetFirst(c) ==
  \/ /\ handler[c] = "subscribe"
     /\ wire' = [wire EXCEPT ![c] = Append(@, Greeting)]
     /\ handler' = [handler EXCEPT ![c] = "greet"]
     /\ UNCHANGED subs
  \/ /\ handler[c] = "greet"
     /\ subs' = IF closed THEN subs ELSE subs \cup {c}
     /\ handler' = [handler EXCEPT ![c] = "relay"]
     /\ UNCHANGED wire

\* hub.Subscribe: on a closed hub the channel is closed. Then ": connected".
Opening(c) ==
  \/ /\ handler[c] = "subscribe"
     /\ subs' = IF closed THEN subs ELSE subs \cup {c}
     /\ handler' = [handler EXCEPT ![c] = "greet"]
     /\ UNCHANGED wire
  \/ /\ handler[c] = "greet"
     /\ wire' = IF pipe[c] = "up" THEN [wire EXCEPT ![c] = Append(@, Greeting)]
                                  ELSE wire
     /\ handler' = [handler EXCEPT ![c] = "relay"]
     /\ UNCHANGED subs

Open(c) ==
  /\ Opening(c)
  /\ UNCHANGED <<published, closed, buf, missed, writing, pipe, clientVars,
                 cancelled>>

\* case record, ok := <-records: a record that cannot be marshalled is skipped.
Relay(c) ==
  /\ handler[c] = "relay"
  /\ buf[c] # <<>>
  /\ buf' = [buf EXCEPT ![c] = Tail(@)]
  /\ IF Head(buf[c]) \in Unmarshalled
     THEN UNCHANGED handlerVars
     ELSE /\ handler' = [handler EXCEPT ![c] = "write"]
          /\ writing' = [writing EXCEPT ![c] = Head(buf[c])]
  /\ UNCHANGED <<published, closed, subs, missed, wire, pipe, clientVars,
                 cancelled>>

\* Mutant of Written: a write that has gone through is tried again.
WrittenAgain(c) == UNCHANGED handlerVars

Written(c) ==
  /\ handler' = [handler EXCEPT ![c] = "relay"]
  /\ writing' = [writing EXCEPT ![c] = 0]

\* Fprintf and Flush; after a cut they may still succeed, to no effect.
Write(c) ==
  /\ handler[c] = "write"
  /\ wire' = IF pipe[c] = "up" THEN [wire EXCEPT ![c] = Append(@, writing[c])]
                               ELSE wire
  /\ Written(c)
  /\ UNCHANGED <<hubVars, pipe, clientVars, cancelled>>

\* Mutant of Deregister: the deferred cancel is missing.
NoDefer(c) == UNCHANGED subs

\* defer cancel()
Deregister(c) == subs' = subs \ {c}

\* The request's context is done, a write has failed, or the channel is closed
\* and empty. The response ends with the handler.
Return(c) ==
  /\ \/ handler[c] = "relay" /\ pipe[c] = "cut"
     \/ handler[c] \in {"greet", "write"} /\ pipe[c] = "cut"
     \/ handler[c] = "relay" /\ c \notin subs /\ buf[c] = <<>>
  /\ handler' = [handler EXCEPT ![c] = "gone"]
  /\ writing' = [writing EXCEPT ![c] = 0]
  /\ pipe' = [pipe EXCEPT ![c] = IF @ = "up" THEN "ended" ELSE @]
  /\ Deregister(c)
  /\ UNCHANGED <<published, closed, buf, missed, wire, clientVars, cancelled>>

HandlerStep(c) == Open(c) \/ Relay(c) \/ Write(c) \/ Return(c)

-----------------------------------------------------------------------------
\* The client's goroutine

\* Mutant of NextAfter: the client goes on reading without a word.
SilentLoss(c) == IF c = "read" THEN "loop" ELSE "retrying"

\* streamOnce has failed at that point.
NextAfter(c) == "retrying"

\* states <- s, which waits for room and does not watch ctx.
Report(s) ==
  /\ Len(states) < StatesCap
  /\ states' = Append(states, s)
  /\ reported' = s

\* Mutant of Done: the client does not look at its context.
NeverDone == FALSE

Done == cancelled

\* ctx is looked at, then the state is sent; so everywhere below.
Loop ==
  /\ client = "loop"
  /\ IF Done
     THEN client' = "stopping" /\ UNCHANGED attempt
     ELSE /\ attempt < MaxAttempt
          /\ attempt' = attempt + 1
          /\ client' = "connecting"
  /\ UNCHANGED <<hubVars, handlerVars, wire, pipe, inHand, records, states,
                 emitted, reported, since, cancelled>>

\* From each point where the client sends a state, that state and what is next.
Sends == [connecting |-> [state |-> "connecting",   next |-> "dial"],
          greeted    |-> [state |-> "connected",    next |-> "read"],
          retrying   |-> [state |-> "retrying",     next |-> "wait"],
          stopping   |-> [state |-> "disconnected", next |-> "stopped"]]

Send ==
  /\ client \in DOMAIN Sends
  /\ Report(Sends[client].state)
  /\ client' = Sends[client].next
  /\ since' = IF client = "greeted" THEN [since EXCEPT ![attempt] = published]
                                    ELSE since
  /\ UNCHANGED <<hubVars, handlerVars, wire, pipe, attempt, inHand, records,
                 emitted, cancelled>>

\* client.Do sends the request: the server's handler starts.
Dial ==
  /\ client = "dial"
  /\ handler' = [handler EXCEPT ![attempt] = "subscribe"]
  /\ pipe' = [pipe EXCEPT ![attempt] = "up"]
  /\ client' = "headers"
  /\ UNCHANGED <<hubVars, writing, wire, attempt, inHand, records, states,
                 emitted, reported, since, cancelled>>

\* It returns when the headers arrive, flushed with the greeting.
Connect ==
  /\ client = "headers"
  /\ wire[attempt] # <<>>
  /\ client' = "greeted"
  /\ UNCHANGED <<hubVars, handlerVars, wire, pipe, attempt, inHand, records,
                 states, emitted, reported, since, cancelled>>

\* A line that is not a record is skipped, a line that is too long ends it.
Read ==
  LET line == Head(wire[attempt])
  IN  /\ client = "read"
      /\ wire[attempt] # <<>>
      /\ line \notin Oversized
      /\ wire' = [wire EXCEPT ![attempt] = Tail(@)]
      /\ IF line = Greeting
         THEN UNCHANGED <<client, inHand>>
         ELSE client' = "deliver" /\ inHand' = line
      /\ UNCHANGED <<hubVars, handlerVars, pipe, attempt, records, states,
                     emitted, reported, since, cancelled>>

\* records <- RecordMessage{...}, whether or not ctx is done.
Deliver ==
  /\ client = "deliver"
  /\ Len(records) < RecordsCap
  /\ records' = Append(records, inHand)
  /\ emitted' = Append(emitted, inHand)
  /\ inHand' = 0
  /\ client' = "read"
  /\ UNCHANGED <<hubVars, handlerVars, wire, pipe, attempt, states, reported,
                 since, cancelled>>

\* resp.Body.Close
HangUp(c) ==
  /\ wire' = [wire EXCEPT ![c] = <<>>]
  /\ pipe' = [pipe EXCEPT ![c] = IF @ = "none" THEN "none" ELSE "cut"]

\* streamOnce returns, always with an error: the dial or the stream failed,
\* ctx is done, a line was too long, or the response has ended.
Fail ==
  /\ \/ client = "dial"
     \/ client \in {"headers", "read"} /\ Done
     \/ client = "headers" /\ pipe[attempt] = "cut"
     \/ client = "read" /\ pipe[attempt] # "up" /\ wire[attempt] = <<>>
     \/ client = "read" /\ wire[attempt] # <<>> /\ Head(wire[attempt]) \in Oversized
  /\ HangUp(attempt)
  /\ client' = IF Done THEN "stopping" ELSE NextAfter(client)
  /\ UNCHANGED <<hubVars, handlerVars, attempt, inHand, records, states,
                 emitted, reported, since, cancelled>>

\* <-ctx.Done(), or <-timer.C two seconds later; the bound on attempts.
Wait ==
  /\ client = "wait"
  /\ \/ Done /\ client' = "stopping"
     \/ attempt < MaxAttempt /\ client' = "loop"
  /\ UNCHANGED <<hubVars, handlerVars, wire, pipe, attempt, inHand, records,
                 states, emitted, reported, since, cancelled>>

ClientStep ==
  \/ Loop \/ Send \/ Dial \/ Connect \/ Read \/ Deliver \/ Fail \/ Wait

-----------------------------------------------------------------------------
StreamNext ==
  \/ Publish \/ CloseHub \/ Restart \/ Cancel \/ TakeRecord \/ TakeState
  \/ \E c \in Conns : Cut(c) \/ HandlerStep(c)
  \/ ClientStep

\* The two goroutines run. Nobody has to publish, to receive, or to cancel.
StreamSpec ==
  /\ StreamInit /\ [][StreamNext]_streamVars
  /\ WF_streamVars(ClientStep)
  /\ \A c \in Conns : WF_streamVars(HandlerStep(c))

-----------------------------------------------------------------------------
StreamTypeOK ==
  /\ published \in 0 .. MaxRecord /\ attempt \in 0 .. MaxAttempt
  /\ subs \subseteq Conns
  /\ \A c \in Conns :
       /\ Len(buf[c]) <= Buffer /\ ToSet(buf[c]) \subseteq Record
       /\ ToSet(wire[c]) \subseteq Record \cup {Greeting}
       /\ handler[c] \in {"none", "subscribe", "greet", "relay", "write", "gone"}
       /\ pipe[c] \in {"none", "up", "ended", "cut"}
       /\ (handler[c] = "write") = (writing[c] # 0)
       /\ c > attempt => handler[c] = "none" /\ pipe[c] = "none"
  /\ (client = "deliver") = (inHand # 0)
  /\ Len(records) <= RecordsCap /\ Len(states) <= StatesCap

\* Across reconnections, restarts and overlapping handlers, a viewer receives
\* records in the order they were published and none twice, so it need not
\* expect one: the old connection is closed before the next is opened
\* (client.go:74), and a new one starts with what is published then (sse.go:29).
InOrderOnce ==
  \A i, j \in DOMAIN emitted : i < j => emitted[i] < emitted[j]

\* From the moment the client says it is connected it misses nothing while the
\* connection lasts, but what the subscription's buffer had no room for and
\* what cannot be marshalled: the handler subscribes before it sends its
\* greeting (sse.go:29, 32), as those who wait for "connected" and then
\* publish rely on (sse_test.go:88-90).
NothingMissed ==
  client \in {"read", "deliver"} /\ pipe[attempt] = "up" /\ ~closed =>
    \A r \in since[attempt] + 1 .. published :
      \/ r \in ToSet(emitted) \cup ToSet(wire[attempt]) \cup ToSet(buf[attempt])
      \/ r \in {inHand, writing[attempt]}
      \/ r \in missed[attempt] \cup Unmarshalled

\* The two channels together keep what module Link promises: a viewer that is
\* given a record has been told of the connection it came on and of no other
\* since, states follow each other as attempts do, and nothing comes after
\* "disconnected" (client.go:22-62).
L == INSTANCE Link WITH Lost <- Unmarshalled \cup Oversized,
                        state <- reported, given <- emitted

ImplementsLink == L!LinkSpec

\* When the client has hung up, or the connection is lost, the server's handler
\* ends and its subscription goes: the hub does not fill with dead ones.
NoLeak ==
  \A c \in Conns :
    pipe[c] = "cut" ~> handler[c] = "gone" /\ c \notin subs

\* Once cancelled, the client's goroutine ends, unless it waits for ever at a
\* send that does not watch the context (client.go:34-82, 102), because the
\* receiver has stopped receiving.
Stuck ==
  \/ client = "deliver" /\ Len(records) = RecordsCap
  \/ client \in DOMAIN Sends /\ Len(states) = StatesCap

CancelStops == cancelled ~> (client = "stopped" \/ []Stuck)
=============================================================================
