---------------------------- MODULE StreamProofs ----------------------------
(***************************************************************************)
(* Theorems about module Stream, for any number of records and connections *)
(* and buffers of any capacity: its types, and that a viewer receives the  *)
(* records in order and none twice; that the client implements module Link,*)
(* and that nothing published while it is connected is missed.             *)
(*                                                                         *)
(* What the viewer has received is in order because everything on the way  *)
(* to it is: what it has received is before what the client has in hand,   *)
(* that before what is on the current wire, in the handler's hand and in   *)
(* its subscription (Order). A new connection starts with nothing on its   *)
(* way (Places).                                                           *)
(***************************************************************************)
EXTENDS Stream, TLAPS

StateNames == {"connecting", "connected", "retrying", "disconnected"}

Types ==
  /\ published \in 0 .. MaxRecord /\ attempt \in 0 .. MaxAttempt
  /\ subs \subseteq Conns
  /\ buf \in [Conns -> Seq(Record)]
  /\ wire \in [Conns -> Seq(Record \cup {Greeting})]
  /\ writing \in [Conns -> Record \cup {0}]
  /\ handler \in [Conns -> {"none", "subscribe", "greet", "relay", "write", "gone"}]
  /\ pipe \in [Conns -> {"none", "up", "ended", "cut"}]
  /\ inHand \in Record \cup {0}
  /\ records \in Seq(Record) /\ emitted \in Seq(Record)
  /\ states \in Seq(StateNames)

Rooms ==
  /\ \A c \in Conns : Len(buf[c]) <= Buffer
  /\ Len(records) <= RecordsCap /\ Len(states) <= StatesCap

\* Where client and handlers are, and what they have then.
Places ==
  /\ (client = "deliver") = (inHand # 0)
  /\ client \in {"connecting", "dial", "headers", "greeted", "read", "deliver"}
       => attempt \in Conns
  /\ client \in {"connecting", "dial"} => handler[attempt] = "none"
  /\ \A c \in Conns :
       /\ (handler[c] = "write") = (writing[c] # 0)
       /\ c > attempt => handler[c] = "none" /\ pipe[c] = "none"
       /\ handler[c] \in {"none", "subscribe", "greet"} => wire[c] = <<>>
       /\ handler[c] \in {"none", "subscribe"} => buf[c] = <<>> /\ c \notin subs

Increasing(s) == \A i, j \in DOMAIN s : i < j => s[i] < s[j]

\* What is on connection c behind what the client has read.
OnTheWay(c) ==
  (ToSet(wire[c]) \cup {writing[c]} \cup ToSet(buf[c])) \ {0}

\* What the client has sent on is in order, and before what it has in hand.
Received ==
  /\ Increasing(emitted)
  /\ inHand <= published
  /\ \A m \in ToSet(emitted) : m <= published /\ (inHand # 0 => m < inHand)

\* So is what is on connection c: wire, handler's hand, subscription.
Chain(c) ==
  /\ Increasing(wire[c]) /\ Increasing(buf[c])
  /\ \A n \in OnTheWay(c) : n <= published
  /\ \A m \in ToSet(wire[c]) : writing[c] # 0 => m < writing[c]
  /\ \A n \in ToSet(buf[c]) : writing[c] < n
  /\ \A n \in ToSet(buf[c]) : \A m \in ToSet(wire[c]) : m < n

\* On the current one it is behind what the client has received.
Behind ==
  attempt \in Conns =>
    \A n \in OnTheWay(attempt) :
      inHand < n /\ \A m \in ToSet(emitted) : m < n

Order == Received /\ (\A c \in Conns : Chain(c)) /\ Behind

StreamInv == Types /\ Rooms /\ Places /\ Order

-----------------------------------------------------------------------------
\* Sequences

LEMMA AppendFacts ==
  ASSUME NEW S, NEW s \in Seq(S), NEW n \in S
  PROVE  /\ Append(s, n) \in Seq(S)
         /\ Len(Append(s, n)) = Len(s) + 1
         /\ ToSet(Append(s, n)) = ToSet(s) \cup {n}
<1>1. /\ Append(s, n) \in Seq(S)
      /\ Len(Append(s, n)) = Len(s) + 1
  OBVIOUS
<1>2. ASSUME NEW x \in ToSet(Append(s, n))
      PROVE  x \in ToSet(s) \cup {n}
  BY DEF ToSet
<1>3. ASSUME NEW x \in ToSet(s) \cup {n}
      PROVE  x \in ToSet(Append(s, n))
  <2>1. CASE x = n
    <3>1. /\ Len(s) + 1 \in DOMAIN Append(s, n)
          /\ Append(s, n)[Len(s) + 1] = n
      OBVIOUS
    <3> QED
      BY <3>1, <2>1 DEF ToSet
  <2>2. CASE x \in ToSet(s)
    <3>1. PICK i \in DOMAIN s : x = s[i]
      BY <2>2 DEF ToSet
    <3>2. i \in DOMAIN Append(s, n) /\ Append(s, n)[i] = x
      BY <3>1
    <3> QED
      BY <3>2 DEF ToSet
  <2> QED
    BY <1>3, <2>1, <2>2
<1> QED
  BY <1>1, <1>2, <1>3

LEMMA AppendIncreasing ==
  ASSUME NEW s \in Seq(Nat), NEW n \in Nat, Increasing(s),
         \A m \in ToSet(s) : m < n
  PROVE  Increasing(Append(s, n))
<1>1. \A i \in DOMAIN s : s[i] < n
  BY DEF ToSet
<1> QED
  BY <1>1 DEF Increasing

LEMMA TailFacts ==
  ASSUME NEW S, NEW s \in Seq(S), s # <<>>
  PROVE  /\ Head(s) \in S /\ Head(s) \in ToSet(s)
         /\ Tail(s) \in Seq(S)
         /\ Len(Tail(s)) = Len(s) - 1
         /\ ToSet(Tail(s)) \subseteq ToSet(s)
<1>1. /\ Head(s) = s[1] /\ 1 \in DOMAIN s
      /\ Tail(s) \in Seq(S)
      /\ Len(Tail(s)) = Len(s) - 1
      /\ \A i \in DOMAIN Tail(s) : i + 1 \in DOMAIN s /\ Tail(s)[i] = s[i + 1]
  OBVIOUS
<1>2. Head(s) \in S
  BY <1>1
<1>3. ToSet(Tail(s)) \subseteq ToSet(s)
  BY <1>1 DEF ToSet
<1> QED
  BY <1>1, <1>2, <1>3 DEF ToSet

LEMMA TailOrSame ==
  ASSUME NEW S, NEW s \in Seq(S), NEW t, t = s \/ (s # <<>> /\ t = Tail(s))
  PROVE  t \in Seq(S) /\ Len(t) \in Nat /\ Len(s) \in Nat /\ Len(t) <= Len(s)
<1>1. CASE t = s
  BY <1>1
<1>2. CASE s # <<>> /\ t = Tail(s)
  BY <1>2, TailFacts
<1> QED
  BY <1>1, <1>2

LEMMA TailIncreasing ==
  ASSUME NEW s \in Seq(Nat), s # <<>>, Increasing(s)
  PROVE  /\ Increasing(Tail(s))
         /\ \A m \in ToSet(Tail(s)) : Head(s) < m
<1>1. /\ Head(s) = s[1] /\ 1 \in DOMAIN s
      /\ \A i \in DOMAIN Tail(s) :
           i \in Nat \ {0} /\ i + 1 \in DOMAIN s /\ Tail(s)[i] = s[i + 1]
  OBVIOUS
<1>2. \A i \in DOMAIN Tail(s) : Head(s) < Tail(s)[i]
  BY <1>1 DEF Increasing
<1>3. Increasing(Tail(s))
  BY <1>1 DEF Increasing
<1> QED
  BY <1>2, <1>3 DEF ToSet

LEMMA PrefixFacts ==
  ASSUME NEW S, NEW s \in Seq(S), NEW n \in 0 .. Len(s)
  PROVE  /\ SubSeq(s, 1, n) \in Seq(S)
         /\ ToSet(SubSeq(s, 1, n)) \subseteq ToSet(s)
         /\ n = 0 => SubSeq(s, 1, n) = <<>>
<1>1. /\ SubSeq(s, 1, n) \in Seq(S)
      /\ \A i \in DOMAIN SubSeq(s, 1, n) : i \in DOMAIN s /\ SubSeq(s, 1, n)[i] = s[i]
      /\ n = 0 => SubSeq(s, 1, n) = <<>>
  OBVIOUS
<1> QED
  BY <1>1 DEF ToSet

LEMMA PrefixIncreasing ==
  ASSUME NEW s \in Seq(Nat), NEW n \in 0 .. Len(s), Increasing(s)
  PROVE  Increasing(SubSeq(s, 1, n))
<1>1. \A i \in DOMAIN SubSeq(s, 1, n) : i \in DOMAIN s /\ SubSeq(s, 1, n)[i] = s[i]
  OBVIOUS
<1> QED
  BY <1>1 DEF Increasing

LEMMA EmptyFacts ==
  /\ ToSet(<<>>) = {}
  /\ Increasing(<<>>)
BY DEF ToSet, Increasing

-----------------------------------------------------------------------------
LEMMA SeqOfMore ==
  ASSUME NEW S, NEW T, S \subseteq T, NEW s \in Seq(S)
  PROVE  s \in Seq(T)
<1>1. s \in [1 .. Len(s) -> S] /\ Len(s) \in Nat
  OBVIOUS
<1>2. s \in [1 .. Len(s) -> T]
  BY <1>1
<1> QED
  BY <1>1, <1>2

LEMMA Ranges ==
  ASSUME Types
  PROVE  /\ Record \subseteq Nat \ {0} /\ Conns \subseteq Nat \ {0}
         /\ published \in Nat /\ inHand \in Nat /\ attempt \in Nat
         /\ ToSet(emitted) \subseteq Record
         /\ emitted \in Seq(Nat)
         /\ \A c \in Conns :
              /\ writing[c] \in Nat
              /\ wire[c] \in Seq(Nat) /\ buf[c] \in Seq(Nat)
              /\ ToSet(wire[c]) \subseteq Record \cup {0}
              /\ ToSet(buf[c]) \subseteq Record
              /\ OnTheWay(c) \subseteq Record
<1> USE StreamAssumption DEF Types
<1>1. Record \subseteq Nat \ {0} /\ Conns \subseteq Nat \ {0}
  BY DEF Record, Conns
<1>2. ASSUME NEW S, NEW s \in Seq(S)
      PROVE  ToSet(s) \subseteq S
  BY DEF ToSet
<1>3. ToSet(emitted) \subseteq Record /\ emitted \in Seq(Nat)
  <2>1. Record \subseteq Nat
    BY <1>1
  <2> QED
    BY <2>1, <1>2, SeqOfMore
<1>4. ASSUME NEW c \in Conns
      PROVE  /\ writing[c] \in Nat
             /\ wire[c] \in Seq(Nat) /\ buf[c] \in Seq(Nat)
             /\ ToSet(wire[c]) \subseteq Record \cup {0}
             /\ ToSet(buf[c]) \subseteq Record
             /\ OnTheWay(c) \subseteq Record
  <2>1. /\ wire[c] \in Seq(Record \cup {0}) /\ buf[c] \in Seq(Record)
        /\ writing[c] \in Record \cup {0}
    BY DEF Greeting
  <2>2. ToSet(wire[c]) \subseteq Record \cup {0} /\ ToSet(buf[c]) \subseteq Record
    BY <2>1, <1>2
  <2>3. wire[c] \in Seq(Nat) /\ buf[c] \in Seq(Nat) /\ writing[c] \in Nat
    <3>1. Record \subseteq Nat /\ Record \cup {0} \subseteq Nat
      BY <1>1
    <3> QED
      BY <2>1, <3>1, SeqOfMore
  <2> QED
    BY <2>1, <2>2, <2>3 DEF OnTheWay
<1> QED
  BY <1>1, <1>3, <1>4

LEMMA PositiveBuf ==
  ASSUME Types, NEW c \in Conns
  PROVE  \A n \in ToSet(buf[c]) : 0 < n
<1>1. \A n \in ToSet(buf[c]) : n \in Nat \ {0}
  BY Ranges
<1> QED
  BY <1>1

LEMMA PositiveWay ==
  ASSUME Types, NEW c \in Conns
  PROVE  \A n \in OnTheWay(c) : 0 < n
<1>1. \A n \in OnTheWay(c) : n \in Nat \ {0}
  BY Ranges
<1> QED
  BY <1>1

-----------------------------------------------------------------------------
\* The steps of the hub and the world preserve the invariant.

LEMMA PublishInv ==
  ASSUME StreamInv, Publish
  PROVE  StreamInv'
<1> USE DEF StreamInv
<1> DEFINE r == published + 1
<1>1. /\ r \in Record /\ published' = r
      /\ UNCHANGED <<subs, wire, writing, handler, pipe, client, attempt,
                     inHand, records, emitted, states>>
  BY DEF Publish, handlerVars, clientVars
<1>2. ASSUME NEW c \in Conns
      PROVE  \/ buf'[c] = buf[c]
             \/ c \in subs /\ HasRoom(c) /\ buf'[c] = Append(buf[c], r)
  BY DEF Publish, Types
<1>3. buf' \in [Conns -> Seq(Record)]
  <2>1. \A c \in Conns : Append(buf[c], r) \in Seq(Record)
    BY <1>1, AppendFacts DEF Types
  <2> QED
    BY <2>1 DEF Publish, Types
<1>4. Types'
  BY <1>1, <1>3, Ranges DEF Types, Record
<1>5. Rooms'
  <2>1. ASSUME NEW c \in Conns
        PROVE  Len(buf'[c]) <= Buffer
    <3>1. buf[c] \in Seq(Record)
      BY DEF Types
    <3>2. Len(Append(buf[c], r)) = Len(buf[c]) + 1
      BY <3>1, <1>1, AppendFacts
    <3> QED
      BY <1>2, <3>1, <3>2, StreamAssumption DEF Rooms, HasRoom
  <2> QED
    BY <1>1, <2>1 DEF Rooms
<1>6. Places'
  BY <1>1, <1>2 DEF Places
<1> HIDE DEF r
<1>7. /\ r \in Nat /\ published < r
      /\ inHand < r /\ \A m \in ToSet(emitted) : m < r
  BY <1>1, Ranges DEF Order, Received, r
<1>8. ASSUME NEW c \in Conns
      PROVE  /\ \A m \in ToSet(buf[c]) \cup ToSet(wire[c]) \cup {writing[c]} : m < r
             /\ ToSet(buf'[c]) \subseteq ToSet(buf[c]) \cup {r}
             /\ Increasing(buf'[c])
             /\ OnTheWay(c)' \subseteq OnTheWay(c) \cup {r}
  <2>1. buf[c] \in Seq(Record) /\ buf[c] \in Seq(Nat)
    BY Ranges DEF Types
  <2>2. ToSet(Append(buf[c], r)) = ToSet(buf[c]) \cup {r}
    BY <1>1, <2>1, AppendFacts
  <2>3. \A m \in ToSet(buf[c]) \cup ToSet(wire[c]) \cup {writing[c]} : m < r
    <3>1. \A m \in OnTheWay(c) : m \in Nat /\ m <= published
      BY Ranges DEF Order, Chain
    <3>2. published \in Nat
      BY Ranges
    <3> QED
      BY <1>7, <3>1, <3>2 DEF OnTheWay
  <2>4. Increasing(Append(buf[c], r))
    BY <1>7, <2>1, <2>3, AppendIncreasing DEF Order, Chain
  <2>5. ToSet(buf'[c]) \subseteq ToSet(buf[c]) \cup {r} /\ Increasing(buf'[c])
    BY <1>2, <2>2, <2>4 DEF Order, Chain
  <2> QED
    BY <1>1, <2>3, <2>5 DEF OnTheWay
<1>9. Order'
  <2>1. Received'
    <3>1. emitted' = emitted /\ inHand' = inHand /\ published' = r
      BY <1>1
    <3>2. inHand <= r /\ \A m \in ToSet(emitted) : m <= r
      BY <1>7, Ranges
    <3> QED
      BY <3>1, <3>2 DEF Order, Received
  <2>2. ASSUME NEW c \in Conns
        PROVE  Chain(c)'
    <3>1. wire'[c] = wire[c] /\ writing'[c] = writing[c]
      BY <1>1
    <3>2. published' = r /\ \A n \in OnTheWay(c) \cup {r} : n <= r
      <4>1. \A n \in OnTheWay(c) : n \in Nat /\ n <= published
        BY Ranges DEF Order, Chain
      <4> QED
        BY <1>1, <1>7, <4>1, Ranges
    <3>3. Chain(c)
      BY DEF Order
    <3> QED
      BY <1>8, <3>1, <3>2, <3>3 DEF Chain
  <2>3. Behind'
    BY <1>1, <1>7, <1>8 DEF Order, Behind
  <2> QED
    BY <2>1, <2>2, <2>3 DEF Order
<1> QED
  BY <1>4, <1>5, <1>6, <1>9

-----------------------------------------------------------------------------
\* Steps that put nothing on the way.

LEMMA OrderFewer ==
  ASSUME StreamInv,
         UNCHANGED <<published, emitted, attempt>>,
         inHand' \in {inHand, 0},
         \A c \in Conns :
           /\ writing'[c] \in {writing[c], 0}
           /\ ToSet(wire'[c]) \subseteq ToSet(wire[c]) /\ Increasing(wire'[c])
           /\ ToSet(buf'[c]) \subseteq ToSet(buf[c]) /\ Increasing(buf'[c])
  PROVE  Order'
<1> USE DEF StreamInv
<1>1. \A c \in Conns : OnTheWay(c)' \subseteq OnTheWay(c)
  BY DEF OnTheWay
<1>2. Received'
  BY Ranges DEF Order, Received
<1>3. ASSUME NEW c \in Conns
      PROVE  Chain(c)'
  <2>1. Chain(c)
    BY DEF Order
  <2>2. \A n \in ToSet(buf[c]) : writing'[c] < n
    <3>1. \A n \in ToSet(buf[c]) : n \in Nat \ {0}
      BY Ranges
    <3>2. \A n \in ToSet(buf[c]) : 0 < n /\ writing[c] < n
      BY <2>1, <3>1 DEF Chain
    <3> QED
      BY <3>2
  <2>3. \A m \in ToSet(wire[c]) : writing'[c] # 0 => m < writing'[c]
    BY <2>1 DEF Chain
  <2>4. \A n \in OnTheWay(c)' : n <= published'
    BY <1>1, <2>1 DEF Chain
  <2> QED
    BY <2>1, <2>2, <2>3, <2>4 DEF Chain
<1>4. Behind'
  <2> SUFFICES ASSUME attempt' \in Conns
               PROVE  \A n \in OnTheWay(attempt)' :
                        inHand' < n /\ \A m \in ToSet(emitted') : m < n
    BY DEF Behind
  <2>0. attempt \in Conns /\ attempt' = attempt
    OBVIOUS
  <2>1. \A n \in OnTheWay(attempt) : inHand < n /\ \A m \in ToSet(emitted) : m < n
    BY <2>0 DEF Order, Behind
  <2>2. \A n \in OnTheWay(attempt) : n \in Nat \ {0}
    BY <2>0, Ranges
  <2>3. \A n \in OnTheWay(attempt) : inHand' < n
    BY <2>1, <2>2
  <2>4. OnTheWay(attempt)' \subseteq OnTheWay(attempt)
    BY <2>0 DEF OnTheWay
  <2>5. emitted' = emitted
    OBVIOUS
  <2> QED
    BY <2>1, <2>3, <2>4, <2>5
<1> QED
  BY <1>2, <1>3, <1>4 DEF Order

LEMMA OrderSame ==
  ASSUME StreamInv,
         UNCHANGED <<published, emitted, attempt, inHand, writing, wire, buf>>
  PROVE  Order'
BY OrderFewer DEF StreamInv, Order, Chain

LEMMA HubAndWorldInv ==
  ASSUME StreamInv, CloseHub \/ Cancel \/ TakeRecord \/ TakeState
  PROVE  StreamInv'
<1> USE DEF StreamInv, hubVars, handlerVars, clientVars
<1>1. UNCHANGED <<published, emitted, attempt, inHand, writing, wire, buf,
                  handler, pipe, client>>
  BY DEF CloseHub, Cancel, TakeRecord, TakeState
<1>2. Order'
  BY <1>1, OrderSame
<1>3. /\ subs' \subseteq subs
      /\ records' = records \/ (records # <<>> /\ records' = Tail(records))
      /\ states' = states \/ (states # <<>> /\ states' = Tail(states))
  BY DEF CloseHub, Cancel, TakeRecord, TakeState
<1>4. /\ records' \in Seq(Record) /\ Len(records') <= Len(records)
      /\ states' \in Seq(StateNames) /\ Len(states') <= Len(states)
      /\ Len(records') \in Nat /\ Len(records) \in Nat
      /\ Len(states') \in Nat /\ Len(states) \in Nat
  <2>1. records \in Seq(Record) /\ states \in Seq(StateNames)
    BY DEF Types
  <2> HIDE DEF StreamInv
  <2> QED
    BY <1>3, <2>1, TailOrSame
<1>5. Types'
  BY <1>1, <1>3, <1>4 DEF Types
<1>6. Rooms'
  BY <1>1, <1>4, StreamAssumption DEF Rooms
<1>7. Places'
  BY <1>1, <1>3 DEF Places
<1> QED
  BY <1>2, <1>5, <1>6, <1>7

LEMMA CutInv ==
  ASSUME StreamInv, NEW c \in Conns, Cut(c)
  PROVE  StreamInv'
<1> USE DEF StreamInv
<1>1. /\ UNCHANGED <<published, emitted, attempt, inHand, writing, buf, subs,
                     handler, client, records, states>>
      /\ pipe[c] # "none"
      /\ pipe' = [pipe EXCEPT ![c] = "cut"]
  BY DEF Cut, hubVars, handlerVars, clientVars
<1>2. PICK n \in 0 .. Len(wire[c]) : wire' = [wire EXCEPT ![c] = SubSeq(@, 1, n)]
  BY DEF Cut
<1>3. wire[c] \in Seq(Record \cup {Greeting}) /\ wire[c] \in Seq(Nat)
  BY Ranges DEF Types
<1>4. /\ SubSeq(wire[c], 1, n) \in Seq(Record \cup {Greeting})
      /\ ToSet(SubSeq(wire[c], 1, n)) \subseteq ToSet(wire[c])
      /\ wire[c] = <<>> => SubSeq(wire[c], 1, n) = <<>>
  BY <1>3, PrefixFacts
<1>5. Increasing(SubSeq(wire[c], 1, n))
  BY <1>3, PrefixIncreasing DEF Order, Chain
<1>6. Types'
  BY <1>1, <1>2, <1>4 DEF Types
<1>7. Rooms'
  BY <1>1 DEF Rooms
<1>8. Places'
  BY <1>1, <1>2, <1>4 DEF Places, Types
<1>9. Order'
  <2>1. ASSUME NEW d \in Conns
        PROVE  ToSet(wire'[d]) \subseteq ToSet(wire[d]) /\ Increasing(wire'[d])
    BY <1>2, <1>4, <1>5 DEF Types, Order, Chain
  <2> QED
    BY <1>1, <2>1, OrderFewer DEF Order, Chain
<1> QED
  BY <1>6, <1>7, <1>8, <1>9

LEMMA RestartInv ==
  ASSUME StreamInv, Restart
  PROVE  StreamInv'
<1> USE DEF StreamInv
<1>1. /\ UNCHANGED <<published, emitted, attempt, inHand, wire, client,
                     records, states>>
      /\ subs' = {}
      /\ handler' = [c \in Conns |-> IF handler[c] = "none" THEN "none" ELSE "gone"]
      /\ writing' = [c \in Conns |-> 0]
      /\ buf' = [c \in Conns |-> <<>>]
      /\ pipe' = [c \in Conns |-> IF pipe[c] = "none" THEN "none" ELSE "cut"]
  BY DEF Restart, clientVars
<1>2. Types'
  <2>1. <<>> \in Seq(Record)
    OBVIOUS
  <2> QED
    BY <1>1, <2>1 DEF Types
<1>3. Rooms'
  BY <1>1, StreamAssumption DEF Rooms
<1>4. Places'
  BY <1>1 DEF Places
<1>5. Order'
  BY <1>1, OrderFewer, EmptyFacts DEF Order, Chain
<1> QED
  BY <1>2, <1>3, <1>4, <1>5

-----------------------------------------------------------------------------
\* The handler's steps

LEMMA OpenInv ==
  ASSUME StreamInv, NEW c \in Conns, Open(c)
  PROVE  StreamInv'
<1> USE DEF StreamInv
<1>1. UNCHANGED <<published, emitted, attempt, inHand, writing, buf, pipe,
                  client, records, states>>
  BY DEF Open, clientVars
<1>2. \/ /\ handler[c] = "subscribe" /\ subs' \subseteq subs \cup {c}
         /\ wire' = wire
         /\ handler' = [handler EXCEPT ![c] = "greet"]
      \/ /\ handler[c] = "greet" /\ subs' = subs
         /\ wire' = [wire EXCEPT ![c] = IF pipe[c] = "up" THEN Append(@, Greeting) ELSE @]
         /\ handler' = [handler EXCEPT ![c] = "relay"]
  BY DEF Open, Opening, Types
<1>3. wire[c] = <<>> /\ wire[c] \in Seq(Record \cup {Greeting})
  BY <1>2 DEF Places, Types
<1>4. /\ Append(wire[c], Greeting) \in Seq(Record \cup {Greeting})
      /\ ToSet(Append(wire[c], Greeting)) = {0}
      /\ Increasing(Append(wire[c], Greeting))
  <2>1. /\ Append(wire[c], Greeting) \in Seq(Record \cup {Greeting})
        /\ ToSet(Append(wire[c], Greeting)) = ToSet(wire[c]) \cup {Greeting}
    <3>1. Greeting \in Record \cup {Greeting}
      OBVIOUS
    <3>2. \A s \in Seq(Record \cup {Greeting}) :
            /\ Append(s, Greeting) \in Seq(Record \cup {Greeting})
            /\ ToSet(Append(s, Greeting)) = ToSet(s) \cup {Greeting}
      BY <3>1, AppendFacts
    <3> HIDE DEF StreamInv
    <3> QED
      BY <1>3, <3>2
  <2>2. Append(wire[c], Greeting) = <<Greeting>>
    BY <1>3
  <2>3. ToSet(<<Greeting>>) = {0}
    BY <1>3, <2>1, <2>2, EmptyFacts DEF Greeting
  <2>4. Increasing(<<Greeting>>)
    BY DEF Increasing
  <2> QED
    BY <2>1, <2>2, <2>3, <2>4
<1>5. Types'
  <2>1. handler' \in [Conns -> {"none", "subscribe", "greet", "relay", "write", "gone"}]
    BY <1>2 DEF Types
  <2>2. wire' \in [Conns -> Seq(Record \cup {Greeting})]
    BY <1>2, <1>4 DEF Types
  <2>3. subs' \subseteq Conns
    BY <1>2 DEF Types
  <2> HIDE DEF StreamInv
  <2> QED
    BY <1>1, <2>1, <2>2, <2>3 DEF StreamInv, Types
<1>6. Rooms'
  BY <1>1 DEF Rooms
<1>7. Places'
  BY <1>1, <1>2 DEF Places, Types
<1>8. Order'
  <2>1. CASE wire' = wire
    BY <1>1, <2>1, OrderSame
  <2>2. CASE wire' # wire
    <3>1. /\ wire' = [wire EXCEPT ![c] = Append(@, Greeting)]
          /\ handler[c] = "greet"
      BY <1>2, <2>2 DEF Types
    <3>2. writing[c] = 0 /\ ToSet(wire'[c]) = {0} /\ Increasing(wire'[c])
      BY <1>4, <3>1 DEF Places, Types
    <3>3. \A d \in Conns \ {c} : wire'[d] = wire[d]
      BY <3>1 DEF Types
    <3>4. \A d \in Conns : OnTheWay(d)' \subseteq OnTheWay(d)
      BY <1>1, <3>2, <3>3 DEF OnTheWay
    <3>5. Received'
      BY <1>1 DEF Order, Received
    <3>6. ASSUME NEW d \in Conns
          PROVE  Chain(d)'
      <4>1. Chain(d) /\ \A n \in ToSet(buf[d]) : 0 < n
        BY PositiveBuf DEF Order
      <4>2. CASE d = c
        BY <1>1, <3>2, <3>4, <4>1, <4>2 DEF Chain
      <4>3. CASE d # c
        <5>1. wire'[d] = wire[d]
          BY <3>3, <4>3
        <5> QED
          BY <1>1, <3>4, <4>1, <5>1 DEF Chain
      <4> QED
        BY <4>2, <4>3
    <3>7. Behind'
      <4>1. attempt \in Conns => OnTheWay(attempt)' \subseteq OnTheWay(attempt)
        BY <1>1, <3>4
      <4> QED
        BY <1>1, <4>1 DEF Order, Behind
    <3> QED
      BY <3>5, <3>6, <3>7 DEF Order
  <2> QED
    BY <2>1, <2>2
<1> QED
  BY <1>5, <1>6, <1>7, <1>8

LEMMA ReturnInv ==
  ASSUME StreamInv, NEW c \in Conns, Return(c)
  PROVE  StreamInv'
<1> USE DEF StreamInv
<1>1. /\ UNCHANGED <<published, emitted, attempt, inHand, buf, wire, client,
                     records, states>>
      /\ handler[c] \in {"greet", "relay", "write"}
      /\ handler' = [handler EXCEPT ![c] = "gone"]
      /\ writing' = [writing EXCEPT ![c] = 0]
      /\ pipe' = [pipe EXCEPT ![c] = IF @ = "up" THEN "ended" ELSE @]
      /\ subs' = subs \ {c}
  BY DEF Return, Deregister, clientVars
<1>2. Types'
  BY <1>1 DEF Types
<1>3. Rooms'
  BY <1>1 DEF Rooms
<1>4. Places'
  BY <1>1 DEF Places, Types
<1>5. Order'
  <2>1. \A d \in Conns : writing'[d] \in {writing[d], 0}
    BY <1>1 DEF Types
  <2> QED
    BY <1>1, <2>1, OrderFewer DEF Order, Chain
<1> QED
  BY <1>2, <1>3, <1>4, <1>5

LEMMA RelayInv ==
  ASSUME StreamInv, NEW c \in Conns, Relay(c)
  PROVE  StreamInv'
<1> USE DEF StreamInv
<1>1. /\ UNCHANGED <<published, emitted, attempt, inHand, wire, pipe, subs,
                     client, records, states>>
      /\ handler[c] = "relay" /\ buf[c] # <<>>
      /\ buf' = [buf EXCEPT ![c] = Tail(@)]
  BY DEF Relay, clientVars
<1>2. \/ UNCHANGED <<handler, writing>>
      \/ /\ handler' = [handler EXCEPT ![c] = "write"]
         /\ writing' = [writing EXCEPT ![c] = Head(buf[c])]
  BY DEF Relay, handlerVars
<1>3. /\ Head(buf[c]) \in Record /\ Head(buf[c]) \in ToSet(buf[c])
      /\ Tail(buf[c]) \in Seq(Record)
      /\ Len(Tail(buf[c])) = Len(buf[c]) - 1
      /\ ToSet(Tail(buf[c])) \subseteq ToSet(buf[c])
      /\ buf[c] \in Seq(Record)
  BY <1>1, TailFacts DEF Types
<1>4. /\ Increasing(Tail(buf[c]))
      /\ \A n \in ToSet(Tail(buf[c])) : Head(buf[c]) < n
  BY <1>1, Ranges, TailIncreasing DEF Order, Chain
<1>5. Types'
  BY <1>1, <1>2, <1>3 DEF Types
<1>6. Rooms'
  <2>1. Len(Tail(buf[c])) <= Buffer
    <3>1. Len(buf[c]) \in Nat /\ Len(buf[c]) <= Buffer
      BY <1>3 DEF Rooms
    <3> QED
      BY <1>3, <3>1, StreamAssumption
  <2> QED
    BY <1>1, <2>1 DEF Rooms, Types
<1>7. Places'
  <2>1. \/ handler'[c] = "relay" /\ writing'[c] = writing[c]
        \/ handler'[c] = "write" /\ writing'[c] # 0
    <3>1. CASE UNCHANGED <<handler, writing>>
      BY <1>1, <3>1
    <3>2. CASE /\ handler' = [handler EXCEPT ![c] = "write"]
               /\ writing' = [writing EXCEPT ![c] = Head(buf[c])]
      <4>1. c \in DOMAIN handler /\ c \in DOMAIN writing
        BY DEF Types
      <4>2. Head(buf[c]) # 0
        BY <1>3, Ranges
      <4> QED
        BY <3>2, <4>1, <4>2
    <3> QED
      BY <1>2, <3>1, <3>2
  <2>2. \A d \in Conns \ {c} : /\ handler'[d] = handler[d]
                              /\ writing'[d] = writing[d] /\ buf'[d] = buf[d]
    BY <1>1, <1>2 DEF Types
  <2>3. attempt \in Conns => (handler'[attempt] = "none" <=> handler[attempt] = "none")
    BY <1>1, <2>1, <2>2
  <2>4. handler[c] = "relay"
    BY <1>1
  <2> QED
    BY <1>1, <2>1, <2>2, <2>3, <2>4 DEF Places
<1>8. \A d \in Conns : /\ ToSet(buf'[d]) \subseteq ToSet(buf[d])
                       /\ Increasing(buf'[d])
  BY <1>1, <1>3, <1>4 DEF Types, Order, Chain
<1>9. CASE UNCHANGED <<handler, writing>>
  <2>1. Order'
    BY <1>1, <1>8, <1>9, OrderFewer DEF Order, Chain
  <2> QED
    BY <1>5, <1>6, <1>7, <2>1
<1>10. CASE writing' = [writing EXCEPT ![c] = Head(buf[c])]
  <2>1. /\ writing'[c] = Head(buf[c]) /\ buf'[c] = Tail(buf[c])
        /\ \A d \in Conns \ {c} : writing'[d] = writing[d] /\ buf'[d] = buf[d]
    BY <1>1, <1>10 DEF Types
  <2>2. \A d \in Conns : OnTheWay(d)' \subseteq OnTheWay(d)
    BY <1>1, <1>3, <1>8, <2>1 DEF OnTheWay
  <2>3. Received'
    BY <1>1 DEF Order, Received
  <2>4. ASSUME NEW d \in Conns
        PROVE  Chain(d)'
    <3>1. Chain(d)
      BY DEF Order
    <3>2. CASE d = c
      BY <1>1, <1>3, <1>4, <2>1, <2>2, <3>1, <3>2 DEF Chain
    <3>3. CASE d # c
      <4>1. writing'[d] = writing[d] /\ buf'[d] = buf[d] /\ wire'[d] = wire[d]
        BY <1>1, <2>1, <3>3
      <4> QED
        BY <1>1, <2>2, <3>1, <4>1 DEF Chain
    <3> QED
      BY <3>2, <3>3
  <2>5. Behind'
    <3>1. attempt \in Conns => OnTheWay(attempt)' \subseteq OnTheWay(attempt)
      BY <1>1, <2>2
    <3> QED
      BY <1>1, <3>1 DEF Order, Behind
  <2> QED
    BY <1>5, <1>6, <1>7, <2>3, <2>4, <2>5 DEF Order
<1> QED
  BY <1>2, <1>9, <1>10

LEMMA WriteInv ==
  ASSUME StreamInv, NEW c \in Conns, Write(c)
  PROVE  StreamInv'
<1> USE DEF StreamInv
<1>1. /\ UNCHANGED <<published, emitted, attempt, inHand, buf, pipe, subs,
                     client, records, states>>
      /\ handler[c] = "write"
      /\ handler' = [handler EXCEPT ![c] = "relay"]
      /\ writing' = [writing EXCEPT ![c] = 0]
      /\ wire' = wire \/ wire' = [wire EXCEPT ![c] = Append(@, writing[c])]
  BY DEF Write, Written, hubVars, clientVars
<1>2. /\ writing[c] \in Record /\ writing[c] # 0
      /\ wire[c] \in Seq(Record \cup {Greeting}) /\ wire[c] \in Seq(Nat)
  BY <1>1, Ranges DEF Types, Places
<1>3. /\ Append(wire[c], writing[c]) \in Seq(Record \cup {Greeting})
      /\ ToSet(Append(wire[c], writing[c])) = ToSet(wire[c]) \cup {writing[c]}
  BY <1>2, AppendFacts
<1>4. Increasing(Append(wire[c], writing[c]))
  BY <1>2, Ranges, AppendIncreasing DEF Order, Chain
<1>5. Types'
  BY <1>1, <1>3 DEF Types
<1>6. Rooms'
  BY <1>1 DEF Rooms
<1>7. Places'
  BY <1>1 DEF Places, Types
<1>8. CASE wire' = wire
  <2>1. \A d \in Conns : writing'[d] \in {writing[d], 0}
    BY <1>1 DEF Types
  <2>2. Order'
    BY <1>1, <1>8, <2>1, OrderFewer DEF Order, Chain
  <2> QED
    BY <1>5, <1>6, <1>7, <2>2
<1>9. CASE wire' = [wire EXCEPT ![c] = Append(@, writing[c])]
  <2>1. /\ writing'[c] = 0 /\ wire'[c] = Append(wire[c], writing[c])
        /\ \A d \in Conns \ {c} : writing'[d] = writing[d] /\ wire'[d] = wire[d]
    BY <1>1, <1>9 DEF Types
  <2>2. \A d \in Conns : OnTheWay(d)' \subseteq OnTheWay(d)
    BY <1>1, <1>3, <2>1 DEF OnTheWay
  <2>3. Received'
    BY <1>1 DEF Order, Received
  <2>4. ASSUME NEW d \in Conns
        PROVE  Chain(d)'
    <3>1. Chain(d) /\ \A n \in ToSet(buf[d]) : 0 < n
      BY PositiveBuf DEF Order
    <3>2. CASE d = c
      BY <1>1, <1>3, <1>4, <2>1, <2>2, <3>1, <3>2 DEF Chain
    <3>3. CASE d # c
      <4>1. writing'[d] = writing[d] /\ buf'[d] = buf[d] /\ wire'[d] = wire[d]
        BY <1>1, <2>1, <3>3
      <4> QED
        BY <1>1, <2>2, <3>1, <4>1 DEF Chain
    <3> QED
      BY <3>2, <3>3
  <2>5. Behind'
    <3>1. attempt \in Conns => OnTheWay(attempt)' \subseteq OnTheWay(attempt)
      BY <1>1, <2>2
    <3> QED
      BY <1>1, <3>1 DEF Order, Behind
  <2> QED
    BY <1>5, <1>6, <1>7, <2>3, <2>4, <2>5 DEF Order
<1> QED
  BY <1>1, <1>8, <1>9

-----------------------------------------------------------------------------
\* The client's steps

LEMMA LoopInv ==
  ASSUME StreamInv, Loop
  PROVE  StreamInv'
<1> USE DEF StreamInv
<1>1. /\ UNCHANGED <<published, emitted, inHand, buf, wire, writing, handler,
                     pipe, subs, records, states>>
      /\ client = "loop"
      /\ \/ client' = "stopping" /\ attempt' = attempt
         \/ /\ attempt < MaxAttempt /\ attempt' = attempt + 1
            /\ client' = "connecting"
  BY DEF Loop, hubVars, handlerVars
<1>2. CASE attempt' = attempt
  <2>1. Order'
    BY <1>1, <1>2, OrderSame
  <2> QED
    BY <1>1, <1>2, <2>1 DEF Types, Rooms, Places
<1>3. CASE attempt < MaxAttempt /\ attempt' = attempt + 1 /\ client' = "connecting"
  <2>1. attempt' \in Conns /\ attempt' > attempt /\ attempt' \in 0 .. MaxAttempt
    BY <1>3, StreamAssumption DEF Types, Conns
  <2>2. /\ handler[attempt'] = "none" /\ wire[attempt'] = <<>>
        /\ buf[attempt'] = <<>> /\ writing[attempt'] = 0
    BY <2>1 DEF Places
  <2>3. Types'
    BY <1>1, <2>1 DEF Types
  <2>4. Rooms'
    BY <1>1 DEF Rooms
  <2>5. Places'
    <3>1. \A c \in Conns : c > attempt' => c > attempt
      <4>1. attempt \in Nat /\ attempt' = attempt + 1 /\ \A c \in Conns : c \in Nat
        BY <1>3, Ranges
      <4> QED
        BY <4>1
    <3> QED
      BY <1>1, <1>3, <2>1, <2>2, <3>1 DEF Places
  <2>6. Order'
    <3>1. OnTheWay(attempt)' = {}
      BY <1>1, <2>2, EmptyFacts DEF OnTheWay
    <3>2. Received'
      BY <1>1 DEF Order, Received
    <3>3. \A c \in Conns : OnTheWay(c)' = OnTheWay(c)
      BY <1>1 DEF OnTheWay
    <3>4. \A c \in Conns : Chain(c)'
      BY <1>1, <3>3 DEF Order, Chain
    <3>5. Behind'
      BY <3>1 DEF Behind
    <3> QED
      BY <3>2, <3>4, <3>5 DEF Order
  <2> QED
    BY <2>3, <2>4, <2>5, <2>6
<1> QED
  BY <1>1, <1>2, <1>3

LEMMA SendInv ==
  ASSUME StreamInv, Send
  PROVE  StreamInv'
<1> USE DEF StreamInv
<1>1. /\ UNCHANGED <<published, emitted, inHand, buf, wire, writing, handler,
                     pipe, subs, records, attempt>>
      /\ Len(states) < StatesCap
      /\ states' = Append(states, Sends[client].state)
  BY DEF Send, Report, hubVars, handlerVars
<1>2. /\ Sends[client].state \in StateNames
      /\ \/ client = "connecting" /\ client' = "dial"
         \/ client = "greeted" /\ client' = "read"
         \/ client = "retrying" /\ client' = "wait"
         \/ client = "stopping" /\ client' = "stopped"
  <2>1. client \in {"connecting", "greeted", "retrying", "stopping"}
    BY DEF Send, Sends
  <2>2. client' = Sends[client].next
    BY DEF Send
  <2> HIDE DEF StreamInv
  <2>3. /\ Sends["connecting"].state = "connecting"
        /\ Sends["greeted"].state = "connected"
        /\ Sends["retrying"].state = "retrying"
        /\ Sends["stopping"].state = "disconnected"
    BY DEF Sends
  <2>4. /\ Sends["connecting"].next = "dial" /\ Sends["greeted"].next = "read"
        /\ Sends["retrying"].next = "wait" /\ Sends["stopping"].next = "stopped"
    BY DEF Sends
  <2> QED
    BY <2>1, <2>2, <2>3, <2>4 DEF StateNames
<1>3. /\ states' \in Seq(StateNames) /\ Len(states') = Len(states) + 1
      /\ Len(states) \in Nat
  <2>1. states \in Seq(StateNames) /\ Len(states) \in Nat
    BY DEF Types
  <2>2. /\ Append(states, Sends[client].state) \in Seq(StateNames)
        /\ Len(Append(states, Sends[client].state)) = Len(states) + 1
    BY <1>2, <2>1, AppendFacts
  <2> QED
    BY <1>1, <2>1, <2>2
<1>4. Types'
  BY <1>1, <1>3 DEF Types
<1>5. Rooms'
  BY <1>1, <1>3, StreamAssumption DEF Rooms
<1>6. Places'
  BY <1>1, <1>2 DEF Places
<1>7. Order'
  BY <1>1, OrderSame
<1> QED
  BY <1>4, <1>5, <1>6, <1>7

LEMMA DialInv ==
  ASSUME StreamInv, Dial
  PROVE  StreamInv'
<1> USE DEF StreamInv
<1>1. /\ UNCHANGED <<published, emitted, inHand, buf, wire, writing, subs,
                     records, states, attempt>>
      /\ client = "dial" /\ client' = "headers"
      /\ handler' = [handler EXCEPT ![attempt] = "subscribe"]
      /\ pipe' = [pipe EXCEPT ![attempt] = "up"]
  BY DEF Dial, hubVars
<1>2. attempt \in Conns /\ handler[attempt] = "none" /\ ~ (attempt > attempt)
  BY <1>1, Ranges DEF Places
<1>3. Types'
  BY <1>1 DEF Types
<1>4. Rooms'
  BY <1>1 DEF Rooms
<1>5. Places'
  BY <1>1, <1>2 DEF Places, Types
<1>6. Order'
  BY <1>1, OrderSame
<1> QED
  BY <1>3, <1>4, <1>5, <1>6

LEMMA ConnectInv ==
  ASSUME StreamInv, Connect \/ Wait
  PROVE  StreamInv'
<1> USE DEF StreamInv
<1>1. /\ UNCHANGED <<published, emitted, inHand, buf, wire, writing, subs,
                     records, states, attempt, handler, pipe>>
      /\ \/ client = "headers" /\ client' = "greeted"
         \/ client = "wait" /\ client' \in {"stopping", "loop"}
  BY DEF Connect, Wait, hubVars, handlerVars
<1>2. Order'
  BY <1>1, OrderSame
<1> QED
  BY <1>1, <1>2 DEF Types, Rooms, Places

LEMMA ReadInv ==
  ASSUME StreamInv, Read
  PROVE  StreamInv'
<1> USE DEF StreamInv
<1> DEFINE line == Head(wire[attempt])
<1>1. /\ UNCHANGED <<published, emitted, buf, writing, subs, records, states,
                     attempt, handler, pipe>>
      /\ client = "read" /\ wire[attempt] # <<>>
      /\ wire' = [wire EXCEPT ![attempt] = Tail(@)]
      /\ \/ line = Greeting /\ UNCHANGED <<client, inHand>>
         \/ line # Greeting /\ client' = "deliver" /\ inHand' = line
  BY DEF Read, hubVars, handlerVars
<1>2. /\ attempt \in Conns /\ inHand = 0
      /\ wire[attempt] \in Seq(Record \cup {Greeting})
      /\ wire[attempt] \in Seq(Nat)
  BY <1>1, Ranges DEF Places, Types
<1>3. /\ line \in Record \cup {0} /\ line \in ToSet(wire[attempt])
      /\ Tail(wire[attempt]) \in Seq(Record \cup {Greeting})
      /\ ToSet(Tail(wire[attempt])) \subseteq ToSet(wire[attempt])
  BY <1>1, <1>2, TailFacts DEF Greeting
<1>4. /\ Increasing(Tail(wire[attempt]))
      /\ \A n \in ToSet(Tail(wire[attempt])) : line < n
  BY <1>1, <1>2, TailIncreasing DEF Order, Chain
<1> HIDE DEF line
<1>5. Types'
  BY <1>1, <1>3 DEF Types
<1>6. Rooms'
  BY <1>1 DEF Rooms
<1>7. handler[attempt] \notin {"none", "subscribe", "greet"}
  BY <1>1, <1>2 DEF Places
<1>8. Places'
  <2>1. (client' = "deliver") = (inHand' # 0)
    BY <1>1, <1>2 DEF Greeting
  <2>2. client' \notin {"connecting", "dial"}
    BY <1>1
  <2>3. \A d \in Conns \ {attempt} : wire'[d] = wire[d]
    BY <1>1 DEF Types
  <2> QED
    BY <1>1, <1>2, <1>7, <2>1, <2>2, <2>3 DEF Places
<1>9. \A d \in Conns : /\ ToSet(wire'[d]) \subseteq ToSet(wire[d])
                       /\ Increasing(wire'[d])
  BY <1>1, <1>3, <1>4 DEF Types, Order, Chain
<1>10. CASE inHand' = inHand
  <2>1. Order'
    BY <1>1, <1>9, <1>10, OrderFewer DEF Order, Chain
  <2> QED
    BY <1>5, <1>6, <1>8, <2>1
<1>11. CASE line # Greeting /\ inHand' = line
  <2>1. line \in OnTheWay(attempt) /\ line \in Nat
    BY <1>2, <1>3, <1>11, Ranges DEF OnTheWay, Greeting
  <2>2. \A d \in Conns : OnTheWay(d)' \subseteq OnTheWay(d)
    BY <1>1, <1>9 DEF OnTheWay
  <2>3. Received'
    <3>1. line <= published
      BY <1>2, <2>1 DEF Order, Chain
    <3>2. \A m \in ToSet(emitted) : m < line
      BY <1>2, <2>1 DEF Order, Behind
    <3> QED
      BY <1>1, <1>11, <3>1, <3>2 DEF Order, Received
  <2>4. ASSUME NEW d \in Conns
        PROVE  Chain(d)'
    BY <1>1, <1>9, <2>2 DEF Order, Chain
  <2>5. Behind'
    <3>1. OnTheWay(attempt)' \subseteq OnTheWay(attempt)
      BY <1>1, <1>2, <2>2
    <3>2. wire'[attempt] = Tail(wire[attempt])
      BY <1>1, <1>2 DEF Types
    <3>3. \A n \in OnTheWay(attempt)' : line < n
      <4>1. \A n \in ToSet(buf[attempt]) : line < n
        BY <1>2, <1>3 DEF Order, Chain
      <4>2. writing[attempt] # 0 => line < writing[attempt]
        BY <1>2, <1>3 DEF Order, Chain
      <4> QED
        BY <1>1, <1>4, <3>2, <4>1, <4>2 DEF OnTheWay
    <3>4. \A n \in OnTheWay(attempt) : \A m \in ToSet(emitted) : m < n
      BY <1>2 DEF Order, Behind
    <3> QED
      BY <1>1, <1>11, <3>1, <3>3, <3>4 DEF Behind
  <2> QED
    BY <1>5, <1>6, <1>8, <2>3, <2>4, <2>5 DEF Order
<1> QED
  BY <1>1, <1>10, <1>11

LEMMA DeliverInv ==
  ASSUME StreamInv, Deliver
  PROVE  StreamInv'
<1> USE DEF StreamInv
<1>1. /\ UNCHANGED <<published, buf, wire, writing, subs, states, attempt,
                     handler, pipe>>
      /\ client = "deliver" /\ client' = "read"
      /\ Len(records) < RecordsCap
      /\ records' = Append(records, inHand)
      /\ emitted' = Append(emitted, inHand)
      /\ inHand' = 0
  BY DEF Deliver, hubVars, handlerVars
<1>2. /\ attempt \in Conns /\ inHand # 0 /\ inHand \in Record
      /\ records \in Seq(Record) /\ emitted \in Seq(Record)
      /\ emitted \in Seq(Nat) /\ inHand \in Nat
  BY <1>1, Ranges DEF Places, Types
<1>3. /\ records' \in Seq(Record) /\ Len(records') = Len(records) + 1
      /\ emitted' \in Seq(Record)
      /\ ToSet(emitted') = ToSet(emitted) \cup {inHand}
      /\ Len(records) \in Nat
  <2> HIDE DEF StreamInv
  <2> QED
    BY <1>1, <1>2, AppendFacts
<1>4. Increasing(emitted')
  BY <1>1, <1>2, AppendIncreasing DEF Order, Received
<1>5. Types'
  BY <1>1, <1>3 DEF Types
<1>6. Rooms'
  BY <1>1, <1>3, StreamAssumption DEF Rooms
<1>7. Places'
  BY <1>1, <1>2 DEF Places
<1>8. Order'
  <2>1. Received'
    <3>1. 0 <= published'
      BY <1>1, Ranges
    <3> QED
      BY <1>1, <1>3, <1>4, <3>1 DEF Order, Received
  <2>2. \A d \in Conns : OnTheWay(d)' = OnTheWay(d)
    BY <1>1 DEF OnTheWay
  <2>3. \A d \in Conns : Chain(d)'
    BY <1>1, <2>2 DEF Order, Chain
  <2>4. Behind'
    <3>1. OnTheWay(attempt)' = OnTheWay(attempt)
      BY <1>1 DEF OnTheWay
    <3>2. \A n \in OnTheWay(attempt) : inHand < n /\ \A m \in ToSet(emitted) : m < n
      BY <1>2 DEF Order, Behind
    <3>3. \A n \in OnTheWay(attempt) : 0 < n
      BY <1>2, PositiveWay
    <3> QED
      BY <1>1, <1>3, <3>1, <3>2, <3>3 DEF Behind
  <2> QED
    BY <2>1, <2>3, <2>4 DEF Order
<1> QED
  BY <1>5, <1>6, <1>7, <1>8

LEMMA FailInv ==
  ASSUME StreamInv, Fail
  PROVE  StreamInv'
<1> USE DEF StreamInv
<1>1. /\ UNCHANGED <<published, emitted, inHand, buf, writing, subs, records,
                     states, attempt, handler>>
      /\ client \in {"dial", "headers", "read"}
      /\ client' \in {"stopping", "retrying"}
      /\ wire' = [wire EXCEPT ![attempt] = <<>>]
      /\ pipe' = [pipe EXCEPT ![attempt] = IF @ = "none" THEN "none" ELSE "cut"]
  BY DEF Fail, NextAfter, HangUp, hubVars, handlerVars
<1>2. \A d \in Conns : wire'[d] = wire[d] \/ wire'[d] = <<>>
  BY <1>1 DEF Types
<1>3. Types'
  <2>1. <<>> \in Seq(Record \cup {Greeting})
    OBVIOUS
  <2>2. wire' \in [Conns -> Seq(Record \cup {Greeting})]
    BY <1>1, <2>1 DEF Types
  <2>3. pipe' \in [Conns -> {"none", "up", "ended", "cut"}]
    BY <1>1 DEF Types
  <2> QED
    BY <1>1, <2>2, <2>3 DEF Types
<1>4. Rooms'
  BY <1>1 DEF Rooms
<1>5. Places'
  BY <1>1, <1>2 DEF Places, Types
<1>6. Order'
  BY <1>1, <1>2, OrderFewer, EmptyFacts DEF Order, Chain
<1> QED
  BY <1>3, <1>4, <1>5, <1>6

-----------------------------------------------------------------------------
LEMMA StreamInitInv == StreamInit => StreamInv
<1> SUFFICES ASSUME StreamInit
             PROVE  StreamInv
  OBVIOUS
<1> USE StreamAssumption DEF StreamInit
<1>1. <<>> \in Seq(Record) /\ <<>> \in Seq(Record \cup {Greeting}) /\ <<>> \in Seq(StateNames)
  OBVIOUS
<1>2. Types
  BY <1>1 DEF Types
<1>3. Rooms
  BY DEF Rooms
<1>4. Places
  BY DEF Places
<1>5. \A c \in Conns : OnTheWay(c) = {}
  BY EmptyFacts DEF OnTheWay
<1>6. Order
  BY <1>5, EmptyFacts DEF Order, Received, Chain, Behind, Conns
<1> QED
  BY <1>2, <1>3, <1>4, <1>6 DEF StreamInv

LEMMA StreamStepInv == StreamInv /\ [StreamNext]_streamVars => StreamInv'
<1> SUFFICES ASSUME StreamInv, [StreamNext]_streamVars
             PROVE  StreamInv'
  OBVIOUS
<1>1. CASE UNCHANGED streamVars
  <2>1. Order'
    BY <1>1, OrderSame DEF streamVars, hubVars, handlerVars, clientVars
  <2> QED
    BY <1>1, <2>1 DEF StreamInv, Types, Rooms, Places, streamVars, hubVars,
                      handlerVars, clientVars
<1>2. CASE Publish
  BY <1>2, PublishInv
<1>3. CASE CloseHub \/ Cancel \/ TakeRecord \/ TakeState
  BY <1>3, HubAndWorldInv
<1>4. CASE Restart
  BY <1>4, RestartInv
<1>5. ASSUME NEW c \in Conns, Cut(c) \/ HandlerStep(c)
      PROVE  StreamInv'
  BY <1>5, CutInv, OpenInv, RelayInv, WriteInv, ReturnInv DEF HandlerStep
<1>6. CASE ClientStep
  BY <1>6, LoopInv, SendInv, DialInv, ConnectInv, ReadInv, DeliverInv, FailInv
     DEF ClientStep
<1> QED
  BY <1>1, <1>2, <1>3, <1>4, <1>5, <1>6 DEF StreamNext

\* In every state the hub, the connections and the client are where Places
\* says, and what is on the way is in order.
THEOREM StreamInvariance == StreamSpec => []StreamInv
BY StreamInitInv, StreamStepInv, PTL DEF StreamSpec

\* The transport's variables keep their types, and no channel holds more than
\* its capacity.
THEOREM StreamTypeCorrectness == StreamSpec => []StreamTypeOK
<1>1. StreamInv => StreamTypeOK
  <2> SUFFICES ASSUME StreamInv
               PROVE  StreamTypeOK
    OBVIOUS
  <2>1. Types /\ Rooms /\ Places
    BY DEF StreamInv
  <2>2. \A c \in Conns : /\ ToSet(wire[c]) \subseteq Record \cup {Greeting}
                         /\ ToSet(buf[c]) \subseteq Record
    BY <2>1, Ranges DEF Greeting
  <2> QED
    BY <2>1, <2>2 DEF Types, Rooms, Places, StreamTypeOK
<1> QED
  BY <1>1, StreamInvariance, PTL

\* Whatever is cut, restarted or closed, and however slow handlers are, the
\* viewer receives records in the order of their publication and none twice.
THEOREM OrderedDelivery == StreamSpec => []InOrderOnce
<1>1. StreamInv => InOrderOnce
  BY DEF StreamInv, Order, Received, Increasing, InOrderOnce
<1> QED
  BY <1>1, StreamInvariance, PTL

-----------------------------------------------------------------------------
(***************************************************************************)
(* What the states that the client reports are worth: the client           *)
(* implements module Link, and while it is connected nothing is missed.    *)
(*                                                                         *)
(* The last state reported follows from where the client stands (Said).    *)
(* No stage holds a record that should have been lost before (Whole).      *)
(* A connection that is up has a handler whose subscription is registered, *)
(* and one that has been reported is past its greeting (Served).           *)
(***************************************************************************)
\* What has been reported last when the client stands somewhere.
Reports ==
  [loop       |-> {"none", "retrying"},
   connecting |-> {"none", "retrying"},
   dial       |-> {"connecting"},
   headers    |-> {"connecting"},
   greeted    |-> {"connecting"},
   read       |-> {"connected"},
   deliver    |-> {"connected"},
   retrying   |-> {"connecting", "connected"},
   wait       |-> {"retrying"},
   stopping   |-> {"none", "connecting", "connected", "retrying"},
   stopped    |-> {"disconnected"}]

Said == client \in DOMAIN Reports /\ reported \in Reports[client]

Whole ==
  /\ inHand # 0 => inHand \notin Unmarshalled \cup Oversized
  /\ \A c \in Conns :
       /\ writing[c] # 0 => writing[c] \notin Unmarshalled
       /\ \A m \in ToSet(wire[c]) : m # 0 => m \notin Unmarshalled

LinkInv == StreamInv /\ Said /\ Whole

-----------------------------------------------------------------------------
LEMMA SaidStep ==
  ASSUME StreamInv, Said, StreamNext
  PROVE  Said'
<1> USE DEF Said, Reports
<1>1. CASE UNCHANGED <<client, reported>>
  BY <1>1
<1>2. CASE Loop
  BY <1>2 DEF Loop
<1>3. CASE Send
  BY <1>3 DEF Send, Sends, Report
<1>4. CASE Dial
  BY <1>4 DEF Dial
<1>5. CASE Connect
  BY <1>5 DEF Connect
<1>6. CASE Read
  BY <1>6 DEF Read
<1>7. CASE Deliver
  BY <1>7 DEF Deliver
<1>8. CASE Fail
  BY <1>8 DEF Fail, NextAfter
<1>9. CASE Wait
  BY <1>9 DEF Wait
<1>10. CASE Publish \/ CloseHub \/ Restart \/ Cancel \/ TakeRecord \/ TakeState
  BY <1>10, <1>1 DEF Publish, CloseHub, Restart, Cancel, TakeRecord, TakeState, clientVars
<1>11. ASSUME NEW c \in Conns, Cut(c) \/ HandlerStep(c)
       PROVE  Said'
  BY <1>11, <1>1 DEF Cut, HandlerStep, Open, Relay, Write, Return, clientVars
<1> QED
  BY <1>2, <1>3, <1>4, <1>5, <1>6, <1>7, <1>8, <1>9, <1>10, <1>11
     DEF StreamNext, ClientStep

\* What leaves everything on its way where it is, or takes something away.
LEMMA WholeFewer ==
  ASSUME Whole, inHand' \in {0, inHand},
         \A c \in Conns : /\ ToSet(wire'[c]) \subseteq ToSet(wire[c])
                          /\ writing'[c] \in {0, writing[c]}
  PROVE  Whole'
BY DEF Whole

LEMMA WholeStep ==
  ASSUME StreamInv, Whole, StreamNext
  PROVE  Whole'
<1> USE DEF StreamInv
<1>1. CASE UNCHANGED <<inHand, writing, wire>>
  BY <1>1, WholeFewer
<1>2. CASE Publish \/ CloseHub \/ Cancel \/ TakeRecord \/ TakeState
            \/ Loop \/ Send \/ Dial \/ Connect \/ Wait
  BY <1>2, <1>1 DEF Publish, CloseHub, Cancel, TakeRecord, TakeState, Loop,
                    Send, Dial, Connect, Wait, clientVars, handlerVars
<1>3. CASE Restart
  <2>1. \A c \in Conns : writing'[c] = 0
    BY <1>3 DEF Restart
  <2> QED
    BY <1>3, <2>1, WholeFewer DEF Restart, clientVars
<1>4. ASSUME NEW c \in Conns, Cut(c)
      PROVE  Whole'
  <2>1. PICK n \in 0 .. Len(wire[c]) : wire' = [wire EXCEPT ![c] = SubSeq(@, 1, n)]
    BY <1>4 DEF Cut
  <2>2. wire[c] \in Seq(Record \cup {Greeting}) /\ wire \in [Conns -> Seq(Record \cup {Greeting})]
    BY DEF Types
  <2>3. ToSet(SubSeq(wire[c], 1, n)) \subseteq ToSet(wire[c])
    BY <2>2, PrefixFacts
  <2>4. \A d \in Conns : ToSet(wire'[d]) \subseteq ToSet(wire[d])
    BY <2>1, <2>2, <2>3
  <2> QED
    BY <1>4, <2>4, WholeFewer DEF Cut, clientVars, handlerVars
<1>5. ASSUME NEW c \in Conns, Open(c) \/ Write(c)
      PROVE  Whole'
  <2> DEFINE new == IF writing[c] = 0 THEN Greeting ELSE writing[c]
  <2>1. /\ wire \in [Conns -> Seq(Record \cup {Greeting})]
        /\ new \in Record \cup {Greeting}
    BY DEF Types, Greeting
  <2>2. ToSet(Append(wire[c], new)) = ToSet(wire[c]) \cup {new}
    BY <2>1, AppendFacts
  <2>3. \A d \in Conns : wire'[d] = wire[d] \/ (d = c /\ wire'[d] = Append(wire[c], new))
    <3>1. CASE Open(c)
      <4>1. handler[c] \in {"subscribe", "greet"}
        BY <3>1 DEF Open, Opening
      <4>2. writing[c] = 0
        BY <4>1 DEF Places
      <4> QED
        BY <3>1, <4>2, <2>1 DEF Open, Opening
    <3>2. CASE Write(c)
      <4>1. writing[c] # 0
        BY <3>2 DEF Write, Places
      <4> QED
        BY <3>2, <4>1, <2>1 DEF Write
    <3> QED
      BY <1>5, <3>1, <3>2
  <2>4. /\ inHand' = inHand
        /\ \A d \in Conns : writing'[d] \in {0, writing[d]}
    BY <1>5 DEF Open, Write, Written, clientVars, Types
  <2>5. ASSUME NEW d \in Conns
        PROVE  \A m \in ToSet(wire'[d]) : m # 0 => m \notin Unmarshalled
    <3>1. CASE wire'[d] = wire[d]
      BY <3>1 DEF Whole
    <3>2. CASE d = c /\ wire'[d] = Append(wire[c], new)
      <4>1. new # 0 => new \notin Unmarshalled
        BY DEF Whole, Greeting
      <4>2. ToSet(wire'[d]) = ToSet(wire[c]) \cup {new}
        BY <3>2, <2>2
      <4> QED
        BY <4>1, <4>2 DEF Whole
    <3> QED
      BY <2>3, <3>1, <3>2
  <2> QED
    BY <2>4, <2>5 DEF Whole
<1>6. ASSUME NEW c \in Conns, Relay(c)
      PROVE  Whole'
  <2>1. /\ wire' = wire /\ inHand' = inHand
        /\ \A d \in Conns : \/ writing'[d] = writing[d]
                            \/ writing'[d] = Head(buf[c]) /\ Head(buf[c]) \notin Unmarshalled
    BY <1>6 DEF Relay, clientVars, handlerVars, Types
  <2> QED
    BY <2>1 DEF Whole
<1>7. ASSUME NEW c \in Conns, Return(c)
      PROVE  Whole'
  <2>1. \A d \in Conns : writing'[d] \in {0, writing[d]}
    BY <1>7 DEF Return, Types
  <2> QED
    BY <1>7, <2>1, WholeFewer DEF Return, clientVars
<1>8. CASE Read
  <2>1. attempt \in Conns /\ wire \in [Conns -> Seq(Record \cup {Greeting})]
    BY <1>8 DEF Read, Places, Types
  <2>2. /\ Head(wire[attempt]) \in ToSet(wire[attempt])
        /\ ToSet(Tail(wire[attempt])) \subseteq ToSet(wire[attempt])
    BY <1>8, <2>1, TailFacts DEF Read
  <2>3. \A d \in Conns : ToSet(wire'[d]) \subseteq ToSet(wire[d])
    BY <1>8, <2>1, <2>2 DEF Read
  <2>4. \/ inHand' = inHand
        \/ /\ inHand' = Head(wire[attempt])
           /\ Head(wire[attempt]) \notin Oversized
    BY <1>8 DEF Read
  <2>5. writing' = writing
    BY <1>8 DEF Read, handlerVars
  <2> QED
    BY <2>1, <2>2, <2>3, <2>4, <2>5 DEF Whole
<1>9. CASE Deliver
  BY <1>9, WholeFewer DEF Deliver, handlerVars
<1>10. CASE Fail
  <2>1. \A d \in Conns : wire'[d] = wire[d] \/ wire'[d] = <<>>
    BY <1>10 DEF Fail, HangUp, Types
  <2> QED
    BY <1>10, <2>1, WholeFewer, EmptyFacts DEF Fail, handlerVars
<1> QED
  BY <1>2, <1>3, <1>4, <1>5, <1>6, <1>7, <1>8, <1>9, <1>10
     DEF StreamNext, ClientStep, HandlerStep

LEMMA LinkInvariance == StreamSpec => []LinkInv
<1>1. StreamInit => Said /\ Whole
  BY EmptyFacts DEF StreamInit, Said, Reports, Whole
<1>2. Said /\ Whole /\ StreamInv /\ [StreamNext]_streamVars => Said' /\ Whole'
  <2> SUFFICES ASSUME Said, Whole, StreamInv, [StreamNext]_streamVars
               PROVE  Said' /\ Whole'
    OBVIOUS
  <2>1. CASE UNCHANGED streamVars
    BY <2>1 DEF Said, Whole, streamVars, clientVars, handlerVars
  <2> QED
    BY <2>1, SaidStep, WholeStep
<1> QED
  BY <1>1, <1>2, StreamInvariance, PTL DEF StreamSpec, LinkInv

-----------------------------------------------------------------------------
\* Each step maps to a step of Link or stutters.

LEMMA LinkStep ==
  ASSUME LinkInv, StreamNext
  PROVE  [L!LinkNext]_(L!linkVars)
<1> USE DEF LinkInv
<1>1. CASE UNCHANGED <<published, reported, emitted>>
  BY <1>1 DEF L!linkVars
<1>2. CASE Publish
  BY <1>2 DEF Publish, clientVars, L!LinkNext, L!PublishOne
<1>3. CASE CloseHub \/ Restart \/ Cancel \/ TakeRecord \/ TakeState
            \/ Loop \/ Dial \/ Connect \/ Read \/ Fail \/ Wait
  BY <1>3, <1>1 DEF CloseHub, Restart, Cancel, TakeRecord, TakeState, Loop,
                    Dial, Connect, Read, Fail, Wait, clientVars, hubVars
<1>4. ASSUME NEW c \in Conns, Cut(c) \/ HandlerStep(c)
      PROVE  UNCHANGED <<published, reported, emitted>>
  BY <1>4 DEF Cut, HandlerStep, Open, Relay, Write, Return, clientVars, hubVars
<1>5. CASE Send
  <2>1. /\ reported' = Sends[client].state
        /\ UNCHANGED <<published, emitted>>
    BY <1>5 DEF Send, Report, hubVars
  <2>2. /\ Sends[client].state \in {"connecting", "connected", "retrying", "disconnected"}
        /\ Sends[client].state \in L!Follows[reported]
    BY <1>5 DEF Send, Sends, Said, Reports, L!Follows
  <2>3. L!ReportState(Sends[client].state)
    BY <2>1, <2>2 DEF L!ReportState
  <2> QED
    BY <2>2, <2>3 DEF L!LinkNext
<1>6. CASE Deliver
  <2>1. /\ client = "deliver"
        /\ emitted' = Append(emitted, inHand)
        /\ UNCHANGED <<published, reported>>
    BY <1>6 DEF Deliver, hubVars
  <2>2. inHand # 0 /\ reported = "connected"
    BY <2>1 DEF StreamInv, Places, Said, Reports
  <2>3. inHand \in 1 .. published /\ inHand \notin Unmarshalled \cup Oversized
    <3>1. inHand \in Nat /\ published \in Nat /\ inHand <= published
      BY Ranges DEF StreamInv, Order, Received
    <3> QED
      BY <3>1, <2>2 DEF Whole
  <2>4. \A i \in DOMAIN emitted : emitted[i] < inHand
    BY <2>2 DEF StreamInv, Order, Received, ToSet
  <2>5. L!Give(inHand)
    BY <2>1, <2>2, <2>3, <2>4 DEF L!Give
  <2> QED
    BY <2>3, <2>5 DEF L!LinkNext
<1> QED
  BY <1>1, <1>2, <1>3, <1>4, <1>5, <1>6 DEF StreamNext, ClientStep

\* The client implements Link: whatever is cut, restarted, closed or cancelled,
\* a viewer is given a record only while the last state it was told of is
\* "connected", and states follow each other as attempts do.
THEOREM LinkRefinement == StreamSpec => ImplementsLink
<1>1. StreamInit => L!LinkInit
  BY DEF StreamInit, L!LinkInit
<1>2. LinkInv /\ [StreamNext]_streamVars => [L!LinkNext]_(L!linkVars)
  <2> SUFFICES ASSUME LinkInv, [StreamNext]_streamVars
               PROVE  [L!LinkNext]_(L!linkVars)
    OBVIOUS
  <2>1. CASE UNCHANGED streamVars
    BY <2>1 DEF streamVars, hubVars, clientVars, L!linkVars
  <2> QED
    BY <2>1, LinkStep
<1> QED
  BY <1>1, <1>2, LinkInvariance, PTL DEF StreamSpec, ImplementsLink, L!LinkSpec

-----------------------------------------------------------------------------
\* What has been published since "connected" is on its way

\* A connection that is up has its handler, and a handler past its Subscribe
\* is registered unless the hub is closed; when the greeting has been read it
\* is in its loop.
Served ==
  /\ \A c \in Conns :
       /\ pipe[c] = "up" => handler[c] \in {"subscribe", "greet", "relay", "write"}
       /\ pipe[c] = "up" /\ handler[c] # "subscribe" /\ ~closed => c \in subs
  /\ client \in {"greeted", "read", "deliver"} =>
       handler[attempt] \in {"relay", "write", "gone"}

Histories ==
  since \in [Conns -> Nat] /\ missed \in [Conns -> SUBSET Record]

LEMMA HistoriesStep ==
  ASSUME StreamInv, Histories, StreamNext
  PROVE  Histories'
<1> USE DEF Histories, StreamInv
<1>1. CASE UNCHANGED <<since, missed>>
  BY <1>1
<1>2. CASE Publish
  BY <1>2 DEF Publish, clientVars
<1>3. CASE Send
  BY <1>3, Ranges DEF Send, hubVars
<1>4. CASE CloseHub \/ Restart \/ Cancel \/ TakeRecord \/ TakeState
            \/ Loop \/ Dial \/ Connect \/ Read \/ Deliver \/ Fail \/ Wait
  BY <1>4, <1>1 DEF CloseHub, Restart, Cancel, TakeRecord, TakeState, Loop, Dial,
                    Connect, Read, Deliver, Fail, Wait, clientVars, hubVars
<1>5. ASSUME NEW c \in Conns, Cut(c) \/ HandlerStep(c)
      PROVE  UNCHANGED <<since, missed>>
  BY <1>5 DEF Cut, HandlerStep, Open, Relay, Write, Return, clientVars, hubVars
<1> QED
  BY <1>1, <1>2, <1>3, <1>4, <1>5 DEF StreamNext, ClientStep

LEMMA ServedStep ==
  ASSUME StreamInv, Served, StreamNext
  PROVE  Served'
<1> USE DEF Served, StreamInv
<1>1. CASE UNCHANGED <<pipe, handler, closed, subs, client, attempt>>
  BY <1>1
<1>2. CASE Publish \/ Cancel \/ TakeRecord \/ TakeState
  BY <1>2, <1>1 DEF Publish, Cancel, TakeRecord, TakeState, hubVars, handlerVars, clientVars
<1>3. CASE CloseHub
  BY <1>3 DEF CloseHub, handlerVars, clientVars
<1>4. CASE Restart
  <2>1. \A c \in Conns : pipe'[c] # "up"
    BY <1>4 DEF Restart
  <2>2. client' \in {"greeted", "read", "deliver"} => handler'[attempt'] = "gone"
    BY <1>4 DEF Restart, clientVars, Places
  <2> QED
    BY <2>1, <2>2
<1>5. ASSUME NEW c \in Conns, Cut(c)
      PROVE  Served'
  BY <1>5 DEF Cut, hubVars, handlerVars, clientVars, Types
<1>6. ASSUME NEW c \in Conns, HandlerStep(c)
      PROVE  Served'
  <2>1. CASE Open(c)
    <3>1. /\ \/ /\ handler[c] = "subscribe" /\ handler' = [handler EXCEPT ![c] = "greet"]
                /\ subs' = IF closed THEN subs ELSE subs \cup {c}
             \/ /\ handler[c] = "greet" /\ handler' = [handler EXCEPT ![c] = "relay"]
                /\ subs' = subs
          /\ UNCHANGED <<pipe, closed, client, attempt>>
      BY <2>1 DEF Open, Opening, clientVars
    <3>2. /\ \A d \in Conns \ {c} : handler'[d] = handler[d]
          /\ subs \subseteq subs'
          /\ \/ /\ handler[c] = "subscribe" /\ handler'[c] = "greet"
                /\ closed \/ c \in subs'
             \/ handler[c] = "greet" /\ handler'[c] = "relay"
      BY <3>1 DEF Types
    <3>3. client \in {"greeted", "read", "deliver"} => attempt \in Conns
      BY DEF Places
    <3> QED
      BY <3>1, <3>2, <3>3
  <2>2. CASE Relay(c)
    <3>1. /\ \A d \in Conns : \/ handler'[d] = handler[d]
                              \/ handler[d] = "relay" /\ handler'[d] = "write"
          /\ UNCHANGED <<pipe, closed, subs, client, attempt>>
      BY <2>2 DEF Relay, handlerVars, clientVars, Types
    <3>2. client \in {"greeted", "read", "deliver"} => attempt \in Conns
      BY DEF Places
    <3> QED
      BY <3>1, <3>2
  <2>3. CASE Write(c)
    <3>1. /\ handler[c] = "write"
          /\ handler' = [handler EXCEPT ![c] = "relay"]
          /\ UNCHANGED <<pipe, closed, subs, client, attempt>>
      BY <2>3 DEF Write, Written, hubVars, clientVars
    <3>2. \A d \in Conns :
            handler'[d] = handler[d] \/ (handler[d] = "write" /\ handler'[d] = "relay")
      BY <3>1 DEF Types
    <3>3. client \in {"greeted", "read", "deliver"} => attempt \in Conns
      BY DEF Places
    <3> QED
      BY <3>1, <3>2, <3>3
  <2>4. CASE Return(c)
    <3>1. /\ handler' = [handler EXCEPT ![c] = "gone"]
          /\ pipe' = [pipe EXCEPT ![c] = IF @ = "up" THEN "ended" ELSE @]
          /\ subs' = subs \ {c}
          /\ UNCHANGED <<closed, client, attempt>>
      BY <2>4 DEF Return, Deregister, clientVars
    <3>2. /\ pipe'[c] # "up" /\ handler'[c] = "gone"
          /\ \A d \in Conns \ {c} : pipe'[d] = pipe[d] /\ handler'[d] = handler[d]
      BY <3>1 DEF Types
    <3>3. client \in {"greeted", "read", "deliver"} => attempt \in Conns
      BY DEF Places
    <3> QED
      BY <3>1, <3>2, <3>3
  <2> QED
    BY <1>6, <2>1, <2>2, <2>3, <2>4 DEF HandlerStep
<1>7. CASE Loop \/ Send \/ Read \/ Deliver \/ Wait
  BY <1>7 DEF Loop, Send, Sends, Read, Deliver, Wait, hubVars, handlerVars
<1>8. CASE Dial
  BY <1>8 DEF Dial, hubVars, Types, Places
<1>9. CASE Connect
  <2>1. attempt \in Conns /\ handler[attempt] \in {"relay", "write", "gone"}
    BY <1>9 DEF Connect, Places, Types
  <2> QED
    BY <1>9, <2>1 DEF Connect, hubVars, handlerVars
<1>10. CASE Fail
  BY <1>10 DEF Fail, NextAfter, HangUp, hubVars, handlerVars, Types
<1> QED
  BY <1>2, <1>3, <1>4, <1>5, <1>6, <1>7, <1>8, <1>9, <1>10 DEF StreamNext, ClientStep

\* What r is accounted for by, on the current connection.
Accounted(r) ==
  \/ r \in ToSet(emitted) \cup ToSet(wire[attempt]) \cup ToSet(buf[attempt])
  \/ r \in {inHand, writing[attempt]}
  \/ r \in missed[attempt] \cup Unmarshalled

Watched == client \in {"read", "deliver"} /\ pipe[attempt] = "up" /\ ~closed

LEMMA HeadOrTail ==
  ASSUME NEW S, NEW s \in Seq(S), s # <<>>
  PROVE  ToSet(s) \subseteq {Head(s)} \cup ToSet(Tail(s))
<1>1. \A i \in DOMAIN s : i = 1 \/ (i - 1 \in DOMAIN Tail(s) /\ Tail(s)[i - 1] = s[i])
  OBVIOUS
<1>2. Head(s) = s[1]
  OBVIOUS
<1> QED
  BY <1>1, <1>2 DEF ToSet

\* A step within a connection that is watched loses sight of no record.
LEMMA StillAccounted ==
  ASSUME NothingMissed,
         Watched' => Watched /\ UNCHANGED <<attempt, since, published>>,
         Watched' => \A r \in since[attempt] + 1 .. published : Accounted(r) => Accounted(r)'
  PROVE  NothingMissed'
BY DEF NothingMissed, Watched, Accounted

LEMMA MissedPublish ==
  ASSUME StreamInv, Histories, Served, NothingMissed, Publish
  PROVE  NothingMissed'
<1> USE DEF StreamInv
<1>1. SUFFICES ASSUME Watched', NEW r \in since[attempt] + 1 .. published + 1
               PROVE  Accounted(r)'
  BY DEF Publish, clientVars, NothingMissed, Watched, Accounted
<1>2. /\ UNCHANGED <<closed, subs, wire, writing, pipe, handler, client, attempt,
                     inHand, emitted, since>>
      /\ Watched
  BY <1>1 DEF Publish, handlerVars, clientVars, Watched
<1>3. attempt \in Conns /\ attempt \in subs
  BY <1>2 DEF Watched, Places, Served
<1>4. buf[attempt] \in Seq(Record) /\ published + 1 \in Record
  BY <1>3 DEF Types, Publish
<1>5. CASE r = published + 1
  <2>1. CASE HasRoom(attempt)
    <3>1. buf'[attempt] = Append(buf[attempt], r)
      BY <1>2, <1>3, <1>5, <2>1 DEF Publish, Watched
    <3>2. r \in ToSet(buf'[attempt])
      BY <1>4, <1>5, <3>1, AppendFacts
    <3> QED
      BY <1>2, <3>2 DEF Accounted
  <2>2. CASE ~HasRoom(attempt)
    <3>1. r \in missed'[attempt]
      BY <1>2, <1>3, <1>5, <2>2 DEF Publish, Watched
    <3> QED
      BY <1>2, <3>1 DEF Accounted
  <2> QED
    BY <2>1, <2>2
<1>6. CASE r # published + 1
  <2>1. published \in Nat /\ since[attempt] \in Nat
    BY <1>3, Ranges DEF Histories
  <2>2. Accounted(r)
    BY <1>2, <1>6, <2>1 DEF NothingMissed, Accounted, Watched
  <2>3. ToSet(buf[attempt]) \subseteq ToSet(buf'[attempt])
    <3>1. \/ buf'[attempt] = buf[attempt]
          \/ buf'[attempt] = Append(buf[attempt], published + 1)
      BY <1>3 DEF Publish, Types
    <3>2. ToSet(Append(buf[attempt], published + 1)) = ToSet(buf[attempt]) \cup {published + 1}
      BY <1>4, AppendFacts
    <3> QED
      BY <3>1, <3>2
  <2>4. missed[attempt] \subseteq missed'[attempt]
    BY <1>3 DEF Publish
  <2> QED
    BY <1>2, <2>2, <2>3, <2>4 DEF Accounted
<1> QED
  BY <1>5, <1>6

LEMMA MissedHandler ==
  ASSUME StreamInv, Histories, Served, NothingMissed, NEW c \in Conns, HandlerStep(c)
  PROVE  NothingMissed'
<1> USE DEF StreamInv
<1>1. UNCHANGED <<attempt, since, published, client, closed, emitted, inHand, missed>>
  BY DEF HandlerStep, Open, Relay, Write, Return, hubVars, clientVars
<1>2. CASE c # attempt \/ ~Watched
  <2>1. \A d \in Conns \ {c} :
          UNCHANGED <<pipe[d], wire[d], writing[d], buf[d]>>
    BY DEF HandlerStep, Open, Opening, Relay, Write, Written, Return, handlerVars,
           hubVars, Types
  <2>2. Watched' => pipe[c] = "up" \/ c # attempt
    <3>1. pipe'[c] = "up" => pipe[c] = "up"
      BY DEF HandlerStep, Open, Relay, Write, Return, hubVars, Types
    <3> QED
      BY <1>1, <3>1 DEF Watched
  <2>3. Watched' => Watched /\ c # attempt /\ attempt \in Conns
    BY <1>1, <1>2, <2>1, <2>2 DEF Watched, Places
  <2> QED
    BY <1>1, <2>1, <2>3, StillAccounted DEF Accounted
<1>3. CASE c = attempt /\ Watched
  <2>1. handler[c] \in {"relay", "write"} /\ pipe[c] = "up" /\ c \in subs
    BY <1>3 DEF Watched, Served
  <2>2. /\ wire[c] \in Seq(Record \cup {Greeting}) /\ buf[c] \in Seq(Record)
        /\ writing[c] \in Record \cup {0}
    BY DEF Types
  <2>3. CASE Open(c)
    BY <2>1, <2>3 DEF Open, Opening
  <2>4. CASE Relay(c)
    <3>1. /\ wire' = wire
          /\ buf[c] # <<>> /\ buf'[c] = Tail(buf[c])
          /\ writing[c] = 0
          /\ \/ writing'[c] = Head(buf[c])
             \/ Head(buf[c]) \in Unmarshalled
      BY <2>4 DEF Relay, handlerVars, Types, Places
    <3>2. ToSet(buf[c]) \subseteq {Head(buf[c])} \cup ToSet(buf'[c])
      BY <2>2, <3>1, HeadOrTail
    <3>3. ASSUME NEW r \in since[attempt] + 1 .. published, Accounted(r)
          PROVE  Accounted(r)'
      <4>1. r # 0
        BY <1>3, Ranges DEF Histories
      <4> QED
        BY <1>1, <1>3, <3>1, <3>2, <3>3, <4>1 DEF Accounted
    <3>4. pipe' = pipe
      BY <2>4 DEF Relay
    <3> QED
      BY <1>1, <1>3, <3>3, <3>4, StillAccounted DEF Watched
  <2>5. CASE Write(c)
    <3>1. /\ wire'[c] = Append(wire[c], writing[c]) /\ writing'[c] = 0
          /\ buf' = buf /\ pipe' = pipe
      BY <2>1, <2>5 DEF Write, Written, hubVars, Types
    <3>2. ToSet(wire'[c]) = ToSet(wire[c]) \cup {writing[c]}
      BY <2>2, <3>1, AppendFacts DEF Greeting
    <3>3. ASSUME NEW r \in since[attempt] + 1 .. published, Accounted(r)
          PROVE  Accounted(r)'
      BY <1>1, <1>3, <3>1, <3>2, <3>3 DEF Accounted
    <3> QED
      BY <1>1, <1>3, <3>1, <3>3, StillAccounted DEF Watched
  <2>6. CASE Return(c)
    <3>1. pipe'[c] # "up"
      BY <2>6 DEF Return, Types
    <3> QED
      BY <1>1, <1>3, <3>1 DEF NothingMissed
  <2> QED
    BY <2>3, <2>4, <2>5, <2>6 DEF HandlerStep
<1> QED
  BY <1>2, <1>3

LEMMA MissedRead ==
  ASSUME StreamInv, Histories, NothingMissed, Read \/ Deliver
  PROVE  NothingMissed'
<1> USE DEF StreamInv
<1>1. /\ UNCHANGED <<attempt, since, published, pipe, closed, missed, buf, writing>>
      /\ client \in {"read", "deliver"} /\ attempt \in Conns
  BY DEF Read, Deliver, hubVars, handlerVars, Places
<1>2. /\ wire[attempt] \in Seq(Record \cup {Greeting}) /\ inHand \in Record \cup {0}
      /\ emitted \in Seq(Record)
  BY <1>1 DEF Types
<1>3. ASSUME NEW r \in since[attempt] + 1 .. published, Accounted(r)
      PROVE  Accounted(r)'
  <2>1. r # 0
    BY <1>1, Ranges DEF Histories
  <2>2. CASE Read
    <3>1. /\ inHand = 0 /\ emitted' = emitted
          /\ wire[attempt] # <<>> /\ wire'[attempt] = Tail(wire[attempt])
          /\ Head(wire[attempt]) \in {0, inHand'}
      BY <1>1, <2>2 DEF Read, Places, Types, Greeting
    <3>2. ToSet(wire[attempt]) \subseteq {Head(wire[attempt])} \cup ToSet(wire'[attempt])
      BY <1>2, <3>1, HeadOrTail
    <3> QED
      BY <1>1, <1>3, <2>1, <3>1, <3>2 DEF Accounted
  <2>3. CASE Deliver
    <3>1. emitted' = Append(emitted, inHand) /\ wire' = wire /\ inHand \in Record
      BY <1>2, <2>3 DEF Deliver, Places
    <3>2. ToSet(emitted') = ToSet(emitted) \cup {inHand}
      BY <1>2, <3>1, AppendFacts
    <3> QED
      BY <1>1, <1>3, <3>1, <3>2 DEF Accounted
  <2> QED
    BY <2>2, <2>3
<1> QED
  BY <1>1, <1>3, StillAccounted DEF Watched

LEMMA MissedSend ==
  ASSUME StreamInv, Histories, NothingMissed, Send
  PROVE  NothingMissed'
<1> USE DEF StreamInv
<1>1. UNCHANGED <<published, attempt, emitted, inHand, pipe, closed>>
  BY DEF Send, hubVars
<1>2. CASE client = "greeted"
  <2>1. attempt \in Conns /\ published \in Nat
    BY <1>2, Ranges DEF Places
  <2>2. since'[attempt] = published
    BY <1>2, <2>1 DEF Send, Histories
  <2>3. since'[attempt'] + 1 .. published' = {}
    BY <1>1, <2>1, <2>2
  <2> QED
    BY <2>3 DEF NothingMissed
<1>3. CASE client # "greeted"
  BY <1>3 DEF Send, Sends, NothingMissed
<1> QED
  BY <1>2, <1>3

LEMMA MissedStep ==
  ASSUME StreamInv, Histories, Served, NothingMissed, StreamNext
  PROVE  NothingMissed'
<1>1. CASE CloseHub
  BY <1>1 DEF CloseHub, NothingMissed
<1>2. CASE Restart
  <2>1. attempt' \in Conns => pipe'[attempt'] # "up"
    BY <1>2 DEF Restart
  <2>2. client' \in {"read", "deliver"} => attempt' \in Conns
    BY <1>2 DEF Restart, clientVars, StreamInv, Places
  <2> QED
    BY <2>1, <2>2 DEF NothingMissed
<1>3. CASE Cancel \/ TakeRecord \/ TakeState
  BY <1>3 DEF Cancel, TakeRecord, TakeState, NothingMissed, hubVars, handlerVars, clientVars
<1>4. CASE Loop \/ Dial \/ Connect \/ Fail \/ Wait
  <2>1. client' \notin {"read", "deliver"}
    BY <1>4 DEF Loop, Dial, Connect, Fail, NextAfter, Wait
  <2> QED
    BY <2>1 DEF NothingMissed
<1>5. ASSUME NEW c \in Conns, Cut(c)
      PROVE  NothingMissed'
  <2>1. /\ UNCHANGED <<published, closed, buf, missed, writing, client, attempt, inHand,
                       emitted, since>>
        /\ pipe'[c] = "cut"
        /\ \A d \in Conns \ {c} : UNCHANGED <<pipe[d], wire[d]>>
    BY <1>5 DEF Cut, hubVars, handlerVars, clientVars, StreamInv, Types
  <2>2. client \in {"read", "deliver"} => attempt \in Conns
    BY DEF StreamInv, Places
  <2> QED
    BY <2>1, <2>2, StillAccounted DEF Watched, Accounted
<1>6. ASSUME NEW c \in Conns, HandlerStep(c)
      PROVE  NothingMissed'
  BY <1>6, MissedHandler
<1>7. CASE Publish \/ Read \/ Deliver \/ Send
  BY <1>7, MissedPublish, MissedRead, MissedSend
<1> QED
  BY <1>1, <1>2, <1>3, <1>4, <1>5, <1>6, <1>7 DEF StreamNext, ClientStep

\* From "connected" on, for as long as the connection lasts and the hub is not
\* closed, every record published has been received or is on its way, but for
\* what the subscription had no room for and what cannot be marshalled.
THEOREM Gapless == StreamSpec => []NothingMissed
<1>1. StreamInit => Histories /\ Served /\ NothingMissed
  BY DEF StreamInit, Histories, Served, NothingMissed
<1>2. /\ Histories /\ Served /\ NothingMissed
      /\ StreamInv /\ [StreamNext]_streamVars
      => Histories' /\ Served' /\ NothingMissed'
  <2> SUFFICES ASSUME Histories, Served, NothingMissed, StreamInv, [StreamNext]_streamVars
               PROVE  Histories' /\ Served' /\ NothingMissed'
    OBVIOUS
  <2>1. CASE UNCHANGED streamVars
    BY <2>1 DEF Histories, Served, NothingMissed, streamVars, hubVars, handlerVars, clientVars
  <2> QED
    BY <2>1, HistoriesStep, ServedStep, MissedStep
<1> QED
  BY <1>1, <1>2, StreamInvariance, PTL DEF StreamSpec
=============================================================================
