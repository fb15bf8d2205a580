---------------------------- MODULE StoreProofs ----------------------------
(***************************************************************************)
(* Lemmas about the operators of module Store: what Without leaves of a    *)
(* sequence, what lies below a set of spans, and what each operation       *)
(* keeps of a store, whichever viewer it is in: its shape, the faces of    *)
(* ended spans and the marks (Kept), that it is a forest that agrees with  *)
(* its index (Good), and that a span with everything above and below it is *)
(* left alone unless the operation is about it (Untouched). The last parts *)
(* are about an update, which merges its attributes one after the other    *)
(* (MergesBy), and timelines: Sorted puts each entry before those it       *)
(* precedes.                                                               *)
(*                                                                         *)
(* Without is a recursive function, so its facts are proved by induction   *)
(* on sequences. The induction itself rests on one fact of the library:    *)
(* strict inclusion is well founded on finite sets, so that of the counter-*)
(* examples to a claim one is smallest.                                    *)
(***************************************************************************)
EXTENDS Timeline, FiniteSetsExt, FiniteSetTheorems, WellFoundedInduction, SequenceTheorems, TLAPS

-----------------------------------------------------------------------------
\* Induction

LEMMA SmallestSet ==
  ASSUME NEW F, F # {}, \A T \in F : IsFiniteSet(T)
  PROVE  \E T \in F : \A U \in F : U \subseteq T => U = T
<1> DEFINE S == UNION F
<1>1. F \subseteq FiniteSubsetsOf(S)
  BY DEF FiniteSubsetsOf
<1>2. \E T \in F : \A U \in F : <<U, T>> \notin StrictSubsetOrdering(S)
  BY <1>1, FS_StrictSubsetOrderingWellFounded, WFMin
<1> QED
  BY <1>2 DEF StrictSubsetOrdering

LEMMA Least ==
  ASSUME NEW T \in SUBSET Nat, T # {}
  PROVE  \E n \in T : \A m \in T : n <= m
<1> DEFINE F == {1 .. n : n \in T}
<1>1. F # {} /\ \A U \in F : IsFiniteSet(U)
  <2>1. \A n \in T : IsFiniteSet(1 .. n)
    BY FS_Interval
  <2> QED
    BY <2>1
<1>2. \E U \in F : \A V \in F : V \subseteq U => V = U
  <2> HIDE DEF F
  <2> QED
    BY <1>1, SmallestSet
<1>3. PICK n \in T : \A m \in T : 1 .. m \subseteq 1 .. n => 1 .. m = 1 .. n
  <2>1. PICK U \in F : \A V \in F : V \subseteq U => V = U
    BY <1>2
  <2>2. PICK n \in T : U = 1 .. n
    OBVIOUS
  <2>3. \A m \in T : 1 .. m \in F
    OBVIOUS
  <2> QED
    BY <2>1, <2>2, <2>3
<1>4. ASSUME NEW m \in T PROVE n <= m
  <2>1. n \in Nat /\ m \in Nat
    OBVIOUS
  <2> SUFFICES ASSUME m < n PROVE FALSE
    BY <2>1
  <2>2. 1 .. m \subseteq 1 .. n /\ n \in 1 .. n /\ n \notin 1 .. m
    BY <2>1
  <2> QED
    BY <1>3, <2>2
<1> QED
  BY <1>4

LEMMA ByInduction ==
  ASSUME NEW T, 0 \in T, \A n \in Nat : n \in T => n + 1 \in T
  PROVE  Nat \subseteq T
<1> SUFFICES ASSUME Nat \ T # {} PROVE FALSE
  OBVIOUS
<1>1. PICK n \in Nat \ T : \A m \in Nat \ T : n <= m
  <2> DEFINE U == Nat \ T
  <2>1. U \in SUBSET Nat /\ U # {}
    OBVIOUS
  <2> HIDE DEF U
  <2>2. \E n \in U : \A m \in U : n <= m
    BY <2>1, Least
  <2> QED
    BY <2>2 DEF U
<1>2. n # 0 /\ n - 1 \in Nat /\ ~ (n <= n - 1)
  BY <1>1
<1>3. n - 1 \in T
  BY <1>1, <1>2
<1> QED
  BY <1>1, <1>2, <1>3

LEMMA BySequences ==
  ASSUME NEW S, NEW B, <<>> \in B,
         \A s \in Seq(S) : s \in B => \A x \in S : Append(s, x) \in B
  PROVE  Seq(S) \subseteq B
<1> DEFINE T == {n \in Nat : \A s \in Seq(S) : Len(s) = n => s \in B}
<1>1. 0 \in T
  <2>1. \A s \in Seq(S) : Len(s) = 0 => s = <<>>
    BY EmptySeq
  <2> QED
    BY <2>1
<1>2. ASSUME NEW n \in Nat, n \in T PROVE n + 1 \in T
  <2>1. ASSUME NEW s \in Seq(S), Len(s) = n + 1 PROVE s \in B
    <3>1. s # <<>>
      BY <2>1, EmptySeq
    <3>2. PICK t \in Seq(S), x \in S : s = Append(t, x)
      BY <3>1, SequenceEmptyOrAppend
    <3>3. Len(t) = n
      BY <2>1, <3>2, AppendProperties, LenProperties
    <3> QED
      BY <1>2, <3>2, <3>3
  <2> QED
    BY <2>1
<1>3. Nat \subseteq T
  <2> HIDE DEF T
  <2> QED
    BY <1>1, <1>2, ByInduction
<1> QED
  BY <1>3, LenProperties

-----------------------------------------------------------------------------
\* Without

\* f[n] is what is left of the first n entries.
Left(f, seq, gone) ==
  f = [n \in 0 .. Len(seq) |->
         IF n = 0 THEN <<>>
         ELSE IF seq[n] \in gone THEN f[n - 1]
         ELSE Append(f[n - 1], seq[n])]

LEMMA LeftExists ==
  ASSUME NEW S, NEW s \in Seq(S), NEW gone
  PROVE  \E f : Left(f, s, gone)
<1> DEFINE B == {t \in Seq(S) : \E f : Left(f, t, gone)}
<1>1. <<>> \in B
  <2>1. Left([n \in 0 .. Len(<<>>) |-> <<>>], <<>>, gone)
    BY DEF Left
  <2> QED
    BY <2>1, EmptySeq
<1>2. ASSUME NEW t \in Seq(S), t \in B, NEW x \in S
      PROVE  Append(t, x) \in B
  <2>1. PICK f : Left(f, t, gone)
    BY <1>2
  <2> DEFINE m == Len(t)
             u == Append(t, x)
             last == IF x \in gone THEN f[m] ELSE Append(f[m], x)
             h == [n \in 0 .. Len(u) |-> IF n = m + 1 THEN last ELSE f[n]]
  <2>2. /\ m \in Nat /\ Len(u) = m + 1 /\ u \in Seq(S) /\ u[m + 1] = x
        /\ \A n \in 1 .. m : u[n] = t[n]
    BY AppendProperties, LenProperties
  <2> HIDE DEF u, m
  <2>3. ASSUME NEW n \in 0 .. Len(u)
        PROVE  h[n] = IF n = 0 THEN <<>>
                      ELSE IF u[n] \in gone THEN h[n - 1]
                      ELSE Append(h[n - 1], u[n])
    <3>1. CASE n = m + 1
      BY <2>2, <3>1
    <3>2. CASE n # m + 1
      <4>1. n \in 0 .. m
        BY <2>2, <3>2
      <4>2. f[n] = IF n = 0 THEN <<>>
                   ELSE IF t[n] \in gone THEN f[n - 1]
                   ELSE Append(f[n - 1], t[n])
        BY <2>1, <4>1 DEF Left, m
      <4> QED
        BY <2>2, <3>2, <4>1, <4>2
    <3> QED
      BY <3>1, <3>2
  <2>4. Left(h, u, gone)
    BY <2>3 DEF Left
  <2> QED
    BY <2>2, <2>4 DEF u
<1>3. Seq(S) \subseteq B
  <2> HIDE DEF B
  <2> QED
    BY <1>1, <1>2, BySequences
<1> QED
  BY <1>3

LEMMA LeftUnique ==
  ASSUME NEW S, NEW s \in Seq(S), NEW gone, NEW f, NEW h,
         Left(f, s, gone), Left(h, s, gone)
  PROVE  f[Len(s)] = h[Len(s)]
<1> DEFINE T == {n \in Nat : n <= Len(s) => f[n] = h[n]}
<1>0. Len(s) \in Nat
  BY LenProperties
<1>1. 0 \in T
  BY <1>0 DEF Left
<1>2. ASSUME NEW n \in Nat, n \in T PROVE n + 1 \in T
  <2>1. CASE n + 1 <= Len(s)
    <3>1. f[n] = h[n] /\ n + 1 \in 0 .. Len(s) /\ n + 1 # 0 /\ (n + 1) - 1 = n
      BY <1>0, <1>2, <2>1
    <3>2. /\ f[n + 1] = IF s[n + 1] \in gone THEN f[n]
                        ELSE Append(f[n], s[n + 1])
          /\ h[n + 1] = IF s[n + 1] \in gone THEN h[n]
                        ELSE Append(h[n], s[n + 1])
      BY <3>1 DEF Left
    <3> QED
      BY <3>1, <3>2
  <2> QED
    BY <2>1
<1>3. Nat \subseteq T
  <2> HIDE DEF T
  <2> QED
    BY <1>1, <1>2, ByInduction
<1> QED
  BY <1>0, <1>3

LEMMA WithoutIs ==
  ASSUME NEW S, NEW s \in Seq(S), NEW gone, NEW f, Left(f, s, gone)
  PROVE  Without(s, gone) = f[Len(s)]
<1> DEFINE h == CHOOSE g : Left(g, s, gone)
<1>1. Without(s, gone) = h[Len(s)]
  BY DEF Without, Left
<1>2. Left(h, s, gone)
  <2> HIDE DEF h
  <2> QED
    BY DEF h
<1> HIDE DEF h
<1> QED
  BY <1>1, <1>2, LeftUnique

\* The two equations that say what Without is.
LEMMA WithoutEmpty ==
  ASSUME NEW gone
  PROVE  Without(<<>>, gone) = <<>>
<1> DEFINE f == [n \in 0 .. Len(<<>>) |-> <<>>]
<1>1. Left(f, <<>>, gone)
  BY DEF Left
<1>2. <<>> \in Seq({}) /\ Len(<<>>) = 0
  BY EmptySeq
<1>3. f[Len(<<>>)] = <<>>
  BY <1>2
<1> HIDE DEF f
<1> QED
  BY <1>1, <1>2, <1>3, WithoutIs

LEMMA WithoutAppend ==
  ASSUME NEW S, NEW s \in Seq(S), NEW x \in S, NEW gone
  PROVE  Without(Append(s, x), gone) =
           IF x \in gone THEN Without(s, gone)
           ELSE Append(Without(s, gone), x)
<1> DEFINE u == Append(s, x)
           m == Len(s)
<1>1. /\ m \in Nat /\ Len(u) = m + 1 /\ u \in Seq(S) /\ u[m + 1] = x
      /\ \A n \in 1 .. m : u[n] = s[n]
  BY AppendProperties, LenProperties
<1> HIDE DEF u, m
<1>2. PICK h : Left(h, u, gone)
  BY <1>1, LeftExists
<1> DEFINE f == [n \in 0 .. m |-> h[n]]
<1>3. ASSUME NEW n \in 0 .. m
      PROVE  f[n] = IF n = 0 THEN <<>>
                    ELSE IF s[n] \in gone THEN f[n - 1]
                    ELSE Append(f[n - 1], s[n])
  <2>1. n \in 0 .. Len(u)
    BY <1>1
  <2>2. h[n] = IF n = 0 THEN <<>>
               ELSE IF u[n] \in gone THEN h[n - 1]
               ELSE Append(h[n - 1], u[n])
    BY <1>2, <2>1 DEF Left
  <2> QED
    BY <1>1, <2>2
<1>4. Left(f, s, gone)
  BY <1>3 DEF Left, m
<1>5. Without(s, gone) = h[m]
  <2>1. f[m] = h[m]
    BY <1>1
  <2> HIDE DEF f
  <2> QED
    BY <1>4, <2>1, WithoutIs DEF m
<1>6. Without(u, gone) = h[m + 1]
  BY <1>1, <1>2, WithoutIs
<1>7. h[m + 1] = IF u[m + 1] \in gone THEN h[m] ELSE Append(h[m], u[m + 1])
  <2>1. m + 1 \in 0 .. Len(u) /\ m + 1 # 0 /\ (m + 1) - 1 = m
    BY <1>1
  <2> QED
    BY <1>2, <2>1 DEF Left
<1> QED
  BY <1>1, <1>5, <1>6, <1>7 DEF u

-----------------------------------------------------------------------------
\* What Without leaves

LEMMA EmptySet ==
  ToSet(<<>>) = {} /\ IsInjective(<<>>)
BY DEF ToSet, IsInjective

LEMMA ToSetIn ==
  ASSUME NEW S, NEW s \in Seq(S)
  PROVE  ToSet(s) \subseteq S /\ ToSet(s) = {s[i] : i \in 1 .. Len(s)}
BY LenProperties DEF ToSet

LEMMA AppendSet ==
  ASSUME NEW S, NEW s \in Seq(S), NEW x \in S
  PROVE  /\ ToSet(Append(s, x)) = ToSet(s) \cup {x}
         /\ IsInjective(Append(s, x)) <=> IsInjective(s) /\ x \notin ToSet(s)
<1> DEFINE u == Append(s, x)
           m == Len(s)
<1>1. /\ m \in Nat /\ DOMAIN u = 1 .. m + 1 /\ DOMAIN s = 1 .. m
      /\ u[m + 1] = x /\ \A n \in 1 .. m : u[n] = s[n]
  BY AppendProperties, LenProperties
<1> HIDE DEF u, m
<1>2. 1 .. m + 1 = (1 .. m) \cup {m + 1} /\ m + 1 \notin 1 .. m
  BY <1>1
<1>3. ToSet(u) = ToSet(s) \cup {x}
  BY <1>1, <1>2 DEF ToSet
<1>4. IsInjective(u) => IsInjective(s) /\ x \notin ToSet(s)
  BY <1>1, <1>2 DEF ToSet, IsInjective
<1>5. IsInjective(s) /\ x \notin ToSet(s) => IsInjective(u)
  BY <1>1, <1>2 DEF ToSet, IsInjective
<1> QED
  BY <1>3, <1>4, <1>5 DEF u

LEMMA WithoutSeq ==
  ASSUME NEW S, NEW s \in Seq(S), NEW gone
  PROVE  /\ Without(s, gone) \in Seq(S)
         /\ ToSet(Without(s, gone)) = ToSet(s) \ gone
         /\ IsInjective(s) => IsInjective(Without(s, gone))
<1> DEFINE B == {t \in Seq(S) :
                   /\ Without(t, gone) \in Seq(S)
                   /\ ToSet(Without(t, gone)) = ToSet(t) \ gone
                   /\ IsInjective(t) => IsInjective(Without(t, gone))}
<1>1. <<>> \in B
  BY WithoutEmpty, EmptySet, EmptySeq
<1>2. ASSUME NEW t \in Seq(S), t \in B, NEW x \in S
      PROVE  Append(t, x) \in B
  <2> DEFINE w == Without(t, gone)
  <2>1. w \in Seq(S) /\ ToSet(w) = ToSet(t) \ gone /\ (IsInjective(t) => IsInjective(w))
    BY <1>2
  <2>2. Without(Append(t, x), gone) = IF x \in gone THEN w ELSE Append(w, x)
    BY WithoutAppend
  <2>3. /\ Append(t, x) \in Seq(S) /\ ToSet(Append(t, x)) = ToSet(t) \cup {x}
        /\ IsInjective(Append(t, x)) <=> IsInjective(t) /\ x \notin ToSet(t)
    BY AppendSet, AppendProperties
  <2> HIDE DEF w
  <2>4. /\ Append(w, x) \in Seq(S) /\ ToSet(Append(w, x)) = ToSet(w) \cup {x}
        /\ IsInjective(Append(w, x)) <=> IsInjective(w) /\ x \notin ToSet(w)
    BY <2>1, AppendSet, AppendProperties
  <2> QED
    BY <2>1, <2>2, <2>3, <2>4
<1>3. Seq(S) \subseteq B
  <2> HIDE DEF B
  <2> QED
    BY <1>1, <1>2, BySequences
<1> QED
  BY <1>3

\* Only the members of the sequence matter.
LEMMA WithoutSame ==
  ASSUME NEW S, NEW s \in Seq(S), NEW g, NEW h,
         \A x \in ToSet(s) : x \in g <=> x \in h
  PROVE  Without(s, g) = Without(s, h)
<1> DEFINE B == {t \in Seq(S) : (\A x \in ToSet(t) : x \in g <=> x \in h) =>
                                  Without(t, g) = Without(t, h)}
<1>1. <<>> \in B
  BY WithoutEmpty, EmptySeq
<1>2. ASSUME NEW t \in Seq(S), t \in B, NEW x \in S
      PROVE  Append(t, x) \in B
  <2>1. Append(t, x) \in Seq(S) /\ ToSet(Append(t, x)) = ToSet(t) \cup {x}
    BY AppendSet, AppendProperties
  <2>2. /\ Without(Append(t, x), g) = IF x \in g THEN Without(t, g)
                                      ELSE Append(Without(t, g), x)
        /\ Without(Append(t, x), h) = IF x \in h THEN Without(t, h)
                                      ELSE Append(Without(t, h), x)
    BY WithoutAppend
  <2>3. ASSUME \A y \in ToSet(Append(t, x)) : y \in g <=> y \in h
        PROVE  Without(Append(t, x), g) = Without(Append(t, x), h)
    BY <1>2, <2>1, <2>2, <2>3
  <2> QED
    BY <2>1, <2>3
<1>3. Seq(S) \subseteq B
  <2> HIDE DEF B
  <2> QED
    BY <1>1, <1>2, BySequences
<1> QED
  BY <1>3

LEMMA WithoutNone ==
  ASSUME NEW S, NEW s \in Seq(S), NEW gone, ToSet(s) \cap gone = {}
  PROVE  Without(s, gone) = s
<1> DEFINE B == {t \in Seq(S) : ToSet(t) \cap gone = {} => Without(t, gone) = t}
<1>1. <<>> \in B
  BY WithoutEmpty, EmptySeq
<1>2. ASSUME NEW t \in Seq(S), t \in B, NEW x \in S
      PROVE  Append(t, x) \in B
  <2>1. Append(t, x) \in Seq(S) /\ ToSet(Append(t, x)) = ToSet(t) \cup {x}
    BY AppendSet, AppendProperties
  <2>2. Without(Append(t, x), gone) = IF x \in gone THEN Without(t, gone)
                                      ELSE Append(Without(t, gone), x)
    BY WithoutAppend
  <2> QED
    BY <1>2, <2>1, <2>2
<1>3. Seq(S) \subseteq B
  <2> HIDE DEF B
  <2> QED
    BY <1>1, <1>2, BySequences
<1> QED
  BY <1>3

LEMMA WithoutTwice ==
  ASSUME NEW S, NEW s \in Seq(S), NEW g, NEW h
  PROVE  Without(Without(s, g), h) = Without(s, g \cup h)
<1> DEFINE B == {t \in Seq(S) : Without(Without(t, g), h) = Without(t, g \cup h)}
<1>1. <<>> \in B
  BY WithoutEmpty, EmptySeq
<1>2. ASSUME NEW t \in Seq(S), t \in B, NEW x \in S
      PROVE  Append(t, x) \in B
  <2>1. Append(t, x) \in Seq(S) /\ Without(t, g) \in Seq(S)
    BY AppendProperties, WithoutSeq
  <2>2. Without(Append(t, x), g) = IF x \in g THEN Without(t, g)
                                   ELSE Append(Without(t, g), x)
    BY WithoutAppend
  <2>3. Without(Append(t, x), g \cup h) =
          IF x \in g \cup h THEN Without(t, g \cup h)
          ELSE Append(Without(t, g \cup h), x)
    BY WithoutAppend
  <2>4. Without(Append(Without(t, g), x), h) =
          IF x \in h THEN Without(Without(t, g), h)
          ELSE Append(Without(Without(t, g), h), x)
    BY <2>1, WithoutAppend
  <2> QED
    BY <1>2, <2>1, <2>2, <2>3, <2>4
<1>3. Seq(S) \subseteq B
  <2> HIDE DEF B
  <2> QED
    BY <1>1, <1>2, BySequences
<1> QED
  BY <1>3

LEMMA WithoutConcat ==
  ASSUME NEW S, NEW a \in Seq(S), NEW b \in Seq(S), NEW gone
  PROVE  Without(a \o b, gone) = Without(a, gone) \o Without(b, gone)
<1> DEFINE B == {t \in Seq(S) : Without(a \o t, gone) =
                                  Without(a, gone) \o Without(t, gone)}
<1>0. Without(a, gone) \in Seq(S)
  BY WithoutSeq
<1>1. <<>> \in B
  BY <1>0, WithoutEmpty, EmptySeq, ConcatEmptySeq
<1>2. ASSUME NEW t \in Seq(S), t \in B, NEW x \in S
      PROVE  Append(t, x) \in B
  <2>1. Append(t, x) \in Seq(S) /\ Without(t, gone) \in Seq(S) /\ a \o t \in Seq(S)
    BY AppendProperties, WithoutSeq, ConcatProperties
  <2>2. a \o Append(t, x) = Append(a \o t, x)
    BY <2>1, AppendIsConcat, ConcatAssociative, AppendProperties
  <2>3. Without(a, gone) \o Append(Without(t, gone), x) =
          Append(Without(a, gone) \o Without(t, gone), x)
    BY <1>0, <2>1, AppendIsConcat, ConcatAssociative, ConcatProperties
  <2>4. Without(Append(t, x), gone) = IF x \in gone THEN Without(t, gone)
                                      ELSE Append(Without(t, gone), x)
    BY WithoutAppend
  <2>5. Without(Append(a \o t, x), gone) =
          IF x \in gone THEN Without(a \o t, gone)
          ELSE Append(Without(a \o t, gone), x)
    <3> DEFINE c == a \o t
    <3>1. c \in Seq(S)
      BY <2>1
    <3> HIDE DEF c
    <3>2. Without(Append(c, x), gone) =
            IF x \in gone THEN Without(c, gone) ELSE Append(Without(c, gone), x)
      BY <3>1, WithoutAppend
    <3> QED
      BY <3>2 DEF c
  <2>6. Without(a \o Append(t, x), gone) =
          Without(a, gone) \o Without(Append(t, x), gone)
    <3>1. CASE x \in gone
      BY <1>2, <2>2, <2>4, <2>5, <3>1
    <3>2. CASE x \notin gone
      BY <1>2, <2>2, <2>3, <2>4, <2>5, <3>2
    <3> QED
      BY <3>1, <3>2
  <2> QED
    BY <2>1, <2>6
<1>3. Seq(S) \subseteq B
  <2> HIDE DEF B
  <2> QED
    BY <1>1, <1>2, BySequences
<1> QED
  BY <1>3

LEMMA EmptyWithoutMembers ==
  ASSUME NEW S, NEW s \in Seq(S), ToSet(s) = {}
  PROVE  s = <<>>
<1>1. s # <<>> => s[1] \in ToSet(s)
  BY EmptySeq, LenProperties DEF ToSet
<1> QED
  BY <1>1

\* A sequence is its first n entries and the others.
LEMMA TwoParts ==
  ASSUME NEW S, NEW s \in Seq(S), NEW n \in 0 .. Len(s)
  PROVE  LET a == SubSeq(s, 1, n)
             b == SubSeq(s, n + 1, Len(s))
         IN  /\ a \in Seq(S) /\ Len(a) = n /\ \A i \in 1 .. n : a[i] = s[i]
             /\ b \in Seq(S) /\ Len(b) = Len(s) - n
             /\ \A i \in 1 .. Len(s) - n : b[i] = s[n + i]
             /\ s = a \o b
<1> DEFINE a == SubSeq(s, 1, n)
           b == SubSeq(s, n + 1, Len(s))
           m == Len(s)
<1>1. m \in Nat /\ \A i \in 1 .. m : s[i] \in S
  BY LenProperties
<1>2. n \in Nat /\ n <= m
  BY <1>1
<1>3. a \in Seq(S) /\ Len(a) = n /\ \A i \in 1 .. n : a[i] = s[i]
  <2>1. \A i \in 1 .. n : s[i] \in S
    BY <1>1, <1>2
  <2>2. /\ a \in Seq(S) /\ Len(a) = IF 1 <= n THEN n - 1 + 1 ELSE 0
        /\ \A i \in 1 .. n - 1 + 1 : a[i] = s[1 + i - 1]
    BY <1>2, <2>1, SubSeqProperties
  <2> HIDE DEF a
  <2>3. (IF 1 <= n THEN n - 1 + 1 ELSE 0) = n /\ n - 1 + 1 = n
    BY <1>2
  <2>4. \A i \in 1 .. n : 1 + i - 1 = i
    BY <1>2
  <2> QED
    BY <2>2, <2>3, <2>4
<1>4. b \in Seq(S) /\ Len(b) = m - n /\ \A i \in 1 .. m - n : b[i] = s[n + i]
  <2>1. \A i \in n + 1 .. m : s[i] \in S
    BY <1>1, <1>2
  <2>2. n + 1 \in Int /\ m \in Int
    BY <1>1, <1>2
  <2>3. /\ b \in Seq(S)
        /\ Len(b) = IF n + 1 <= m THEN m - (n + 1) + 1 ELSE 0
        /\ \A i \in 1 .. m - (n + 1) + 1 : b[i] = s[(n + 1) + i - 1]
    <3> HIDE DEF m
    <3> QED
      BY <2>1, <2>2, SubSeqProperties DEF m
  <2> HIDE DEF b, m
  <2>4. /\ (IF n + 1 <= m THEN m - (n + 1) + 1 ELSE 0) = m - n
        /\ m - (n + 1) + 1 = m - n
    BY <1>1, <1>2
  <2>5. \A i \in 1 .. m - n : (n + 1) + i - 1 = n + i
    BY <1>1, <1>2
  <2> QED
    BY <2>3, <2>4, <2>5
<1>5. s = a \o b
  <2>1. 1 \in 1 .. m + 1 /\ n \in 1 - 1 .. m /\ m \in n .. m
    BY <1>1, <1>2
  <2>2. a \o b = SubSeq(s, 1, m)
    BY <2>1, ConcatAdjacentSubSeq
  <2> QED
    BY <2>2, SubSeqFull
<1> HIDE DEF a, b
<1> QED
  BY <1>3, <1>4, <1>5 DEF a, b

\* The last of a sequence of different things are what is left without the
\* first.
LEMMA WithoutFirst ==
  ASSUME NEW S, NEW s \in Seq(S), IsInjective(s), NEW n \in 0 .. Len(s), NEW gone,
         gone \cap ToSet(s) = ToSet(SubSeq(s, 1, n))
  PROVE  Without(s, gone) = SubSeq(s, n + 1, Len(s))
<1> DEFINE a == SubSeq(s, 1, n)
           b == SubSeq(s, n + 1, Len(s))
<1>1. Len(s) \in Nat /\ DOMAIN s = 1 .. Len(s)
  BY LenProperties
<1>2. /\ a \in Seq(S) /\ Len(a) = n /\ (\A i \in 1 .. n : a[i] = s[i])
      /\ b \in Seq(S) /\ Len(b) = Len(s) - n
      /\ \A i \in 1 .. Len(s) - n : b[i] = s[n + i]
  BY TwoParts
<1>3. s = a \o b
  BY TwoParts
<1>4. gone \cap ToSet(s) = ToSet(a)
  OBVIOUS
<1> HIDE DEF a, b
<1>5. /\ ToSet(a) = {a[i] : i \in 1 .. n}
      /\ ToSet(b) = {b[i] : i \in 1 .. Len(s) - n}
      /\ ToSet(s) = {s[i] : i \in 1 .. Len(s)}
  BY <1>2, ToSetIn
<1>6. ToSet(b) \cap gone = {}
  <2>1. \A i \in 1 .. Len(s) - n : n + i \in 1 .. Len(s) /\ n + i \notin 1 .. n
    BY <1>1
  <2>2. 1 .. n \subseteq 1 .. Len(s)
    BY <1>1
  <2>3. \A i \in 1 .. Len(s) - n, j \in 1 .. n : s[n + i] # s[j]
    BY <1>1, <2>1, <2>2 DEF IsInjective
  <2>4. \A i \in 1 .. Len(s) - n : s[n + i] \in ToSet(s) /\ s[n + i] \notin ToSet(a)
    BY <1>2, <1>5, <2>1, <2>3
  <2>5. ToSet(b) = {s[n + i] : i \in 1 .. Len(s) - n}
    BY <1>2, <1>5
  <2>6. \A y \in ToSet(b) : y \in ToSet(s) /\ y \notin ToSet(a)
    BY <2>4, <2>5
  <2> QED
    BY <1>4, <2>6
<1>7. Without(a, gone) = <<>>
  <2>1. Without(a, gone) \in Seq(S) /\ ToSet(Without(a, gone)) = {}
    BY <1>2, <1>4, WithoutSeq
  <2> QED
    BY <2>1, EmptyWithoutMembers
<1>8. Without(b, gone) = b
  BY <1>2, <1>6, WithoutNone
<1>9. Without(s, gone) = <<>> \o b
  <2>1. Without(a \o b, gone) = Without(a, gone) \o Without(b, gone)
    BY <1>2, WithoutConcat
  <2> QED
    BY <1>3, <1>7, <1>8, <2>1
<1> QED
  BY <1>2, <1>9, ConcatEmptySeq DEF b

-----------------------------------------------------------------------------
\* What lies below a set of spans

KidsAreSpans(st) == \A x \in SpanID : ToSet(st.node[x].kids) \subseteq SpanID

LEMMA BelowIn ==
  ASSUME NEW st, NEW X \in SUBSET SpanID
  PROVE  X \subseteq Below(st, X) /\ Below(st, X) \subseteq SpanID
BY DEF Below

LEMMA BelowLeast ==
  ASSUME NEW st, NEW X, NEW S \in SUBSET SpanID, X \subseteq S, ClosedUnder(st, S)
  PROVE  Below(st, X) \subseteq S
BY DEF Below

LEMMA BelowClosed ==
  ASSUME NEW st, KidsAreSpans(st), NEW X
  PROVE  ClosedUnder(st, Below(st, X))
<1> DEFINE closed == {S \in SUBSET SpanID : X \subseteq S /\ ClosedUnder(st, S)}
<1>1. Below(st, X) = {y \in SpanID : \A S \in closed : y \in S}
  BY DEF Below
<1>2. ASSUME NEW x \in Below(st, X), NEW y \in ToSet(st.node[x].kids)
      PROVE  y \in Below(st, X)
  <2>1. y \in SpanID
    BY <1>1, <1>2 DEF KidsAreSpans
  <2>2. \A S \in closed : y \in S
    BY <1>1, <1>2 DEF ClosedUnder
  <2> HIDE DEF closed
  <2> QED
    BY <1>1, <2>1, <2>2
<1> QED
  BY <1>2 DEF ClosedUnder

\* A span is below the set as one of its members or as a child.
LEMMA BelowFrom ==
  ASSUME NEW st, KidsAreSpans(st), NEW X \in SUBSET SpanID,
         NEW y \in Below(st, X), y \notin X
  PROVE  \E z \in Below(st, X) : y \in ToSet(st.node[z].kids)
<1> SUFFICES ASSUME \A z \in Below(st, X) : y \notin ToSet(st.node[z].kids)
             PROVE  FALSE
  OBVIOUS
<1> DEFINE S == Below(st, X) \ {y}
<1>1. S \in SUBSET SpanID /\ X \subseteq S
  BY BelowIn
<1>2. ClosedUnder(st, S)
  BY BelowClosed DEF ClosedUnder
<1>3. y \notin S
  OBVIOUS
<1> HIDE DEF S
<1> QED
  BY <1>1, <1>2, <1>3, BelowLeast

\* The tree is a matter of the children alone.
LEMMA BelowSame ==
  ASSUME NEW st, NEW now, \A x \in SpanID : now.node[x].kids = st.node[x].kids,
         NEW X
  PROVE  Below(now, X) = Below(st, X)
<1>1. \A S \in SUBSET SpanID : ClosedUnder(now, S) <=> ClosedUnder(st, S)
  BY DEF ClosedUnder
<1> QED
  BY <1>1 DEF Below
-----------------------------------------------------------------------------
(***************************************************************************)
(* What every operation on a store keeps: its shape, what an ended span    *)
(* shows, and the time of a stale mark.                                    *)
(***************************************************************************)
\* What is taken for granted of a record.
IsRecord(r) ==
  /\ r.kind \in {"start", "update", "end", "event"}
  /\ r.id \in SpanID \cup {None}
  /\ r.kind = "start" => r.up \in SpanID \cup {None}

Shape(st) ==
  /\ DOMAIN st = {"allow", "roots", "byID", "node", "stale"}
  /\ st.byID \subseteq SpanID
  /\ DOMAIN st.node = SpanID
  /\ DOMAIN st.stale = SpanID
  /\ \A x \in SpanID : DOMAIN st.node[x] = DOMAIN Blank

\* What a span shows, but for its children.
Face(st, x) == [st.node[x] EXCEPT !.kids = <<>>]

\* What becomes of one span from a store to the next.
Kept(st, now) ==
  /\ \A x \in st.byID \cap now.byID :
       st.node[x].done => Face(now, x) = Face(st, x)
  /\ \A x \in SpanID :
       /\ st.stale[x] # None /\ x \in now.byID => now.stale[x] = st.stale[x]
       /\ st.stale[x] = None /\ now.stale[x] # None => ~now.node[x].done

LEMMA BlankIs ==
  /\ Blank.up = None /\ Blank.done = FALSE /\ Blank.kids = <<>>
  /\ DOMAIN Blank = {"up", "at", "endedAt", "attrs", "events", "kids", "done",
                    "how", "error"}
BY DEF Blank

LEMMA EmptyShape ==
  ASSUME NEW allow
  PROVE  Shape(Empty(allow))
BY DEF Shape, Empty

LEMMA SameKept ==
  ASSUME NEW st
  PROVE  Kept(st, st)
BY DEF Kept

LEMMA ClearKept ==
  ASSUME NEW st, Shape(st)
  PROVE  Shape(Clear(st)) /\ Kept(st, Clear(st))
<1>1. Clear(st).byID = {} /\ \A x \in SpanID : Clear(st).stale[x] = None
  BY DEF Clear, Empty
<1> QED
  BY <1>1, EmptyShape DEF Kept, Clear

LEMMA ForgetKept ==
  ASSUME NEW st, Shape(st), NEW gone
  PROVE  /\ Shape(Forget(st, gone)) /\ Kept(st, Forget(st, gone))
         /\ \A x \in Forget(st, gone).byID : x \notin gone
<1> DEFINE now == Forget(st, gone)
<1>1. /\ DOMAIN now = DOMAIN st /\ now.byID = st.byID \ gone
      /\ now.node = [x \in SpanID |-> IF x \in gone THEN Blank ELSE st.node[x]]
      /\ now.stale = [x \in SpanID |-> IF x \in gone THEN None ELSE st.stale[x]]
  BY DEF Forget, Shape
<1> HIDE DEF now
<1>2. Shape(now)
  BY <1>1 DEF Shape
<1>3. Kept(st, now)
  BY <1>1 DEF Kept, Face, Shape
<1> QED
  BY <1>1, <1>2, <1>3 DEF now

LEMMA ClearOpenSpansKept ==
  ASSUME NEW st, Shape(st)
  PROVE  Shape(ClearOpenSpans(st)) /\ Kept(st, ClearOpenSpans(st))
<1> DEFINE gone == Doomed(st)
           kept == Forget(st, gone)
           now == ClearOpenSpans(st)
<1> DEFINE nodes == Pruned(kept, gone)
<1>1. Shape(kept) /\ Kept(st, kept)
  BY ForgetKept
<1>0. now = [kept EXCEPT !.roots = Without(@, gone), !.node = nodes]
  BY DEF ClearOpenSpans
<1> HIDE DEF kept
<1>2. /\ DOMAIN now = DOMAIN kept /\ now.byID = kept.byID /\ now.stale = kept.stale
      /\ now.node = nodes
  <2> HIDE DEF nodes, gone, now
  <2> QED
    BY <1>0, <1>1 DEF Shape
<1> HIDE DEF now, gone
<1>3. \A x \in SpanID : /\ now.node[x] = [kept.node[x] EXCEPT
                                           !.kids = Without(@, gone)]
  BY <1>2 DEF Pruned
<1>4. \A x \in SpanID : /\ DOMAIN now.node[x] = DOMAIN kept.node[x]
                        /\ Face(now, x) = Face(kept, x)
                        /\ now.node[x].done = kept.node[x].done
  BY <1>1, <1>3 DEF Face, Shape, Blank
<1>5. Shape(now)
  BY <1>1, <1>2, <1>4 DEF Shape, Pruned
<1>6. Kept(st, now)
  BY <1>1, <1>2, <1>4 DEF Kept, Shape
<1> QED
  BY <1>5, <1>6 DEF now

LEMMA LimitRootsKept ==
  ASSUME NEW st, Shape(st), NEW limit
  PROVE  Shape(LimitRoots(st, limit)) /\ Kept(st, LimitRoots(st, limit))
<1> DEFINE n == Excess(st, limit)
           gone == Below(st, ToSet(SubSeq(st.roots, 1, n)))
           kept == Forget(st, gone)
           now == [kept EXCEPT !.roots = SubSeq(@, n + 1, Len(@))]
<1>1. LimitRoots(st, limit) \in {Clear(st), st, now}
  BY DEF LimitRoots
<1>2. Shape(now) /\ Kept(st, now)
  <2>1. Shape(kept) /\ Kept(st, kept)
    BY ForgetKept
  <2> HIDE DEF kept
  <2>2. /\ DOMAIN now = DOMAIN kept /\ now.byID = kept.byID
        /\ now.node = kept.node /\ now.stale = kept.stale
    BY <2>1 DEF Shape
  <2> HIDE DEF now
  <2> QED
    BY <2>1, <2>2 DEF Shape, Kept, Face
<1> HIDE DEF now
<1> QED
  BY <1>1, <1>2, ClearKept, SameKept

LEMMA MarkKept ==
  ASSUME NEW st, Shape(st), NEW time
  PROVE  /\ Shape(MarkOpenSpansStale(st, time))
         /\ Kept(st, MarkOpenSpansStale(st, time))
<1> DEFINE now == MarkOpenSpansStale(st, time)
           open == {x \in InTree(st) : Open(st, x)}
<1>1. /\ DOMAIN now = DOMAIN st /\ now.byID = st.byID /\ now.node = st.node
      /\ now.stale = [x \in SpanID |-> IF x \in open THEN MarkOf(st, x, time)
                                       ELSE st.stale[x]]
  BY DEF MarkOpenSpansStale, Shape
<1> HIDE DEF now
<1>2. Shape(now)
  BY <1>1 DEF Shape
<1>3. Kept(st, now)
  BY <1>1 DEF Kept, Face, Open, MarkOf
<1> QED
  BY <1>2, <1>3 DEF now

-----------------------------------------------------------------------------
\* A record changes the node of its span, and of an open one only.
LEMMA WriteKept ==
  ASSUME NEW st, Shape(st), NEW x \in SpanID, ~st.node[x].done, NEW n,
         DOMAIN n = DOMAIN Blank
  PROVE  LET now == [st EXCEPT !.node = [@ EXCEPT ![x] = n]]
         IN  Shape(now) /\ Kept(st, now)
<1> DEFINE now == [st EXCEPT !.node = [@ EXCEPT ![x] = n]]
<1>1. /\ DOMAIN now = DOMAIN st /\ now.byID = st.byID /\ now.stale = st.stale
      /\ now.node = [st.node EXCEPT ![x] = n]
  BY DEF Shape
<1> HIDE DEF now
<1>2. Shape(now)
  BY <1>1 DEF Shape
<1>3. Kept(st, now)
  BY <1>1 DEF Kept, Face, Shape
<1> QED
  BY <1>2, <1>3 DEF now

LEMMA StartedKept ==
  ASSUME NEW st, Shape(st), NEW r, r.id \in SpanID \cup {None}
  PROVE  Shape(ApplyStarted(st, r)) /\ Kept(st, ApplyStarted(st, r))
<1> DEFINE span == [Blank EXCEPT !.up = r.up, !.at = TimeValue(r.at),
                                 !.attrs = r.attrs]
           born == [st EXCEPT !.byID = @ \cup {r.id}, !.node[r.id] = span]
           below == [born EXCEPT !.node[r.up].kids = AddLast(@, r.id)]
           parent == [born.node[r.up] EXCEPT !.kids = AddLast(@, r.id)]
           top == [born EXCEPT !.roots = AddLast(@, r.id)]
           now == ApplyStarted(st, r)
<1>1. CASE Ignored(st, r)
  BY <1>1, SameKept DEF ApplyStarted
<1>2. CASE ~Ignored(st, r)
  <2>1. r.id \in SpanID /\ r.id \notin st.byID
    BY <1>2 DEF Ignored
  <2>2. DOMAIN span = DOMAIN Blank
    BY DEF Blank
  <2> HIDE DEF span
  <2>3. /\ DOMAIN born = DOMAIN st /\ born.byID = st.byID \cup {r.id}
        /\ born.stale = st.stale /\ born.node = [st.node EXCEPT ![r.id] = span]
    BY <2>1 DEF Shape
  <2> HIDE DEF born
  <2>4. CASE r.up \in st.byID
    <3>1. now = below
      BY <1>2, <2>4 DEF ApplyStarted, born, span
    <3>2. /\ DOMAIN below = DOMAIN st /\ below.byID = st.byID \cup {r.id}
          /\ below.stale = st.stale
          /\ below.node = [born.node EXCEPT ![r.up] = parent]
      BY <2>3 DEF Shape
    <3>3. r.up \in SpanID /\ r.up # r.id
      BY <2>1, <2>4 DEF Shape
    <3> HIDE DEF below
    <3>4. \A x \in SpanID :
            /\ x # r.id /\ x # r.up => below.node[x] = st.node[x]
            /\ x = r.up => below.node[x] = [st.node[x] EXCEPT
                                              !.kids = AddLast(@, r.id)]
            /\ x = r.id => below.node[x] = span
      BY <2>3, <3>2, <3>3 DEF Shape
    <3>5. \A x \in SpanID : x # r.id => Face(below, x) = Face(st, x)
      BY <3>4 DEF Face
    <3>6. Shape(below)
      BY <2>1, <2>2, <2>3, <3>2, <3>4 DEF Shape
    <3>7. Kept(st, below)
      BY <2>1, <3>2, <3>5 DEF Kept, Shape
    <3> QED
      BY <3>1, <3>6, <3>7
  <2>5. CASE r.up \notin st.byID
    <3>1. now = top
      BY <1>2, <2>5 DEF ApplyStarted, born, span
    <3>2. /\ DOMAIN top = DOMAIN st /\ top.byID = st.byID \cup {r.id}
          /\ top.stale = st.stale /\ top.node = born.node
      BY <2>3 DEF Shape
    <3> HIDE DEF top
    <3>3. Shape(top)
      BY <2>1, <2>2, <2>3, <3>2 DEF Shape
    <3>4. Kept(st, top)
      BY <2>1, <2>3, <3>2 DEF Kept, Face, Shape
    <3> QED
      BY <3>1, <3>3, <3>4
  <2> QED
    BY <2>4, <2>5
<1> QED
  BY <1>1, <1>2

\* now is st with n for the node of x, which keeps its place in the tree.
IsWrite(st, x, n, now) ==
  /\ DOMAIN n = DOMAIN Blank /\ n.up = st.node[x].up
  /\ n.kids = st.node[x].kids
  /\ n.done = TRUE \/ n.done = st.node[x].done
  /\ now = [st EXCEPT !.node = [@ EXCEPT ![x] = n]]

\* So do an update, an end and an event of an open span.
LEMMA WriteIs ==
  ASSUME NEW st, Shape(st), NEW r, IsRecord(r), r.kind # "start",
         Writable(st, r.id)
  PROVE  \E n : IsWrite(st, r.id, n, Apply(st, r))
<1> DEFINE old == st.node[r.id]
           ended == [old EXCEPT !.done = TRUE, !.endedAt = TimeValue(r.at),
                                !.how = r.how, !.error = r.error]
<1>0. r.id \in SpanID
  BY DEF Writable, Shape
<1>1. DOMAIN old = DOMAIN Blank
  BY <1>0 DEF Shape
<1>2. CASE r.kind = "update"
  <2> DEFINE n == [old EXCEPT !.attrs = FoldLeft(Merge, @, r.attrs)]
  <2>1. Apply(st, r) = [st EXCEPT !.node = [@ EXCEPT ![r.id] = n]]
    BY <1>0, <1>2 DEF Apply, ApplyUpdated, Shape
  <2>2. DOMAIN n = DOMAIN Blank /\ n.up = old.up /\ n.kids = old.kids
        /\ n.done = old.done
    <3> HIDE DEF old
    <3> QED
      BY <1>1, BlankIs
  <2> QED
    BY <2>1, <2>2 DEF IsWrite
<1>3. CASE r.kind = "end"
  <2>1. Apply(st, r) = [st EXCEPT !.node = [@ EXCEPT ![r.id] = ended]]
    <3>1. Apply(st, r) = ApplyEnded(st, r)
      BY <1>3 DEF Apply
    <3>2. ApplyEnded(st, r) = [st EXCEPT !.node = [@ EXCEPT ![r.id] = ended]]
      BY ZenonT(30) DEF ApplyEnded
    <3> QED
      BY <3>1, <3>2
  <2>2. DOMAIN ended = DOMAIN Blank /\ ended.up = old.up /\ ended.kids = old.kids
        /\ ended.done = TRUE
    <3> HIDE DEF old
    <3> QED
      BY <1>1, BlankIs
  <2> QED
    BY <2>1, <2>2 DEF IsWrite
<1>4. CASE r.kind = "event"
  <2> DEFINE e == [at |-> TimeValue(r.at), severity |-> r.severity,
                   attrs |-> r.attrs]
             n == [old EXCEPT !.events = Append(@, e)]
  <2>1. Apply(st, r) = [st EXCEPT !.node = [@ EXCEPT ![r.id] = n]]
    BY <1>0, <1>4 DEF Apply, ApplyEvent, Shape
  <2>2. DOMAIN n = DOMAIN Blank /\ n.up = old.up /\ n.kids = old.kids
        /\ n.done = old.done
    <3> HIDE DEF old, e
    <3> QED
      BY <1>1, BlankIs
  <2> QED
    BY <2>1, <2>2 DEF IsWrite
<1> QED
  BY <1>2, <1>3, <1>4 DEF IsRecord

LEMMA ApplyKept ==
  ASSUME NEW st, Shape(st), NEW r, IsRecord(r)
  PROVE  Shape(Apply(st, r)) /\ Kept(st, Apply(st, r))
<1>0. r.id \in SpanID \cup {None}
  BY DEF IsRecord
<1>1. CASE r.kind = "start"
  BY <1>0, <1>1, StartedKept DEF Apply
<1>2. CASE r.kind # "start" /\ ~Writable(st, r.id)
  BY <1>2, SameKept DEF IsRecord, Apply, ApplyUpdated, ApplyEnded, ApplyEvent
<1>3. CASE r.kind # "start" /\ Writable(st, r.id)
  <2>1. r.id \in SpanID /\ ~st.node[r.id].done
    BY <1>3 DEF Writable, Shape
  <2>2. PICK n : IsWrite(st, r.id, n, Apply(st, r))
    BY <1>3, WriteIs
  <2> QED
    BY <2>1, <2>2, WriteKept DEF IsWrite
<1> QED
  BY <1>1, <1>2, <1>3

-----------------------------------------------------------------------------
(***************************************************************************)
(* A good store is a forest whose members are those of the index.          *)
(***************************************************************************)
Typed(st) ==
  /\ Shape(st)
  /\ st.allow \in BOOLEAN
  /\ st.roots \in Seq(SpanID)
  /\ \A x \in SpanID : /\ st.node[x].up \in SpanID \cup {None}
                       /\ st.node[x].done \in BOOLEAN
                       /\ st.node[x].kids \in Seq(SpanID)

IsForest(st) ==
  /\ InTree(st) = st.byID
  /\ IsInjective(st.roots)
  /\ \A x \in st.byID :
       /\ IsInjective(st.node[x].kids)
       /\ \A y \in ToSet(st.node[x].kids) :
            st.node[y].up = x /\ y \notin ToSet(st.roots)
  /\ \A x \in SpanID \ st.byID : st.node[x] = Blank /\ st.stale[x] = None

Grounded(st) ==
  ~st.allow => \A x \in ToSet(st.roots) : st.node[x].up = None

Good(st) == Typed(st) /\ IsForest(st) /\ Grounded(st)

LEMMA TypedKids ==
  ASSUME NEW st, Typed(st)
  PROVE  KidsAreSpans(st) /\ ToSet(st.roots) \subseteq SpanID
BY ToSetIn DEF Typed, KidsAreSpans

LEMMA TreeFacts ==
  ASSUME NEW st, Typed(st)
  PROVE  /\ ToSet(st.roots) \subseteq InTree(st) /\ InTree(st) \subseteq SpanID
         /\ ClosedUnder(st, InTree(st))
         /\ \A y \in InTree(st) : y \in ToSet(st.roots)
                                  \/ \E z \in InTree(st) : y \in ToSet(st.node[z].kids)
BY TypedKids, BelowIn, BelowClosed, BelowFrom DEF InTree

LEMMA BlankWithout ==
  ASSUME NEW gone
  PROVE  [Blank EXCEPT !.kids = Without(@, gone)] = Blank
<1>1. Without(Blank.kids, gone) = <<>>
  BY WithoutEmpty, BlankIs
<1>2. [Blank EXCEPT !.kids = <<>>] = Blank
  <2>1. \A f, v : f = [i \in DOMAIN f |-> f[i]] /\ f.kids = v =>
                    [f EXCEPT !.kids = v] = f
    OBVIOUS
  <2>2. Blank = [i \in DOMAIN Blank |-> Blank[i]]
    BY DEF Blank
  <2> QED
    BY <2>1, <2>2, BlankIs
<1> QED
  BY <1>1, <1>2

LEMMA EmptyGood ==
  ASSUME NEW allow \in BOOLEAN
  PROVE  Good(Empty(allow))
<1> DEFINE st == Empty(allow)
<1>1. /\ st.allow = allow /\ st.roots = <<>> /\ st.byID = {}
      /\ \A x \in SpanID : st.node[x] = Blank /\ st.stale[x] = None
  BY DEF Empty
<1>2. Shape(st)
  BY EmptyShape
<1> HIDE DEF st
<1>3. ToSet(<<>>) = {} /\ IsInjective(<<>>) /\ <<>> \in Seq(SpanID)
  BY EmptySet, EmptySeq
<1>4. Typed(st)
  BY <1>1, <1>2, <1>3, BlankIs DEF Typed
<1>5. InTree(st) = {}
  <2>1. ClosedUnder(st, {}) /\ ToSet(st.roots) \subseteq {}
    BY <1>1, <1>3 DEF ClosedUnder
  <2> QED
    BY <2>1, BelowLeast DEF InTree
<1>6. IsForest(st) /\ Grounded(st)
  BY <1>1, <1>3, <1>5 DEF IsForest, Grounded
<1> QED
  BY <1>4, <1>6 DEF Good, st

\* now is st without the spans of gone: they are forgotten, and the roots and
\* the children filtered.
IsCut(st, gone, now) ==
  /\ DOMAIN now = DOMAIN st /\ now.allow = st.allow
  /\ now.roots = Without(st.roots, gone) /\ now.byID = st.byID \ gone
  /\ DOMAIN now.node = SpanID
  /\ \A x \in SpanID :
       /\ x \in gone => now.node[x] = Blank
       /\ x \notin gone =>
            /\ st.node[x] = Blank => now.node[x] = Blank
            /\ DOMAIN now.node[x] = DOMAIN Blank
            /\ now.node[x].up = st.node[x].up
            /\ now.node[x].done = st.node[x].done
            /\ now.node[x].kids = Without(st.node[x].kids, gone)
  /\ now.stale = [x \in SpanID |-> IF x \in gone THEN None ELSE st.stale[x]]

LEMMA CutGood ==
  ASSUME NEW st, Good(st), NEW gone \in SUBSET st.byID, ClosedUnder(st, gone),
         NEW now, IsCut(st, gone, now)
  PROVE  Good(now)
<1>0. Typed(st) /\ IsForest(st) /\ Grounded(st) /\ st.byID \subseteq SpanID
  BY DEF Good, Typed, Shape
<1>1. /\ DOMAIN now = DOMAIN st /\ now.allow = st.allow
      /\ now.roots = Without(st.roots, gone) /\ now.byID = st.byID \ gone
      /\ DOMAIN now.node = SpanID /\ DOMAIN now.stale = SpanID
      /\ \A x \in gone : now.node[x] = Blank /\ now.stale[x] = None
      /\ \A x \in SpanID : x \notin gone =>
           /\ st.node[x] = Blank => now.node[x] = Blank
           /\ now.stale[x] = st.stale[x]
  BY <1>0 DEF IsCut
<1>2. /\ now.roots \in Seq(SpanID) /\ ToSet(now.roots) = ToSet(st.roots) \ gone
      /\ IsInjective(now.roots)
  BY <1>0, <1>1, WithoutSeq DEF Typed, IsForest
<1>3. ASSUME NEW x \in SpanID, x \notin gone
      PROVE  /\ DOMAIN now.node[x] = DOMAIN Blank
             /\ now.node[x].up = st.node[x].up
             /\ now.node[x].done = st.node[x].done
             /\ now.node[x].kids \in Seq(SpanID)
             /\ ToSet(now.node[x].kids) = ToSet(st.node[x].kids) \ gone
             /\ IsInjective(st.node[x].kids) => IsInjective(now.node[x].kids)
  <2>1. /\ DOMAIN now.node[x] = DOMAIN Blank /\ now.node[x].up = st.node[x].up
        /\ now.node[x].done = st.node[x].done
        /\ now.node[x].kids = Without(st.node[x].kids, gone)
    BY <1>3 DEF IsCut
  <2>2. st.node[x].kids \in Seq(SpanID)
    BY <1>0 DEF Typed
  <2> QED
    BY <2>1, <2>2, WithoutSeq
<1>4. Typed(now)
  <2>1. ASSUME NEW x \in SpanID
        PROVE  /\ DOMAIN now.node[x] = DOMAIN Blank
               /\ now.node[x].up \in SpanID \cup {None}
               /\ now.node[x].done \in BOOLEAN
               /\ now.node[x].kids \in Seq(SpanID)
    <3>1. CASE x \in gone
      <4>1. now.node[x] = Blank
        BY <1>1, <3>1
      <4>2. /\ Blank.up \in SpanID \cup {None} /\ Blank.done \in BOOLEAN
            /\ Blank.kids \in Seq(SpanID)
        BY BlankIs, EmptySeq
      <4> QED
        BY <4>1, <4>2
    <3>2. CASE x \notin gone
      BY <1>0, <1>3, <3>2 DEF Typed
    <3> QED
      BY <3>1, <3>2
  <2> QED
    BY <1>0, <1>1, <1>2, <2>1 DEF Typed, Shape
<1>5. InTree(now) = now.byID
  <2>1. InTree(now) \subseteq st.byID \ gone
    <3>1. ToSet(now.roots) \subseteq st.byID \ gone
      BY <1>0, <1>2, TreeFacts DEF IsForest
    <3>2. ClosedUnder(now, st.byID \ gone)
      <4>1. ClosedUnder(st, st.byID)
        BY <1>0, TreeFacts DEF IsForest
      <4> QED
        BY <1>0, <1>3, <4>1 DEF ClosedUnder
    <3> QED
      BY <1>0, <3>1, <3>2, BelowLeast DEF InTree
  <2>2. st.byID \subseteq InTree(now) \cup gone
    <3> DEFINE S == InTree(now) \cup gone
    <3>1. InTree(now) \subseteq SpanID /\ ClosedUnder(now, InTree(now))
          /\ ToSet(now.roots) \subseteq InTree(now)
      BY <1>4, TreeFacts
    <3>2. ToSet(st.roots) \subseteq S /\ S \subseteq SpanID
      BY <1>0, <1>2, <3>1
    <3>3. ClosedUnder(st, S)
      <4>1. ASSUME NEW x \in S PROVE ToSet(st.node[x].kids) \subseteq S
        <5>1. CASE x \in gone
          BY <5>1 DEF ClosedUnder
        <5>2. CASE x \notin gone
          <6>1. x \in InTree(now) /\ x \in SpanID
            BY <3>1, <5>2
          <6>2. ToSet(now.node[x].kids) \subseteq InTree(now)
            BY <3>1, <6>1 DEF ClosedUnder
          <6> QED
            BY <1>3, <5>2, <6>1, <6>2
        <5> QED
          BY <5>1, <5>2
      <4> QED
        BY <4>1 DEF ClosedUnder
    <3> HIDE DEF S
    <3>4. InTree(st) \subseteq S
      BY <3>2, <3>3, BelowLeast DEF InTree
    <3> QED
      BY <1>0, <3>4 DEF S, IsForest
  <2> QED
    BY <1>1, <2>1, <2>2
<1>6. ASSUME NEW x \in now.byID
      PROVE  /\ IsInjective(now.node[x].kids)
             /\ \A y \in ToSet(now.node[x].kids) :
                  now.node[y].up = x /\ y \notin ToSet(now.roots)
  <2>1. x \in st.byID /\ x \in SpanID /\ x \notin gone
    BY <1>0, <1>1
  <2>2. IsInjective(now.node[x].kids)
    BY <1>0, <1>3, <2>1 DEF IsForest
  <2>3. ASSUME NEW y \in ToSet(now.node[x].kids)
        PROVE  now.node[y].up = x /\ y \notin ToSet(now.roots)
    <3>1. y \in ToSet(st.node[x].kids) /\ y \notin gone
      BY <1>3, <2>1
    <3>2. y \in SpanID
      BY <1>0, <2>1, <3>1, TypedKids DEF KidsAreSpans
    <3>3. st.node[y].up = x /\ y \notin ToSet(st.roots)
      BY <1>0, <2>1, <3>1 DEF IsForest
    <3> QED
      BY <1>2, <1>3, <3>1, <3>2, <3>3
  <2> QED
    BY <2>2, <2>3
<1>7. \A x \in SpanID \ now.byID : now.node[x] = Blank /\ now.stale[x] = None
  <2>1. ASSUME NEW x \in SpanID, x \notin st.byID, x \notin gone
        PROVE  now.node[x] = Blank /\ now.stale[x] = None
    <3>1. st.node[x] = Blank /\ st.stale[x] = None
      BY <1>0, <2>1 DEF IsForest
    <3> QED
      BY <1>1, <2>1, <3>1
  <2> QED
    BY <1>1, <2>1
<1>8. Grounded(now)
  BY <1>0, <1>1, <1>2, <1>3, TypedKids DEF Grounded
<1> QED
  BY <1>2, <1>4, <1>5, <1>6, <1>7, <1>8 DEF Good, IsForest

\* What ClearOpenSpans takes out.
LEMMA DoomedFacts ==
  ASSUME NEW st, Good(st)
  PROVE  /\ Doomed(st) \subseteq st.byID /\ ClosedUnder(st, Doomed(st))
         /\ \A x \in st.byID : ~st.node[x].done => x \in Doomed(st)
         /\ \A x \in Doomed(st) : st.node[x].done =>
              \E z \in Doomed(st) : x \in ToSet(st.node[z].kids)
<1> DEFINE X == {x \in InTree(st) : Open(st, x)}
<1>1. Typed(st) /\ st.byID \subseteq SpanID /\ InTree(st) = st.byID
  BY DEF Good, Typed, Shape, IsForest
<1>2. KidsAreSpans(st) /\ ClosedUnder(st, st.byID)
  BY <1>1, TypedKids, TreeFacts
<1>3. X \subseteq st.byID /\ \A x \in st.byID : ~st.node[x].done <=> x \in X
  BY <1>1 DEF Open
<1>4. Doomed(st) = Below(st, X)
  BY DEF Doomed
<1> HIDE DEF X
<1>5. Doomed(st) \subseteq st.byID
  BY <1>1, <1>2, <1>3, <1>4, BelowLeast
<1>6. X \subseteq Doomed(st) /\ ClosedUnder(st, Doomed(st))
  BY <1>1, <1>2, <1>3, <1>4, BelowIn, BelowClosed
<1>7. ASSUME NEW x \in Doomed(st), st.node[x].done
      PROVE  \E z \in Doomed(st) : x \in ToSet(st.node[z].kids)
  <2>1. x \notin X
    BY <1>3, <1>5, <1>7
  <2> QED
    BY <1>1, <1>2, <1>3, <1>4, <2>1, BelowFrom
<1> QED
  BY <1>3, <1>5, <1>6, <1>7

LEMMA ClearOpenSpansIsCut ==
  ASSUME NEW st, Typed(st)
  PROVE  IsCut(st, Doomed(st), ClearOpenSpans(st))
<1> DEFINE gone == Doomed(st)
           kept == Forget(st, gone)
           now == ClearOpenSpans(st)
<1>0. Shape(st) /\ DOMAIN st = {"allow", "roots", "byID", "node", "stale"}
  BY DEF Typed, Shape
<1>1. /\ DOMAIN kept = DOMAIN st /\ kept.allow = st.allow
      /\ kept.roots = st.roots /\ kept.byID = st.byID \ gone
      /\ kept.node = [x \in SpanID |-> IF x \in gone THEN Blank ELSE st.node[x]]
      /\ kept.stale = [x \in SpanID |-> IF x \in gone THEN None ELSE st.stale[x]]
  BY <1>0 DEF Forget, Shape
<1>2. now = [kept EXCEPT !.roots = Without(@, gone), !.node = Pruned(kept, gone)]
  BY DEF ClearOpenSpans
<1> HIDE DEF kept, gone, now
<1>3. /\ DOMAIN now = DOMAIN kept /\ now.allow = kept.allow
      /\ now.roots = Without(kept.roots, gone) /\ now.byID = kept.byID
      /\ now.node = Pruned(kept, gone) /\ now.stale = kept.stale
  BY <1>0, <1>1, <1>2
<1>4. ASSUME NEW x \in SpanID
      PROVE  now.node[x] = [kept.node[x] EXCEPT
                              !.kids = Without(kept.node[x].kids, gone)]
  BY <1>3 DEF Pruned
<1>5. ASSUME NEW x \in SpanID, kept.node[x] = Blank
      PROVE  now.node[x] = Blank
  BY <1>4, <1>5, BlankWithout
<1>6. ASSUME NEW x \in SpanID, x \in gone
      PROVE  now.node[x] = Blank /\ now.stale[x] = None
  <2>1. kept.node[x] = Blank /\ kept.stale[x] = None
    BY <1>1, <1>6
  <2> QED
    BY <1>3, <1>5, <2>1
<1>7. ASSUME NEW x \in SpanID, x \notin gone
      PROVE  /\ st.node[x] = Blank => now.node[x] = Blank
             /\ DOMAIN now.node[x] = DOMAIN Blank
             /\ now.node[x].up = st.node[x].up
             /\ now.node[x].done = st.node[x].done
             /\ now.node[x].kids = Without(st.node[x].kids, gone)
             /\ now.stale[x] = st.stale[x]
  <2>1. kept.node[x] = st.node[x] /\ kept.stale[x] = st.stale[x]
    BY <1>1, <1>7
  <2>2. DOMAIN st.node[x] = DOMAIN Blank
    BY <1>0 DEF Shape
  <2>3. /\ DOMAIN now.node[x] = DOMAIN Blank
        /\ now.node[x].up = st.node[x].up
        /\ now.node[x].done = st.node[x].done
        /\ now.node[x].kids = Without(st.node[x].kids, gone)
    <3> DEFINE old == st.node[x]
               left == Without(old.kids, gone)
    <3>1. now.node[x] = [old EXCEPT !.kids = left]
      BY <1>4, <2>1
    <3> HIDE DEF left, old
    <3>2. DOMAIN old = DOMAIN Blank
      BY <2>2 DEF old
    <3>3. /\ DOMAIN now.node[x] = DOMAIN Blank /\ now.node[x].up = old.up
          /\ now.node[x].done = old.done /\ now.node[x].kids = left
      BY <3>1, <3>2, BlankIs
    <3> QED
      BY <3>3 DEF old, left
  <2> QED
    BY <1>3, <1>5, <2>1, <2>3
<1>8. DOMAIN now.node = SpanID /\ DOMAIN now.stale = SpanID
  BY <1>1, <1>3 DEF Pruned
<1> QED
  BY <1>1, <1>3, <1>6, <1>7, <1>8 DEF IsCut, now, gone

\* What LimitRoots takes out, when there are n roots too many: of the roots
\* the first n, and otherwise what hangs below a span that goes.
Evicted(st, n) == Below(st, ToSet(SubSeq(st.roots, 1, n)))

LEMMA EvictedFacts ==
  ASSUME NEW st, Good(st), NEW n \in 1 .. Len(st.roots)
  PROVE  /\ Evicted(st, n) \subseteq st.byID /\ ClosedUnder(st, Evicted(st, n))
         /\ Evicted(st, n) \cap ToSet(st.roots) = ToSet(SubSeq(st.roots, 1, n))
         /\ \A z \in st.byID : \A y \in ToSet(st.node[z].kids) :
              y \in Evicted(st, n) => z \in Evicted(st, n)
<1> DEFINE X == ToSet(SubSeq(st.roots, 1, n))
           gone == Evicted(st, n)
<1>1. Typed(st) /\ IsForest(st) /\ st.byID \subseteq SpanID
      /\ InTree(st) = st.byID
  BY DEF Good, Typed, Shape, IsForest
<1>2. KidsAreSpans(st) /\ ClosedUnder(st, st.byID)
      /\ ToSet(st.roots) \subseteq st.byID
  BY <1>1, TypedKids, TreeFacts
<1>3. X \subseteq ToSet(st.roots)
  <2> DEFINE s == st.roots
             a == SubSeq(s, 1, n)
  <2>1. s \in Seq(SpanID) /\ n \in 0 .. Len(s) /\ Len(s) \in Nat
    BY <1>1, LenProperties DEF Typed
  <2>2. a \in Seq(SpanID) /\ Len(a) = n /\ \A i \in 1 .. n : a[i] = s[i]
    BY <2>1, TwoParts
  <2> HIDE DEF a, s
  <2>3. /\ ToSet(a) = {a[i] : i \in 1 .. n}
        /\ ToSet(s) = {s[i] : i \in 1 .. Len(s)}
        /\ 1 .. n \subseteq 1 .. Len(s)
    BY <2>1, <2>2, ToSetIn
  <2> QED
    BY <2>2, <2>3 DEF a, s
<1>4. gone = Below(st, X)
  BY DEF Evicted
<1> HIDE DEF gone, X
<1>5. gone \subseteq st.byID
  BY <1>1, <1>2, <1>3, <1>4, BelowLeast
<1>6. X \subseteq gone /\ ClosedUnder(st, gone)
  BY <1>1, <1>2, <1>3, <1>4, BelowIn, BelowClosed
<1>7. ASSUME NEW y \in gone, y \notin X
      PROVE  \E z \in gone : y \in ToSet(st.node[z].kids)
  BY <1>1, <1>2, <1>3, <1>4, <1>7, BelowFrom
<1>8. ASSUME NEW y \in gone, y \in ToSet(st.roots) PROVE y \in X
  <2> SUFFICES ASSUME y \notin X PROVE FALSE
    OBVIOUS
  <2>1. PICK z \in gone : y \in ToSet(st.node[z].kids)
    BY <1>7
  <2> QED
    BY <1>1, <1>5, <1>8, <2>1 DEF IsForest
<1>9. ASSUME NEW z \in st.byID, NEW y \in ToSet(st.node[z].kids), y \in gone
      PROVE  z \in gone
  <2>1. st.node[y].up = z /\ y \notin X
    BY <1>1, <1>3, <1>9 DEF IsForest
  <2>2. PICK w \in gone : y \in ToSet(st.node[w].kids)
    BY <1>7, <1>9, <2>1
  <2>3. st.node[y].up = w
    BY <1>1, <1>5, <2>2 DEF IsForest
  <2> QED
    BY <2>1, <2>2, <2>3
<1> QED
  BY <1>3, <1>5, <1>6, <1>8, <1>9 DEF gone, X

LEMMA LimitRootsIsCut ==
  ASSUME NEW st, Good(st), NEW limit \in Int, limit > 0, Len(st.roots) > limit
  PROVE  LET n == Len(st.roots) - limit
         IN  /\ n \in 1 .. Len(st.roots)
             /\ IsCut(st, Evicted(st, n), LimitRoots(st, limit))
             /\ LimitRoots(st, limit).roots =
                  SubSeq(st.roots, n + 1, Len(st.roots))
<1> DEFINE n == Len(st.roots) - limit
           gone == Evicted(st, n)
           kept == Forget(st, gone)
           now == LimitRoots(st, limit)
<1>1. Typed(st) /\ Shape(st) /\ IsForest(st) /\ Len(st.roots) \in Nat
  BY LenProperties DEF Good, Typed
<1>2. n \in 1 .. Len(st.roots) /\ n \in 0 .. Len(st.roots) /\ n > 0
  BY <1>1
<1>3. /\ gone \subseteq st.byID
      /\ gone \cap ToSet(st.roots) = ToSet(SubSeq(st.roots, 1, n))
      /\ \A z \in st.byID : \A y \in ToSet(st.node[z].kids) :
           y \in gone => z \in gone
  <2> HIDE DEF n
  <2> QED
    BY <1>2, EvictedFacts
<1>4. now = [kept EXCEPT !.roots = SubSeq(@, n + 1, Len(@))]
  BY <1>1 DEF LimitRoots, Excess, Evicted
<1>5. Without(st.roots, gone) = SubSeq(st.roots, n + 1, Len(st.roots))
  <2> HIDE DEF n, gone
  <2>1. st.roots \in Seq(SpanID) /\ IsInjective(st.roots)
    BY <1>1 DEF Typed, IsForest
  <2> QED
    BY <1>2, <1>3, <2>1, WithoutFirst
<1> HIDE DEF n, gone, now
<1>6. /\ DOMAIN kept = DOMAIN st /\ kept.allow = st.allow
      /\ kept.roots = st.roots /\ kept.byID = st.byID \ gone
      /\ kept.node = [x \in SpanID |-> IF x \in gone THEN Blank ELSE st.node[x]]
      /\ kept.stale = [x \in SpanID |-> IF x \in gone THEN None ELSE st.stale[x]]
  BY <1>1 DEF Forget, Shape
<1> HIDE DEF kept
<1>7. /\ DOMAIN now = DOMAIN st /\ now.allow = kept.allow
      /\ now.roots = SubSeq(st.roots, n + 1, Len(st.roots))
      /\ now.byID = kept.byID /\ now.node = kept.node /\ now.stale = kept.stale
  BY <1>1, <1>4, <1>6 DEF Shape
<1>8. ASSUME NEW x \in SpanID, x \notin gone
      PROVE  Without(st.node[x].kids, gone) = st.node[x].kids
  <2>1. ToSet(st.node[x].kids) \cap gone = {}
    <3>1. CASE x \in st.byID
      BY <1>3, <1>8, <3>1
    <3>2. CASE x \notin st.byID
      <4>1. st.node[x].kids = <<>>
        BY <1>1, <3>2, BlankIs DEF IsForest
      <4> QED
        BY <4>1, EmptySet
    <3> QED
      BY <3>1, <3>2
  <2>2. st.node[x].kids \in Seq(SpanID)
    BY <1>1 DEF Typed
  <2> QED
    BY <2>1, <2>2, WithoutNone
<1>9. IsCut(st, gone, now)
  <2>1. ASSUME NEW x \in SpanID
        PROVE  /\ x \in gone => now.node[x] = Blank /\ now.stale[x] = None
               /\ x \notin gone =>
                    /\ now.node[x] = st.node[x] /\ now.stale[x] = st.stale[x]
                    /\ DOMAIN st.node[x] = DOMAIN Blank
    BY <1>1, <1>6, <1>7 DEF Shape
  <2>2. DOMAIN now.node = SpanID /\ DOMAIN now.stale = SpanID
    BY <1>6, <1>7
  <2> QED
    BY <1>5, <1>6, <1>7, <1>8, <2>1, <2>2 DEF IsCut
<1> QED
  BY <1>2, <1>7, <1>9 DEF gone, now, n

\* A record or a mark that leaves every span in its place.
LEMMA SameGood ==
  ASSUME NEW st, Good(st), NEW now, Shape(now), now.allow = st.allow,
         now.roots = st.roots, now.byID = st.byID,
         \A x \in SpanID : /\ now.node[x].kids = st.node[x].kids
                           /\ now.node[x].up = st.node[x].up
                           /\ now.node[x].done \in BOOLEAN,
         \A x \in SpanID \ st.byID :
           now.node[x] = st.node[x] /\ now.stale[x] = st.stale[x]
  PROVE  Good(now)
<1>1. Typed(st) /\ IsForest(st) /\ Grounded(st) /\ Shape(st)
      /\ st.byID \subseteq SpanID /\ ToSet(st.roots) \subseteq SpanID
      /\ KidsAreSpans(st)
  BY TypedKids DEF Good, Typed, Shape
<1>2. Typed(now)
  BY <1>1 DEF Typed
<1>3. InTree(now) = InTree(st)
  BY BelowSame DEF InTree
<1>4. IsForest(now)
  <2>1. \A x \in st.byID : \A y \in ToSet(st.node[x].kids) : y \in SpanID
    BY <1>1 DEF KidsAreSpans
  <2> QED
    BY <1>1, <1>3, <2>1 DEF IsForest
<1>5. Grounded(now)
  BY <1>1 DEF Grounded
<1> QED
  BY <1>2, <1>4, <1>5 DEF Good

LEMMA WriteGood ==
  ASSUME NEW st, Good(st), NEW r, IsRecord(r), r.kind # "start",
         Writable(st, r.id)
  PROVE  /\ Good(Apply(st, r)) /\ Apply(st, r).byID = st.byID
         /\ Apply(st, r).roots = st.roots
         /\ \A x \in SpanID : Apply(st, r).node[x].kids = st.node[x].kids
<1> DEFINE now == Apply(st, r)
<1>1. Typed(st) /\ Shape(st) /\ r.id \in st.byID /\ r.id \in SpanID
  BY DEF Good, Typed, Shape, Writable
<1>2. PICK n : IsWrite(st, r.id, n, now)
  BY <1>1, WriteIs
<1>3. Shape(now)
  BY <1>1, ApplyKept
<1> HIDE DEF now
<1>4. /\ now.allow = st.allow /\ now.roots = st.roots /\ now.byID = st.byID
      /\ now.stale = st.stale /\ now.node = [st.node EXCEPT ![r.id] = n]
  BY <1>1, <1>2 DEF Shape, IsWrite
<1>5. \A x \in SpanID : now.node[x] = IF x = r.id THEN n ELSE st.node[x]
  BY <1>1, <1>4 DEF Shape
<1>6. \A x \in SpanID : /\ now.node[x].kids = st.node[x].kids
                        /\ now.node[x].up = st.node[x].up
  BY <1>2, <1>5 DEF IsWrite
<1>7. ASSUME NEW x \in SpanID PROVE now.node[x].done \in BOOLEAN
  <2>1. st.node[x].done \in BOOLEAN
    BY <1>1 DEF Typed
  <2>2. CASE x = r.id
    BY <1>2, <1>5, <2>1, <2>2 DEF IsWrite
  <2>3. CASE x # r.id
    BY <1>5, <2>1, <2>3
  <2> QED
    BY <2>2, <2>3
<1>8. \A x \in SpanID \ st.byID :
        now.node[x] = st.node[x] /\ now.stale[x] = st.stale[x]
  BY <1>1, <1>4, <1>5
<1>9. Good(now)
  <2>1. \A x \in SpanID : /\ now.node[x].kids = st.node[x].kids
                          /\ now.node[x].up = st.node[x].up
                          /\ now.node[x].done \in BOOLEAN
    BY <1>6, <1>7
  <2> QED
    BY <1>3, <1>4, <1>8, <2>1, SameGood
<1> QED
  BY <1>4, <1>6, <1>9 DEF now

LEMMA MarkGood ==
  ASSUME NEW st, Good(st), NEW time
  PROVE  LET now == MarkOpenSpansStale(st, time)
         IN  /\ Good(now) /\ now.byID = st.byID /\ now.roots = st.roots
             /\ now.node = st.node
             /\ \A x \in SpanID : now.stale[x] \in {time, st.stale[x]}
<1> DEFINE now == MarkOpenSpansStale(st, time)
           open == {x \in InTree(st) : Open(st, x)}
<1>1. Typed(st) /\ Shape(st) /\ InTree(st) = st.byID
  BY DEF Good, Typed, IsForest
<1>2. /\ now.allow = st.allow /\ now.roots = st.roots /\ now.byID = st.byID
      /\ now.node = st.node
      /\ now.stale = [x \in SpanID |-> IF x \in open THEN MarkOf(st, x, time)
                                       ELSE st.stale[x]]
  BY <1>1 DEF MarkOpenSpansStale, Shape
<1>3. Shape(now)
  BY <1>1, MarkKept
<1> HIDE DEF now
<1>4. \A x \in SpanID : /\ now.stale[x] \in {time, st.stale[x]}
                        /\ x \notin st.byID => now.stale[x] = st.stale[x]
  BY <1>1, <1>2 DEF MarkOf
<1>5. \A x \in SpanID : st.node[x].done \in BOOLEAN
  BY <1>1 DEF Typed
<1>6. Good(now)
  BY <1>2, <1>3, <1>4, <1>5, SameGood
<1> QED
  BY <1>2, <1>4, <1>6 DEF now

\* now is st with the span of r, as the last child of its parent or the last
\* root.
IsBorn(st, r, now) ==
  /\ now.allow = st.allow /\ now.stale = st.stale
  /\ now.byID = st.byID \cup {r.id}
  /\ r.up \in st.byID => now.roots = st.roots
  /\ r.up \notin st.byID => now.roots = Append(st.roots, r.id)
  /\ \A x \in SpanID : x # r.id =>
       /\ now.node[x].up = st.node[x].up
       /\ now.node[x].done = st.node[x].done
       /\ x = r.up /\ r.up \in st.byID =>
            /\ now.node[x].kids = Append(st.node[x].kids, r.id)
            /\ now.node[x] = [st.node[x] EXCEPT !.kids = Append(@, r.id)]
       /\ ~(x = r.up /\ r.up \in st.byID) => now.node[x] = st.node[x]
  /\ now.node[r.id] = [Blank EXCEPT !.up = r.up, !.at = TimeValue(r.at),
                                    !.attrs = r.attrs]
  /\ now.node[r.id].up = r.up /\ now.node[r.id].done = FALSE
  /\ now.node[r.id].kids = <<>>

LEMMA StartedIs ==
  ASSUME NEW st, Typed(st), NEW r, r.id \in SpanID \cup {None}, ~Ignored(st, r)
  PROVE  IsBorn(st, r, ApplyStarted(st, r))
<1> DEFINE span == [Blank EXCEPT !.up = r.up, !.at = TimeValue(r.at),
                                 !.attrs = r.attrs]
           born == [st EXCEPT !.byID = @ \cup {r.id}, !.node[r.id] = span]
           below == [born EXCEPT !.node[r.up].kids = AddLast(@, r.id)]
           parent == [born.node[r.up] EXCEPT !.kids = AddLast(@, r.id)]
           top == [born EXCEPT !.roots = AddLast(@, r.id)]
           now == ApplyStarted(st, r)
<1>1. r.id \in SpanID /\ r.id \notin st.byID /\ Shape(st)
  BY DEF Ignored, Typed
<1>2. /\ span.up = r.up /\ span.done = FALSE /\ span.kids = <<>>
      /\ span = [Blank EXCEPT !.up = r.up, !.at = TimeValue(r.at),
                              !.attrs = r.attrs]
  BY DEF Blank
<1>3. now = IF r.up \in st.byID THEN below ELSE top
  BY DEF ApplyStarted
<1> HIDE DEF now, span
<1>4. /\ DOMAIN born = DOMAIN st /\ born.allow = st.allow
      /\ born.roots = st.roots /\ born.byID = st.byID \cup {r.id}
      /\ born.stale = st.stale /\ born.node = [st.node EXCEPT ![r.id] = span]
  BY <1>1 DEF Shape
<1> HIDE DEF born
<1>5. \A x \in SpanID : born.node[x] = IF x = r.id THEN span ELSE st.node[x]
  BY <1>1, <1>4 DEF Shape
<1>6. CASE r.up \in st.byID
  <2>1. /\ now.allow = st.allow /\ now.stale = st.stale
        /\ now.byID = st.byID \cup {r.id} /\ now.roots = st.roots
        /\ now.node = [born.node EXCEPT ![r.up] = parent]
    BY <1>1, <1>3, <1>4, <1>6 DEF Shape
  <2>2. r.up \in SpanID /\ r.up # r.id
    BY <1>1, <1>6 DEF Shape
  <2>3. DOMAIN st.node[r.up] = DOMAIN Blank /\ born.node[r.up] = st.node[r.up]
    BY <1>1, <1>5, <2>2 DEF Shape
  <2>4. /\ parent.up = st.node[r.up].up /\ parent.done = st.node[r.up].done
        /\ parent.kids = Append(st.node[r.up].kids, r.id)
    BY <2>3, BlankIs DEF AddLast
  <2> HIDE DEF parent
  <2>5. \A x \in SpanID : now.node[x] = IF x = r.up THEN parent ELSE born.node[x]
    BY <1>1, <1>4, <2>1 DEF Shape
  <2>6. ASSUME NEW x \in SpanID, x # r.id
        PROVE  /\ now.node[x].up = st.node[x].up
               /\ now.node[x].done = st.node[x].done
               /\ x = r.up =>
                    /\ now.node[x].kids = Append(st.node[x].kids, r.id)
                    /\ now.node[x] = [st.node[x] EXCEPT !.kids = Append(@, r.id)]
               /\ x # r.up => now.node[x] = st.node[x]
    <3>1. CASE x = r.up
      BY <1>6, <2>3, <2>4, <2>5, <3>1 DEF parent, AddLast
    <3>2. CASE x # r.up
      <4>1. now.node[x] = st.node[x]
        BY <1>5, <2>5, <2>6, <3>2
      <4> QED
        BY <3>2, <4>1
    <3> QED
      BY <3>1, <3>2
  <2>7. now.node[r.id] = span
    BY <1>1, <1>5, <2>2, <2>5
  <2> QED
    BY <1>2, <1>6, <2>1, <2>6, <2>7 DEF IsBorn, now
<1>7. CASE r.up \notin st.byID
  <2>1. /\ now.allow = st.allow /\ now.stale = st.stale
        /\ now.byID = st.byID \cup {r.id} /\ now.node = born.node
        /\ now.roots = Append(st.roots, r.id)
    BY <1>1, <1>3, <1>4, <1>7 DEF Shape, AddLast
  <2>2. now.node[r.id] = span /\ \A x \in SpanID : x # r.id =>
                                   now.node[x] = st.node[x]
    BY <1>1, <1>5, <2>1
  <2> QED
    BY <1>2, <1>7, <2>1, <2>2 DEF IsBorn, now
<1> QED
  BY <1>6, <1>7

LEMMA StartedGood ==
  ASSUME NEW st, Good(st), NEW r, r.id \in SpanID \cup {None},
         r.up \in SpanID \cup {None}, ~Ignored(st, r)
  PROVE  Good(ApplyStarted(st, r))
<1> DEFINE now == ApplyStarted(st, r)
           child == r.up \in st.byID
<1>0. /\ Typed(st) /\ IsForest(st) /\ Grounded(st) /\ Shape(st)
      /\ st.byID \subseteq SpanID /\ r.id \in SpanID /\ r.id \notin st.byID
      /\ st.roots \in Seq(SpanID) /\ InTree(st) = st.byID
  BY DEF Good, Typed, Shape, Ignored, IsForest
<1>1. IsBorn(st, r, now)
  BY <1>0, StartedIs
<1>3. Shape(now)
  BY <1>0, StartedKept
<1> HIDE DEF now
<1>2. /\ now.allow = st.allow /\ now.stale = st.stale
      /\ now.byID = st.byID \cup {r.id}
      /\ child => now.roots = st.roots
      /\ ~child => now.roots = Append(st.roots, r.id)
      /\ now.node[r.id].up = r.up /\ now.node[r.id].kids = <<>>
      /\ now.node[r.id].done \in BOOLEAN
  BY <1>1 DEF IsBorn
<1>12. ASSUME NEW x \in SpanID, x # r.id
       PROVE  /\ now.node[x].up = st.node[x].up
              /\ now.node[x].done = st.node[x].done
              /\ x = r.up /\ child =>
                   now.node[x].kids = Append(st.node[x].kids, r.id)
              /\ ~(x = r.up /\ child) => now.node[x].kids = st.node[x].kids
              /\ x \notin st.byID => now.node[x] = st.node[x]
  BY <1>1, <1>12 DEF IsBorn
<1>4. /\ KidsAreSpans(st) /\ ToSet(st.roots) \subseteq st.byID
      /\ ClosedUnder(st, st.byID)
  BY <1>0, TypedKids, TreeFacts
<1>5. /\ now.roots \in Seq(SpanID) /\ IsInjective(now.roots)
      /\ ToSet(now.roots) = IF child THEN ToSet(st.roots)
                            ELSE ToSet(st.roots) \cup {r.id}
  <2>1. IsInjective(st.roots) /\ r.id \notin ToSet(st.roots)
    BY <1>0, <1>4 DEF IsForest
  <2>2. /\ Append(st.roots, r.id) \in Seq(SpanID)
        /\ ToSet(Append(st.roots, r.id)) = ToSet(st.roots) \cup {r.id}
        /\ IsInjective(Append(st.roots, r.id))
    BY <1>0, <2>1, AppendSet, AppendProperties
  <2>3. CASE child
    BY <1>0, <1>2, <2>1, <2>3
  <2>4. CASE ~child
    BY <1>2, <2>2, <2>4
  <2> QED
    BY <2>3, <2>4
<1>6. ASSUME NEW x \in SpanID, x # r.id
      PROVE  /\ now.node[x].kids \in Seq(SpanID)
             /\ ToSet(now.node[x].kids) = IF x = r.up /\ child
                                          THEN ToSet(st.node[x].kids) \cup {r.id}
                                          ELSE ToSet(st.node[x].kids)
             /\ x \in st.byID => IsInjective(now.node[x].kids)
  <2>1. st.node[x].kids \in Seq(SpanID)
    BY <1>0 DEF Typed
  <2>2. x \in st.byID => /\ IsInjective(st.node[x].kids)
                         /\ r.id \notin ToSet(st.node[x].kids)
    BY <1>0, <1>4 DEF IsForest, ClosedUnder
  <2>3. CASE x = r.up /\ child
    <3> DEFINE old == st.node[x].kids
    <3>1. /\ Append(old, r.id) \in Seq(SpanID)
          /\ ToSet(Append(old, r.id)) = ToSet(old) \cup {r.id}
          /\ x \in st.byID => IsInjective(Append(old, r.id))
      BY <1>0, <2>1, <2>2, AppendSet, AppendProperties
    <3>2. now.node[x].kids = Append(old, r.id)
      BY <1>12, <1>6, <2>3
    <3> QED
      BY <2>3, <3>1, <3>2
  <2>4. CASE ~(x = r.up /\ child)
    <3>1. now.node[x].kids = st.node[x].kids
      BY <1>12, <1>6, <2>4
    <3> QED
      BY <2>1, <2>2, <2>4, <3>1
  <2> QED
    BY <2>3, <2>4
<1>7. Typed(now)
  <2>1. ASSUME NEW x \in SpanID
        PROVE  /\ now.node[x].up \in SpanID \cup {None}
               /\ now.node[x].done \in BOOLEAN
               /\ now.node[x].kids \in Seq(SpanID)
    <3>1. CASE x = r.id
      BY <1>2, <3>1, EmptySeq
    <3>2. CASE x # r.id
      <4>1. st.node[x].up \in SpanID \cup {None} /\ st.node[x].done \in BOOLEAN
        BY <1>0 DEF Typed
      <4> QED
        BY <1>12, <1>6, <3>2, <4>1
    <3> QED
      BY <3>1, <3>2
  <2>2. now.allow \in BOOLEAN
    BY <1>0, <1>2 DEF Typed
  <2> QED
    BY <1>3, <1>5, <2>1, <2>2 DEF Typed
<1>8. InTree(now) = now.byID
  <2>1. InTree(now) \subseteq st.byID \cup {r.id}
    <3>1. ClosedUnder(now, st.byID \cup {r.id})
      <4>1. ToSet(now.node[r.id].kids) = {}
        BY <1>2, EmptySet
      <4>2. \A x \in st.byID : ToSet(now.node[x].kids) \subseteq st.byID \cup {r.id}
        BY <1>0, <1>4, <1>6 DEF ClosedUnder
      <4> QED
        BY <4>1, <4>2 DEF ClosedUnder
    <3>2. ToSet(now.roots) \subseteq st.byID \cup {r.id}
      BY <1>4, <1>5
    <3> QED
      BY <1>0, <3>1, <3>2, BelowLeast DEF InTree
  <2>2. /\ InTree(now) \subseteq SpanID /\ ClosedUnder(now, InTree(now))
        /\ ToSet(now.roots) \subseteq InTree(now)
    BY <1>7, TreeFacts
  <2>3. st.byID \subseteq InTree(now)
    <3>1. ClosedUnder(st, InTree(now))
      <4>1. ASSUME NEW x \in InTree(now)
            PROVE  ToSet(st.node[x].kids) \subseteq InTree(now)
        <5>1. CASE x = r.id
          <6>1. st.node[x].kids = <<>>
            BY <1>0, <5>1, BlankIs DEF IsForest
          <6> QED
            BY <6>1, EmptySet
        <5>2. CASE x # r.id
          <6>1. x \in SpanID /\ ToSet(now.node[x].kids) \subseteq InTree(now)
            BY <2>2 DEF ClosedUnder
          <6> QED
            BY <1>6, <5>2, <6>1
        <5> QED
          BY <5>1, <5>2
      <4> QED
        BY <4>1 DEF ClosedUnder
    <3>2. ToSet(st.roots) \subseteq InTree(now)
      BY <1>5, <2>2
    <3>3. InTree(st) \subseteq InTree(now)
      BY <2>2, <3>1, <3>2, BelowLeast DEF InTree
    <3> QED
      BY <1>0, <3>3
  <2>4. r.id \in InTree(now)
    <3>1. CASE child
      <4>1. r.up \in InTree(now) /\ r.up \in SpanID /\ r.up # r.id
        BY <1>0, <2>3, <3>1
      <4>2. r.id \in ToSet(now.node[r.up].kids)
        BY <1>6, <3>1, <4>1
      <4> QED
        BY <2>2, <4>1, <4>2 DEF ClosedUnder
    <3>2. CASE ~child
      BY <1>5, <2>2, <3>2
    <3> QED
      BY <3>1, <3>2
  <2> QED
    BY <1>2, <2>1, <2>3, <2>4
<1>9. ASSUME NEW x \in now.byID
      PROVE  /\ IsInjective(now.node[x].kids)
             /\ \A y \in ToSet(now.node[x].kids) :
                  now.node[y].up = x /\ y \notin ToSet(now.roots)
  <2>1. CASE x = r.id
    BY <1>2, <2>1, EmptySet
  <2>2. CASE x # r.id
    <3>1. x \in st.byID /\ x \in SpanID
      BY <1>0, <1>2, <2>2
    <3>2. ASSUME NEW y \in ToSet(now.node[x].kids)
          PROVE  now.node[y].up = x /\ y \notin ToSet(now.roots)
      <4>1. CASE y = r.id
        <5>1. r.id \notin ToSet(st.node[x].kids)
          BY <1>0, <1>4, <3>1 DEF ClosedUnder
        <5>2. x = r.up /\ child
          BY <1>6, <2>2, <3>1, <3>2, <4>1, <5>1
        <5> QED
          BY <1>0, <1>2, <1>4, <1>5, <4>1, <5>2
      <4>2. CASE y # r.id
        <5>1. y \in ToSet(st.node[x].kids)
          BY <1>6, <2>2, <3>1, <3>2, <4>2
        <5>2. y \in SpanID /\ st.node[y].up = x /\ y \notin ToSet(st.roots)
          BY <1>0, <1>4, <3>1, <5>1 DEF IsForest, KidsAreSpans
        <5> QED
          BY <1>12, <1>5, <4>2, <5>2
      <4> QED
        BY <4>1, <4>2
    <3> QED
      BY <1>6, <2>2, <3>1, <3>2
  <2> QED
    BY <2>1, <2>2
<1>10. \A x \in SpanID \ now.byID : now.node[x] = Blank /\ now.stale[x] = None
  BY <1>0, <1>2, <1>12 DEF IsForest
<1>11. Grounded(now)
  <2> SUFFICES ASSUME ~now.allow, NEW x \in ToSet(now.roots)
               PROVE  now.node[x].up = None
    BY DEF Grounded
  <2>1. CASE x = r.id
    <3>1. ~child
      BY <1>0, <1>4, <1>5, <2>1
    <3>2. r.up = None
      BY <1>2, <3>1 DEF Ignored, Orphan
    <3> QED
      BY <1>2, <2>1, <3>2
  <2>2. CASE x # r.id
    <3>1. x \in ToSet(st.roots) /\ x \in SpanID
      BY <1>0, <1>4, <1>5, <2>2
    <3>2. st.node[x].up = None
      BY <1>0, <1>2, <3>1 DEF Grounded
    <3> QED
      BY <1>12, <2>2, <3>1, <3>2
  <2> QED
    BY <2>1, <2>2
<1> QED
  BY <1>5, <1>7, <1>8, <1>9, <1>10, <1>11 DEF Good, IsForest, now

-----------------------------------------------------------------------------
\* What the operations make of a good store

LEMMA ApplyGood ==
  ASSUME NEW st, Good(st), NEW r, IsRecord(r)
  PROVE  Good(Apply(st, r))
<1>1. r.id \in SpanID \cup {None}
  BY DEF IsRecord
<1>2. CASE r.kind = "start" /\ Ignored(st, r)
  BY <1>2 DEF Apply, ApplyStarted
<1>3. CASE r.kind = "start" /\ ~Ignored(st, r)
  BY <1>1, <1>3, StartedGood DEF IsRecord, Apply
<1>4. CASE r.kind # "start" /\ ~Writable(st, r.id)
  BY <1>4 DEF IsRecord, Apply, ApplyUpdated, ApplyEnded, ApplyEvent
<1>5. CASE r.kind # "start" /\ Writable(st, r.id)
  BY <1>5, WriteGood
<1> QED
  BY <1>2, <1>3, <1>4, <1>5

LEMMA LimitRootsGood ==
  ASSUME NEW st, Good(st), NEW limit \in Int
  PROVE  Good(LimitRoots(st, limit))
<1>1. Len(st.roots) \in Nat /\ st.allow \in BOOLEAN
  BY LenProperties DEF Good, Typed
<1>2. CASE limit <= 0
  BY <1>1, <1>2, EmptyGood DEF LimitRoots, Clear
<1>3. CASE limit > 0 /\ Len(st.roots) <= limit
  BY <1>1, <1>3 DEF LimitRoots, Excess
<1>4. CASE limit > 0 /\ Len(st.roots) > limit
  <2> DEFINE n == Len(st.roots) - limit
  <2>1. n \in 1 .. Len(st.roots) /\ IsCut(st, Evicted(st, n), LimitRoots(st, limit))
    BY <1>1, <1>4, LimitRootsIsCut
  <2> HIDE DEF n
  <2>2. Evicted(st, n) \subseteq st.byID /\ ClosedUnder(st, Evicted(st, n))
    BY <1>1, <2>1, EvictedFacts
  <2> QED
    BY <2>1, <2>2, CutGood
<1> QED
  BY <1>1, <1>2, <1>3, <1>4

\* What is left has ended.
LEMMA ClearOpenSpansGood ==
  ASSUME NEW st, Good(st)
  PROVE  /\ Good(ClearOpenSpans(st)) /\ ~HasOpenSpans(ClearOpenSpans(st))
         /\ ClearOpenSpans(st).roots = Without(st.roots, Doomed(st))
<1> DEFINE gone == Doomed(st)
           now == ClearOpenSpans(st)
<1>1. /\ IsForest(st) /\ gone \subseteq st.byID /\ ClosedUnder(st, gone)
      /\ \A y \in st.byID : ~st.node[y].done => y \in gone
      /\ Typed(st) /\ st.byID \subseteq SpanID
  BY DoomedFacts DEF Good, Typed, Shape
<1>2. IsCut(st, gone, now)
  BY <1>1, ClearOpenSpansIsCut
<1> HIDE DEF gone, now
<1>3. Good(now)
  BY <1>1, <1>2, CutGood
<1>4. InTree(now) = st.byID \ gone
  BY <1>2, <1>3 DEF Good, IsForest, IsCut
<1>5. \A x \in st.byID \ gone : now.node[x].done
  BY <1>1, <1>2 DEF IsCut
<1>6. ~HasOpenSpans(now) /\ now.roots = Without(st.roots, gone)
  BY <1>2, <1>4, <1>5 DEF HasOpenSpans, Open, IsCut
<1> QED
  BY <1>3, <1>6 DEF gone, now

LEMMA EmptyIsQuiet ==
  ASSUME NEW allow \in BOOLEAN
  PROVE  ~HasOpenSpans(Empty(allow))
<1>1. InTree(Empty(allow)) = Empty(allow).byID
  BY EmptyGood DEF Good, IsForest
<1> QED
  BY <1>1 DEF HasOpenSpans, Empty

\* A mark opens no span.
LEMMA MarkIsQuiet ==
  ASSUME NEW st, Good(st), NEW time
  PROVE  HasOpenSpans(MarkOpenSpansStale(st, time)) <=> HasOpenSpans(st)
<1>1. LET now == MarkOpenSpansStale(st, time)
      IN  InTree(now) = InTree(st) /\ now.node = st.node
  BY MarkGood DEF Good, IsForest
<1> QED
  BY <1>1 DEF HasOpenSpans, Open

LEMMA WithoutLen ==
  ASSUME NEW S, NEW s \in Seq(S), NEW gone
  PROVE  Len(Without(s, gone)) \in Nat /\ Len(Without(s, gone)) <= Len(s)
<1> DEFINE B == {t \in Seq(S) : Len(Without(t, gone)) <= Len(t)}
<1>1. <<>> \in B
  BY WithoutEmpty, EmptySeq
<1>2. ASSUME NEW t \in Seq(S), t \in B, NEW x \in S
      PROVE  Append(t, x) \in B
  <2> DEFINE w == Without(t, gone)
  <2>1. w \in Seq(S) /\ Len(w) <= Len(t)
    BY <1>2, WithoutSeq
  <2>2. Without(Append(t, x), gone) = IF x \in gone THEN w ELSE Append(w, x)
    BY WithoutAppend
  <2> HIDE DEF w
  <2>3. Len(Append(w, x)) = Len(w) + 1 /\ Len(w) \in Nat
    BY <2>1, AppendProperties, LenProperties
  <2>4. /\ Append(t, x) \in Seq(S) /\ Len(Append(t, x)) = Len(t) + 1
        /\ Len(t) \in Nat
    BY AppendProperties, LenProperties
  <2>5. Len(Without(Append(t, x), gone)) \in {Len(w), Len(w) + 1}
    BY <2>2, <2>3
  <2> QED
    BY <2>1, <2>3, <2>4, <2>5
<1>3. Seq(S) \subseteq B
  <2> HIDE DEF B
  <2> QED
    BY <1>1, <1>2, BySequences
<1>4. Len(Without(s, gone)) <= Len(s)
  BY <1>3
<1>5. Without(s, gone) \in Seq(S)
  BY WithoutSeq
<1> QED
  BY <1>4, <1>5, LenProperties

\* There are at most limit roots.
LEMMA LimitRootsLen ==
  ASSUME NEW st, Good(st), NEW limit \in Nat \ {0}
  PROVE  Len(LimitRoots(st, limit).roots) <= limit
<1>1. Len(st.roots) \in Nat /\ st.roots \in Seq(SpanID)
  BY LenProperties DEF Good, Typed
<1>2. CASE Len(st.roots) <= limit
  BY <1>1, <1>2 DEF LimitRoots, Excess
<1>3. CASE Len(st.roots) > limit
  <2> DEFINE n == Len(st.roots) - limit
  <2>1. /\ LimitRoots(st, limit).roots = SubSeq(st.roots, n + 1, Len(st.roots))
        /\ n \in 0 .. Len(st.roots) /\ Len(st.roots) - n = limit
    <3>1. LimitRoots(st, limit).roots = SubSeq(st.roots, n + 1, Len(st.roots))
      <4>1. limit \in Int /\ limit > 0
        OBVIOUS
      <4> QED
        BY <1>3, <4>1, LimitRootsIsCut
    <3>2. n \in 0 .. Len(st.roots) /\ Len(st.roots) - n = limit
      BY <1>1, <1>3
    <3> QED
      BY <3>1, <3>2
  <2> HIDE DEF n
  <2>2. Len(SubSeq(st.roots, n + 1, Len(st.roots))) = limit
    BY <1>1, <2>1, TwoParts
  <2> QED
    BY <2>1, <2>2
<1> QED
  BY <1>1, <1>2, <1>3

-----------------------------------------------------------------------------
(***************************************************************************)
(* What lies above and below a span while others come and go.              *)
(***************************************************************************)
Above(st, y) == {z \in InTree(st) \ {y} : y \in Below(st, {z})}

LEMMA DepthIs ==
  ASSUME NEW st, NEW y
  PROVE  Depth(st, y) = Cardinality(Above(st, y))
BY DEF Depth, Distance, Above, InTree

\* Without a set of spans and all that is below them, the others keep what they
\* have below them but for that set.
LEMMA BelowCut ==
  ASSUME NEW st, KidsAreSpans(st), NEW now, KidsAreSpans(now),
         NEW gone \in SUBSET SpanID, ClosedUnder(st, gone),
         \A x \in SpanID \ gone :
           ToSet(now.node[x].kids) = ToSet(st.node[x].kids) \ gone,
         NEW z \in SpanID \ gone
  PROVE  Below(now, {z}) = Below(st, {z}) \ gone
<1>1. Below(now, {z}) \subseteq Below(st, {z}) \ gone
  <2> DEFINE S == Below(st, {z}) \ gone
  <2>1. S \in SUBSET SpanID /\ {z} \subseteq S
    BY BelowIn
  <2>2. ClosedUnder(now, S)
    <3>1. ClosedUnder(st, Below(st, {z}))
      BY BelowClosed
    <3>2. ASSUME NEW x \in S PROVE ToSet(now.node[x].kids) \subseteq S
      <4>1. x \in SpanID \ gone /\ x \in Below(st, {z})
        BY <2>1
      <4>2. ToSet(st.node[x].kids) \subseteq Below(st, {z})
        BY <3>1, <4>1 DEF ClosedUnder
      <4>3. ToSet(now.node[x].kids) = ToSet(st.node[x].kids) \ gone
        BY <4>1
      <4> QED
        BY <4>2, <4>3
    <3> QED
      BY <3>2 DEF ClosedUnder
  <2> HIDE DEF S
  <2>3. Below(now, {z}) \subseteq S
    BY <2>1, <2>2, BelowLeast
  <2> QED
    BY <2>3 DEF S
<1>2. Below(st, {z}) \subseteq Below(now, {z}) \cup gone
  <2> DEFINE S == Below(now, {z}) \cup gone
  <2>1. S \in SUBSET SpanID /\ {z} \subseteq S
    BY BelowIn
  <2>2. ClosedUnder(now, Below(now, {z}))
    BY BelowClosed
  <2>3. ASSUME NEW x \in S PROVE ToSet(st.node[x].kids) \subseteq S
    <3>1. CASE x \in gone
      BY <3>1 DEF ClosedUnder
    <3>2. CASE x \notin gone
      <4>1. x \in Below(now, {z}) /\ x \in SpanID
        BY <2>1, <3>2
      <4>2. ToSet(now.node[x].kids) \subseteq Below(now, {z})
        BY <2>2, <4>1 DEF ClosedUnder
      <4> QED
        BY <3>2, <4>1, <4>2
    <3> QED
      BY <3>1, <3>2
  <2> QED
    BY <2>1, <2>3, BelowLeast DEF ClosedUnder
<1> QED
  BY <1>1, <1>2

\* What is below a span is below all that has the span below it.
LEMMA BelowThrough ==
  ASSUME NEW st, KidsAreSpans(st), NEW X \in SUBSET SpanID, NEW Y,
         Y \subseteq Below(st, X)
  PROVE  Below(st, Y) \subseteq Below(st, X)
BY BelowIn, BelowClosed, BelowLeast

LEMMA BelowNothing ==
  ASSUME NEW st
  PROVE  Below(st, {}) = {}
<1>1. ClosedUnder(st, {}) /\ {} \in SUBSET SpanID
  BY DEF ClosedUnder
<1> QED
  BY <1>1, BelowLeast

LEMMA BelowUnion ==
  ASSUME NEW st, KidsAreSpans(st), NEW X \in SUBSET SpanID
  PROVE  Below(st, X) = UNION {Below(st, {x}) : x \in X}
<1> DEFINE U == UNION {Below(st, {x}) : x \in X}
<1>1. \A x \in X : x \in Below(st, {x}) /\ Below(st, {x}) \subseteq SpanID
                   /\ ClosedUnder(st, Below(st, {x}))
  BY BelowIn, BelowClosed
<1>2. U \in SUBSET SpanID /\ X \subseteq U
  BY <1>1
<1>3. ClosedUnder(st, U)
  BY <1>1 DEF ClosedUnder
<1>4. Below(st, X) \subseteq U
  BY <1>2, <1>3, BelowLeast
<1>5. \A x \in X : {x} \subseteq Below(st, X)
  BY BelowIn
<1>6. \A x \in X : Below(st, {x}) \subseteq Below(st, X)
  BY <1>5, BelowThrough
<1> QED
  BY <1>4, <1>6

\* A span and what is below it, in a tree.
LEMMA BelowInTree ==
  ASSUME NEW st, Good(st), NEW x \in st.byID
  PROVE  x \in Below(st, {x}) /\ Below(st, {x}) \subseteq st.byID
<1>1. Typed(st) /\ InTree(st) = st.byID
  BY DEF Good, IsForest
<1>2. KidsAreSpans(st) /\ ToSet(st.roots) \subseteq SpanID /\ st.byID \subseteq SpanID
  BY <1>1, TypedKids, TreeFacts
<1> QED
  BY <1>1, <1>2, BelowIn, BelowThrough DEF InTree

\* now is st without the spans of gone.
IsPart(st, gone, now) ==
  /\ KidsAreSpans(st) /\ KidsAreSpans(now)
  /\ gone \subseteq SpanID /\ ClosedUnder(st, gone)
  /\ \A x \in SpanID \ gone :
       ToSet(now.node[x].kids) = ToSet(st.node[x].kids) \ gone
  /\ InTree(st) \subseteq SpanID /\ InTree(now) = InTree(st) \ gone

LEMMA AboveCut ==
  ASSUME NEW st, NEW gone, NEW now, IsPart(st, gone, now), NEW y \in InTree(now)
  PROVE  Above(now, y) = Above(st, y) /\ Depth(now, y) = Depth(st, y)
<1>1. y \in SpanID \ gone /\ gone \in SUBSET SpanID
  BY DEF IsPart
<1>2. \A z \in SpanID \ gone : y \in Below(now, {z}) <=> y \in Below(st, {z})
  BY <1>1, BelowCut DEF IsPart
<1>3. \A z \in gone : y \notin Below(st, {z})
  <2>1. \A z \in gone : Below(st, {z}) \subseteq gone
    BY <1>1, BelowLeast DEF IsPart
  <2> QED
    BY <1>1, <2>1
<1>4. Above(now, y) = Above(st, y)
  BY <1>2, <1>3 DEF IsPart, Above
<1> QED
  BY <1>4, DepthIs

\* Nothing has changed of x and what is below it, and nothing above.
Untouched(st, now, x) ==
  /\ x \in now.byID /\ Below(now, {x}) = Below(st, {x})
  /\ \A y \in Below(st, {x}) : /\ now.node[y] = st.node[y]
                               /\ now.stale[y] = st.stale[y]
                               /\ Depth(now, y) = Depth(st, y)

LEMMA UntouchedTwice ==
  ASSUME NEW st, NEW mid, NEW now, NEW x, Untouched(st, mid, x), Untouched(mid, now, x)
  PROVE  Untouched(st, now, x)
BY DEF Untouched

LEMMA UntouchedSame ==
  ASSUME NEW st, NEW x \in st.byID
  PROVE  Untouched(st, st, x)
BY DEF Untouched

\* A mark reaches open spans only.
LEMMA MarkUntouched ==
  ASSUME NEW st, Good(st), NEW x \in st.byID, NEW time,
         \A y \in Below(st, {x}) : st.node[y].done
  PROVE  Untouched(st, MarkOpenSpansStale(st, time), x)
<1> DEFINE now == MarkOpenSpansStale(st, time)
<1>1. now.node = st.node /\ now.byID = st.byID /\ now.roots = st.roots
  BY MarkGood
<1>2. \A y \in SpanID : st.node[y].done => now.stale[y] = st.stale[y]
  BY DEF MarkOpenSpansStale, Open, Good, Typed, Shape
<1> HIDE DEF now
<1>3. \A X : Below(now, X) = Below(st, X)
  BY <1>1, BelowSame
<1>4. \A y : Above(now, y) = Above(st, y)
  BY <1>1, <1>3 DEF Above, InTree
<1>5. \A y : Depth(now, y) = Depth(st, y)
  BY <1>4, DepthIs
<1>6. Below(st, {x}) \subseteq SpanID
  BY DEF Below
<1> QED
  BY <1>1, <1>2, <1>3, <1>5, <1>6 DEF Untouched, now

\* Only the oldest trees go, as a whole.
LEMMA LimitRootsUntouched ==
  ASSUME NEW st, Good(st), NEW limit \in Int, limit > 0,
         NEW x \in LimitRoots(st, limit).byID
  PROVE  x \in st.byID /\ Untouched(st, LimitRoots(st, limit), x)
<1> DEFINE now == LimitRoots(st, limit)
           n   == Len(st.roots) - limit
           gone == Evicted(st, n)
<1>0. Typed(st) /\ Shape(st) /\ Len(st.roots) \in Int /\ InTree(st) = st.byID
  BY LenProperties DEF Good, Typed, IsForest
<1>1. CASE n <= 0
  <2>1. now = st
    BY <1>0, <1>1 DEF LimitRoots, Excess
  <2> QED
    BY <2>1, UntouchedSame
<1>2. CASE n > 0
  <2>0. Len(st.roots) > limit
    BY <1>0, <1>2
  <2>1. n \in 1 .. Len(st.roots)
    BY <2>0, LimitRootsIsCut
  <2>2. /\ gone \subseteq st.byID /\ ClosedUnder(st, gone)
        /\ \A z \in st.byID : \A y \in ToSet(st.node[z].kids) : y \in gone => z \in gone
    BY <2>1, EvictedFacts
  <2>3. now = [Forget(st, gone) EXCEPT !.roots = SubSeq(@, n + 1, Len(@))]
    BY <1>0, <1>2 DEF LimitRoots, Excess, Evicted
  <2>4. Good(now)
    BY LimitRootsGood
  <2> HIDE DEF gone, n, now
  <2>5. /\ now.byID = st.byID \ gone
        /\ \A y \in SpanID \ gone : now.node[y] = st.node[y] /\ now.stale[y] = st.stale[y]
        /\ \A y \in gone : now.node[y] = Blank
    BY <1>0, <2>2, <2>3 DEF Forget, Shape
  <2>6. x \in st.byID \ gone /\ st.byID \subseteq SpanID
    BY <1>0, <2>5 DEF now, Shape
  <2>7. \A y \in st.byID \ gone : ToSet(st.node[y].kids) \subseteq st.byID \ gone
    BY <1>0, <2>2, TreeFacts DEF ClosedUnder
  <2>8. Below(st, {x}) \subseteq st.byID \ gone
    <3> DEFINE S == st.byID \ gone
    <3>1. S \in SUBSET SpanID /\ {x} \subseteq S
      BY <2>6
    <3>2. ClosedUnder(st, S)
      BY <2>7 DEF ClosedUnder
    <3> QED
      BY <3>1, <3>2, BelowLeast
  <2>9. IsPart(st, gone, now)
    <3>1. KidsAreSpans(st) /\ KidsAreSpans(now) /\ InTree(now) = now.byID
      BY <1>0, <2>4, TypedKids DEF Good, IsForest
    <3>2. ASSUME NEW y \in SpanID \ gone
          PROVE  ToSet(now.node[y].kids) = ToSet(st.node[y].kids) \ gone
      <4>1. now.node[y].kids = st.node[y].kids
        BY <2>5
      <4>2. CASE y \in st.byID
        BY <2>7, <4>1, <4>2
      <4>3. CASE y \notin st.byID
        <5>1. ToSet(st.node[y].kids) = {}
          BY <4>3, BlankIs, EmptySet DEF Good, IsForest
        <5> QED
          BY <4>1, <5>1
      <4> QED
        BY <4>2, <4>3
    <3> QED
      BY <1>0, <2>2, <2>5, <2>6, <3>1, <3>2 DEF IsPart
  <2>10. Below(now, {x}) = Below(st, {x})
    <3>1. Below(now, {x}) = Below(st, {x}) \ gone
      BY <2>6, <2>9, BelowCut DEF IsPart
    <3> QED
      BY <2>8, <3>1
  <2>11. \A y \in Below(st, {x}) : Depth(now, y) = Depth(st, y)
    BY <1>0, <2>8, <2>9, AboveCut DEF IsPart
  <2> QED
    BY <2>5, <2>6, <2>8, <2>10, <2>11 DEF Untouched, now
<1> QED
  BY <1>0, <1>1, <1>2

\* A new span is below no other.
LEMMA BornIsPart ==
  ASSUME NEW st, Good(st), NEW r, r.id \in SpanID \cup {None},
         r.up \in SpanID \cup {None}, ~Ignored(st, r),
         NEW now, Good(now), IsBorn(st, r, now)
  PROVE  IsPart(now, {r.id}, st)
<1>0. /\ Typed(st) /\ InTree(st) = st.byID /\ st.byID \subseteq SpanID
      /\ r.id \in SpanID /\ r.id \notin st.byID
  BY DEF Good, Typed, Shape, Ignored, IsForest
<1>1. Typed(now) /\ InTree(now) = now.byID
  BY DEF Good, IsForest
<1>2. KidsAreSpans(st) /\ KidsAreSpans(now)
  BY <1>0, <1>1, TypedKids
<1>3. /\ now.stale = st.stale /\ now.byID = st.byID \cup {r.id}
      /\ now.node[r.id].kids = <<>>
  BY DEF IsBorn
<1>4. ASSUME NEW z \in SpanID \ {r.id}
      PROVE  ToSet(st.node[z].kids) = ToSet(now.node[z].kids) \ {r.id}
  <2>1. st.node[z].kids \in Seq(SpanID)
    BY <1>0 DEF Typed
  <2>2. r.id \notin ToSet(st.node[z].kids)
    <3>1. CASE z \in st.byID
      BY <1>0, <3>1, TreeFacts DEF ClosedUnder
    <3>2. CASE z \notin st.byID
      BY <3>2, BlankIs, EmptySet DEF Good, IsForest
    <3> QED
      BY <3>1, <3>2
  <2>3. CASE z = r.up /\ r.up \in st.byID
    <3>1. now.node[z].kids = Append(st.node[z].kids, r.id)
      BY <2>3 DEF IsBorn
    <3>2. ToSet(now.node[z].kids) = ToSet(st.node[z].kids) \cup {r.id}
      BY <1>0, <2>1, <3>1, AppendSet
    <3> QED
      BY <2>2, <3>2
  <2>4. CASE ~(z = r.up /\ r.up \in st.byID)
    <3>1. now.node[z] = st.node[z]
      BY <2>4 DEF IsBorn
    <3> QED
      BY <2>2, <3>1
  <2> QED
    BY <2>3, <2>4
<1>5. ClosedUnder(now, {r.id})
  BY <1>3, EmptySet DEF ClosedUnder
<1> QED
  BY <1>0, <1>1, <1>2, <1>3, <1>4, <1>5 DEF IsPart

\* A new span leaves every tree as it is but the one it is put in.
LEMMA BornUntouched ==
  ASSUME NEW st, Good(st), NEW r, r.id \in SpanID \cup {None},
         r.up \in SpanID \cup {None}, ~Ignored(st, r),
         NEW x \in st.byID, r.up \notin Below(st, {x})
  PROVE  Untouched(st, ApplyStarted(st, r), x)
<1> DEFINE now == ApplyStarted(st, r)
           B   == Below(st, {x})
<1>0. /\ Typed(st) /\ InTree(st) = st.byID /\ st.byID \subseteq SpanID
      /\ r.id \in SpanID /\ r.id \notin st.byID
  BY DEF Good, Typed, Shape, Ignored, IsForest
<1>1. Good(now) /\ IsBorn(st, r, now)
  BY <1>0, StartedGood, StartedIs
<1>2. Typed(now) /\ InTree(now) = now.byID
  BY <1>1 DEF Good, IsForest
<1> HIDE DEF now
<1>3. KidsAreSpans(st) /\ KidsAreSpans(now)
  BY <1>0, <1>2, TypedKids
<1>4. x \in B /\ B \subseteq st.byID /\ ClosedUnder(st, B)
  BY <1>3, BelowInTree, BelowClosed
<1>5. now.stale = st.stale /\ now.byID = st.byID \cup {r.id}
  BY <1>1 DEF IsBorn
<1>6. \A y \in B : now.node[y] = st.node[y]
  BY <1>0, <1>1, <1>4 DEF IsBorn
<1>7. IsPart(now, {r.id}, st)
  BY <1>0, <1>1, BornIsPart
<1>8. /\ ClosedUnder(now, {r.id})
      /\ \A z \in SpanID \ {r.id} :
           ToSet(st.node[z].kids) = ToSet(now.node[z].kids) \ {r.id}
  BY <1>7 DEF IsPart
<1>9. Below(now, {x}) = B
  <2>1. B = Below(now, {x}) \ {r.id}
    <3>1. x \in SpanID \ {r.id} /\ {r.id} \in SUBSET SpanID
      BY <1>0
    <3> QED
      BY <1>3, <1>8, <3>1, BelowCut
  <2>2. B \in SUBSET SpanID /\ {x} \subseteq B
    BY <1>0, <1>4
  <2>3. ClosedUnder(now, B)
    BY <1>4, <1>6 DEF ClosedUnder
  <2>4. Below(now, {x}) \subseteq B
    BY <2>2, <2>3, BelowLeast
  <2> QED
    BY <2>1, <2>4
<1>10. \A y \in B : Depth(now, y) = Depth(st, y)
  BY <1>0, <1>4, <1>7, AboveCut
<1> QED
  BY <1>5, <1>6, <1>9, <1>10 DEF Untouched, now

\* A record leaves every tree as it is that its span is not in.
LEMMA WriteUntouched ==
  ASSUME NEW st, Good(st), NEW r, IsRecord(r), r.kind # "start",
         Writable(st, r.id), NEW x \in st.byID, r.id \notin Below(st, {x})
  PROVE  Untouched(st, Apply(st, r), x)
<1> DEFINE now == Apply(st, r)
<1>0. Shape(st) /\ r.id \in SpanID
  BY DEF Good, Typed, Shape, Writable
<1>1. /\ now.byID = st.byID /\ now.roots = st.roots
      /\ \A y \in SpanID : now.node[y].kids = st.node[y].kids
  BY WriteGood
<1>2. PICK n : IsWrite(st, r.id, n, now)
  BY <1>0, WriteIs
<1> HIDE DEF now
<1>3. /\ now.stale = st.stale
      /\ \A y \in SpanID : y # r.id => now.node[y] = st.node[y]
  BY <1>0, <1>2 DEF IsWrite, Shape
<1>4. \A X : Below(now, X) = Below(st, X)
  BY <1>1, BelowSame
<1>5. \A y : Above(now, y) = Above(st, y)
  BY <1>1, <1>4 DEF Above, InTree
<1>6. \A y : Depth(now, y) = Depth(st, y)
  BY <1>5, DepthIs
<1>7. Below(st, {x}) \subseteq SpanID
  BY DEF Below
<1> QED
  BY <1>1, <1>3, <1>4, <1>6, <1>7 DEF Untouched, now

\* What LimitRoots and ClearOpenSpans leave of the nodes.
LEMMA LimitRootsNodes ==
  ASSUME NEW st, Good(st), NEW limit \in Int, limit > 0
  PROVE  LET now == LimitRoots(st, limit)
         IN  /\ now.byID \subseteq st.byID
             /\ \A x \in SpanID : now.node[x] \in {Blank, st.node[x]}
BY DEF LimitRoots, Forget, Good, Typed, Shape

LEMMA ClearOpenSpansNodes ==
  ASSUME NEW st, Good(st)
  PROVE  LET now == ClearOpenSpans(st)
         IN  /\ now.byID = st.byID \ Doomed(st)
             /\ \A x \in SpanID :
                  IF x \in Doomed(st) THEN now.node[x] = Blank
                  ELSE now.node[x] = [st.node[x] EXCEPT !.kids = Without(@, Doomed(st))]
<1> DEFINE gone == Doomed(st)
           kept == Forget(st, gone)
           now == ClearOpenSpans(st)
<1>0. Shape(st)
  BY DEF Good, Typed
<1>1. now = [kept EXCEPT !.roots = Without(@, gone), !.node = Pruned(kept, gone)]
  BY DEF ClearOpenSpans
<1> HIDE DEF now, gone
<1>2. /\ DOMAIN kept = DOMAIN st /\ kept.byID = st.byID \ gone
      /\ \A x \in SpanID : kept.node[x] = IF x \in gone THEN Blank ELSE st.node[x]
  BY <1>0 DEF Forget, Shape
<1> HIDE DEF kept
<1>3. now.byID = st.byID \ gone /\ now.node = Pruned(kept, gone)
  BY <1>0, <1>1, <1>2 DEF Shape
<1>4. \A x \in SpanID :
        now.node[x] = [kept.node[x] EXCEPT !.kids = Without(@, gone)]
  BY <1>3 DEF Pruned
<1> QED
  BY <1>2, <1>3, <1>4, BlankWithout DEF now, gone

\* A record adds no span to the index but its own.
LEMMA ApplyIndex ==
  ASSUME NEW st, Good(st), NEW r, IsRecord(r)
  PROVE  Apply(st, r).byID \subseteq st.byID \cup {r.id}
<1>0. Typed(st) /\ r.id \in SpanID \cup {None}
  BY DEF Good, IsRecord
<1>1. CASE r.kind = "start"
  <2>1. Apply(st, r) = ApplyStarted(st, r)
    BY <1>1 DEF Apply
  <2>2. CASE Ignored(st, r)
    BY <2>1, <2>2 DEF ApplyStarted
  <2>3. CASE ~Ignored(st, r)
    <3>1. IsBorn(st, r, ApplyStarted(st, r))
      BY <1>0, <2>3, StartedIs
    <3>2. ApplyStarted(st, r).byID = st.byID \cup {r.id}
      BY <3>1 DEF IsBorn
    <3> QED
      BY <2>1, <3>2
  <2> QED
    BY <2>2, <2>3
<1>2. CASE r.kind # "start" /\ Writable(st, r.id)
  <2>1. Apply(st, r).byID = st.byID
    BY <1>2, WriteGood
  <2> QED
    BY <2>1
<1>3. CASE r.kind # "start" /\ ~Writable(st, r.id)
  <2>1. Apply(st, r) = st
    BY <1>3 DEF IsRecord, Apply, ApplyUpdated, ApplyEnded, ApplyEvent
  <2> QED
    BY <2>1
<1> QED
  BY <1>1, <1>2, <1>3

-----------------------------------------------------------------------------
(***************************************************************************)
(* Timelines. An item that comes before another one in time, or at the same*)
(* time with a smaller index, precedes it; the zero time is the last.      *)
(***************************************************************************)
Timely(at) == at = None \/ at \in Int

IsItem(i) == Timely(i.at) /\ i.index \in Int

Precedes(i, j) ==
  \/ i.at # None /\ j.at = None
  \/ i.at # None /\ j.at # None /\ i.at < j.at
  \/ i.at = j.at /\ i.index < j.index

InRow(s) == \A i, j \in 1 .. Len(s) : i < j => Precedes(s[i], s[j])

LEMMA PrecedesTransitive ==
  ASSUME NEW i, NEW j, NEW k, IsItem(i), IsItem(j), IsItem(k),
         Precedes(i, j), Precedes(j, k)
  PROVE  Precedes(i, k)
BY DEF IsItem, Timely, Precedes

LEMMA PrecedesStrict ==
  ASSUME NEW i, NEW j, IsItem(i), IsItem(j), Precedes(i, j)
  PROVE  ~Precedes(j, i) /\ i # j
BY DEF IsItem, Timely, Precedes

\* The comparison function, for an item that has come later.
LEMMA AfterIs ==
  ASSUME NEW i, NEW j, IsItem(i), IsItem(j), i.index < j.index
  PROVE  IF After(i, j) THEN Precedes(j, i) ELSE Precedes(i, j)
BY DEF IsItem, Timely, After, Precedes

\* t is s with item in the place k.
Inserted(s, item, k, t) ==
  /\ k \in 1 .. Len(s) + 1
  /\ Len(t) = Len(s) + 1
  /\ t[k] = item
  /\ \A i \in 1 .. k - 1 : t[i] = s[i]
  /\ \A i \in k + 1 .. Len(s) + 1 : t[i] = s[i - 1]

LEMMA InsertItemIs ==
  ASSUME NEW S, NEW s \in Seq(S), NEW item \in S,
         IsItem(item), \A i \in 1 .. Len(s) : IsItem(s[i]) /\ s[i].index < item.index
  PROVE  /\ InsertItem(s, item) \in Seq(S)
         /\ \E k \in 1 .. Len(s) + 1 :
              /\ Inserted(s, item, k, InsertItem(s, item))
              /\ \A i \in 1 .. k - 1 : Precedes(s[i], item)
              /\ k <= Len(s) => Precedes(item, s[k])
<1> DEFINE I == {i \in 1 .. Len(s) : After(s[i], item)}
           m == Len(s)
           t == InsertItem(s, item)
<1>1. m \in Nat /\ \A i \in 1 .. m : s[i] \in S
  BY LenProperties
<1>2. /\ I = {} => t = Append(s, item)
      /\ I # {} /\ Min(I) # 0 => t = InsertAt(s, Min(I), item)
  BY DEF InsertItem, SelectInSeq
<1>3. \A i \in 1 .. m : IF i \in I THEN Precedes(item, s[i]) ELSE Precedes(s[i], item)
  BY AfterIs
<1> HIDE DEF t
<1>4. CASE I = {}
  <2>1. t = Append(s, item)
    BY <1>2, <1>4
  <2>2. /\ t \in Seq(S) /\ Len(t) = m + 1 /\ t[m + 1] = item
        /\ \A i \in 1 .. m : t[i] = s[i]
    BY <2>1, AppendProperties
  <2>3. Inserted(s, item, m + 1, t) /\ m + 1 \in 1 .. Len(s) + 1
    BY <1>1, <2>2 DEF Inserted
  <2>4. /\ \A i \in 1 .. (m + 1) - 1 : Precedes(s[i], item)
        /\ ~(m + 1 <= Len(s))
    BY <1>1, <1>3, <1>4
  <2> QED
    BY <2>2, <2>3, <2>4 DEF t
<1>5. CASE I # {}
  <2>1. PICK k \in I : \A i \in I : k <= i
    <3>1. I \in SUBSET Nat
      BY <1>1
    <3> HIDE DEF I
    <3> QED
      BY <1>5, <3>1, Least
  <2>2. Min(I) = k /\ k \in 1 .. m
    <3>1. k \in Nat /\ \A i \in I : i \in Nat
      BY <1>1
    <3> HIDE DEF I
    <3> QED
      BY <1>1, <2>1, <3>1 DEF Min, I
  <2>3. t = InsertAt(s, k, item)
    BY <1>2, <1>5, <2>2
  <2> DEFINE l == SubSeq(s, 1, k - 1)
             r == SubSeq(s, k, m)
             u == l \o <<item>>
  <2>4. /\ l \in Seq(S) /\ Len(l) = k - 1 /\ \A i \in 1 .. k - 1 : l[i] = s[i]
        /\ r \in Seq(S) /\ Len(r) = m - k + 1
        /\ \A i \in 1 .. m - k + 1 : r[i] = s[i + k - 1]
    BY <1>1, <2>2, SubSeqProperties
  <2>5. t = u \o r
    BY <2>3 DEF InsertAt
  <2> HIDE DEF l, r
  <2>6. /\ u \in Seq(S) /\ Len(u) = k /\ u[k] = item
        /\ \A i \in 1 .. k - 1 : u[i] = s[i]
    <3>1. /\ <<item>> \in Seq(S) /\ Len(<<item>>) = 1 /\ <<item>>[1] = item
      OBVIOUS
    <3>2. /\ u \in Seq(S) /\ Len(u) = (k - 1) + 1
          /\ \A i \in 1 .. (k - 1) + 1 :
               u[i] = IF i <= k - 1 THEN l[i] ELSE <<item>>[i - (k - 1)]
      BY <2>4, <3>1, ConcatProperties
    <3>3. u[k] = <<item>>[1] /\ \A i \in 1 .. k - 1 : u[i] = l[i]
      BY <2>2, <3>2
    <3> QED
      BY <2>2, <2>4, <3>1, <3>2, <3>3
  <2> HIDE DEF u
  <2>7. /\ t \in Seq(S) /\ Len(t) = m + 1
        /\ \A i \in 1 .. m + 1 : t[i] = IF i <= k THEN u[i] ELSE r[i - k]
    <3>1. /\ u \o r \in Seq(S) /\ Len(u \o r) = Len(u) + Len(r)
          /\ \A i \in 1 .. Len(u) + Len(r) :
               (u \o r)[i] = IF i <= Len(u) THEN u[i] ELSE r[i - Len(u)]
      <4>1. u \in Seq(S) /\ r \in Seq(S)
        BY <2>4, <2>6
      <4> QED
        BY <4>1, ConcatProperties
    <3>2. Len(u) + Len(r) = m + 1
      BY <1>1, <2>2, <2>4, <2>6
    <3> QED
      BY <2>5, <2>6, <3>1, <3>2
  <2>8. Inserted(s, item, k, t)
    BY <1>1, <2>2, <2>4, <2>6, <2>7 DEF Inserted
  <2>9. ASSUME NEW i \in 1 .. k - 1 PROVE Precedes(s[i], item)
    <3>1. i \in 1 .. m /\ i \notin I
      BY <1>1, <2>1, <2>2
    <3> QED
      BY <1>3, <3>1
  <2>10. Precedes(item, s[k])
    BY <1>3, <2>1
  <2> QED
    BY <1>1, <2>2, <2>7, <2>8, <2>9, <2>10 DEF t
<1> QED
  BY <1>4, <1>5

\* f[n] is the first n items, sorted.
Sorts(f, items, m) ==
  f = [n \in 0 .. m |-> IF n = 0 THEN <<>> ELSE InsertItem(f[n - 1], items[n])]

LEMMA SortsExist ==
  ASSUME NEW items, NEW m \in Nat
  PROVE  \E f : Sorts(f, items, m)
<1> DEFINE B == {n \in Nat : \E f : Sorts(f, items, n)}
<1>1. 0 \in B
  <2>1. Sorts([n \in 0 .. 0 |-> <<>>], items, 0)
    BY DEF Sorts
  <2> QED
    BY <2>1
<1>2. ASSUME NEW n \in Nat, n \in B PROVE n + 1 \in B
  <2>1. PICK f : Sorts(f, items, n)
    BY <1>2
  <2> DEFINE h == [k \in 0 .. n + 1 |-> IF k = n + 1 THEN InsertItem(f[n], items[n + 1])
                                        ELSE f[k]]
  <2>2. ASSUME NEW k \in 0 .. n + 1
        PROVE  h[k] = IF k = 0 THEN <<>> ELSE InsertItem(h[k - 1], items[k])
    <3>1. CASE k = n + 1
      <4>1. k # 0 /\ k - 1 = n /\ n \in 0 .. n + 1 /\ n # n + 1
        BY <3>1
      <4>2. h[k] = InsertItem(f[n], items[n + 1]) /\ h[n] = f[n]
        BY <3>1, <4>1
      <4> QED
        BY <3>1, <4>1, <4>2
    <3>2. CASE k # n + 1
      <4>1. k \in 0 .. n /\ h[k] = f[k] /\ (k # 0 => h[k - 1] = f[k - 1])
        BY <3>2
      <4>2. f[k] = IF k = 0 THEN <<>> ELSE InsertItem(f[k - 1], items[k])
        BY <2>1, <4>1 DEF Sorts
      <4> QED
        BY <4>1, <4>2
    <3> QED
      BY <3>1, <3>2
  <2>3. Sorts(h, items, n + 1)
    BY <2>2 DEF Sorts
  <2> QED
    BY <2>3
<1>3. Nat \subseteq B
  <2> HIDE DEF B
  <2> QED
    BY <1>1, <1>2, ByInduction
<1> QED
  BY <1>3

\* The items of a timeline before they are sorted.
Numbered(items) ==
  \A i \in 1 .. Len(items) : IsItem(items[i]) /\ items[i].index = i

\* t has the entries of s from 1 to n, each before those that it precedes.
InOrderOf(s, n, t) ==
  /\ Len(t) = n /\ InRow(t)
  /\ {t[i] : i \in 1 .. n} = {s[i] : i \in 1 .. n}

LEMMA InsertInOrder ==
  ASSUME NEW S, NEW items \in Seq(S), Numbered(items), NEW n \in Nat,
         n + 1 <= Len(items), NEW s \in Seq(S), InOrderOf(items, n, s)
  PROVE  /\ InsertItem(s, items[n + 1]) \in Seq(S)
         /\ InOrderOf(items, n + 1, InsertItem(s, items[n + 1]))
<1> DEFINE item == items[n + 1]
           t == InsertItem(s, item)
<1>1. /\ Len(items) \in Nat /\ n + 1 \in 1 .. Len(items) /\ item \in S
      /\ IsItem(item) /\ item.index = n + 1 /\ Len(s) = n
  BY LenProperties DEF Numbered, InOrderOf
<1>2. \A i \in 1 .. n : IsItem(s[i]) /\ s[i].index < item.index
  <2> TAKE i \in 1 .. n
  <2>1. PICK j \in 1 .. n : s[i] = items[j]
    BY DEF InOrderOf
  <2> QED
    BY <1>1, <2>1 DEF Numbered
<1> HIDE DEF item
<1>3. PICK k \in 1 .. n + 1 :
        /\ Inserted(s, item, k, t) /\ t \in Seq(S)
        /\ \A i \in 1 .. k - 1 : Precedes(s[i], item)
        /\ k <= n => Precedes(item, s[k])
  BY <1>1, <1>2, InsertItemIs
<1> HIDE DEF t
<1>4. /\ Len(t) = n + 1 /\ t[k] = item
      /\ \A i \in 1 .. k - 1 : t[i] = s[i]
      /\ \A i \in k + 1 .. n + 1 : t[i] = s[i - 1] /\ i - 1 \in 1 .. n
  BY <1>1, <1>3 DEF Inserted
<1>5. {t[i] : i \in 1 .. n + 1} = {items[i] : i \in 1 .. n + 1}
  <2>1. {s[i] : i \in 1 .. n} = {items[i] : i \in 1 .. n}
    BY DEF InOrderOf
  <2>2. {items[i] : i \in 1 .. n + 1} = {s[i] : i \in 1 .. n} \cup {item}
    <3>1. {items[i] : i \in 1 .. n + 1} = {items[i] : i \in 1 .. n} \cup {items[n + 1]}
      OBVIOUS
    <3> QED
      BY <2>1, <3>1 DEF item
  <2>3. ASSUME NEW i \in 1 .. n + 1 PROVE t[i] \in {s[j] : j \in 1 .. n} \cup {item}
    <3>1. i < k \/ i = k \/ i \in k + 1 .. n + 1
      OBVIOUS
    <3> QED
      BY <1>4, <3>1
  <2>4. ASSUME NEW i \in 1 .. n PROVE \E j \in 1 .. n + 1 : t[j] = s[i]
    <3>1. CASE i < k
      BY <1>4, <3>1
    <3>2. CASE ~(i < k)
      <4>1. i + 1 \in k + 1 .. n + 1 /\ (i + 1) - 1 = i /\ i + 1 \in 1 .. n + 1
        BY <3>2
      <4> QED
        BY <1>4, <4>1
    <3> QED
      BY <3>1, <3>2
  <2>5. \E j \in 1 .. n + 1 : t[j] = item
    BY <1>4
  <2> DEFINE old == {s[j] : j \in 1 .. n} \cup {item}
             new == {t[j] : j \in 1 .. n + 1}
  <2>6. new \subseteq old
    BY <2>3
  <2>7. old \subseteq new
    BY <2>4, <2>5
  <2> QED
    BY <2>2, <2>6, <2>7
<1>6. InRow(t)
  <2> SUFFICES ASSUME NEW i \in 1 .. n + 1, NEW j \in 1 .. n + 1, i < j
               PROVE  Precedes(t[i], t[j])
    BY <1>4 DEF InRow
  <2>1. \A a, b \in 1 .. n : a < b => Precedes(s[a], s[b])
    BY <1>1 DEF InOrderOf, InRow
  <2>2. CASE j < k
    BY <1>4, <2>1, <2>2
  <2>3. CASE j = k
    BY <1>3, <1>4, <2>3
  <2>4. CASE j > k
    <3>1. t[j] = s[j - 1] /\ j - 1 \in 1 .. n /\ k <= j - 1 /\ k \in 1 .. n
      BY <1>4, <2>4
    <3>2. CASE i = k
      <4>1. Precedes(item, s[k]) /\ IsItem(item) /\ IsItem(s[k]) /\ IsItem(s[j - 1])
        BY <1>1, <1>2, <1>3, <3>1
      <4>2. k = j - 1 \/ Precedes(s[k], s[j - 1])
        BY <2>1, <3>1
      <4>3. Precedes(item, s[j - 1])
        BY <4>1, <4>2, PrecedesTransitive
      <4> QED
        BY <1>4, <3>1, <3>2, <4>3
    <3>3. CASE i < k
      <4>1. t[i] = s[i] /\ i \in 1 .. n /\ i < j - 1
        BY <1>4, <3>1, <3>3
      <4> QED
        BY <2>1, <3>1, <4>1
    <3>4. CASE i > k
      <4>1. t[i] = s[i - 1] /\ i - 1 \in 1 .. n /\ i - 1 < j - 1
        BY <1>4, <3>4
      <4> QED
        BY <2>1, <3>1, <4>1
    <3> QED
      BY <3>2, <3>3, <3>4
  <2> QED
    BY <2>2, <2>3, <2>4
<1>7. InOrderOf(items, n + 1, t)
  BY <1>4, <1>5, <1>6 DEF InOrderOf
<1> QED
  BY <1>3, <1>7 DEF t, item

\* A sorted timeline has the items of the timeline, each before those that it
\* precedes.
LEMMA SortedIs ==
  ASSUME NEW S, NEW items \in Seq(S), Numbered(items)
  PROVE  /\ Sorted(items) \in Seq(S)
         /\ InOrderOf(items, Len(items), Sorted(items))
<1> DEFINE m == Len(items)
           h == CHOOSE f : Sorts(f, items, m)
<1>1. m \in Nat
  BY LenProperties
<1>2. Sorted(items) = h[m]
  BY DEF Sorted, Sorts
<1>3. Sorts(h, items, m)
  <2>1. \E f : Sorts(f, items, m)
    BY <1>1, SortsExist
  <2> HIDE DEF m
  <2> QED
    BY <2>1
<1> HIDE DEF h
<1> DEFINE T == {n \in Nat : n <= m => h[n] \in Seq(S) /\ InOrderOf(items, n, h[n])}
<1>4. 0 \in T
  <2>1. h[0] = <<>>
    BY <1>1, <1>3 DEF Sorts
  <2>2. <<>> \in Seq(S) /\ InOrderOf(items, 0, <<>>)
    BY DEF InOrderOf, InRow
  <2> QED
    BY <2>1, <2>2
<1>5. ASSUME NEW n \in Nat, n \in T PROVE n + 1 \in T
  <2> SUFFICES ASSUME n + 1 <= m
               PROVE  h[n + 1] \in Seq(S) /\ InOrderOf(items, n + 1, h[n + 1])
    OBVIOUS
  <2>1. n + 1 \in 0 .. m /\ n + 1 # 0 /\ (n + 1) - 1 = n /\ n <= m
    BY <1>1
  <2>2. h[n + 1] = InsertItem(h[n], items[n + 1])
    BY <1>3, <2>1 DEF Sorts
  <2>3. h[n] \in Seq(S) /\ InOrderOf(items, n, h[n])
    BY <1>5, <2>1
  <2> QED
    BY <2>2, <2>3, InsertInOrder
<1>6. Nat \subseteq T
  <2> HIDE DEF T
  <2> QED
    BY <1>4, <1>5, ByInduction
<1> QED
  BY <1>1, <1>2, <1>6
\* The times of a store's events and spans.
Moments(events) == \E S : events \in Seq(S) /\ \A e \in S : e.at \in Int

Timed(st) ==
  \A x \in SpanID : /\ Moments(st.node[x].events)
                    /\ x \in st.byID => st.node[x].at \in Int

LEMMA NoMoments ==
  Moments(<<>>)
<1> DEFINE S == {}
<1>1. <<>> \in Seq(S) /\ \A e \in S : e.at \in Int
  BY EmptySeq
<1> HIDE DEF S
<1> QED
  BY <1>1 DEF Moments

LEMMA OneMoreMoment ==
  ASSUME NEW events, Moments(events), NEW e, e.at \in Int
  PROVE  Moments(Append(events, e))
<1>1. PICK S : events \in Seq(S) /\ \A d \in S : d.at \in Int
  BY DEF Moments
<1> DEFINE T == S \cup {e}
<1>2. events \in Seq(T)
  <2>1. events \in [1 .. Len(events) -> S] /\ Len(events) \in Nat
    BY <1>1, LenProperties
  <2>2. events \in [1 .. Len(events) -> T]
    BY <2>1
  <2> QED
    BY <2>1, <2>2
<1>3. Append(events, e) \in Seq(T) /\ \A d \in T : d.at \in Int
  BY <1>1, <1>2, AppendProperties
<1> QED
  BY <1>3 DEF Moments

LEMMA TimedSame ==
  ASSUME NEW st, Timed(st), NEW now, now.byID \subseteq st.byID,
         \A x \in SpanID :
           /\ \/ now.node[x] = Blank
              \/ now.node[x].events = st.node[x].events
           /\ x \in now.byID => now.node[x].at = st.node[x].at
  PROVE  Timed(now)
<1>1. Blank.events = <<>>
  BY DEF Blank
<1> QED
  BY <1>1, NoMoments DEF Timed

LEMMA EmptyTimed ==
  ASSUME NEW allow
  PROVE  Timed(Empty(allow))
<1>1. Blank.events = <<>>
  BY DEF Blank
<1> QED
  BY <1>1, NoMoments DEF Timed, Empty

\* A record that has a time when it needs one.
HasTime(r) == r.kind \in {"start", "event"} => Timely(r.at)

LEMMA TimeValueIs ==
  ASSUME NEW at, Timely(at)
  PROVE  TimeValue(at) \in Int
BY DEF Timely, TimeValue, Epoch

LEMMA StartTimed ==
  ASSUME NEW st, Good(st), Timed(st), NEW r, r.id \in SpanID \cup {None},
         Timely(r.at), ~Ignored(st, r)
  PROVE  Timed(ApplyStarted(st, r))
<1> DEFINE now == ApplyStarted(st, r)
<1>0. Typed(st) /\ r.id \in SpanID /\ Shape(st)
  BY DEF Good, Typed, Ignored
<1>1. IsBorn(st, r, now)
  BY <1>0, StartedIs
<1> HIDE DEF now
<1>2. ASSUME NEW x \in SpanID
      PROVE  /\ Moments(now.node[x].events)
             /\ x \in now.byID => now.node[x].at \in Int
  <2>1. /\ DOMAIN st.node[x] = DOMAIN Blank /\ Moments(st.node[x].events)
        /\ x \in st.byID => st.node[x].at \in Int
        /\ x # r.id => (x \in now.byID <=> x \in st.byID)
    BY <1>0, <1>1 DEF Shape, Timed, IsBorn
  <2>2. CASE x = r.id
    <3>1. now.node[x] = [Blank EXCEPT !.up = r.up, !.at = TimeValue(r.at),
                                      !.attrs = r.attrs]
      BY <1>1, <2>2 DEF IsBorn
    <3>2. now.node[x].events = <<>> /\ now.node[x].at = TimeValue(r.at)
      BY <3>1 DEF Blank
    <3> QED
      BY <3>2, NoMoments, TimeValueIs
  <2>3. CASE x # r.id /\ x = r.up /\ r.up \in st.byID
    <3>1. now.node[x] = [st.node[x] EXCEPT !.kids = Append(@, r.id)]
      BY <1>1, <2>3 DEF IsBorn
    <3>2. now.node[x].events = st.node[x].events /\ now.node[x].at = st.node[x].at
      BY <2>1, <3>1, BlankIs
    <3> QED
      BY <2>1, <2>3, <3>2
  <2>4. CASE x # r.id /\ ~(x = r.up /\ r.up \in st.byID)
    <3>1. now.node[x] = st.node[x]
      BY <1>1, <2>4 DEF IsBorn
    <3> QED
      BY <2>1, <2>4, <3>1
  <2> QED
    BY <2>2, <2>3, <2>4
<1> QED
  BY <1>2 DEF Timed, now

LEMMA ApplyTimed ==
  ASSUME NEW st, Good(st), Timed(st), NEW r, IsRecord(r), HasTime(r)
  PROVE  Timed(Apply(st, r))
<1>0. Typed(st) /\ Shape(st) /\ r.id \in SpanID \cup {None}
  BY DEF Good, Typed, IsRecord
<1>1. CASE r.kind = "start"
  <2>1. Apply(st, r) = ApplyStarted(st, r) /\ Timely(r.at)
    BY <1>1 DEF Apply, HasTime
  <2>2. CASE Ignored(st, r)
    BY <2>1, <2>2 DEF ApplyStarted
  <2>3. CASE ~Ignored(st, r)
    BY <1>0, <2>1, <2>3, StartTimed
  <2> QED
    BY <2>2, <2>3
<1>2. CASE r.kind # "start" /\ ~Writable(st, r.id)
  <2>1. Apply(st, r) = st
    BY <1>2 DEF IsRecord, Apply, ApplyUpdated, ApplyEnded, ApplyEvent
  <2> QED
    BY <2>1
<1>3. CASE r.kind # "start" /\ Writable(st, r.id)
  <2> DEFINE old == st.node[r.id]
             e == [at |-> TimeValue(r.at), severity |-> r.severity,
                   attrs |-> r.attrs]
             updated == [old EXCEPT !.attrs = FoldLeft(Merge, @, r.attrs)]
             ended == [old EXCEPT !.done = TRUE, !.endedAt = TimeValue(r.at),
                                  !.how = r.how, !.error = r.error]
             longer == [old EXCEPT !.events = Append(@, e)]
             n == IF r.kind = "update" THEN updated
                  ELSE IF r.kind = "end" THEN ended ELSE longer
  <2>0. r.kind \in {"update", "end", "event"} /\ r.id \in SpanID
    BY <1>0, <1>3 DEF IsRecord, Writable, Shape
  <2>1. DOMAIN old = DOMAIN Blank /\ Moments(old.events) /\ old.at \in Int
    BY <1>0, <1>3, <2>0 DEF Shape, Timed, Writable
  <2>2. Apply(st, r) = [st EXCEPT !.node = [@ EXCEPT ![r.id] = n]]
    <3>1. CASE r.kind = "update"
      <4>1. Apply(st, r) = ApplyUpdated(st, r)
        BY <3>1 DEF Apply
      <4>2. ApplyUpdated(st, r) = [st EXCEPT !.node = [@ EXCEPT ![r.id] = updated]]
        BY <1>3 DEF ApplyUpdated
      <4> QED
        BY <3>1, <4>1, <4>2
    <3>2. CASE r.kind = "end"
      <4>1. Apply(st, r) = ApplyEnded(st, r)
        BY <3>2 DEF Apply
      <4>2. ApplyEnded(st, r) = [st EXCEPT !.node = [@ EXCEPT ![r.id] = ended]]
        BY <1>3 DEF ApplyEnded
      <4> QED
        BY <3>2, <4>1, <4>2
    <3>3. CASE r.kind = "event"
      BY <1>0, <1>3, <2>0, <3>3 DEF Apply, ApplyEvent, Shape
    <3> QED
      BY <2>0, <3>1, <3>2, <3>3
  <2>3. Moments(n.events) /\ n.at \in Int
    <3>1. CASE r.kind = "update"
      <4>1. updated.events = old.events /\ updated.at = old.at
        <5> HIDE DEF old
        <5> QED
          BY <2>1, BlankIs
      <4> QED
        BY <2>1, <3>1, <4>1
    <3>2. CASE r.kind = "end"
      <4>1. ended.events = old.events /\ ended.at = old.at
        <5> HIDE DEF old
        <5> QED
          BY <2>1, BlankIs
      <4> QED
        BY <2>1, <3>2, <4>1
    <3>3. CASE r.kind = "event"
      <4>1. longer.events = Append(old.events, e) /\ longer.at = old.at
        <5> HIDE DEF old, e
        <5> QED
          BY <2>1, BlankIs
      <4>2. e.at \in Int
        BY <3>3, TimeValueIs DEF HasTime
      <4>3. Moments(Append(old.events, e))
        <5> HIDE DEF e
        <5> QED
          BY <2>1, <4>2, OneMoreMoment
      <4> QED
        BY <2>1, <3>3, <4>1, <4>3
    <3> QED
      BY <2>0, <3>1, <3>2, <3>3
  <2> HIDE DEF n
  <2>4. /\ Apply(st, r).byID = st.byID
        /\ \A x \in SpanID : Apply(st, r).node[x] = IF x = r.id THEN n ELSE st.node[x]
    BY <1>0, <2>0, <2>2 DEF Shape
  <2> QED
    BY <2>3, <2>4 DEF Timed
<1> QED
  BY <1>1, <1>2, <1>3

LEMMA LimitRootsTimed ==
  ASSUME NEW st, Good(st), Timed(st), NEW limit \in Int
  PROVE  Timed(LimitRoots(st, limit))
<1>1. CASE limit <= 0
  BY <1>1, EmptyTimed DEF LimitRoots, Clear
<1>2. CASE limit > 0
  <2> DEFINE now == LimitRoots(st, limit)
  <2>1. /\ now.byID \subseteq st.byID
        /\ \A x \in SpanID : now.node[x] \in {Blank, st.node[x]}
    BY <1>2, LimitRootsNodes
  <2>2. \A x \in now.byID : now.node[x] = st.node[x]
    BY <1>2, LimitRootsUntouched, BelowInTree DEF Untouched
  <2> HIDE DEF now
  <2>3. Timed(now)
    BY <2>1, <2>2, TimedSame
  <2> QED
    BY <2>3 DEF now
<1> QED
  BY <1>1, <1>2

LEMMA ClearOpenSpansTimed ==
  ASSUME NEW st, Good(st), Timed(st)
  PROVE  Timed(ClearOpenSpans(st))
<1> DEFINE now == ClearOpenSpans(st)
<1>0. Shape(st) /\ st.byID \subseteq SpanID
  BY DEF Good, Typed, Shape
<1>1. /\ now.byID = st.byID \ Doomed(st)
      /\ \A x \in SpanID :
           IF x \in Doomed(st) THEN now.node[x] = Blank
           ELSE now.node[x] = [st.node[x] EXCEPT !.kids = Without(@, Doomed(st))]
  BY ClearOpenSpansNodes
<1> HIDE DEF now
<1>2. \A x \in SpanID : x \notin Doomed(st) =>
        now.node[x].events = st.node[x].events /\ now.node[x].at = st.node[x].at
  BY <1>0, <1>1, BlankIs DEF Shape
<1>3. Timed(now)
  BY <1>0, <1>1, <1>2, TimedSame
<1> QED
  BY <1>3 DEF now

\* The timeline of a span has its events and children, each before those that
\* it precedes.
LEMMA UnsortedIs ==
  ASSUME NEW st, Good(st), Timed(st), NEW x \in SpanID
  PROVE  LET u == Unsorted(st, x)
             n == Len(st.node[x].events)
             k == Len(st.node[x].kids)
         IN  /\ n \in Nat /\ k \in Nat /\ Len(u) = n + k
             /\ \E S : u \in Seq(S)
             /\ Numbered(u)
             /\ \A i \in 1 .. n + k : u[i].at \in Int
<1> DEFINE u == Unsorted(st, x)
           n == Len(st.node[x].events)
           k == Len(st.node[x].kids)
<1>1. PICK S : st.node[x].events \in Seq(S) /\ \A e \in S : e.at \in Int
  BY DEF Timed, Moments
<1>2. st.node[x].kids \in Seq(SpanID) /\ ToSet(st.node[x].kids) \subseteq st.byID
  BY TreeFacts, BlankIs, EmptySet DEF Good, Typed, IsForest, ClosedUnder
<1>3. /\ n \in Nat /\ k \in Nat /\ \A i \in 1 .. n : st.node[x].events[i].at \in Int
      /\ \A i \in 1 .. k : /\ st.node[x].kids[i] \in st.byID
                           /\ st.node[st.node[x].kids[i]].at \in Int
  <2>1. n \in Nat /\ k \in Nat /\ \A i \in 1 .. n : st.node[x].events[i] \in S
    BY <1>1, <1>2, LenProperties
  <2>2. \A i \in 1 .. k : st.node[x].kids[i] \in ToSet(st.node[x].kids)
    BY <1>2, ToSetIn
  <2> QED
    BY <1>1, <1>2, <2>1, <2>2 DEF Timed, Good, Typed, Shape
<1>4. u = [i \in 1 .. n + k |->
            IF i <= n
            THEN [at |-> st.node[x].events[i].at, index |-> i, show |-> None]
            ELSE [at |-> st.node[st.node[x].kids[i - n]].at, index |-> i,
                  show |-> st.node[x].kids[i - n]]]
  BY DEF Unsorted
<1> HIDE DEF u, n, k
<1>5. ASSUME NEW i \in 1 .. n + k PROVE u[i].at \in Int /\ u[i].index = i
  <2>1. CASE i <= n
    BY <1>3, <1>4, <2>1
  <2>2. CASE ~(i <= n)
    <3>1. i - n \in 1 .. k
      BY <1>3, <2>2
    <3> QED
      BY <1>3, <1>4, <2>2, <3>1
  <2> QED
    BY <2>1, <2>2
<1>6. u \in Seq({u[i] : i \in 1 .. n + k}) /\ Len(u) = n + k
  BY <1>3, <1>4
<1>7. Numbered(u)
  BY <1>3, <1>5, <1>6 DEF Numbered, IsItem, Timely
<1> QED
  BY <1>3, <1>5, <1>6, <1>7 DEF u, n, k

LEMMA TimelineIs ==
  ASSUME NEW st, Good(st), Timed(st), NEW x \in SpanID
  PROVE  /\ \E S : TimelineItems(st, x) \in Seq(S)
         /\ InOrderOf(Unsorted(st, x), Len(Unsorted(st, x)), TimelineItems(st, x))
<1>1. PICK S : Unsorted(st, x) \in Seq(S)
  BY UnsortedIs
<1>2. Numbered(Unsorted(st, x))
  BY UnsortedIs
<1> QED
  BY <1>1, <1>2, SortedIs DEF TimelineItems
-----------------------------------------------------------------------------
(***************************************************************************)
(* What an update makes of a list of attributes: a fold of Merge, which is *)
(* determined by its values (MergesBy), one attribute after the other.     *)
(***************************************************************************)
LEMMA MinIs ==
  ASSUME NEW n \in Nat, NEW I \in SUBSET (1 .. n), I # {}
  PROVE  Min(I) \in I /\ \A j \in I : Min(I) <= j
<1>1. I \in SUBSET Nat
  OBVIOUS
<1>2. \E m \in I : \A j \in I : m <= j
  BY <1>1, Least
<1> QED
  BY <1>2 DEF Min

LEMMA MaxIs ==
  ASSUME NEW n \in Nat, NEW I \in SUBSET (1 .. n), I # {}
  PROVE  Max(I) \in I /\ \A j \in I : Max(I) >= j
<1> DEFINE T == {n - j : j \in I}
<1>1. T \in SUBSET Nat /\ T # {}
  <2>1. ASSUME NEW j \in I PROVE n - j \in Nat
    <3>1. j \in 1 .. n
      OBVIOUS
    <3> QED
      BY <3>1
  <2>2. PICK j : j \in I
    OBVIOUS
  <2>3. n - j \in T
    BY <2>2
  <2>4. T \in SUBSET Nat
    BY <2>1
  <2> QED
    BY <2>3, <2>4
<1>2. PICK t \in T : \A u \in T : t <= u
  <2> HIDE DEF T
  <2> QED
    BY <1>1, Least
<1>3. PICK m \in I : t = n - m
  OBVIOUS
<1>4. ASSUME NEW j \in I PROVE m >= j
  <2>1. n - j \in T
    OBVIOUS
  <2>2. n - m <= n - j
    BY <1>2, <1>3, <2>1
  <2>3. m \in Int /\ j \in Int
    OBVIOUS
  <2> QED
    BY <2>2, <2>3
<1>5. \E k \in I : \A j \in I : k >= j
  BY <1>4
<1> QED
  BY <1>5 DEF Max

LEMMA FirstIs ==
  ASSUME NEW S, NEW q \in Seq(S), NEW k
  PROVE  LET i == FirstWith(q, k)
         IN  \/ i = 0 /\ \A j \in 1 .. Len(q) : q[j].key # k
             \/ i \in 1 .. Len(q) /\ q[i].key = k /\ \A j \in 1 .. i - 1 : q[j].key # k
<1> DEFINE I == {j \in 1 .. Len(q) : q[j].key = k}
<1>1. FirstWith(q, k) = IF I # {} THEN Min(I) ELSE 0
  BY DEF FirstWith, SelectInSeq
<1>2. Len(q) \in Nat /\ I \in SUBSET (1 .. Len(q))
  BY LenProperties
<1>3. CASE I = {}
  BY <1>1, <1>3
<1>4. CASE I # {}
  <2> DEFINE i == Min(I)
  <2>1. i \in I /\ \A j \in I : i <= j
    <3> HIDE DEF I
    <3> QED
      BY <1>2, <1>4, MinIs
  <2>2. FirstWith(q, k) = i
    BY <1>1, <1>4
  <2> HIDE DEF i
  <2>3. ASSUME NEW j \in 1 .. i - 1 PROVE q[j].key # k
    <3>1. i \in 1 .. Len(q) /\ j \in 1 .. Len(q) /\ ~(i <= j)
      BY <1>2, <2>1
    <3> QED
      BY <2>1, <3>1
  <2> QED
    BY <2>1, <2>2, <2>3
<1> QED
  BY <1>3, <1>4

LEMMA MergeIs ==
  ASSUME NEW q, NEW a
  PROVE  Merge(q, a) = IF a.key = None THEN q
                       ELSE IF FirstWith(q, a.key) = 0 THEN Append(q, a)
                       ELSE [q EXCEPT ![FirstWith(q, a.key)] = a]
<1> DEFINE i == FirstWith(q, a.key)
<1>1. Merge(q, a) = CASE a.key = None -> q
                      [] a.key # None /\ i # 0 -> [q EXCEPT ![i] = a]
                      [] OTHER -> Append(q, a)
  BY DEF Merge, FirstWith
<1> HIDE DEF i
<1>2. Merge(q, a) = IF a.key = None THEN q
                    ELSE IF i = 0 THEN Append(q, a) ELSE [q EXCEPT ![i] = a]
  BY <1>1
<1> QED
  BY <1>2 DEF i

-----------------------------------------------------------------------------
\* f[s] is what the members of q with an index in s make of p.
MergesBy(f, p, q) ==
  f = [s \in SUBSET DOMAIN q |->
         IF s = {} THEN p ELSE Merge(f[s \ {Max(s)}], q[Max(s)])]

LEMMA MergesExist ==
  ASSUME NEW p, NEW S, NEW q \in Seq(S)
  PROVE  \E f : MergesBy(f, p, q)
<1> DEFINE B == {s \in Seq(S) : \E f : MergesBy(f, p, s)}
<1>1. <<>> \in B
  <2> DEFINE f == [s \in {{}} |-> p]
  <2>1. DOMAIN <<>> = {} /\ SUBSET {} = {{}} /\ <<>> \in Seq(S)
    BY EmptySeq
  <2>2. MergesBy(f, p, <<>>)
    BY <2>1 DEF MergesBy
  <2> HIDE DEF f
  <2> QED
    BY <2>1, <2>2
<1>2. ASSUME NEW s \in Seq(S), s \in B, NEW x \in S PROVE Append(s, x) \in B
  <2>1. PICK f : MergesBy(f, p, s)
    BY <1>2
  <2> DEFINE u == Append(s, x)
             m == Len(s)
             g(t) == IF m + 1 \in t THEN Merge(f[t \ {m + 1}], x) ELSE f[t]
             h == [t \in SUBSET (1 .. m + 1) |-> g(t)]
  <2>2. /\ m \in Nat /\ DOMAIN u = 1 .. m + 1 /\ DOMAIN s = 1 .. m /\ u \in Seq(S)
        /\ u[m + 1] = x /\ \A n \in 1 .. m : u[n] = s[n]
    OBVIOUS
  <2>3. f = [t \in SUBSET (1 .. m) |->
               IF t = {} THEN p ELSE Merge(f[t \ {Max(t)}], s[Max(t)])]
    BY <2>1, <2>2 DEF MergesBy
  <2> HIDE DEF u, m
  <2>4. ASSUME NEW t \in SUBSET (1 .. m + 1), t # {}
        PROVE  h[t] = Merge(h[t \ {Max(t)}], u[Max(t)])
    <3> DEFINE k == Max(t)
    <3>1. k \in t /\ \A j \in t : k >= j
      <4>1. m + 1 \in Nat
        BY <2>2
      <4> QED
        BY <2>4, <4>1, MaxIs
    <3> HIDE DEF k
    <3>2. t \ {k} \in SUBSET (1 .. m)
      <4> SUFFICES ASSUME NEW j \in t \ {k} PROVE j \in 1 .. m
        OBVIOUS
      <4>1. k \in 1 .. m + 1 /\ j \in 1 .. m + 1 /\ k >= j /\ k # j
        BY <3>1
      <4> QED
        BY <2>2, <4>1
    <3>3. m + 1 \notin t \ {k} /\ t \ {k} \in SUBSET (1 .. m + 1)
      BY <2>2, <3>2
    <3>4. h[t \ {k}] = f[t \ {k}] /\ h[t] = g(t)
      BY <3>3
    <3>5. CASE m + 1 \in t
      <4>1. k = m + 1
        <5>1. k \in 1 .. m + 1 /\ k >= m + 1
          BY <3>1, <3>5
        <5> QED
          BY <2>2, <5>1
      <4>2. h[t] = Merge(f[t \ {k}], x)
        BY <3>4, <3>5, <4>1
      <4> QED
        BY <2>2, <3>4, <4>1, <4>2 DEF k
    <3>6. CASE m + 1 \notin t
      <4>1. t \in SUBSET (1 .. m) /\ k \in 1 .. m
        BY <2>2, <3>1, <3>6
      <4>2. f[t] = Merge(f[t \ {k}], s[k])
        BY <2>3, <2>4, <4>1 DEF k
      <4>3. h[t] = f[t] /\ u[k] = s[k]
        BY <2>2, <3>4, <3>6, <4>1
      <4> QED
        BY <3>4, <4>2, <4>3 DEF k
    <3> QED
      BY <3>5, <3>6
  <2>5. h[{}] = p
    <3>1. f[{}] = p /\ h[{}] = g({}) /\ g({}) = f[{}]
      BY <2>3
    <3> QED
      BY <3>1
  <2>6. h = [t \in SUBSET (1 .. m + 1) |-> h[t]]
    OBVIOUS
  <2> HIDE DEF h
  <2>7. MergesBy(h, p, u)
    BY <2>2, <2>4, <2>5, <2>6 DEF MergesBy
  <2> QED
    BY <2>2, <2>7 DEF u
<1>3. Seq(S) \subseteq B
  <2> HIDE DEF B
  <2> QED
    BY <1>1, <1>2, BySequences
<1> QED
  BY <1>3

LEMMA MaxOfRow ==
  ASSUME NEW n \in Nat
  PROVE  Max(1 .. n + 1) = n + 1 /\ (1 .. n + 1) \ {n + 1} = 1 .. n
<1> DEFINE I == 1 .. n + 1
<1>1. n + 1 \in I /\ I \in SUBSET (1 .. n + 1)
  OBVIOUS
<1>2. Max(I) \in I /\ Max(I) >= n + 1
  <2>1. n + 1 \in Nat /\ I # {}
    BY <1>1
  <2> HIDE DEF I
  <2> QED
    BY <1>1, <2>1, MaxIs
<1>3. Max(I) = n + 1
  BY <1>2
<1> QED
  BY <1>3

\* Only one function does.
LEMMA MergesUnique ==
  ASSUME NEW p, NEW S, NEW q \in Seq(S), NEW f, NEW h,
         MergesBy(f, p, q), MergesBy(h, p, q)
  PROVE  f[1 .. Len(q)] = h[1 .. Len(q)]
<1> DEFINE T == {n \in Nat : n <= Len(q) => f[1 .. n] = h[1 .. n]}
<1>0. Len(q) \in Nat /\ DOMAIN q = 1 .. Len(q)
  BY LenProperties
<1>1. 0 \in T
  <2>1. 1 .. 0 = {} /\ {} \in SUBSET DOMAIN q
    OBVIOUS
  <2>2. f[{}] = p /\ h[{}] = p
    BY <2>1 DEF MergesBy
  <2> QED
    BY <2>1, <2>2
<1>2. ASSUME NEW n \in Nat, n \in T PROVE n + 1 \in T
  <2>1. CASE n + 1 <= Len(q)
    <3> DEFINE t == 1 .. n + 1
    <3>1. f[1 .. n] = h[1 .. n]
      BY <1>0, <1>2, <2>1
    <3>2. t \in SUBSET DOMAIN q /\ t # {}
      <4>1. n + 1 \in t /\ \A j \in t : j \in 1 .. Len(q)
        BY <1>0, <2>1
      <4> HIDE DEF t
      <4> QED
        BY <1>0, <4>1
    <3>3. Max(t) = n + 1 /\ t \ {n + 1} = 1 .. n
      BY MaxOfRow
    <3> HIDE DEF t
    <3>4. f[t] = Merge(f[t \ {Max(t)}], q[Max(t)]) /\ h[t] = Merge(h[t \ {Max(t)}], q[Max(t)])
      BY <3>2 DEF MergesBy
    <3>5. f[t] = h[t]
      BY <3>1, <3>3, <3>4
    <3> QED
      BY <3>5 DEF t
  <2> QED
    BY <2>1
<1>3. Nat \subseteq T
  <2> HIDE DEF T
  <2> QED
    BY <1>1, <1>2, ByInduction
<1> QED
  BY <1>0, <1>3

LEMMA MergedIs ==
  ASSUME NEW p, NEW S, NEW q \in Seq(S), NEW f, MergesBy(f, p, q)
  PROVE  FoldLeft(Merge, p, q) = f[1 .. Len(q)]
<1> DEFINE h == CHOOSE g : MergesBy(g, p, q)
<1>1. FoldLeft(Merge, p, q) = h[DOMAIN q]
  BY DEF FoldLeft, MapThenFoldSet, MergesBy
<1>2. MergesBy(h, p, q)
  <2> HIDE DEF h
  <2> QED
    BY DEF h
<1>3. DOMAIN q = 1 .. Len(q)
  BY LenProperties
<1> HIDE DEF h
<1> QED
  BY <1>1, <1>2, <1>3, MergesUnique

LEMMA MergedEmpty ==
  ASSUME NEW p
  PROVE  FoldLeft(Merge, p, <<>>) = p
<1> DEFINE S == {}
           e == <<>>
<1>1. e \in Seq(S) /\ Len(e) = 0 /\ DOMAIN e = {}
  BY EmptySeq
<1> HIDE DEF e
<1>2. PICK f : MergesBy(f, p, e)
  BY <1>1, MergesExist
<1>3. FoldLeft(Merge, p, e) = f[1 .. Len(e)]
  BY <1>1, <1>2, MergedIs
<1>4. 1 .. Len(e) = {} /\ {} \in SUBSET DOMAIN e
  BY <1>1
<1>5. f[{}] = p
  BY <1>2, <1>4 DEF MergesBy
<1> QED
  BY <1>3, <1>4, <1>5 DEF e

LEMMA MergedAppend ==
  ASSUME NEW p, NEW S, NEW q \in Seq(S), NEW a \in S
  PROVE  FoldLeft(Merge, p, Append(q, a)) = Merge(FoldLeft(Merge, p, q), a)
<1> DEFINE u == Append(q, a)
           m == Len(q)
<1>1. /\ m \in Nat /\ Len(u) = m + 1 /\ DOMAIN u = 1 .. m + 1 /\ DOMAIN q = 1 .. m
      /\ u \in Seq(S) /\ u[m + 1] = a /\ \A n \in 1 .. m : u[n] = q[n]
  OBVIOUS
<1> HIDE DEF u, m
<1>2. PICK h : MergesBy(h, p, u)
  BY <1>1, MergesExist
<1> DEFINE f == [s \in SUBSET (1 .. m) |-> h[s]]
<1>3. MergesBy(f, p, q)
  <2>1. ASSUME NEW s \in SUBSET (1 .. m)
        PROVE  h[s] = IF s = {} THEN p ELSE Merge(f[s \ {Max(s)}], q[Max(s)])
    <3>1. s \in SUBSET DOMAIN u
      BY <1>1
    <3>2. h[s] = IF s = {} THEN p ELSE Merge(h[s \ {Max(s)}], u[Max(s)])
      BY <1>2, <3>1 DEF MergesBy
    <3>3. s # {} => Max(s) \in 1 .. m
      BY <1>1, MaxIs
    <3>4. s # {} => u[Max(s)] = q[Max(s)] /\ f[s \ {Max(s)}] = h[s \ {Max(s)}]
      BY <1>1, <3>3
    <3> QED
      BY <3>2, <3>4
  <2>2. f = [s \in SUBSET (1 .. m) |->
               IF s = {} THEN p ELSE Merge(f[s \ {Max(s)}], q[Max(s)])]
    BY <2>1
  <2> HIDE DEF f
  <2> QED
    BY <1>1, <2>2 DEF MergesBy
<1>4. f[1 .. m] = h[1 .. m]
  OBVIOUS
<1> HIDE DEF f
<1>5. FoldLeft(Merge, p, q) = f[1 .. m] /\ FoldLeft(Merge, p, u) = h[1 .. m + 1]
  <2>1. FoldLeft(Merge, p, q) = f[1 .. Len(q)]
    BY <1>3, MergedIs
  <2>2. FoldLeft(Merge, p, u) = h[1 .. Len(u)]
    BY <1>1, <1>2, MergedIs
  <2> QED
    BY <1>1, <2>1, <2>2 DEF m
<1>6. h[1 .. m + 1] = Merge(h[1 .. m], a)
  <2> DEFINE t == 1 .. m + 1
  <2>1. t \in SUBSET DOMAIN u /\ t # {}
    <3>1. m + 1 \in t /\ DOMAIN u = t
      BY <1>1
    <3> HIDE DEF t
    <3> QED
      BY <3>1
  <2>2. Max(t) = m + 1 /\ t \ {m + 1} = 1 .. m
    BY <1>1, MaxOfRow
  <2> HIDE DEF t
  <2>3. h[t] = Merge(h[t \ {Max(t)}], u[Max(t)])
    BY <1>2, <2>1 DEF MergesBy
  <2>4. h[t] = Merge(h[1 .. m], a)
    BY <1>1, <2>2, <2>3
  <2> QED
    BY <2>4 DEF t
<1>7. FoldLeft(Merge, p, u) = Merge(FoldLeft(Merge, p, q), a)
  BY <1>4, <1>5, <1>6
<1> QED
  BY <1>7 DEF u

LEMMA MergedInSeq ==
  ASSUME NEW S, NEW old \in Seq(S), NEW list \in Seq(S)
  PROVE  FoldLeft(Merge, old, list) \in Seq(S)
<1> DEFINE B == {s \in Seq(S) : FoldLeft(Merge, old, s) \in Seq(S)}
<1>1. <<>> \in B
  BY EmptySeq, MergedEmpty
<1>2. ASSUME NEW s \in Seq(S), s \in B, NEW a \in S PROVE Append(s, a) \in B
  <2> DEFINE new == FoldLeft(Merge, old, s)
             i == FirstWith(new, a.key)
  <2>1. new \in Seq(S) /\ FoldLeft(Merge, old, Append(s, a)) = Merge(new, a)
    BY <1>2, MergedAppend
  <2>2. Append(s, a) \in Seq(S)
    BY AppendProperties
  <2> HIDE DEF new, i
  <2>3. i = 0 \/ i \in 1 .. Len(new)
    BY <2>1, FirstIs DEF i
  <2>4. Append(new, a) \in Seq(S)
    BY <2>1, AppendProperties
  <2>5. i \in 1 .. Len(new) => [new EXCEPT ![i] = a] \in Seq(S)
    BY <2>1, ExceptSeq
  <2>6. Merge(new, a) = IF a.key = None THEN new
                        ELSE IF i = 0 THEN Append(new, a)
                        ELSE [new EXCEPT ![i] = a]
    BY MergeIs DEF i
  <2>7. Merge(new, a) \in Seq(S)
    BY <2>1, <2>3, <2>4, <2>5, <2>6
  <2> QED
    BY <2>1, <2>2, <2>7
<1>3. Seq(S) \subseteq B
  <2> HIDE DEF B
  <2> QED
    BY <1>1, <1>2, BySequences
<1> QED
  BY <1>3
=============================================================================
