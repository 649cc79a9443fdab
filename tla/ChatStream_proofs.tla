-------------------------- MODULE ChatStream_proofs --------------------------
(***************************************************************************)
(* The transcript is what was streamed and what was streamed is the        *)
(* answer, for any vocabulary, tokens, stop strings and chunks: proofs     *)
(* about ChatStream.                                                       *)
(***************************************************************************)
EXTENDS ChatStream, SequenceTheorems, InductionLemmas, TLAPS

-----------------------------------------------------------------------------
(***************************************************************************)
(* Sequences.                                                              *)
(***************************************************************************)
LEMMA Equal ==
    ASSUME NEW X, NEW s \in Seq(X), NEW t \in Seq(X), Len(s) = Len(t),
           \A i \in 1..Len(s) : s[i] = t[i]
    PROVE  s = t
OBVIOUS

LEMMA ConcatParts ==
    ASSUME NEW X, NEW s \in Seq(X), NEW t \in Seq(X)
    PROVE  /\ s \o t \in Seq(X) /\ Len(s \o t) = Len(s) + Len(t)
           /\ Len(s) \in Nat /\ Len(t) \in Nat
           /\ \A k \in 1..Len(s) : (s \o t)[k] = s[k]
           /\ \A k \in 1..Len(t) : (s \o t)[Len(s) + k] = t[k]
OBVIOUS

LEMMA AppendParts ==
    ASSUME NEW X, NEW s \in Seq(X), NEW e \in X
    PROVE  /\ Append(s, e) \in Seq(X) /\ Len(Append(s, e)) = Len(s) + 1 /\ Len(s) \in Nat
           /\ \A k \in 1..Len(s) : Append(s, e)[k] = s[k]
           /\ Append(s, e)[Len(s) + 1] = e
           /\ Append(s, e) # <<>>
OBVIOUS

LEMMA Concats ==
    ASSUME NEW X
    PROVE  /\ \A a, b, c \in Seq(X) : (a \o b) \o c = a \o (b \o c)
           /\ \A a \in Seq(X) : a \o <<>> = a /\ <<>> \o a = a
           /\ \A a \in Seq(X), e \in X : Append(a, e) = a \o <<e>>
           /\ \A a, b \in Seq(X), e \in X : Append(a \o b, e) = a \o Append(b, e)
<1>1. \A a, b, c \in Seq(X) : (a \o b) \o c = a \o (b \o c)
    BY ConcatAssociative
<1>2. \A a \in Seq(X) : a \o <<>> = a /\ <<>> \o a = a
    OBVIOUS
<1>3. \A a \in Seq(X), e \in X : Append(a, e) = a \o <<e>>
    BY AppendIsConcat
<1>4. ASSUME NEW a \in Seq(X), NEW b \in Seq(X), NEW e \in X
      PROVE  Append(a \o b, e) = a \o Append(b, e)
    <2>1. a \o b \in Seq(X) /\ <<e>> \in Seq(X)
        OBVIOUS
    <2>2. Append(b, e) = b \o <<e>> /\ Append(a \o b, e) = (a \o b) \o <<e>>
        BY <1>3, <2>1, Zenon
    <2>3. (a \o b) \o <<e>> = a \o (b \o <<e>>)
        BY <1>1, <2>1, Zenon
    <2>4. QED
        BY <2>2, <2>3, Zenon
<1>5. QED
    BY <1>1, <1>2, <1>3, <1>4

Assoc(a, b, c) == (a \o b) \o c = a \o (b \o c)

LEMMA Assocs ==
    ASSUME NEW X, NEW a \in Seq(X), NEW b \in Seq(X), NEW c \in Seq(X)
    PROVE  Assoc(a, b, c)
BY ConcatAssociative DEF Assoc

LEMMA Regroup ==
    \A a, b, c \in Seq(Char) : (a \o b) \o c = a \o (b \o c) /\ b \o c \in Seq(Char)
<1>1. \A a, b, c \in Seq(Char) : (a \o b) \o c = a \o (b \o c)
    BY Concats, Zenon
<1>2. \A b, c \in Seq(Char) : b \o c \in Seq(Char)
    BY ConcatProperties, Zenon
<1>3. QED
    BY <1>1, <1>2, Zenon

\* A sequence is cut in two.
LEMMA Cut ==
    ASSUME NEW X, NEW s \in Seq(X), NEW k \in 0..Len(s)
    PROVE  /\ SubSeq(s, 1, k) \in Seq(X) /\ Len(SubSeq(s, 1, k)) = k
           /\ SubSeq(s, k + 1, Len(s)) \in Seq(X) /\ Len(SubSeq(s, k + 1, Len(s))) = Len(s) - k
           /\ \A i \in 1..k : SubSeq(s, 1, k)[i] = s[i]
           /\ \A i \in 1..(Len(s) - k) : SubSeq(s, k + 1, Len(s))[i] = s[k + i]
           /\ s = SubSeq(s, 1, k) \o SubSeq(s, k + 1, Len(s))
<1> DEFINE a == SubSeq(s, 1, k)
           b == SubSeq(s, k + 1, Len(s))
<1>1. /\ a \in Seq(X) /\ Len(a) = k /\ b \in Seq(X) /\ Len(b) = Len(s) - k
      /\ \A i \in 1..k : a[i] = s[i]
      /\ \A i \in 1..(Len(s) - k) : b[i] = s[k + i]
    OBVIOUS
<1> HIDE DEF a, b
<1>2. /\ a \o b \in Seq(X) /\ Len(a \o b) = Len(s)
      /\ \A i \in 1..k : (a \o b)[i] = a[i]
      /\ \A i \in 1..(Len(s) - k) : (a \o b)[k + i] = b[i]
    BY <1>1, ConcatParts
<1>3. ASSUME NEW i \in 1..Len(s)
      PROVE  (a \o b)[i] = s[i]
    <2>1. CASE i \in 1..k
        BY <1>1, <1>2, <2>1
    <2>2. CASE i \notin 1..k
        <3>1. i - k \in 1..(Len(s) - k) /\ i = k + (i - k)
            BY <2>2
        <3>2. (a \o b)[k + (i - k)] = b[i - k] /\ b[i - k] = s[k + (i - k)]
            BY <1>1, <1>2, <3>1, Zenon
        <3>3. QED
            BY <3>1, <3>2, Zenon
    <2>3. QED
        BY <2>1, <2>2
<1>4. s = a \o b
    BY <1>2, <1>3, Equal
<1>5. QED
    BY <1>1, <1>4 DEF a, b

\* The last element of a sequence.
LEMMA CutLast ==
    ASSUME NEW X, NEW s \in Seq(X), NEW n \in Nat, Len(s) = n + 1
    PROVE  \E t \in Seq(X), e \in X : s = Append(t, e) /\ Len(t) = n
<1>1. n \in 0..Len(s) /\ n + 1 \in 1..Len(s)
    OBVIOUS
<1>2. /\ SubSeq(s, 1, n) \in Seq(X) /\ Len(SubSeq(s, 1, n)) = n
      /\ \A i \in 1..n : SubSeq(s, 1, n)[i] = s[i]
    BY <1>1, Cut
<1> DEFINE t == SubSeq(s, 1, n)
<1> HIDE DEF t
<1>3. Append(t, s[n + 1]) = s
    <2>1. s[n + 1] \in X /\ t \in Seq(X) /\ Len(t) = n
        BY <1>1, <1>2 DEF t
    <2>2. QED
        BY <1>2, <2>1 DEF t
<1>4. QED
    <2>1. t \in Seq(X) /\ s[n + 1] \in X /\ Len(t) = n
        BY <1>1, <1>2 DEF t
    <2>2. QED
        BY <1>3, <2>1, Zenon

-----------------------------------------------------------------------------
(***************************************************************************)
(* FlattenSeq.                                                             *)
(***************************************************************************)
\* g is the function FlattenSeq is made of, on the first n sequences of ss.
Flattens(g, ss, n) ==
    g = [i \in 1..n |-> IF i = 1 THEN ss[i] ELSE g[i - 1] \o ss[i]]

LEMMA FlatExists ==
    ASSUME NEW ss, NEW n \in Nat
    PROVE  \E g : Flattens(g, ss, n)
<1> DEFINE P == {k \in Nat : \E g : Flattens(g, ss, k)}
<1>1. 0 \in P
    <2>1. 1..0 = {}
        OBVIOUS
    <2>2. Flattens([i \in 1..0 |-> <<>>], ss, 0)
        BY <2>1 DEF Flattens
    <2>3. QED
        BY <2>2
<1>2. ASSUME NEW k \in Nat, k \in P
      PROVE  k + 1 \in P
    <2>1. PICK g : Flattens(g, ss, k)
        BY <1>2
    <2> DEFINE More(i) == IF i = k + 1 THEN (IF k = 0 THEN ss[i] ELSE g[k] \o ss[i]) ELSE g[i]
               h == [i \in 1..(k + 1) |-> More(i)]
    <2>2. ASSUME NEW i \in 1..(k + 1)
          PROVE  h[i] = IF i = 1 THEN ss[i] ELSE h[i - 1] \o ss[i]
        <3>1. CASE i = k + 1
            <4>1. CASE k = 0
                BY <3>1, <4>1
            <4>2. CASE k # 0
                <5>1. i # 1 /\ i - 1 = k /\ k \in 1..(k + 1) /\ k # k + 1
                    BY <3>1, <4>2
                <5>2. h[k] = g[k] /\ h[i] = g[k] \o ss[i]
                    BY <3>1, <4>2, <5>1
                <5>3. QED
                    BY <5>1, <5>2, Zenon
            <4>3. QED
                BY <4>1, <4>2
        <3>2. CASE i # k + 1
            <4>1. i \in 1..k /\ (i # 1 => i - 1 \in 1..(k + 1) /\ i - 1 # k + 1)
                BY <3>2
            <4>2. g[i] = IF i = 1 THEN ss[i] ELSE g[i - 1] \o ss[i]
                BY <2>1, <4>1, Zenon DEF Flattens
            <4>3. h[i] = g[i] /\ (i # 1 => h[i - 1] = g[i - 1])
                BY <3>2, <4>1
            <4>4. QED
                BY <4>2, <4>3, Zenon
        <3>3. QED
            BY <3>1, <3>2
    <2>3. h = [i \in 1..(k + 1) |-> IF i = 1 THEN ss[i] ELSE h[i - 1] \o ss[i]]
        BY <2>2, Zenon
    <2> HIDE DEF h
    <2>4. Flattens(h, ss, k + 1)
        BY <2>3, Zenon DEF Flattens
    <2>5. k + 1 \in Nat
        OBVIOUS
    <2>6. QED
        BY <2>4, <2>5, Zenon
<1> HIDE DEF P
<1>3. n \in P
    BY <1>1, <1>2, InductiveSet
<1>4. QED
    BY <1>3 DEF P

\* It depends on the sequences alone, not on how many follow them.
SameUpTo(n, f, g) == \A i \in 1..n : f[i] = g[i]

LEMMA FlatAgrees ==
    ASSUME NEW ss, NEW tt, NEW n \in Nat, SameUpTo(n, ss, tt),
           NEW g, NEW h, Flattens(g, ss, n), Flattens(h, tt, n + 1)
    PROVE  SameUpTo(n, g, h)
<1> DEFINE P == {k \in Nat : k \in 1..n => g[k] = h[k]}
<1>0. /\ \A i \in 1..n : g[i] = IF i = 1 THEN ss[i] ELSE g[i - 1] \o ss[i]
      /\ \A i \in 1..(n + 1) : h[i] = IF i = 1 THEN tt[i] ELSE h[i - 1] \o tt[i]
      /\ \A i \in 1..n : ss[i] = tt[i]
    BY Zenon DEF Flattens, SameUpTo
<1>1. 0 \in P
    OBVIOUS
<1>2. ASSUME NEW k \in Nat, k \in P
      PROVE  k + 1 \in P
    <2>1. SUFFICES ASSUME k + 1 \in 1..n
                   PROVE  g[k + 1] = h[k + 1]
        OBVIOUS
    <2>2. k + 1 \in 1..(n + 1) /\ (k + 1) - 1 = k /\ (k + 1 # 1 => k \in 1..n)
        BY <2>1
    <2>3. /\ g[k + 1] = IF k + 1 = 1 THEN ss[k + 1] ELSE g[k] \o ss[k + 1]
          /\ h[k + 1] = IF k + 1 = 1 THEN tt[k + 1] ELSE h[k] \o tt[k + 1]
        BY <1>0, <2>1, <2>2, Zenon
    <2>4. k + 1 # 1 => g[k] = h[k]
        BY <1>2, <2>2
    <2>5. QED
        BY <1>0, <2>1, <2>3, <2>4, Zenon
<1> HIDE DEF P
<1>3. \A i \in Nat : i \in P
    BY <1>1, <1>2, InductiveSet
<1>4. QED
    BY <1>3 DEF P, SameUpTo

LEMMA FlatNone == FlattenSeq(<<>>) = <<>>
<1>1. Len(<<>>) = 0
    OBVIOUS
<1>2. QED
    BY <1>1, Zenon DEF FlattenSeq

\* One sequence more.
LEMMA FlatStep ==
    ASSUME NEW X, NEW ss \in Seq(Seq(X)), NEW s \in Seq(X), FlattenSeq(ss) \in Seq(X)
    PROVE  FlattenSeq(Append(ss, s)) = FlattenSeq(ss) \o s
<1> DEFINE tt == Append(ss, s)
           n == Len(ss)
           F(q) == CHOOSE flatten : flatten = [i \in 1..Len(q) |->
                       IF i = 1 THEN q[i] ELSE flatten[i - 1] \o q[i]]
<1>1. /\ n \in Nat /\ n + 1 \in Nat /\ n <= n + 1 /\ Len(tt) = n + 1 /\ Len(tt) # 0
      /\ tt[n + 1] = s /\ \A i \in 1..n : ss[i] = tt[i]
      /\ n + 1 \in 1..(n + 1) /\ (n + 1) - 1 = n
      /\ n # 0 => n + 1 # 1 /\ n \in 1..n
      /\ n = 0 => ss = <<>>
    OBVIOUS
<1>2. \A q : Len(q) # 0 => FlattenSeq(q) = F(q)[Len(q)]
    BY DEF FlattenSeq
<1> HIDE DEF tt, n
<1>3. Flattens(F(tt), tt, n + 1)
    <2>1. \E g : Flattens(g, tt, n + 1)
        BY <1>1, FlatExists, Zenon
    <2>2. QED
        BY <1>1, <2>1, Zenon DEF Flattens
<1>4. Flattens(F(ss), ss, n)
    <2>1. \E g : Flattens(g, ss, n)
        BY <1>1, FlatExists, Zenon
    <2>2. QED
        BY <1>1, <2>1, Zenon DEF Flattens, n
<1> HIDE DEF F
<1>5. F(tt)[n + 1] = IF n + 1 = 1 THEN tt[n + 1] ELSE F(tt)[n] \o tt[n + 1]
    BY <1>1, <1>3, Zenon DEF Flattens
<1>6. FlattenSeq(tt) = F(tt)[n + 1]
    BY <1>1, <1>2, Zenon
<1>7. CASE n = 0
    <2>1. n + 1 = 1
        BY <1>7
    <2>2. FlattenSeq(tt) = s
        BY <1>1, <1>5, <1>6, <2>1, Zenon
    <2>3. FlattenSeq(ss) = <<>>
        BY <1>1, <1>7, FlatNone, Zenon
    <2>4. <<>> \o s = s
        OBVIOUS
    <2>5. QED
        BY <2>2, <2>3, <2>4, Zenon DEF tt
<1>8. CASE n # 0
    <2>1. FlattenSeq(ss) = F(ss)[n]
        BY <1>2, <1>8, Zenon DEF n
    <2>2. F(ss)[n] = F(tt)[n]
        <3>1. n \in Nat /\ SameUpTo(n, ss, tt)
            BY <1>1, Zenon DEF SameUpTo
        <3>2. SameUpTo(n, F(ss), F(tt))
            BY <1>3, <1>4, <3>1, FlatAgrees, Zenon
        <3>3. QED
            BY <1>1, <1>8, <3>2, Zenon DEF SameUpTo
    <2>3. QED
        BY <1>1, <1>5, <1>6, <1>8, <2>1, <2>2, Zenon DEF tt
<1>9. QED
    BY <1>7, <1>8

LEMMA FlatType ==
    ASSUME NEW X, NEW ss \in Seq(Seq(X))
    PROVE  FlattenSeq(ss) \in Seq(X)
<1> DEFINE P == {n \in Nat : \A tt \in Seq(Seq(X)) : Len(tt) = n => FlattenSeq(tt) \in Seq(X)}
<1>1. 0 \in P
    <2>1. ASSUME NEW tt \in Seq(Seq(X)), Len(tt) = 0
          PROVE  FlattenSeq(tt) \in Seq(X)
        <3>1. tt = <<>>
            BY <2>1, EmptySeq
        <3>2. <<>> \in Seq(X)
            OBVIOUS
        <3>3. QED
            BY <3>1, <3>2, FlatNone, Zenon
    <2>2. QED
        BY <2>1
<1>2. ASSUME NEW n \in Nat, n \in P
      PROVE  n + 1 \in P
    <2>1. ASSUME NEW tt \in Seq(Seq(X)), Len(tt) = n + 1
          PROVE  FlattenSeq(tt) \in Seq(X)
        <3>1. PICK uu \in Seq(Seq(X)), s \in Seq(X) : tt = Append(uu, s) /\ Len(uu) = n
            BY <1>2, <2>1, CutLast
        <3>2. FlattenSeq(uu) \in Seq(X)
            BY <1>2, <3>1
        <3>3. FlattenSeq(tt) = FlattenSeq(uu) \o s
            BY <3>1, <3>2, FlatStep
        <3>4. QED
            BY <3>2, <3>3, ConcatProperties
    <2>2. QED
        BY <2>1
<1> HIDE DEF P
<1>3. \A n \in Nat : n \in P
    BY <1>1, <1>2, InductiveSet
<1>4. Len(ss) \in P
    BY <1>3
<1>5. QED
    BY <1>4 DEF P

LEMMA FlatMore ==
    ASSUME NEW X, NEW ss \in Seq(Seq(X)), NEW s \in Seq(X)
    PROVE  FlattenSeq(Append(ss, s)) = FlattenSeq(ss) \o s
BY FlatType, FlatStep

LEMMA FlatOne ==
    ASSUME NEW X, NEW s \in Seq(X)
    PROVE  FlattenSeq(<<s>>) = s
<1>1. <<s>> = Append(<<>>, s) /\ <<>> \in Seq(Seq(X)) /\ <<>> \o s = s
    OBVIOUS
<1>2. QED
    BY <1>1, FlatMore, FlatNone

LEMMA FlatConcat ==
    ASSUME NEW X, NEW ss \in Seq(Seq(X)), NEW tt \in Seq(Seq(X))
    PROVE  FlattenSeq(ss \o tt) = FlattenSeq(ss) \o FlattenSeq(tt)
<1> DEFINE f == FlattenSeq(ss)
           Q(uu) == FlattenSeq(ss \o uu) = f \o FlattenSeq(uu)
           P == {n \in Nat : \A uu \in Seq(Seq(X)) : Len(uu) = n => Q(uu)}
<1>0. f \in Seq(X)
    BY FlatType
<1>1. 0 \in P
    <2>1. ASSUME NEW uu \in Seq(Seq(X)), Len(uu) = 0
          PROVE  Q(uu)
        <3>1. uu = <<>>
            BY <2>1, EmptySeq
        <3>2. ss \o <<>> = ss /\ f \o <<>> = f
            BY <1>0, Concats
        <3>3. QED
            BY <3>1, <3>2, FlatNone, Zenon
    <2>2. QED
        BY <2>1
<1>2. ASSUME NEW n \in Nat, n \in P
      PROVE  n + 1 \in P
    <2>1. ASSUME NEW uu \in Seq(Seq(X)), Len(uu) = n + 1
          PROVE  Q(uu)
        <3>1. PICK vv \in Seq(Seq(X)), s \in Seq(X) : uu = Append(vv, s) /\ Len(vv) = n
            BY <1>2, <2>1, CutLast
        <3>2. FlattenSeq(ss \o vv) = f \o FlattenSeq(vv)
            BY <1>2, <3>1
        <3>3. ss \o vv \in Seq(Seq(X)) /\ ss \o uu = Append(ss \o vv, s)
            BY <3>1, Concats, ConcatProperties
        <3>4. FlattenSeq(ss \o uu) = (f \o FlattenSeq(vv)) \o s
            BY <3>1, <3>2, <3>3, FlatMore, Zenon
        <3>5. FlattenSeq(uu) = FlattenSeq(vv) \o s /\ FlattenSeq(vv) \in Seq(X)
            BY <3>1, FlatMore, FlatType
        <3>6. (f \o FlattenSeq(vv)) \o s = f \o (FlattenSeq(vv) \o s)
            <4>1. Assoc(f, FlattenSeq(vv), s)
                BY <1>0, <3>1, <3>5, Assocs, Zenon
            <4>2. QED
                BY <4>1, Zenon DEF Assoc
        <3>7. QED
            BY <3>4, <3>5, <3>6, Zenon
    <2>2. QED
        BY <2>1
<1> HIDE DEF P, Q
<1>3. \A n \in Nat : n \in P
    BY <1>1, <1>2, InductiveSet
<1>4. Len(tt) \in P
    BY <1>3
<1>5. QED
    BY <1>4 DEF P, Q

-----------------------------------------------------------------------------
(***************************************************************************)
(* The app's parser, run over a sequence of characters.                    *)
(***************************************************************************)
Sign == Char \cup Mark

Run(b, s) == FoldLeft(Feed, b, s)

\* g is the function FoldLeft is made of, on the first n characters of s.
Feeds(g, b, s, n) ==
    g = [S \in SUBSET (1..n) |->
            IF S = {} THEN b ELSE Feed(g[S \ {Max(S)}], s[Max(S)])]

\* There is such a function.
LEMMA FeedsExist ==
    ASSUME NEW b, NEW s, NEW n \in Nat
    PROVE  \E g : Feeds(g, b, s, n)
<1> DEFINE P == {k \in Nat : \E g : Feeds(g, b, s, k)}
<1>1. 0 \in P
    <2>1. 1..0 = {}
        OBVIOUS
    <2>2. Feeds([S \in SUBSET (1..0) |-> b], b, s, 0)
        BY <2>1 DEF Feeds
    <2>3. QED
        BY <2>2
<1>2. ASSUME NEW k \in Nat, k \in P
      PROVE  k + 1 \in P
    <2>1. PICK g : Feeds(g, b, s, k)
        BY <1>2
    <2> DEFINE Next1(S) == IF k + 1 \in S THEN Feed(g[S \ {k + 1}], s[k + 1]) ELSE g[S]
               h == [S \in SUBSET (1..(k + 1)) |-> Next1(S)]
    <2>2. ASSUME NEW S \in SUBSET (1..(k + 1))
          PROVE  h[S] = IF S = {} THEN b ELSE Feed(h[S \ {Max(S)}], s[Max(S)])
        <3>1. CASE k + 1 \in S
            <4>1. Max(S) = k + 1 /\ S # {}
                BY <3>1, MaxOfTop
            <4>2. /\ S \ {k + 1} \in SUBSET (1..(k + 1)) /\ k + 1 \notin S \ {k + 1}
                OBVIOUS
            <4>3. h[S \ {k + 1}] = g[S \ {k + 1}]
                BY <4>2
            <4>4. h[S] = Feed(g[S \ {k + 1}], s[k + 1])
                BY <3>1
            <4>5. QED
                BY <4>1, <4>3, <4>4, Zenon
        <3>2. CASE k + 1 \notin S
            <4>1. S \in SUBSET (1..k)
                BY <3>2
            <4>2. h[S] = g[S]
                BY <3>2
            <4>3. g[S] = IF S = {} THEN b ELSE Feed(g[S \ {Max(S)}], s[Max(S)])
                BY <2>1, <4>1, Zenon DEF Feeds
            <4>4. S # {} => h[S \ {Max(S)}] = g[S \ {Max(S)}]
                BY <3>2
            <4>5. QED
                BY <4>2, <4>3, <4>4, Zenon
        <3>3. QED
            BY <3>1, <3>2
    <2>3. h = [S \in SUBSET (1..(k + 1)) |->
                  IF S = {} THEN b ELSE Feed(h[S \ {Max(S)}], s[Max(S)])]
        BY <2>2, Zenon
    <2> HIDE DEF h
    <2>4. Feeds(h, b, s, k + 1)
        BY <2>3, Zenon DEF Feeds
    <2>5. k + 1 \in Nat
        OBVIOUS
    <2>6. QED
        BY <2>4, <2>5, Zenon
<1> HIDE DEF P
<1>3. n \in P
    BY <1>1, <1>2, InductiveSet
<1>4. QED
    BY <1>3 DEF P

\* It depends on the characters alone, not on how many follow them.
SameWithin(n, f, g) == \A S \in SUBSET (1..n) : f[S] = g[S]

LEMMA FeedsAgree ==
    ASSUME NEW b, NEW s, NEW t, NEW n \in Nat, SameUpTo(n, s, t),
           NEW g, NEW h, Feeds(g, b, s, n), Feeds(h, b, t, n + 1)
    PROVE  SameWithin(n, g, h)
<1> DEFINE P == {k \in Nat : k <= n => \A S \in SUBSET (1..k) : g[S] = h[S]}
<1>0. /\ \A S \in SUBSET (1..n) :
            g[S] = IF S = {} THEN b ELSE Feed(g[S \ {Max(S)}], s[Max(S)])
      /\ \A S \in SUBSET (1..(n + 1)) :
            h[S] = IF S = {} THEN b ELSE Feed(h[S \ {Max(S)}], t[Max(S)])
      /\ \A i \in 1..n : s[i] = t[i]
    BY Zenon DEF Feeds, SameUpTo
<1>1. 0 \in P
    <2>1. \A S \in SUBSET (1..0) : S = {}
        OBVIOUS
    <2>2. {} \in SUBSET (1..n) /\ {} \in SUBSET (1..(n + 1))
        OBVIOUS
    <2>3. g[{}] = h[{}]
        BY <1>0, <2>2, Zenon
    <2>4. QED
        BY <2>1, <2>3
<1>2. ASSUME NEW k \in Nat, k \in P
      PROVE  k + 1 \in P
    <2>1. SUFFICES ASSUME k + 1 <= n, NEW S \in SUBSET (1..(k + 1))
                   PROVE  g[S] = h[S]
        OBVIOUS
    <2>2. \A T \in SUBSET (1..k) : g[T] = h[T]
        BY <1>2, <2>1
    <2>3. CASE k + 1 \in S
        <3>1. Max(S) = k + 1 /\ S # {}
            BY <2>3, MaxOfTop
        <3>2. S \in SUBSET (1..n) /\ S \in SUBSET (1..(n + 1)) /\ k + 1 \in 1..n
            BY <2>1
        <3>3. S \ {k + 1} \in SUBSET (1..k)
            OBVIOUS
        <3>4. g[S] = Feed(g[S \ {k + 1}], s[k + 1])
            BY <1>0, <3>1, <3>2, Zenon
        <3>5. h[S] = Feed(h[S \ {k + 1}], t[k + 1])
            BY <1>0, <3>1, <3>2, Zenon
        <3>6. QED
            BY <1>0, <2>2, <3>2, <3>3, <3>4, <3>5, Zenon
    <2>4. CASE k + 1 \notin S
        <3>1. S \in SUBSET (1..k)
            BY <2>4
        <3>2. QED
            BY <2>2, <3>1
    <2>5. QED
        BY <2>3, <2>4
<1> HIDE DEF P
<1>3. n \in P
    BY <1>1, <1>2, InductiveSet
<1>4. QED
    BY <1>3 DEF P, SameWithin

\* One character more.
LEMMA RunMore ==
    ASSUME NEW b, NEW s \in Seq(Sign), NEW c \in Sign
    PROVE  Run(b, Append(s, c)) = Feed(Run(b, s), c)
<1> DEFINE t == Append(s, c)
           n == Len(s)
           F(q) == CHOOSE iter : iter = [S \in SUBSET (DOMAIN q) |->
                        IF S = {} THEN b ELSE Feed(iter[S \ {Max(S)}], q[Max(S)])]
<1>1. \A q : Run(b, q) = F(q)[DOMAIN q]
    BY DEF Run, FoldLeft, MapThenFoldSet
<1>2. /\ n \in Nat /\ n + 1 \in Nat /\ n <= n + 1 /\ DOMAIN s = 1..n /\ DOMAIN t = 1..(n + 1)
      /\ t[n + 1] = c /\ \A i \in 1..n : s[i] = t[i]
    OBVIOUS
<1> HIDE DEF t, n
<1>3. Feeds(F(s), b, s, n)
    <2>1. \E g : Feeds(g, b, s, n)
        BY <1>2, FeedsExist
    <2>2. QED
        BY <1>2, <2>1, Zenon DEF Feeds
<1>4. Feeds(F(t), b, t, n + 1)
    <2>1. \E g : Feeds(g, b, t, n + 1)
        BY <1>2, FeedsExist, Zenon
    <2>2. QED
        BY <1>2, <2>1, Zenon DEF Feeds
<1> HIDE DEF F
<1>5. F(t)[1..(n + 1)] = Feed(F(t)[(1..(n + 1)) \ {n + 1}], t[n + 1])
    <2>1. 1..(n + 1) \in SUBSET (1..(n + 1)) /\ n + 1 \in 1..(n + 1) /\ 1..(n + 1) # {}
        <3>1. \A k \in Nat : k + 1 \in 1..(k + 1)
            OBVIOUS
        <3>2. QED
            BY <1>2, <3>1, Zenon
    <2>2. Max(1..(n + 1)) = n + 1
        BY <1>2, <2>1, MaxOfTop
    <2>3. QED
        BY <1>4, <2>1, <2>2, Zenon DEF Feeds
<1>6. (1..(n + 1)) \ {n + 1} = 1..n
    BY <1>2
<1>7. F(s)[1..n] = F(t)[1..n]
    <2>1. n \in Nat /\ SameUpTo(n, s, t)
        BY <1>2, Zenon DEF SameUpTo
    <2>2. SameWithin(n, F(s), F(t))
        BY <1>3, <1>4, <2>1, FeedsAgree, Zenon
    <2>3. 1..n \in SUBSET (1..n)
        OBVIOUS
    <2>4. QED
        BY <2>2, <2>3, Zenon DEF SameWithin
<1>8. QED
    BY <1>1, <1>2, <1>5, <1>6, <1>7, Zenon DEF t

LEMMA RunNone ==
    ASSUME NEW b
    PROVE  Run(b, <<>>) = b
<1> DEFINE f == CHOOSE iter : iter = [S \in SUBSET (DOMAIN <<>>) |->
                    IF S = {} THEN b ELSE Feed(iter[S \ {Max(S)}], <<>>[Max(S)])]
<1>1. Run(b, <<>>) = f[DOMAIN <<>>]
    BY DEF Run, FoldLeft, MapThenFoldSet
<1>2. DOMAIN <<>> = {} /\ 1..0 = {} /\ 0 \in Nat
    OBVIOUS
<1>3. Feeds(f, b, <<>>, 0)
    <2>1. \E g : Feeds(g, b, <<>>, 0)
        BY <1>2, FeedsExist
    <2>2. QED
        BY <1>2, <2>1, Zenon DEF Feeds
<1> HIDE DEF f
<1>4. f[{}] = b
    <2>1. {} \in SUBSET (1..0)
        OBVIOUS
    <2>2. QED
        BY <1>3, <2>1, Zenon DEF Feeds
<1>5. QED
    BY <1>1, <1>2, <1>4, Zenon

LEMMA RunConcat ==
    ASSUME NEW b, NEW s \in Seq(Sign), NEW t \in Seq(Sign)
    PROVE  Run(b, s \o t) = Run(Run(b, s), t)
<1> DEFINE d == Run(b, s)
           Q(u) == Run(b, s \o u) = Run(d, u)
           P == {n \in Nat : \A u \in Seq(Sign) : Len(u) = n => Q(u)}
<1>1. 0 \in P
    <2>1. ASSUME NEW u \in Seq(Sign), Len(u) = 0
          PROVE  Q(u)
        <3>1. u = <<>>
            BY <2>1, EmptySeq
        <3>2. s \o <<>> = s
            BY Concats
        <3>3. QED
            BY <3>1, <3>2, RunNone, Zenon
    <2>2. QED
        BY <2>1
<1>2. ASSUME NEW n \in Nat, n \in P
      PROVE  n + 1 \in P
    <2>1. ASSUME NEW u \in Seq(Sign), Len(u) = n + 1
          PROVE  Q(u)
        <3>1. PICK v \in Seq(Sign), c \in Sign : u = Append(v, c) /\ Len(v) = n
            BY <2>1, CutLast
        <3>2. Run(b, s \o v) = Run(d, v)
            BY <1>2, <3>1
        <3>3. s \o v \in Seq(Sign) /\ s \o u = Append(s \o v, c)
            BY <3>1, Concats, ConcatProperties
        <3>4. Run(b, s \o u) = Feed(Run(b, s \o v), c)
            <4> DEFINE sv == s \o v
            <4> HIDE DEF sv
            <4>1. sv \in Seq(Sign) /\ s \o u = Append(sv, c)
                BY <3>3 DEF sv
            <4>2. Run(b, Append(sv, c)) = Feed(Run(b, sv), c)
                BY <3>1, <4>1, RunMore
            <4>3. QED
                BY <4>1, <4>2, Zenon DEF sv
        <3>5. Run(d, u) = Feed(Run(d, v), c)
            BY <3>1, RunMore, Zenon
        <3>6. QED
            BY <3>2, <3>4, <3>5, Zenon
    <2>2. QED
        BY <2>1
<1> HIDE DEF P, Q
<1>3. \A n \in Nat : n \in P
    BY <1>1, <1>2, InductiveSet
<1>4. Len(t) \in P
    BY <1>3
<1>5. QED
    BY <1>4 DEF P, Q

LEMMA RunOne ==
    ASSUME NEW b, NEW c \in Sign
    PROVE  Run(b, <<c>>) = Feed(b, c)
<1>1. <<c>> = Append(<<>>, c) /\ <<>> \in Seq(Sign)
    OBVIOUS
<1>2. QED
    BY <1>1, RunMore, RunNone, Zenon

-----------------------------------------------------------------------------
(***************************************************************************)
(* Bytes and characters. A position of a sequence of bytes stands for one  *)
(* character or for none, and knows of its neighbours only.                *)
(***************************************************************************)
Octet == Byte \cup (Mark \X {0})

Piece(bs, i) ==
    IF bs[i][2] = 0 \/ Joined(bs, i) THEN <<bs[i][1]>>
    ELSE IF i > 1 /\ Joined(bs, i - 1) THEN <<>> ELSE <<Replacement>>

Pieces(bs) == [i \in DOMAIN bs |-> Piece(bs, i)]

LEMMA LossyIs ==
    ASSUME NEW bs
    PROVE  Lossy(bs) = FlattenSeq(Pieces(bs))
BY Zenon DEF Lossy, Pieces, Piece

LEMMA OctetParts ==
    /\ \A o \in Octet : o[1] \in Sign /\ o[2] \in {0, 1, 2}
    /\ \A o \in Byte : o[1] \in Char /\ o[2] \in {0, 1, 2} /\ o \in Octet
    /\ \A m \in Mark : <<m, 0>> \in Octet
    /\ Replacement \in Char /\ Char \subseteq Sign /\ Byte \subseteq Octet
BY StreamAssumption DEF Octet, Byte, Sign, Char

LEMMA PiecesType ==
    /\ \A bs \in Seq(Octet) : Pieces(bs) \in Seq(Seq(Sign)) /\ Len(Pieces(bs)) = Len(bs)
    /\ \A bs \in Seq(Byte) : Pieces(bs) \in Seq(Seq(Char))
<1>1. ASSUME NEW bs \in Seq(Octet)
      PROVE  Pieces(bs) \in Seq(Seq(Sign)) /\ Len(Pieces(bs)) = Len(bs)
    <2>1. \A i \in 1..Len(bs) : Piece(bs, i) \in Seq(Sign)
        <3>1. TAKE i \in 1..Len(bs)
        <3>2. bs[i][1] \in Sign /\ Replacement \in Sign
            BY OctetParts
        <3>3. <<bs[i][1]>> \in Seq(Sign) /\ <<Replacement>> \in Seq(Sign) /\ <<>> \in Seq(Sign)
            BY <3>2
        <3>4. QED
            BY <3>3, Zenon DEF Piece
    <2>2. DOMAIN bs = 1..Len(bs) /\ Len(bs) \in Nat
        OBVIOUS
    <2>3. QED
        BY <2>1, <2>2 DEF Pieces
<1>2. ASSUME NEW bs \in Seq(Byte)
      PROVE  Pieces(bs) \in Seq(Seq(Char))
    <2>1. \A i \in 1..Len(bs) : Piece(bs, i) \in Seq(Char)
        <3>1. TAKE i \in 1..Len(bs)
        <3>2. bs[i][1] \in Char /\ Replacement \in Char
            BY OctetParts
        <3>3. <<bs[i][1]>> \in Seq(Char) /\ <<Replacement>> \in Seq(Char) /\ <<>> \in Seq(Char)
            BY <3>2
        <3>4. QED
            BY <3>3, Zenon DEF Piece
    <2>2. DOMAIN bs = 1..Len(bs) /\ Len(bs) \in Nat
        OBVIOUS
    <2>3. QED
        BY <2>1, <2>2 DEF Pieces
<1>3. QED
    BY <1>1, <1>2

LEMMA LossyType ==
    /\ \A bs \in Seq(Octet) : Lossy(bs) \in Seq(Sign)
    /\ \A bs \in Seq(Byte) : Lossy(bs) \in Seq(Char)
<1>1. ASSUME NEW bs \in Seq(Octet)
      PROVE  Lossy(bs) \in Seq(Sign)
    <2>1. Pieces(bs) \in Seq(Seq(Sign))
        BY PiecesType
    <2>2. FlattenSeq(Pieces(bs)) \in Seq(Sign)
        BY <2>1, FlatType
    <2>3. QED
        BY <2>2, LossyIs, Zenon
<1>2. ASSUME NEW bs \in Seq(Byte)
      PROVE  Lossy(bs) \in Seq(Char)
    <2>1. Pieces(bs) \in Seq(Seq(Char))
        BY PiecesType
    <2>2. FlattenSeq(Pieces(bs)) \in Seq(Char)
        BY <2>1, FlatType
    <2>3. QED
        BY <2>2, LossyIs, Zenon
<1>3. QED
    BY <1>1, <1>2

\* Halves that meet at the seam of two sequences.
Meet(a, b) == FirstHalf(a, Len(a)) /\ SecondHalf(b, 1)

LEMMA JoinedConcat ==
    ASSUME NEW a \in Seq(Octet), NEW b \in Seq(Octet)
    PROVE  /\ \A i \in 1..(Len(a) - 1) : Joined(a \o b, i) <=> Joined(a, i)
           /\ ~Meet(a, b) => ~Joined(a \o b, Len(a))
           /\ ~Joined(a, Len(a))
           /\ \A j \in 1..Len(b) : Joined(a \o b, Len(a) + j) <=> Joined(b, j)
<1> DEFINE c == a \o b
<1>1. /\ Len(a) \in Nat /\ Len(b) \in Nat
      /\ DOMAIN a = 1..Len(a) /\ DOMAIN b = 1..Len(b) /\ DOMAIN c = 1..(Len(a) + Len(b))
      /\ \A i \in 1..Len(a) : c[i] = a[i]
      /\ \A j \in 1..Len(b) : c[Len(a) + j] = b[j]
    BY ConcatParts
<1> HIDE DEF c
<1>2. ASSUME NEW i \in 1..(Len(a) - 1)
      PROVE  Joined(c, i) <=> Joined(a, i)
    <2>1. /\ i \in DOMAIN a /\ i + 1 \in DOMAIN a /\ i \in DOMAIN c /\ i + 1 \in DOMAIN c
          /\ c[i] = a[i] /\ c[i + 1] = a[i + 1]
        BY <1>1
    <2>2. QED
        BY <2>1, Zenon DEF Joined, FirstHalf, SecondHalf
<1>3. ~Meet(a, b) => ~Joined(c, Len(a))
    <2>1. SUFFICES ASSUME Joined(c, Len(a))
                   PROVE  Meet(a, b)
        OBVIOUS
    <2>2. /\ Len(a) \in DOMAIN c /\ c[Len(a)][2] = 1
          /\ Len(a) + 1 \in DOMAIN c /\ c[Len(a) + 1][2] = 2
        BY <2>1, Zenon DEF Joined, FirstHalf, SecondHalf
    <2>3. /\ Len(a) \in DOMAIN a /\ 1 \in DOMAIN b
          /\ c[Len(a)] = a[Len(a)] /\ c[Len(a) + 1] = b[1]
        BY <1>1, <2>2
    <2>4. QED
        BY <2>2, <2>3, Zenon DEF Meet, FirstHalf, SecondHalf
<1>4. ~Joined(a, Len(a))
    <2>1. Len(a) + 1 \notin DOMAIN a
        BY <1>1
    <2>2. QED
        BY <2>1, Zenon DEF Joined, SecondHalf
<1>5. ASSUME NEW j \in 1..Len(b)
      PROVE  Joined(c, Len(a) + j) <=> Joined(b, j)
    <2>1. /\ j \in DOMAIN b /\ Len(a) + j \in DOMAIN c /\ c[Len(a) + j] = b[j]
          /\ (Len(a) + j) + 1 = Len(a) + (j + 1)
          /\ j + 1 \in DOMAIN b <=> Len(a) + (j + 1) \in DOMAIN c
        BY <1>1
    <2>2. j + 1 \in DOMAIN b => c[Len(a) + (j + 1)] = b[j + 1]
        BY <1>1
    <2>3. QED
        BY <2>1, <2>2, Zenon DEF Joined, FirstHalf, SecondHalf
<1>6. QED
    BY <1>2, <1>3, <1>4, <1>5 DEF c

LEMMA PieceParts ==
    ASSUME NEW s \in Seq(Seq(Sign)), NEW t \in Seq(Seq(Sign))
    PROVE  /\ s \o t \in Seq(Seq(Sign)) /\ Len(s \o t) = Len(s) + Len(t)
           /\ \A k \in 1..Len(s) : (s \o t)[k] = s[k]
           /\ \A k \in 1..Len(t) : (s \o t)[Len(s) + k] = t[k]
BY ConcatParts

\* Decoding goes through, except where two halves meet.
LEMMA LossyConcat ==
    ASSUME NEW a \in Seq(Octet), NEW b \in Seq(Octet), ~Meet(a, b)
    PROVE  Lossy(a \o b) = Lossy(a) \o Lossy(b)
<1> DEFINE c == a \o b
           p == Pieces(a) \o Pieces(b)
<1>1. /\ Len(a) \in Nat /\ Len(b) \in Nat /\ c \in Seq(Octet)
      /\ DOMAIN a = 1..Len(a) /\ DOMAIN b = 1..Len(b) /\ DOMAIN c = 1..(Len(a) + Len(b))
      /\ Len(c) = Len(a) + Len(b)
      /\ \A i \in 1..Len(a) : c[i] = a[i]
      /\ \A j \in 1..Len(b) : c[Len(a) + j] = b[j]
    BY ConcatParts
<1>2. /\ Pieces(a) \in Seq(Seq(Sign)) /\ Len(Pieces(a)) = Len(a)
      /\ Pieces(b) \in Seq(Seq(Sign)) /\ Len(Pieces(b)) = Len(b)
      /\ Pieces(c) \in Seq(Seq(Sign)) /\ Len(Pieces(c)) = Len(a) + Len(b)
    BY <1>1, PiecesType
<1>3. /\ p \in Seq(Seq(Sign)) /\ Len(p) = Len(a) + Len(b)
      /\ \A i \in 1..Len(a) : p[i] = Pieces(a)[i]
      /\ \A j \in 1..Len(b) : p[Len(a) + j] = Pieces(b)[j]
    <2> DEFINE x == Pieces(a)
               y == Pieces(b)
    <2>1. x \in Seq(Seq(Sign)) /\ y \in Seq(Seq(Sign)) /\ Len(x) = Len(a) /\ Len(y) = Len(b)
        BY <1>2
    <2> HIDE DEF x, y
    <2>2. /\ x \o y \in Seq(Seq(Sign)) /\ Len(x \o y) = Len(x) + Len(y)
          /\ \A k \in 1..Len(x) : (x \o y)[k] = x[k]
          /\ \A k \in 1..Len(y) : (x \o y)[Len(x) + k] = y[k]
        BY <2>1, PieceParts, Zenon
    <2>3. QED
        BY <2>1, <2>2, Zenon DEF x, y
<1>4. /\ \A i \in 1..(Len(a) - 1) : Joined(c, i) <=> Joined(a, i)
      /\ ~Joined(c, Len(a)) /\ ~Joined(a, Len(a))
      /\ \A j \in 1..Len(b) : Joined(c, Len(a) + j) <=> Joined(b, j)
    BY JoinedConcat
<1> HIDE DEF c, p
<1>5. ASSUME NEW i \in 1..Len(a)
      PROVE  Pieces(c)[i] = Piece(a, i)
    <2>1. Joined(c, i) <=> Joined(a, i)
        <3>1. i \in 1..(Len(a) - 1) \/ i = Len(a)
            <4>1. \A n \in Nat : \A m \in 1..n : m \in 1..(n - 1) \/ m = n
                OBVIOUS
            <4>2. QED
                BY <1>1, <4>1, Zenon
        <3>2. QED
            BY <1>4, <3>1, Zenon
    <2>2. i > 1 => (Joined(c, i - 1) <=> Joined(a, i - 1))
        <3>1. i > 1 => i - 1 \in 1..(Len(a) - 1)
            BY <1>1
        <3>2. QED
            BY <1>4, <3>1, Zenon
    <2>3. i \in DOMAIN c /\ c[i] = a[i]
        BY <1>1
    <2>4. Piece(c, i) = Piece(a, i)
        BY <2>1, <2>2, <2>3, Zenon DEF Piece
    <2>5. QED
        BY <2>3, <2>4, Zenon DEF Pieces
<1>6. ASSUME NEW j \in 1..Len(b)
      PROVE  Pieces(c)[Len(a) + j] = Piece(b, j)
    <2>1. Joined(c, Len(a) + j) <=> Joined(b, j)
        BY <1>4
    <2>2. (Len(a) + j > 1 /\ Joined(c, (Len(a) + j) - 1)) <=> (j > 1 /\ Joined(b, j - 1))
        <3>1. CASE j = 1
            <4>1. (Len(a) + j) - 1 = Len(a) /\ ~(j > 1)
                BY <1>1, <3>1
            <4>2. QED
                BY <1>4, <4>1, Zenon
        <3>2. CASE j # 1
            <4>1. /\ (Len(a) + j) - 1 = Len(a) + (j - 1) /\ j > 1 /\ Len(a) + j > 1
                  /\ j - 1 \in 1..Len(b)
                BY <1>1, <3>2
            <4>2. Joined(c, Len(a) + (j - 1)) <=> Joined(b, j - 1)
                BY <1>4, <4>1, Zenon
            <4>3. QED
                BY <4>1, <4>2, Zenon
        <3>3. QED
            BY <3>1, <3>2
    <2>3. Len(a) + j \in DOMAIN c /\ c[Len(a) + j] = b[j]
        BY <1>1
    <2>4. Piece(c, Len(a) + j) = Piece(b, j)
        BY <2>1, <2>2, <2>3, Zenon DEF Piece
    <2>5. QED
        BY <2>3, <2>4, Zenon DEF Pieces
<1>7. ASSUME NEW k \in 1..(Len(a) + Len(b))
      PROVE  Pieces(c)[k] = p[k]
    <2>1. CASE k \in 1..Len(a)
        <3>1. Pieces(a)[k] = Piece(a, k)
            BY <1>1, <2>1, Zenon DEF Pieces
        <3>2. QED
            BY <1>3, <1>5, <2>1, <3>1, Zenon
    <2>2. CASE k \notin 1..Len(a)
        <3>1. k - Len(a) \in 1..Len(b) /\ k = Len(a) + (k - Len(a))
            BY <1>1, <2>2
        <3>2. PICK j \in 1..Len(b) : k = Len(a) + j
            BY <3>1, Zenon
        <3>3. Pieces(b)[j] = Piece(b, j)
            BY <1>1, <3>2, Zenon DEF Pieces
        <3>4. Pieces(c)[Len(a) + j] = p[Len(a) + j]
            BY <1>3, <1>6, <3>2, <3>3, Zenon
        <3>5. QED
            BY <3>2, <3>4, Zenon
    <2>3. QED
        BY <2>1, <2>2
<1>8. Pieces(c) = p
    BY <1>2, <1>3, <1>7, Equal
<1>9. FlattenSeq(p) = FlattenSeq(Pieces(a)) \o FlattenSeq(Pieces(b))
    BY <1>2, FlatConcat DEF p
<1>10. QED
    BY <1>8, <1>9, LossyIs, Zenon DEF c

-----------------------------------------------------------------------------
(***************************************************************************)
(* Whole characters.                                                       *)
(***************************************************************************)
Whole(bs) ==
    \A i \in DOMAIN bs : /\ FirstHalf(bs, i) => Joined(bs, i)
                         /\ SecondHalf(bs, i) => i > 1 /\ Joined(bs, i - 1)

LEMMA WholeEnds ==
    ASSUME NEW bs \in Seq(Octet), Whole(bs)
    PROVE  ~FirstHalf(bs, Len(bs)) /\ ~SecondHalf(bs, 1)
<1>1. Len(bs) + 1 \notin DOMAIN bs /\ ~(1 > 1)
    OBVIOUS
<1>2. ~FirstHalf(bs, Len(bs))
    BY <1>1, Zenon DEF Whole, Joined, FirstHalf, SecondHalf
<1>3. ~SecondHalf(bs, 1)
    BY <1>1, Zenon DEF Whole, SecondHalf
<1>4. QED
    BY <1>2, <1>3

\* What halves there are is seen in the parts.
LEMMA HalvesConcat ==
    ASSUME NEW a \in Seq(Octet), NEW b \in Seq(Octet)
    PROVE  /\ \A i \in 1..Len(a) : FirstHalf(a \o b, i) <=> FirstHalf(a, i)
           /\ \A i \in 1..Len(a) : SecondHalf(a \o b, i) <=> SecondHalf(a, i)
           /\ \A j \in 1..Len(b) : FirstHalf(a \o b, Len(a) + j) <=> FirstHalf(b, j)
           /\ \A j \in 1..Len(b) : SecondHalf(a \o b, Len(a) + j) <=> SecondHalf(b, j)
<1> DEFINE c == a \o b
<1>1. /\ DOMAIN a = 1..Len(a) /\ DOMAIN b = 1..Len(b)
      /\ \A i \in 1..Len(a) : i \in DOMAIN c /\ c[i] = a[i]
      /\ \A j \in 1..Len(b) : Len(a) + j \in DOMAIN c /\ c[Len(a) + j] = b[j]
    OBVIOUS
<1> HIDE DEF c
<1>2. QED
    BY <1>1, Zenon DEF FirstHalf, SecondHalf, c

LEMMA WholeConcat ==
    ASSUME NEW a \in Seq(Octet), NEW b \in Seq(Octet), Whole(a), Whole(b)
    PROVE  Whole(a \o b) /\ ~Meet(a, b)
<1> DEFINE c == a \o b
<1>1. /\ \A i \in 1..Len(a) : FirstHalf(c, i) <=> FirstHalf(a, i)
      /\ \A i \in 1..Len(a) : SecondHalf(c, i) <=> SecondHalf(a, i)
      /\ \A j \in 1..Len(b) : FirstHalf(c, Len(a) + j) <=> FirstHalf(b, j)
      /\ \A j \in 1..Len(b) : SecondHalf(c, Len(a) + j) <=> SecondHalf(b, j)
    BY HalvesConcat, Zenon
<1>2. /\ \A i \in 1..(Len(a) - 1) : Joined(c, i) <=> Joined(a, i)
      /\ ~Joined(a, Len(a))
      /\ \A j \in 1..Len(b) : Joined(c, Len(a) + j) <=> Joined(b, j)
    BY JoinedConcat, Zenon
<1>3. /\ DOMAIN a = 1..Len(a) /\ DOMAIN b = 1..Len(b) /\ DOMAIN c = 1..(Len(a) + Len(b))
      /\ Len(a) \in Nat /\ Len(b) \in Nat
    OBVIOUS
<1>4. ~Meet(a, b)
    BY WholeEnds, Zenon DEF Meet
<1> HIDE DEF c
<1>5. ASSUME NEW k \in DOMAIN c
      PROVE  /\ FirstHalf(c, k) => Joined(c, k)
             /\ SecondHalf(c, k) => k > 1 /\ Joined(c, k - 1)
    <2>1. CASE k \in 1..Len(a)
        <3>1. FirstHalf(c, k) => Joined(c, k)
            <4>1. SUFFICES ASSUME FirstHalf(c, k)
                           PROVE  Joined(c, k)
                OBVIOUS
            <4>2. Joined(a, k)
                BY <1>1, <1>3, <2>1, <4>1, Zenon DEF Whole
            <4>3. k \in 1..(Len(a) - 1)
                <5>1. k # Len(a)
                    BY <1>2, <4>2, Zenon
                <5>2. QED
                    BY <1>3, <2>1, <5>1
            <4>4. QED
                BY <1>2, <4>2, <4>3, Zenon
        <3>2. SecondHalf(c, k) => k > 1 /\ Joined(c, k - 1)
            <4>1. SUFFICES ASSUME SecondHalf(c, k)
                           PROVE  k > 1 /\ Joined(c, k - 1)
                OBVIOUS
            <4>2. k > 1 /\ Joined(a, k - 1)
                BY <1>1, <1>3, <2>1, <4>1, Zenon DEF Whole
            <4>3. k - 1 \in 1..(Len(a) - 1)
                BY <1>3, <2>1, <4>2
            <4>4. QED
                BY <1>2, <4>2, <4>3, Zenon
        <3>3. QED
            BY <3>1, <3>2
    <2>2. CASE k \notin 1..Len(a)
        <3>1. k - Len(a) \in 1..Len(b) /\ k = Len(a) + (k - Len(a))
            BY <1>3, <2>2
        <3>2. PICK j \in 1..Len(b) : k = Len(a) + j
            BY <3>1, Zenon
        <3>3. FirstHalf(c, k) => Joined(c, k)
            BY <1>1, <1>2, <1>3, <3>2, Zenon DEF Whole
        <3>4. SecondHalf(c, k) => k > 1 /\ Joined(c, k - 1)
            <4>1. SUFFICES ASSUME SecondHalf(c, k)
                           PROVE  k > 1 /\ Joined(c, k - 1)
                OBVIOUS
            <4>2. j > 1 /\ Joined(b, j - 1)
                BY <1>1, <1>3, <3>2, <4>1, Zenon DEF Whole
            <4>3. j - 1 \in 1..Len(b) /\ k - 1 = Len(a) + (j - 1) /\ k > 1
                BY <1>3, <3>2, <4>2
            <4>4. QED
                BY <1>2, <4>2, <4>3, Zenon
        <3>5. QED
            BY <3>3, <3>4
    <2>3. QED
        BY <2>1, <2>2
<1>6. QED
    BY <1>4, <1>5, Zenon DEF Whole, c

LEMMA WholeCut ==
    ASSUME NEW a \in Seq(Octet), NEW b \in Seq(Octet), Whole(a \o b), ~FirstHalf(a, Len(a))
    PROVE  Whole(a) /\ Whole(b)
<1> DEFINE c == a \o b
<1>1. /\ \A i \in 1..Len(a) : FirstHalf(c, i) <=> FirstHalf(a, i)
      /\ \A i \in 1..Len(a) : SecondHalf(c, i) <=> SecondHalf(a, i)
      /\ \A j \in 1..Len(b) : FirstHalf(c, Len(a) + j) <=> FirstHalf(b, j)
      /\ \A j \in 1..Len(b) : SecondHalf(c, Len(a) + j) <=> SecondHalf(b, j)
    BY HalvesConcat, Zenon
<1>2. /\ \A i \in 1..(Len(a) - 1) : Joined(c, i) <=> Joined(a, i)
      /\ ~Joined(c, Len(a))
      /\ \A j \in 1..Len(b) : Joined(c, Len(a) + j) <=> Joined(b, j)
    BY JoinedConcat, Zenon DEF Meet
<1>3. /\ DOMAIN a = 1..Len(a) /\ DOMAIN b = 1..Len(b) /\ DOMAIN c = 1..(Len(a) + Len(b))
      /\ Len(a) \in Nat /\ Len(b) \in Nat
    OBVIOUS
<1>4. \A k \in DOMAIN c : /\ FirstHalf(c, k) => Joined(c, k)
                          /\ SecondHalf(c, k) => k > 1 /\ Joined(c, k - 1)
    BY Zenon DEF Whole
<1> HIDE DEF c
<1>5. ASSUME NEW k \in 1..Len(a)
      PROVE  /\ FirstHalf(a, k) => Joined(a, k)
             /\ SecondHalf(a, k) => k > 1 /\ Joined(a, k - 1)
    <2>1. k \in DOMAIN c
        BY <1>3
    <2>2. FirstHalf(a, k) => Joined(a, k)
        <3>1. SUFFICES ASSUME FirstHalf(a, k)
                       PROVE  Joined(a, k)
            OBVIOUS
        <3>2. k \in 1..(Len(a) - 1)
            <4>1. k # Len(a)
                BY <3>1, Zenon
            <4>2. \A n \in Nat : \A m \in 1..n : m # n => m \in 1..(n - 1)
                OBVIOUS
            <4>3. QED
                BY <1>3, <4>1, <4>2, Zenon
        <3>3. QED
            BY <1>1, <1>2, <1>4, <2>1, <3>1, <3>2, Zenon
    <2>3. SecondHalf(a, k) => k > 1 /\ Joined(a, k - 1)
        <3>1. SUFFICES ASSUME SecondHalf(a, k)
                       PROVE  k > 1 /\ Joined(a, k - 1)
            OBVIOUS
        <3>2. k > 1 /\ Joined(c, k - 1)
            BY <1>1, <1>4, <2>1, <3>1, Zenon
        <3>3. k - 1 \in 1..(Len(a) - 1)
            BY <1>3, <3>2
        <3>4. QED
            BY <1>2, <3>2, <3>3, Zenon
    <2>4. QED
        BY <2>2, <2>3
<1>6. ASSUME NEW j \in 1..Len(b)
      PROVE  /\ FirstHalf(b, j) => Joined(b, j)
             /\ SecondHalf(b, j) => j > 1 /\ Joined(b, j - 1)
    <2>1. Len(a) + j \in DOMAIN c
        BY <1>3
    <2>2. FirstHalf(b, j) => Joined(b, j)
        BY <1>1, <1>2, <1>4, <2>1, Zenon
    <2>3. SecondHalf(b, j) => j > 1 /\ Joined(b, j - 1)
        <3>1. SUFFICES ASSUME SecondHalf(b, j)
                       PROVE  j > 1 /\ Joined(b, j - 1)
            OBVIOUS
        <3>2. Joined(c, (Len(a) + j) - 1)
            BY <1>1, <1>4, <2>1, <3>1, Zenon
        <3>3. j # 1
            <4>1. (Len(a) + 1) - 1 = Len(a)
                BY <1>3
            <4>2. QED
                BY <1>2, <3>2, <4>1, Zenon
        <3>4. j > 1 /\ j - 1 \in 1..Len(b) /\ (Len(a) + j) - 1 = Len(a) + (j - 1)
            BY <1>3, <3>3
        <3>5. QED
            BY <1>2, <3>2, <3>4, Zenon
    <2>4. QED
        BY <2>2, <2>3
<1>7. QED
    BY <1>3, <1>5, <1>6, Zenon DEF Whole

\* A mark, and the bytes of a character.
LEMMA MarkWhole ==
    ASSUME NEW m \in Sign
    PROVE  /\ Whole(<<<<m, 0>>>>)
           /\ Lossy(<<<<m, 0>>>>) = <<m>>
<1> DEFINE bs == <<<<m, 0>>>>
<1>1. Len(bs) = 1 /\ DOMAIN bs = {1} /\ bs[1][1] = m /\ bs[1][2] = 0
    OBVIOUS
<1> HIDE DEF bs
<1>2. Whole(bs)
    <2>1. 0 # 1 /\ 0 # 2
        OBVIOUS
    <2>2. QED
        BY <1>1, <2>1, Zenon DEF Whole, FirstHalf, SecondHalf
<1>3. Pieces(bs) = <<<<m>>>>
    <2>1. Piece(bs, 1) = <<m>>
        BY <1>1, Zenon DEF Piece
    <2>2. Pieces(bs) = [i \in {1} |-> <<m>>]
        BY <1>1, <2>1, Zenon DEF Pieces
    <2>3. [i \in {1} |-> <<m>>] = <<<<m>>>>
        OBVIOUS
    <2>4. QED
        BY <2>2, <2>3, Zenon
<1>4. Lossy(bs) = <<m>>
    <2>1. <<m>> \in Seq(Sign)
        OBVIOUS
    <2>2. FlattenSeq(<<<<m>>>>) = <<m>>
        BY <2>1, FlatOne
    <2>3. QED
        BY <1>3, <2>2, LossyIs, Zenon
<1>5. QED
    BY <1>2, <1>4 DEF bs

LEMMA PairWhole ==
    ASSUME NEW c \in Char
    PROVE  /\ Whole(<<<<c, 1>>, <<c, 2>>>>)
           /\ Lossy(<<<<c, 1>>, <<c, 2>>>>) = <<c>>
<1> DEFINE bs == <<<<c, 1>>, <<c, 2>>>>
<1>1. /\ Len(bs) = 2 /\ DOMAIN bs = {1, 2}
      /\ bs[1][1] = c /\ bs[1][2] = 1 /\ bs[2][1] = c /\ bs[2][2] = 2
    OBVIOUS
<1>2. 1 + 1 = 2 /\ 2 - 1 = 1 /\ 2 + 1 \notin {1, 2} /\ 2 > 1 /\ 1 # 2 /\ 2 # 0
    OBVIOUS
<1> HIDE DEF bs
<1>3. Joined(bs, 1) /\ ~Joined(bs, 2)
    BY <1>1, <1>2, Zenon DEF Joined, FirstHalf, SecondHalf
<1>4. Whole(bs)
    <2>1. FirstHalf(bs, 1) => Joined(bs, 1)
        BY <1>3
    <2>2. ~SecondHalf(bs, 1) /\ ~FirstHalf(bs, 2)
        BY <1>1, <1>2, Zenon DEF FirstHalf, SecondHalf
    <2>3. 2 > 1 /\ Joined(bs, 2 - 1)
        BY <1>2, <1>3, Zenon
    <2>4. QED
        BY <1>1, <2>1, <2>2, <2>3, Zenon DEF Whole
<1>5. Pieces(bs) = <<<<c>>, <<>>>>
    <2>1. Piece(bs, 1) = <<c>>
        BY <1>1, <1>3, Zenon DEF Piece
    <2>2. Piece(bs, 2) = <<>>
        BY <1>1, <1>2, <1>3, Zenon DEF Piece
    <2>3. DOMAIN Pieces(bs) = {1, 2} /\ Pieces(bs)[1] = <<c>> /\ Pieces(bs)[2] = <<>>
        BY <1>1, <2>1, <2>2, Zenon DEF Pieces
    <2>4. Pieces(bs) = [i \in {1, 2} |-> Pieces(bs)[i]]
        BY <1>1, Zenon DEF Pieces
    <2> DEFINE p == Pieces(bs)
    <2> HIDE DEF p
    <2>5. p = [i \in {1, 2} |-> p[i]] /\ p[1] = <<c>> /\ p[2] = <<>>
        BY <2>3, <2>4, Zenon DEF p
    <2>6. p = <<<<c>>, <<>>>>
        BY <2>5, SMTT(20)
    <2>7. QED
        BY <2>6 DEF p
<1>6. Lossy(bs) = <<c>>
    <2>1. /\ <<c>> \in Seq(Char) /\ <<>> \in Seq(Char) /\ <<<<c>>>> \in Seq(Seq(Char))
          /\ <<<<c>>, <<>>>> = Append(<<<<c>>>>, <<>>) /\ <<c>> \o <<>> = <<c>>
        OBVIOUS
    <2>2. FlattenSeq(<<<<c>>>>) = <<c>>
        BY <2>1, FlatOne
    <2>3. FlattenSeq(<<<<c>>, <<>>>>) = <<c>> \o <<>>
        BY <2>1, <2>2, FlatMore
    <2>4. QED
        BY <1>5, <2>1, <2>3, LossyIs, Zenon
<1>7. QED
    BY <1>4, <1>6 DEF bs

-----------------------------------------------------------------------------
(***************************************************************************)
(* Encoding. Encoded text is whole and is decoded to what it was.          *)
(***************************************************************************)
LEMMA Utf8Whole ==
    ASSUME NEW c \in Char
    PROVE  Utf8(c) \in Seq(Byte) /\ Whole(Utf8(c)) /\ Lossy(Utf8(c)) = <<c>>
<1>1. CASE c \in Wide
    <2>1. <<<<c, 1>>, <<c, 2>>>> \in Seq(Byte)
        BY DEF Byte
    <2>2. Utf8(c) = <<<<c, 1>>, <<c, 2>>>>
        BY <1>1, Zenon DEF Utf8
    <2>3. QED
        BY <2>1, <2>2, PairWhole, Zenon
<1>2. CASE c \notin Wide
    <2>1. <<<<c, 0>>>> \in Seq(Byte) /\ c \in Sign
        BY DEF Byte, Sign
    <2>2. Utf8(c) = <<<<c, 0>>>>
        BY <1>2, Zenon DEF Utf8
    <2>3. QED
        BY <2>1, <2>2, MarkWhole, Zenon
<1>3. QED
    BY <1>1, <1>2

LEMMA EncodeNone == Encode(<<>>) = <<>>
<1>1. [i \in DOMAIN <<>> |-> Utf8(<<>>[i])] = <<>>
    OBVIOUS
<1>2. QED
    BY <1>1, FlatNone, Zenon DEF Encode

LEMMA EncodeMore ==
    ASSUME NEW x \in Seq(Char), NEW c \in Char
    PROVE  Encode(Append(x, c)) = Encode(x) \o Utf8(c)
<1> DEFINE U(y) == [i \in DOMAIN y |-> Utf8(y[i])]
<1>1. \A d \in Char : Utf8(d) \in Seq(Byte)
    BY Utf8Whole
<1>2. U(x) \in Seq(Seq(Byte)) /\ Utf8(c) \in Seq(Byte)
    <2>1. \A i \in 1..Len(x) : Utf8(x[i]) \in Seq(Byte)
        BY <1>1
    <2>2. U(x) \in [1..Len(x) -> Seq(Byte)]
        BY <2>1
    <2>3. Len(x) \in Nat
        OBVIOUS
    <2> HIDE DEF U
    <2>4. U(x) \in Seq(Seq(Byte))
        BY <2>2, <2>3
    <2>5. QED
        BY <1>1, <2>4
<1>3. U(Append(x, c)) = Append(U(x), Utf8(c))
    <2>1. DOMAIN Append(x, c) = 1..(Len(x) + 1)
        OBVIOUS
    <2>2. Append(U(x), Utf8(c)) \in Seq(Seq(Byte)) /\ Len(Append(U(x), Utf8(c))) = Len(x) + 1
        BY <1>2
    <2>3. U(Append(x, c)) \in Seq(Seq(Byte)) /\ Len(U(Append(x, c))) = Len(x) + 1
        BY <1>1
    <2>4. \A i \in 1..(Len(x) + 1) : U(Append(x, c))[i] = Append(U(x), Utf8(c))[i]
        BY <1>1, <1>2
    <2> HIDE DEF U
    <2>5. QED
        BY <2>2, <2>3, <2>4, Equal
<1>4. FlattenSeq(Append(U(x), Utf8(c))) = FlattenSeq(U(x)) \o Utf8(c)
    <2> HIDE DEF U
    <2>1. QED
        BY <1>2, FlatMore
<1>5. QED
    BY <1>3, <1>4, Zenon DEF Encode

LEMMA ByteSeq == Seq(Byte) \subseteq Seq(Octet) /\ Seq(Char) \subseteq Seq(Sign)
BY DEF Octet, Sign

LEMMA EncodeWhole ==
    ASSUME NEW x \in Seq(Char)
    PROVE  Encode(x) \in Seq(Byte) /\ Whole(Encode(x)) /\ Lossy(Encode(x)) = x
<1> DEFINE Q(u) == Encode(u) \in Seq(Byte) /\ Whole(Encode(u)) /\ Lossy(Encode(u)) = u
           P == {n \in Nat : \A u \in Seq(Char) : Len(u) = n => Q(u)}
<1>1. 0 \in P
    <2>1. ASSUME NEW u \in Seq(Char), Len(u) = 0
          PROVE  Q(u)
        <3>1. u = <<>>
            BY <2>1, EmptySeq
        <3>2. DOMAIN <<>> = {} /\ <<>> \in Seq(Byte)
            OBVIOUS
        <3>3. Whole(<<>>)
            BY <3>2, Zenon DEF Whole
        <3>4. Lossy(<<>>) = <<>>
            <4>1. Pieces(<<>>) = <<>>
                BY DEF Pieces
            <4>2. QED
                BY <4>1, FlatNone, LossyIs, Zenon
        <3>5. QED
            BY <3>1, <3>2, <3>3, <3>4, EncodeNone, Zenon
    <2>2. QED
        BY <2>1
<1>2. ASSUME NEW n \in Nat, n \in P
      PROVE  n + 1 \in P
    <2>1. ASSUME NEW u \in Seq(Char), Len(u) = n + 1
          PROVE  Q(u)
        <3>1. PICK v \in Seq(Char), c \in Char : u = Append(v, c) /\ Len(v) = n
            BY <2>1, CutLast
        <3>2. Q(v)
            BY <1>2, <3>1
        <3>3. Utf8(c) \in Seq(Byte) /\ Whole(Utf8(c)) /\ Lossy(Utf8(c)) = <<c>>
            BY <3>1, Utf8Whole
        <3>4. Encode(u) = Encode(v) \o Utf8(c)
            BY <3>1, EncodeMore, Zenon
        <3> DEFINE a == Encode(v)
                   b == Utf8(c)
        <3>5. a \in Seq(Byte) /\ Whole(a) /\ Lossy(a) = v
            BY <3>2
        <3>6. a \in Seq(Octet) /\ b \in Seq(Octet)
            BY <3>3, <3>5, ByteSeq
        <3> HIDE DEF a, b
        <3>7. a \o b \in Seq(Byte)
            BY <3>3, <3>5 DEF b
        <3>8. Whole(a \o b) /\ ~Meet(a, b)
            BY <3>3, <3>5, <3>6, WholeConcat, Zenon DEF b
        <3>9. Lossy(a \o b) = v \o <<c>>
            BY <3>3, <3>5, <3>6, <3>8, LossyConcat, Zenon DEF b
        <3>10. v \o <<c>> = u
            BY <3>1, Concats
        <3>11. QED
            BY <3>4, <3>7, <3>8, <3>9, <3>10, Zenon DEF a, b
    <2>2. QED
        BY <2>1
<1> HIDE DEF P, Q
<1>3. \A n \in Nat : n \in P
    BY <1>1, <1>2, InductiveSet
<1>4. Len(x) \in P
    BY <1>3
<1>5. QED
    BY <1>4 DEF P, Q

\* An event of the stream.
LEMMA LineWhole ==
    ASSUME NEW e \in Event, NEW x \in Seq(Char)
    PROVE  /\ Line(e, x) \in Seq(Octet) /\ Whole(Line(e, x))
           /\ Lossy(Line(e, x)) = (<<e>> \o x) \o <<"newline">>
<1> DEFINE a == <<<<e, 0>>>>
           b == Encode(x)
           c == <<<<"newline", 0>>>>
<1>1. e \in Sign /\ "newline" \in Sign /\ a \in Seq(Octet) /\ c \in Seq(Octet)
    BY DEF Sign, Mark, Octet
<1>2. /\ Whole(a) /\ Lossy(a) = <<e>>
      /\ Whole(c) /\ Lossy(c) = <<"newline">>
    BY <1>1, MarkWhole, Zenon
<1>3. b \in Seq(Octet) /\ Whole(b) /\ Lossy(b) = x
    BY EncodeWhole, ByteSeq
<1>4. Line(e, x) = (a \o b) \o c
    BY Zenon DEF Line
<1> HIDE DEF a, b, c
<1>5. a \o b \in Seq(Octet) /\ (a \o b) \o c \in Seq(Octet)
    BY <1>1, <1>3
<1>6. Whole(a \o b) /\ Lossy(a \o b) = <<e>> \o x
    BY <1>1, <1>2, <1>3, WholeConcat, LossyConcat, Zenon
<1>7. Whole((a \o b) \o c) /\ Lossy((a \o b) \o c) = (<<e>> \o x) \o <<"newline">>
    BY <1>1, <1>2, <1>5, <1>6, WholeConcat, LossyConcat, Zenon
<1>8. QED
    BY <1>4, <1>5, <1>7, Zenon

-----------------------------------------------------------------------------
(***************************************************************************)
(* What a character does to the app's parser.                              *)
(***************************************************************************)
At(b, c, a) == [buf |-> b, content |-> c, app |-> a]

LEMMA AtParts ==
    ASSUME NEW b, NEW c, NEW a
    PROVE  At(b, c, a).buf = b /\ At(b, c, a).content = c /\ At(b, c, a).app = a
BY DEF At

LEMMA SignParts ==
    /\ \A c \in Char : c \in Sign /\ c \notin Event /\ c # "newline"
    /\ \A e \in Event : e \in Sign /\ e # "newline" /\ e \notin Char
    /\ "newline" \in Sign /\ "delta" \in Event /\ "done" \in Event /\ "delta" # "done"
BY StreamAssumption DEF Sign, Mark, Event

LEMMA HeadOfLine ==
    ASSUME NEW e \in Event, NEW x \in Seq(Char)
    PROVE  /\ <<e>> \o x \in Seq(Sign) /\ <<e>> \o x # <<>>
           /\ Head(<<e>> \o x) = e /\ Tail(<<e>> \o x) = x
<1>1. e \in Sign /\ x \in Seq(Sign)
    BY SignParts, ByteSeq
<1> DEFINE l == <<e>> \o x
<1>2. l \in Seq(Sign) /\ Len(l) = Len(x) + 1 /\ l[1] = e /\ \A i \in 1..Len(x) : l[i + 1] = x[i]
    BY <1>1
<1> HIDE DEF l
<1>3. l # <<>> /\ Head(l) = e
    BY <1>2
<1>4. Tail(l) \in Seq(Sign) /\ Len(Tail(l)) = Len(x) /\ \A i \in 1..Len(x) : Tail(l)[i] = x[i]
    BY <1>2
<1>5. Tail(l) = x
    <2> DEFINE t == Tail(l)
    <2>1. t \in Seq(Sign) /\ Len(t) = Len(x) /\ \A i \in 1..Len(t) : t[i] = x[i]
        BY <1>4
    <2> HIDE DEF t
    <2>2. t = x
        BY <1>1, <2>1, Equal
    <2>3. QED
        BY <2>2 DEF t
<1>6. QED
    BY <1>2, <1>3, <1>5 DEF l

LEMMA FeedOther ==
    ASSUME NEW b, NEW c, NEW d, d # "newline"
    PROVE  Feed(At(b, c, "reading"), d) = At(Append(b, d), c, "reading")
BY DEF Feed, At

LEMMA FeedNothing ==
    ASSUME NEW c
    PROVE  Feed(At(<<>>, c, "reading"), "newline") = At(<<>>, c, "reading")
BY DEF Feed, Parse, At

LEMMA FeedEnd ==
    ASSUME NEW c, NEW e \in Event, NEW x \in Seq(Char)
    PROVE  Feed(At(<<e>> \o x, c, "reading"), "newline") =
               At(<<>>, IF e = "delta" THEN c \o x ELSE c,
                  IF e = "done" THEN "done" ELSE "reading")
<1> DEFINE l == <<e>> \o x
<1>1. l # <<>> /\ Head(l) = e /\ Tail(l) = x
    BY HeadOfLine
<1> HIDE DEF l
<1>2. Feed(At(l, c, "reading"), "newline") = Parse(At(l, c, "reading"))
    BY DEF Feed, At
<1>3. CASE e = "delta"
    BY <1>1, <1>2, <1>3 DEF Parse, At, l
<1>4. CASE e = "done"
    BY <1>1, <1>2, <1>4 DEF Parse, At, l
<1>5. CASE e # "delta" /\ e # "done"
    BY <1>1, <1>2, <1>5 DEF Parse, At, l
<1>6. QED
    BY <1>3, <1>4, <1>5

LEMMA FeedDone ==
    ASSUME NEW b, NEW c, NEW a, a # "reading", NEW d
    PROVE  Feed(At(b, c, a), d) = At(b, c, a)
BY DEF Feed, At

\* A parser that has returned stays as it is.
LEMMA RunDone ==
    ASSUME NEW b, NEW c, NEW a, a # "reading", NEW s \in Seq(Sign)
    PROVE  Run(At(b, c, a), s) = At(b, c, a)
<1> DEFINE v == At(b, c, a)
           P == {n \in Nat : \A u \in Seq(Sign) : Len(u) = n => Run(v, u) = v}
<1>0. \A d : Feed(v, d) = v
    BY FeedDone, Zenon
<1> HIDE DEF v
<1>1. 0 \in P
    <2>1. ASSUME NEW u \in Seq(Sign), Len(u) = 0
          PROVE  Run(v, u) = v
        <3>1. u = <<>>
            BY <2>1, EmptySeq
        <3>2. QED
            BY <3>1, RunNone, Zenon
    <2>2. QED
        BY <2>1
<1>2. ASSUME NEW n \in Nat, n \in P
      PROVE  n + 1 \in P
    <2>1. ASSUME NEW u \in Seq(Sign), Len(u) = n + 1
          PROVE  Run(v, u) = v
        <3>1. PICK w \in Seq(Sign), d \in Sign : u = Append(w, d) /\ Len(w) = n
            BY <2>1, CutLast
        <3>2. Run(v, w) = v
            BY <1>2, <3>1
        <3>3. Run(v, u) = Feed(Run(v, w), d)
            BY <3>1, RunMore, Zenon
        <3>4. Feed(v, d) = v
            BY <1>0
        <3>5. QED
            BY <3>2, <3>3, <3>4, Zenon
    <2>2. QED
        BY <2>1
<1> HIDE DEF P
<1>3. \A n \in Nat : n \in P
    BY <1>1, <1>2, InductiveSet
<1>4. Len(s) \in P
    BY <1>3
<1>5. QED
    BY <1>4 DEF P, v

\* The text of a line is collected.
LEMMA RunText ==
    ASSUME NEW c, NEW e \in Event, NEW x \in Seq(Char)
    PROVE  Run(At(<<e>>, c, "reading"), x) = At(<<e>> \o x, c, "reading")
<1> DEFINE v == At(<<e>>, c, "reading")
           Q(u) == Run(v, u) = At(<<e>> \o u, c, "reading")
           P == {n \in Nat : \A u \in Seq(Char) : Len(u) = n => Q(u)}
<1>0. <<e>> \in Seq(Sign)
    BY SignParts
<1>1. 0 \in P
    <2>1. ASSUME NEW u \in Seq(Char), Len(u) = 0
          PROVE  Q(u)
        <3>1. u = <<>>
            BY <2>1, EmptySeq
        <3>2. <<e>> \o <<>> = <<e>>
            BY <1>0, Concats
        <3>3. QED
            BY <3>1, <3>2, RunNone, Zenon
    <2>2. QED
        BY <2>1
<1>2. ASSUME NEW n \in Nat, n \in P
      PROVE  n + 1 \in P
    <2>1. ASSUME NEW u \in Seq(Char), Len(u) = n + 1
          PROVE  Q(u)
        <3>1. PICK w \in Seq(Char), d \in Char : u = Append(w, d) /\ Len(w) = n
            BY <2>1, CutLast
        <3>2. Run(v, w) = At(<<e>> \o w, c, "reading")
            BY <1>2, <3>1
        <3>3. w \in Seq(Sign) /\ d \in Sign /\ d # "newline"
            BY <3>1, SignParts, ByteSeq
        <3>4. Run(v, u) = Feed(At(<<e>> \o w, c, "reading"), d)
            BY <3>1, <3>2, <3>3, RunMore, Zenon
        <3>5. Append(<<e>> \o w, d) = <<e>> \o u
            BY <1>0, <3>1, <3>3, Concats
        <3>6. QED
            BY <3>3, <3>4, <3>5, FeedOther, Zenon
    <2>2. QED
        BY <2>1
<1> HIDE DEF P, Q
<1>3. \A n \in Nat : n \in P
    BY <1>1, <1>2, InductiveSet
<1>4. Len(x) \in P
    BY <1>3
<1>5. QED
    BY <1>4 DEF P, Q

-----------------------------------------------------------------------------
(***************************************************************************)
(* What the app's parser is fed never makes it show what was not streamed. *)
(***************************************************************************)
LEMMA Beginnings ==
    ASSUME NEW X, NEW s \in Seq(X), NEW t \in Seq(X)
    PROVE  /\ \A n \in 0..Len(s) : SubSeq(s \o t, 1, n) = SubSeq(s, 1, n)
           /\ \A n \in 0..Len(t) : SubSeq(s \o t, 1, Len(s) + n) = s \o SubSeq(t, 1, n)
           /\ SubSeq(s, 1, Len(s)) = s
<1>1. ASSUME NEW n \in 0..Len(s)
      PROVE  SubSeq(s \o t, 1, n) = SubSeq(s, 1, n)
    <2> DEFINE a == SubSeq(s \o t, 1, n)
               b == SubSeq(s, 1, n)
    <2>1. /\ a \in Seq(X) /\ Len(a) = n /\ \A i \in 1..n : a[i] = s[i]
          /\ b \in Seq(X) /\ Len(b) = n /\ \A i \in 1..n : b[i] = s[i]
        OBVIOUS
    <2> HIDE DEF a, b
    <2>2. a = b
        BY <2>1, Equal
    <2>3. QED
        BY <2>2 DEF a, b
<1>2. ASSUME NEW n \in 0..Len(t)
      PROVE  SubSeq(s \o t, 1, Len(s) + n) = s \o SubSeq(t, 1, n)
    <2> DEFINE a == SubSeq(s \o t, 1, Len(s) + n)
               c == SubSeq(t, 1, n)
               b == s \o c
               m == Len(s) + n
    <2>1. /\ Len(s) + n \in Nat
          /\ a \in Seq(X) /\ Len(a) = m /\ \A i \in 1..m : a[i] = (s \o t)[i]
        OBVIOUS
    <2>2. c \in Seq(X) /\ Len(c) = n /\ \A i \in 1..n : c[i] = t[i]
        OBVIOUS
    <2> HIDE DEF c
    <2>3. /\ b \in Seq(X) /\ Len(b) = m
          /\ \A i \in 1..m : b[i] = IF i <= Len(s) THEN s[i] ELSE c[i - Len(s)]
        BY <2>2
    <2>4. \A i \in 1..m : (s \o t)[i] = IF i <= Len(s) THEN s[i] ELSE t[i - Len(s)]
        OBVIOUS
    <2>5. \A i \in 1..m : a[i] = b[i]
        <3>1. ASSUME NEW i \in 1..m
              PROVE  a[i] = b[i]
            <4>1. i <= Len(s) \/ i - Len(s) \in 1..n
                OBVIOUS
            <4> HIDE DEF a, b, m
            <4>2. QED
                BY <2>1, <2>2, <2>3, <2>4, <4>1
        <3>2. QED
            BY <3>1
    <2> HIDE DEF a, b, m
    <2>6. a = b
        BY <2>1, <2>3, <2>5, Equal
    <2>7. QED
        BY <2>6 DEF a, b, c, m
<1>3. SubSeq(s, 1, Len(s)) = s
    OBVIOUS
<1>4. QED
    BY <1>1, <1>2, <1>3

Begins(p, s) == \E z \in Seq(Char) : s = p \o z

LEMMA BeginsMore ==
    ASSUME NEW p \in Seq(Char), NEW s \in Seq(Char), NEW t \in Seq(Char)
    PROVE  /\ Begins(p, s) => Begins(p, s \o t)
           /\ Begins(p \o t, s) => Begins(p, s)
           /\ Begins(p, p)
<1>1. \A a, b, c \in Seq(Char) : (a \o b) \o c = a \o (b \o c) /\ b \o c \in Seq(Char)
    BY Regroup, Zenon
<1>2. p \o <<>> = p /\ <<>> \in Seq(Char)
    OBVIOUS
<1>3. ASSUME NEW z \in Seq(Char), s = p \o z
      PROVE  s \o t = p \o (z \o t) /\ z \o t \in Seq(Char)
    BY <1>1, <1>3
<1>4. ASSUME NEW z \in Seq(Char), s = (p \o t) \o z
      PROVE  s = p \o (t \o z) /\ t \o z \in Seq(Char)
    BY <1>1, <1>4
<1>5. Begins(p, s) => Begins(p, s \o t)
    BY <1>3, Zenon DEF Begins
<1>6. Begins(p \o t, s) => Begins(p, s)
    BY <1>4, Zenon DEF Begins
<1>7. Begins(p, p)
    BY <1>2, Zenon DEF Begins
<1>8. QED
    BY <1>5, <1>6, <1>7

\* The parser between two lines, or inside one.
Between(acc, st) ==
    \E c \in Seq(Char), a \in {"reading", "done"} : acc = At(<<>>, c, a) /\ Begins(c, st)
Inside(acc, st) ==
    \E c, x \in Seq(Char), e \in Event :
        /\ acc = At(<<e>> \o x, c, "reading")
        /\ Begins(c, st)
        /\ e = "delta" => Begins(c \o x, st)
Fit(acc, st) == Between(acc, st) \/ Inside(acc, st)

\* It is so after each character of s.
Fine(v, s, st) == \A n \in 0..Len(s) : Fit(Run(v, SubSeq(s, 1, n)), st)

LEMMA FineMore ==
    ASSUME NEW st \in Seq(Char), NEW t \in Seq(Char), NEW v, NEW s, Fine(v, s, st)
    PROVE  Fine(v, s, st \o t)
<1>1. \A c, x \in Seq(Char) : c \o x \in Seq(Char)
    OBVIOUS
<1>2. \A p \in Seq(Char) : Begins(p, st) => Begins(p, st \o t)
    BY BeginsMore
<1>3. ASSUME NEW acc, Fit(acc, st)
      PROVE  Fit(acc, st \o t)
    <2>1. CASE Between(acc, st)
        BY <1>2, <2>1, Zenon DEF Between, Fit
    <2>2. CASE Inside(acc, st)
        BY <1>1, <1>2, <2>2, Zenon DEF Inside, Fit
    <2>3. QED
        BY <1>3, <2>1, <2>2, Zenon DEF Fit
<1>4. QED
    BY <1>3, Zenon DEF Fine

LEMMA FineCut ==
    ASSUME NEW v, NEW s \in Seq(Sign), NEW t \in Seq(Sign), NEW st, Fine(v, s \o t, st)
    PROVE  Fine(v, s, st) /\ Fine(Run(v, s), t, st)
<1>1. Len(s \o t) = Len(s) + Len(t) /\ Len(s) \in Nat /\ Len(t) \in Nat
    BY ConcatParts
<1>2. ASSUME NEW n \in 0..Len(s)
      PROVE  Fit(Run(v, SubSeq(s, 1, n)), st)
    <2>1. n \in 0..Len(s \o t)
        BY <1>1
    <2>2. SubSeq(s \o t, 1, n) = SubSeq(s, 1, n)
        BY Beginnings
    <2>3. QED
        BY <2>1, <2>2, Zenon DEF Fine
<1>3. ASSUME NEW n \in 0..Len(t)
      PROVE  Fit(Run(Run(v, s), SubSeq(t, 1, n)), st)
    <2>1. Len(s) + n \in 0..Len(s \o t)
        BY <1>1
    <2>2. SubSeq(s \o t, 1, Len(s) + n) = s \o SubSeq(t, 1, n) /\ SubSeq(t, 1, n) \in Seq(Sign)
        BY Beginnings
    <2>3. Run(v, s \o SubSeq(t, 1, n)) = Run(Run(v, s), SubSeq(t, 1, n))
        BY <2>2, RunConcat, Zenon
    <2>4. QED
        BY <2>1, <2>2, <2>3, Zenon DEF Fine
<1>4. QED
    BY <1>2, <1>3 DEF Fine

LEMMA FineConcat ==
    ASSUME NEW v, NEW s \in Seq(Sign), NEW t \in Seq(Sign), NEW st,
           Fine(v, s, st), Fine(Run(v, s), t, st)
    PROVE  Fine(v, s \o t, st)
<1>1. Len(s \o t) = Len(s) + Len(t) /\ Len(s) \in Nat /\ Len(t) \in Nat
    BY ConcatParts
<1>2. ASSUME NEW n \in 0..Len(s \o t)
      PROVE  Fit(Run(v, SubSeq(s \o t, 1, n)), st)
    <2>1. CASE n \in 0..Len(s)
        <3>1. SubSeq(s \o t, 1, n) = SubSeq(s, 1, n)
            BY <2>1, Beginnings
        <3>2. QED
            BY <2>1, <3>1, Zenon DEF Fine
    <2>2. CASE n \notin 0..Len(s)
        <3>1. n - Len(s) \in 0..Len(t) /\ n = Len(s) + (n - Len(s))
            BY <1>1, <2>2
        <3>2. PICK m \in 0..Len(t) : n = Len(s) + m
            BY <3>1, Zenon
        <3>3. SubSeq(s \o t, 1, Len(s) + m) = s \o SubSeq(t, 1, m) /\ SubSeq(t, 1, m) \in Seq(Sign)
            BY Beginnings
        <3>4. Run(v, s \o SubSeq(t, 1, m)) = Run(Run(v, s), SubSeq(t, 1, m))
            BY <3>3, RunConcat, Zenon
        <3>5. QED
            BY <3>2, <3>3, <3>4, Zenon DEF Fine
    <2>3. QED
        BY <2>1, <2>2
<1>3. QED
    BY <1>2 DEF Fine

\* What a line does to the content and to the parser.
After(e, x, c) == IF e = "delta" THEN c \o x ELSE c
Ends(e) == IF e = "done" THEN "done" ELSE "reading"

LEMMA FineLine ==
    ASSUME NEW e \in Event, NEW x \in Seq(Char), NEW c \in Seq(Char)
    PROVE  LET v == At(<<>>, c, "reading")
               s == (<<e>> \o x) \o <<"newline">>
           IN  /\ Run(v, s) = At(<<>>, After(e, x, c), Ends(e))
               /\ Fine(v, s, After(e, x, c))
<1> DEFINE v == At(<<>>, c, "reading")
           l == <<e>> \o x
           s == l \o <<"newline">>
           st == After(e, x, c)
<1>1. /\ e \in Sign /\ e # "newline" /\ "newline" \in Sign /\ <<"newline">> \in Seq(Sign)
      /\ x \in Seq(Sign) /\ <<e>> \in Seq(Sign) /\ l \in Seq(Sign)
    BY SignParts, ByteSeq, HeadOfLine
<1>2. Len(<<e>>) = 1 /\ Len(l) = 1 + Len(x) /\ Len(s) = 2 + Len(x) /\ Len(x) \in Nat
    BY <1>1
<1>3. Run(v, <<e>>) = At(<<e>>, c, "reading")
    <2>1. Append(<<>>, e) = <<e>>
        OBVIOUS
    <2>2. Run(v, <<e>>) = At(Append(<<>>, e), c, "reading")
        BY <1>1, FeedOther, RunOne, Zenon
    <2>3. QED
        BY <2>1, <2>2, Zenon
<1>4. ASSUME NEW n \in 0..Len(x)
      PROVE  /\ SubSeq(x, 1, n) \in Seq(Char) /\ SubSeq(x, 1, n) \in Seq(Sign)
             /\ Run(v, <<e>> \o SubSeq(x, 1, n)) = At(<<e>> \o SubSeq(x, 1, n), c, "reading")
    <2>1. SubSeq(x, 1, n) \in Seq(Char) /\ SubSeq(x, 1, n) \in Seq(Sign)
        BY <1>1
    <2>2. Run(v, <<e>> \o SubSeq(x, 1, n)) = Run(Run(v, <<e>>), SubSeq(x, 1, n))
        <3> HIDE DEF v
        <3>1. QED
            BY <1>1, <2>1, RunConcat
    <2>3. QED
        BY <1>3, <2>1, <2>2, RunText, Zenon
<1>5. Run(v, l) = At(l, c, "reading")
    <2>1. Run(v, l) = Run(Run(v, <<e>>), x)
        <3> HIDE DEF v
        <3>1. QED
            BY <1>1, RunConcat
    <2>2. QED
        BY <1>3, <2>1, RunText, Zenon
<1>6. Run(v, s) = At(<<>>, st, Ends(e))
    <2>1. Run(v, s) = Run(Run(v, l), <<"newline">>)
        <3> HIDE DEF v, l
        <3>1. QED
            BY <1>1, RunConcat
    <2>2. Run(Run(v, l), <<"newline">>) = Feed(Run(v, l), "newline")
        BY <1>1, RunOne, Zenon
    <2>3. Feed(At(<<e>> \o x, c, "reading"), "newline") = At(<<>>, After(e, x, c), Ends(e))
        BY FeedEnd DEF After, Ends
    <2>4. QED
        BY <1>5, <2>1, <2>2, <2>3, Zenon
<1>7. /\ st \in Seq(Char) /\ Begins(c, st) /\ Begins(st, st)
      /\ \A n \in 0..Len(x) : e = "delta" => Begins(c \o SubSeq(x, 1, n), st)
    <2>1. CASE e = "delta"
        <3>1. st = c \o x /\ st \in Seq(Char)
            BY <2>1 DEF After
        <3>2. ASSUME NEW n \in 0..Len(x)
              PROVE  Begins(c \o SubSeq(x, 1, n), st)
            <4>1. /\ SubSeq(x, 1, n) \in Seq(Char) /\ SubSeq(x, n + 1, Len(x)) \in Seq(Char)
                  /\ x = SubSeq(x, 1, n) \o SubSeq(x, n + 1, Len(x))
                BY Cut
            <4>2. st = (c \o SubSeq(x, 1, n)) \o SubSeq(x, n + 1, Len(x))
                <5> DEFINE a == SubSeq(x, 1, n)
                           b == SubSeq(x, n + 1, Len(x))
                <5>1. a \in Seq(Char) /\ b \in Seq(Char) /\ x = a \o b
                    BY <4>1
                <5> HIDE DEF a, b
                <5>2. c \o (a \o b) = (c \o a) \o b
                    BY <5>1, Concats
                <5>3. QED
                    BY <3>1, <5>1, <5>2, Zenon DEF a, b
            <4>3. QED
                BY <4>1, <4>2, Zenon DEF Begins
        <3>3. Begins(c, st) /\ Begins(st, st)
            BY <3>1, BeginsMore, Zenon DEF Begins
        <3>4. QED
            BY <3>1, <3>2, <3>3
    <2>2. CASE e # "delta"
        <3>1. st = c
            BY <2>2 DEF After
        <3>2. QED
            BY <2>2, <3>1, BeginsMore, Zenon
    <2>3. QED
        BY <2>1, <2>2
<1>8. Fine(v, s, st)
    <2>1. ASSUME NEW n \in 0..Len(s)
          PROVE  Fit(Run(v, SubSeq(s, 1, n)), st)
        <3>1. CASE n = 0
            <4>1. SubSeq(s, 1, 0) = <<>>
                OBVIOUS
            <4>2. Run(v, SubSeq(s, 1, n)) = v
                BY <3>1, <4>1, RunNone, Zenon
            <4>3. QED
                BY <1>7, <4>2, Zenon DEF Fit, Between
        <3>2. CASE n = Len(s)
            <4>1. s \in Seq(Sign)
                BY <1>1
            <4>2. SubSeq(s, 1, n) = s
                BY <3>2, <4>1, Beginnings
            <4>3. Ends(e) \in {"reading", "done"}
                BY DEF Ends
            <4>4. QED
                BY <1>6, <1>7, <4>2, <4>3, Zenon DEF Fit, Between
        <3>3. CASE n # 0 /\ n # Len(s)
            <4>1. n - 1 \in 0..Len(x) /\ n = 1 + (n - 1) /\ n \in 0..Len(l)
                BY <1>2, <3>3
            <4>2. PICK m \in 0..Len(x) : n = 1 + m
                BY <4>1, Zenon
            <4>3. SubSeq(s, 1, n) = SubSeq(l, 1, n)
                BY <1>1, <4>1, Beginnings
            <4>4. SubSeq(l, 1, n) = <<e>> \o SubSeq(x, 1, m)
                BY <1>1, <1>2, <4>2, Beginnings
            <4>5. Run(v, SubSeq(s, 1, n)) = At(<<e>> \o SubSeq(x, 1, m), c, "reading")
                BY <1>4, <4>3, <4>4, Zenon
            <4>6. QED
                BY <1>4, <1>7, <4>5, Zenon DEF Fit, Inside
        <3>4. QED
            BY <3>1, <3>2, <3>3
    <2>2. QED
        BY <2>1 DEF Fine
<1>9. QED
    BY <1>6, <1>8, Zenon

-----------------------------------------------------------------------------
(***************************************************************************)
(* Stop strings. Replacement characters are in none of them: a text to     *)
(* which some were added has no more stop strings than before.             *)
(***************************************************************************)
Free(text) == AllStops(text) = {}

LEMMA StopParts ==
    /\ \A s \in Stops : s \in Seq(Char) /\ Len(s) \in Nat \ {0} /\ \A i \in 1..Len(s) : s[i] # Replacement
    /\ Replacement \in Char
<1>1. ASSUME NEW s \in Stops
      PROVE  s \in Seq(Char) /\ Len(s) \in Nat \ {0} /\ \A i \in 1..Len(s) : s[i] # Replacement
    <2>1. s \in Seq(Char \ {Replacement}) /\ s # <<>>
        BY StreamAssumption
    <2>2. QED
        BY <2>1
<1>2. QED
    BY <1>1, StreamAssumption DEF Char

There(text, s, p) == p + Len(s) <= Len(text) + 1 /\ \A i \in 1..Len(s) : text[p + i - 1] = s[i]

LEMMA OccursIs ==
    ASSUME NEW text \in Seq(Char), NEW s \in Seq(Char), Len(s) \in Nat \ {0}, NEW p \in Nat \ {0}
    PROVE  OccursAt(text, s, p) <=> There(text, s, p)
<1> DEFINE q == p + Len(s) - 1
           t == SubSeq(text, p, q)
<1>1. q <= Len(text) <=> p + Len(s) <= Len(text) + 1
    OBVIOUS
<1>2. ASSUME q <= Len(text)
      PROVE  t = s <=> \A i \in 1..Len(s) : text[p + i - 1] = s[i]
    <2>1. t \in Seq(Char) /\ Len(t) = Len(s) /\ \A i \in 1..Len(s) : t[i] = text[p + i - 1]
        BY <1>2
    <2> HIDE DEF t, q
    <2>2. (\A i \in 1..Len(s) : t[i] = s[i]) => t = s
        BY <2>1, Equal
    <2>3. QED
        BY <2>1, <2>2
<1>3. QED
    BY <1>1, <1>2, Zenon DEF OccursAt, There

LEMMA FreeIs ==
    ASSUME NEW text
    PROVE  Free(text) <=> \A s \in Stops, p \in DOMAIN text : ~OccursAt(text, s, p)
<1>1. \A p : p \in AllStops(text) <=> \E s \in Stops : p \in DOMAIN text /\ OccursAt(text, s, p)
    BY DEF AllStops, StopsIn
<1>2. QED
    BY <1>1 DEF Free

LEMMA FreeNone == Free(<<>>)
<1>1. DOMAIN <<>> = {}
    OBVIOUS
<1>2. QED
    BY <1>1, FreeIs, Zenon

LEMMA OccursConcat ==
    ASSUME NEW a \in Seq(Char), NEW b \in Seq(Char), NEW s \in Seq(Char), Len(s) \in Nat \ {0}
    PROVE  /\ \A p \in 1..Len(a) : OccursAt(a, s, p) => OccursAt(a \o b, s, p)
           /\ \A p \in 1..Len(a) : OccursAt(a \o b, s, p) /\ p + Len(s) <= Len(a) + 1 => OccursAt(a, s, p)
           /\ \A p \in 1..Len(b) : OccursAt(a \o b, s, Len(a) + p) <=> OccursAt(b, s, p)
<1> DEFINE c == a \o b
<1>1. /\ c \in Seq(Char) /\ Len(c) = Len(a) + Len(b) /\ Len(a) \in Nat /\ Len(b) \in Nat
      /\ \A k \in 1..Len(a) : c[k] = a[k]
      /\ \A k \in 1..Len(b) : c[Len(a) + k] = b[k]
    BY ConcatParts
<1> HIDE DEF c
<1>2. ASSUME NEW p \in 1..Len(a), p + Len(s) <= Len(a) + 1
      PROVE  OccursAt(a, s, p) <=> OccursAt(c, s, p)
    <2>1. p \in Nat \ {0} /\ p + Len(s) <= Len(c) + 1
        BY <1>1, <1>2
    <2>2. \A i \in 1..Len(s) : a[p + i - 1] = c[p + i - 1]
        <3>1. \A i \in 1..Len(s) : p + i - 1 \in 1..Len(a)
            BY <1>1, <1>2
        <3>2. QED
            BY <1>1, <3>1, Zenon
    <2>3. OccursAt(a, s, p) <=> There(a, s, p)
        BY <2>1, OccursIs, Zenon
    <2>4. OccursAt(c, s, p) <=> There(c, s, p)
        BY <1>1, <2>1, OccursIs, Zenon
    <2>5. There(a, s, p) <=> There(c, s, p)
        BY <1>2, <2>1, <2>2, Zenon DEF There
    <2>6. QED
        BY <2>3, <2>4, <2>5, Zenon
<1>3. ASSUME NEW p \in 1..Len(a), OccursAt(a, s, p)
      PROVE  OccursAt(c, s, p)
    <2>1. p + Len(s) <= Len(a) + 1
        <3>1. p \in Nat \ {0}
            OBVIOUS
        <3>2. There(a, s, p)
            BY <1>3, <3>1, OccursIs, Zenon
        <3>3. QED
            BY <3>2, Zenon DEF There
    <2>2. QED
        BY <1>2, <1>3, <2>1
<1>4. ASSUME NEW p \in 1..Len(b)
      PROVE  OccursAt(c, s, Len(a) + p) <=> OccursAt(b, s, p)
    <2> DEFINE q == Len(a) + p
    <2>1. p \in Nat \ {0} /\ q \in Nat \ {0} /\ (q + Len(s) <= Len(c) + 1 <=> p + Len(s) <= Len(b) + 1)
        BY <1>1
    <2>2. ASSUME p + Len(s) <= Len(b) + 1
          PROVE  \A i \in 1..Len(s) : c[q + i - 1] = b[p + i - 1]
        <3>1. ASSUME NEW i \in 1..Len(s)
              PROVE  c[q + i - 1] = b[p + i - 1]
            <4>1. p + i - 1 \in 1..Len(b) /\ q + i - 1 = Len(a) + (p + i - 1)
                BY <1>1, <2>2
            <4>2. QED
                BY <1>1, <4>1, Zenon
        <3>2. QED
            BY <3>1
    <2> HIDE DEF q
    <2>3. OccursAt(b, s, p) <=> There(b, s, p)
        BY <2>1, OccursIs, Zenon
    <2>4. OccursAt(c, s, q) <=> There(c, s, q)
        BY <1>1, <2>1, OccursIs, Zenon
    <2>5. OccursAt(c, s, q) <=> OccursAt(b, s, p)
        BY <2>1, <2>2, <2>3, <2>4, Zenon DEF There
    <2>6. QED
        BY <2>5 DEF q
<1>5. QED
    BY <1>2, <1>3, <1>4 DEF c

LEMMA FreeParts ==
    ASSUME NEW a \in Seq(Char), NEW b \in Seq(Char), Free(a \o b)
    PROVE  Free(a) /\ Free(b)
<1>1. /\ DOMAIN a = 1..Len(a) /\ DOMAIN b = 1..Len(b)
      /\ \A p \in 1..Len(a) : p \in DOMAIN (a \o b)
      /\ \A p \in 1..Len(b) : Len(a) + p \in DOMAIN (a \o b)
    OBVIOUS
<1>2. ASSUME NEW s \in Stops
      PROVE  /\ \A p \in 1..Len(a) : ~OccursAt(a, s, p)
             /\ \A p \in 1..Len(b) : ~OccursAt(b, s, p)
    <2>1. s \in Seq(Char) /\ Len(s) \in Nat \ {0}
        BY StopParts
    <2>2. \A p \in DOMAIN (a \o b) : ~OccursAt(a \o b, s, p)
        BY FreeIs
    <2>3. /\ \A p \in 1..Len(a) : OccursAt(a, s, p) => OccursAt(a \o b, s, p)
          /\ \A p \in 1..Len(b) : OccursAt(a \o b, s, Len(a) + p) <=> OccursAt(b, s, p)
        BY <2>1, OccursConcat
    <2>4. QED
        BY <1>1, <2>2, <2>3, Zenon
<1>3. QED
    BY <1>1, <1>2, FreeIs, Zenon

\* No stop string crosses a replacement character.
LEMMA FreeJoin ==
    ASSUME NEW y \in Seq(Char), NEW z \in Seq(Char), Free(y), Free(z),
           y = <<>> \/ y[Len(y)] = Replacement
    PROVE  Free(y \o z)
<1> DEFINE c == y \o z
<1>1. /\ c \in Seq(Char) /\ Len(c) = Len(y) + Len(z) /\ Len(y) \in Nat /\ Len(z) \in Nat
      /\ DOMAIN c = 1..Len(c) /\ DOMAIN y = 1..Len(y) /\ DOMAIN z = 1..Len(z)
      /\ \A k \in 1..Len(y) : c[k] = y[k]
      /\ y = <<>> => Len(y) = 0
    OBVIOUS
<1>2. ASSUME NEW s \in Stops, NEW p \in 1..Len(c), OccursAt(c, s, p)
      PROVE  FALSE
    <2>1. s \in Seq(Char) /\ Len(s) \in Nat \ {0} /\ \A i \in 1..Len(s) : s[i] # Replacement
        BY StopParts
    <2>2. /\ \A q \in 1..Len(y) : OccursAt(c, s, q) /\ q + Len(s) <= Len(y) + 1 => OccursAt(y, s, q)
          /\ \A q \in 1..Len(z) : OccursAt(c, s, Len(y) + q) <=> OccursAt(z, s, q)
        BY <2>1, OccursConcat
    <2>3. p + Len(s) <= Len(c) + 1 /\ \A i \in 1..Len(s) : c[p + i - 1] = s[i]
        <3>1. p \in Nat \ {0}
            OBVIOUS
        <3> HIDE DEF c
        <3>2. There(c, s, p)
            BY <1>1, <1>2, <2>1, <3>1, OccursIs, Zenon
        <3>3. QED
            BY <3>2, Zenon DEF There
    <2> HIDE DEF c
    <2>4. CASE p > Len(y)
        <3>1. p - Len(y) \in 1..Len(z) /\ p = Len(y) + (p - Len(y))
            BY <1>1, <2>4
        <3>2. OccursAt(z, s, p - Len(y))
            BY <1>2, <2>2, <3>1, Zenon
        <3>3. QED
            BY <1>1, <3>1, <3>2, FreeIs, Zenon
    <2>5. CASE p <= Len(y)
        <3>1. p \in 1..Len(y) /\ y[Len(y)] = Replacement /\ Len(y) \in 1..Len(y)
            BY <1>1, <2>5
        <3>2. p + Len(s) <= Len(y) + 1
            <4>1. SUFFICES ASSUME p + Len(s) > Len(y) + 1
                           PROVE  FALSE
                BY <1>1, <2>1
            <4>2. Len(y) - p + 1 \in 1..Len(s) /\ p + (Len(y) - p + 1) - 1 = Len(y)
                BY <1>1, <2>1, <3>1, <4>1
            <4>3. c[Len(y)] = s[Len(y) - p + 1] /\ c[Len(y)] = y[Len(y)]
                BY <1>1, <2>3, <3>1, <4>2
            <4>4. QED
                BY <2>1, <3>1, <4>2, <4>3, Zenon
        <3>3. OccursAt(y, s, p)
            BY <1>2, <2>2, <3>1, <3>2, Zenon
        <3>4. QED
            BY <1>1, <3>1, <3>3, FreeIs, Zenon
    <2>6. QED
        BY <1>1, <2>4, <2>5
<1> HIDE DEF c
<1>3. Free(c)
    BY <1>1, <1>2, FreeIs, Zenon
<1>4. QED
    BY <1>3 DEF c

LEMMA FreeMark ==
    ASSUME NEW w \in Seq(Char), Free(w)
    PROVE  Free(Append(w, Replacement))
<1>1. Replacement \in Char
    BY StopParts
<1> DEFINE c == Append(w, Replacement)
           m == <<Replacement>>
<1>2. /\ m \in Seq(Char) /\ c = w \o m /\ Len(m) = 1 /\ m[1] = Replacement /\ c \in Seq(Char)
      /\ Len(c) = Len(w) + 1 /\ Len(w) \in Nat /\ DOMAIN c = 1..(Len(w) + 1) /\ DOMAIN w = 1..Len(w)
      /\ c[Len(w) + 1] = Replacement
    BY <1>1
<1> HIDE DEF c, m
<1>3. ASSUME NEW s \in Stops, NEW p \in 1..(Len(w) + 1), OccursAt(c, s, p)
      PROVE  FALSE
    <2>1. s \in Seq(Char) /\ Len(s) \in Nat \ {0} /\ \A i \in 1..Len(s) : s[i] # Replacement
        BY StopParts
    <2>2. \A q \in 1..Len(w) : OccursAt(c, s, q) /\ q + Len(s) <= Len(w) + 1 => OccursAt(w, s, q)
        BY <1>2, <2>1, OccursConcat
    <2>3. p + Len(s) <= Len(c) + 1 /\ \A i \in 1..Len(s) : c[p + i - 1] = s[i]
        <3>1. p \in Nat \ {0}
            BY <1>2
        <3>2. There(c, s, p)
            BY <1>2, <1>3, <2>1, <3>1, OccursIs, Zenon
        <3>3. QED
            BY <3>2, Zenon DEF There
    <2>4. p + Len(s) <= Len(w) + 1
        <3>1. SUFFICES ASSUME p + Len(s) > Len(w) + 1
                       PROVE  FALSE
            BY <1>2, <2>1
        <3>2. p + Len(s) - 1 = Len(w) + 1 /\ Len(s) \in 1..Len(s)
            BY <1>2, <2>1, <2>3, <3>1
        <3>3. c[Len(w) + 1] = s[Len(s)]
            BY <2>3, <3>2, Zenon
        <3>4. QED
            BY <1>2, <2>1, <3>2, <3>3, Zenon
    <2>5. p \in 1..Len(w)
        BY <1>2, <2>1, <2>4
    <2>6. QED
        BY <1>2, <1>3, <2>2, <2>4, <2>5, FreeIs, Zenon
<1>4. Free(c)
    BY <1>2, <1>3, FreeIs, Zenon
<1>5. QED
    BY <1>4 DEF c

LEMMA AppendIn ==
    /\ \A p, q \in Seq(Char), r \in Char : p \o Append(q, r) = Append(p \o q, r)
    /\ \A p \in Seq(Char), r \in Char : Append(p, r) = p \o <<r>>
BY Concats

\* w ends as s does, after a replacement character if the rest is not the same.
Tailed(w, s) ==
    \E y, u, z \in Seq(Char) :
        w = y \o z /\ s = u \o z /\ (y = <<>> \/ y[Len(y)] = Replacement)

LEMMA TailedMore ==
    ASSUME NEW w \in Seq(Char), NEW s \in Seq(Char), NEW d \in Seq(Char),
           Free(w), Tailed(w, s), Free(s \o d)
    PROVE  Free(w \o d) /\ Tailed(w \o d, s \o d)
<1>1. PICK y \in Seq(Char), u \in Seq(Char), z \in Seq(Char) :
          w = y \o z /\ s = u \o z /\ (y = <<>> \/ y[Len(y)] = Replacement)
    BY Zenon DEF Tailed
<1>2. w \o d = y \o (z \o d) /\ s \o d = u \o (z \o d) /\ z \o d \in Seq(Char)
    <2>1. z \o d \in Seq(Char)
        BY <1>1, Regroup, Zenon
    <2>2. (y \o z) \o d = y \o (z \o d)
        <3>1. Assoc(y, z, d)
            BY <1>1, Assocs, Zenon
        <3>2. QED
            BY <3>1, Zenon DEF Assoc
    <2>3. (u \o z) \o d = u \o (z \o d)
        <3>1. Assoc(u, z, d)
            BY <1>1, Assocs, Zenon
        <3>2. QED
            BY <3>1, Zenon DEF Assoc
    <2>4. QED
        BY <1>1, <2>1, <2>2, <2>3, Zenon
<1>3. Free(y) /\ Free(z \o d)
    BY <1>1, <1>2, FreeParts, Zenon
<1>4. Free(y \o (z \o d))
    BY <1>1, <1>2, <1>3, FreeJoin, Zenon
<1>5. QED
    BY <1>1, <1>2, <1>4, Zenon DEF Tailed

LEMMA TailedTear ==
    ASSUME NEW w \in Seq(Char), NEW s \in Seq(Char), Free(w)
    PROVE  LET t == Append(Append(w, Replacement), Replacement)
           IN  t \in Seq(Char) /\ Free(t) /\ Tailed(t, s)
<1> DEFINE t1 == Append(w, Replacement)
           t == Append(t1, Replacement)
<1>1. t1 \in Seq(Char) /\ t \in Seq(Char) /\ t[Len(t)] = Replacement
    BY StopParts
<1>2. Free(t1) /\ Free(t)
    BY <1>1, FreeMark, Zenon
<1> HIDE DEF t
<1>3. t = t \o <<>> /\ s = s \o <<>> /\ <<>> \in Seq(Char)
    BY <1>1
<1>4. Tailed(t, s)
    BY <1>1, <1>3, Zenon DEF Tailed
<1>5. QED
    BY <1>1, <1>2, <1>4 DEF t

LEMMA TailedSame ==
    ASSUME NEW w \in Seq(Char)
    PROVE  Tailed(w, w)
<1>1. w = <<>> \o w /\ <<>> \in Seq(Char)
    OBVIOUS
<1>2. QED
    BY <1>1, Zenon DEF Tailed

-----------------------------------------------------------------------------
(***************************************************************************)
(* Two parsers: one that read the body as it was sent, and one that read   *)
(* it in chunks, some of which ended inside a character.                   *)
(***************************************************************************)
SameLine(a, v) ==
    \E c1, c2 \in Seq(Char), g \in {"reading", "done"} :
        /\ a = At(<<>>, c1, g) /\ v = At(<<>>, c2, g)
        /\ Free(c1) /\ Tailed(c1, c2)
SamePlace(a, v) ==
    \E c1, c2, x1, x2 \in Seq(Char), e \in Event :
        /\ a = At(<<e>> \o x1, c1, "reading") /\ v = At(<<e>> \o x2, c2, "reading")
        /\ Free(c1) /\ Tailed(c1, c2)
        /\ e = "delta" => Free(c1 \o x1) /\ Tailed(c1 \o x1, c2 \o x2)
Sim(a, v) == SameLine(a, v) \/ SamePlace(a, v)

LEMMA SameLines ==
    ASSUME NEW e \in Event, NEW x \in Seq(Char), NEW f \in Event, NEW y \in Seq(Char),
           <<e>> \o x = <<f>> \o y
    PROVE  e = f /\ x = y
BY HeadOfLine, SMTT(20)

LEMMA LineMore ==
    ASSUME NEW e \in Event, NEW x \in Seq(Char), NEW d \in Sign
    PROVE  /\ Append(<<e>> \o x, d) = <<e>> \o Append(x, d)
           /\ d \in Char => Append(x, d) \in Seq(Char)
<1>1. <<e>> \in Seq(Sign) /\ x \in Seq(Sign)
    BY SignParts, ByteSeq
<1>2. QED
    BY <1>1, Concats

\* A line begins with its event and goes on with text.
LEMMA FitFirst ==
    ASSUME NEW d \in Sign, NEW c, NEW st, Fit(At(<<d>>, c, "reading"), st)
    PROVE  d \in Event
<1> DEFINE b == <<d>>
<1>1. b # <<>> /\ Head(b) = d
    OBVIOUS
<1> HIDE DEF b
<1>3. ~Between(At(b, c, "reading"), st)
    <2>1. At(b, c, "reading").buf = b /\ \A c2, g : At(<<>>, c2, g).buf = <<>>
        BY DEF At
    <2>2. QED
        BY <1>1, <2>1, Zenon DEF Between
<1>4. PICK e \in Event, x \in Seq(Char), c2 \in Seq(Char) : At(b, c, "reading") = At(<<e>> \o x, c2, "reading")
    BY <1>3, Zenon DEF Fit, Inside, b
<1>5. b = <<e>> \o x
    <2>1. At(b, c, "reading").buf = b /\ At(<<e>> \o x, c2, "reading").buf = <<e>> \o x
        BY DEF At
    <2>2. QED
        BY <1>4, <2>1, Zenon
<1>6. Head(<<e>> \o x) = e
    BY HeadOfLine
<1>7. QED
    BY <1>1, <1>5, <1>6, Zenon

LEMMA FitAppend ==
    ASSUME NEW e \in Event, NEW x \in Seq(Char), NEW d \in Sign, NEW c, NEW st,
           Fit(At(Append(<<e>> \o x, d), c, "reading"), st)
    PROVE  d \in Char /\ (e = "delta" => Begins(c \o Append(x, d), st))
<1> DEFINE b == Append(<<e>> \o x, d)
<1>0. <<e>> \o x \in Seq(Sign) /\ x \in Seq(Sign)
    BY HeadOfLine, ByteSeq
<1>1. b # <<>> /\ b = <<e>> \o Append(x, d)
    BY <1>0, LineMore
<1> HIDE DEF b
<1>2. ~Between(At(b, c, "reading"), st)
    <2>1. At(b, c, "reading").buf = b /\ \A c2, g : At(<<>>, c2, g).buf = <<>>
        BY DEF At
    <2>2. QED
        BY <1>1, <2>1, Zenon DEF Between
<1>3. PICK f \in Event, y \in Seq(Char), c2 \in Seq(Char) :
          At(b, c, "reading") = At(<<f>> \o y, c2, "reading") /\ (f = "delta" => Begins(c2 \o y, st))
    BY <1>2, Zenon DEF Fit, Inside, b
<1>4. b = <<f>> \o y /\ c = c2
    <2>1. /\ At(b, c, "reading").buf = b /\ At(b, c, "reading").content = c
          /\ At(<<f>> \o y, c2, "reading").buf = <<f>> \o y
          /\ At(<<f>> \o y, c2, "reading").content = c2
        BY DEF At
    <2>2. QED
        BY <1>3, <2>1, Zenon
<1>5. e = f /\ Append(x, d) = y
    <2> DEFINE z == Append(x, d)
    <2>1. <<e>> \o z = <<f>> \o y /\ z \in Seq(Sign) /\ y \in Seq(Sign) /\ e \in Sign /\ f \in Sign
        BY <1>0, <1>1, <1>4, SignParts, ByteSeq
    <2> HIDE DEF z
    <2>2. Len(z) = Len(y) /\ \A i \in 1..Len(z) : (<<e>> \o z)[i + 1] = z[i] /\ (<<f>> \o y)[i + 1] = y[i]
        <3>1. Len(<<e>> \o z) = 1 + Len(z) /\ Len(<<f>> \o y) = 1 + Len(y)
            BY <2>1
        <3>2. Len(z) = Len(y)
            BY <2>1, <3>1
        <3>3. QED
            BY <2>1, <3>2
    <2>3. z = y
        <3>1. \A i \in 1..Len(z) : z[i] = y[i]
            BY <2>1, <2>2, Zenon
        <3>2. QED
            BY <2>1, <2>2, <3>1, Equal
    <2>4. (<<e>> \o z)[1] = e /\ (<<f>> \o y)[1] = f
        BY <2>1
    <2>5. QED
        BY <2>1, <2>3, <2>4, Zenon DEF z
<1>6. d \in Char
    <2>1. y[Len(y)] \in Char /\ y[Len(y)] = d
        <3>1. Len(Append(x, d)) = Len(x) + 1 /\ Append(x, d)[Len(x) + 1] = d /\ Len(x) \in Nat
            BY <1>0
        <3>2. Len(y) = Len(x) + 1 /\ y[Len(y)] = d
            BY <1>5, <3>1
        <3>3. Len(y) \in 1..Len(y)
            BY <3>1, <3>2
        <3>4. QED
            BY <3>2, <3>3
    <2>2. QED
        BY <2>1, Zenon
<1>7. QED
    BY <1>3, <1>4, <1>5, <1>6, Zenon

LEMMA SimFeed ==
    ASSUME NEW a, NEW v, Sim(a, v), NEW d \in Sign, NEW st \in Seq(Char), Free(st),
           Fit(Feed(v, d), st)
    PROVE  Sim(Feed(a, d), Feed(v, d))
<1>1. CASE SameLine(a, v)
    <2>1. PICK c1 \in Seq(Char), c2 \in Seq(Char), g \in {"reading", "done"} :
              /\ a = At(<<>>, c1, g) /\ v = At(<<>>, c2, g)
              /\ Free(c1) /\ Tailed(c1, c2)
        BY <1>1, Zenon DEF SameLine
    <2>2. CASE g = "done"
        <3>1. g # "reading"
            BY <2>2
        <3>2. Feed(a, d) = a /\ Feed(v, d) = v
            BY <2>1, <3>1, FeedDone, Zenon
        <3>3. QED
            BY <3>2, Zenon
    <2>3. CASE g = "reading" /\ d = "newline"
        <3>1. Feed(a, d) = a /\ Feed(v, d) = v
            BY <2>1, <2>3, FeedNothing, Zenon
        <3>2. QED
            BY <3>1, Zenon
    <2>4. CASE g = "reading" /\ d # "newline"
        <3>1. Append(<<>>, d) = <<d>> /\ <<d>> \o <<>> = <<d>> /\ <<>> \in Seq(Char)
              /\ c1 \o <<>> = c1 /\ c2 \o <<>> = c2
            OBVIOUS
        <3>2. Feed(a, d) = At(<<d>>, c1, "reading") /\ Feed(v, d) = At(<<d>>, c2, "reading")
            BY <2>1, <2>4, <3>1, FeedOther, Zenon
        <3>3. d \in Event
            BY <3>2, FitFirst, Zenon
        <3>4. SamePlace(Feed(a, d), Feed(v, d))
            BY <2>1, <3>1, <3>2, <3>3, Zenon DEF SamePlace
        <3>5. QED
            BY <3>4 DEF Sim
    <2>5. QED
        BY <2>1, <2>2, <2>3, <2>4
<1>2. CASE SamePlace(a, v)
    <2>1. PICK c1 \in Seq(Char), c2 \in Seq(Char), x1 \in Seq(Char), x2 \in Seq(Char), e \in Event :
              /\ a = At(<<e>> \o x1, c1, "reading") /\ v = At(<<e>> \o x2, c2, "reading")
              /\ Free(c1) /\ Tailed(c1, c2)
              /\ e = "delta" => Free(c1 \o x1) /\ Tailed(c1 \o x1, c2 \o x2)
        BY <1>2, Zenon DEF SamePlace
    <2>2. c1 \o x1 \in Seq(Char) /\ c2 \o x2 \in Seq(Char)
        OBVIOUS
    <2>3. CASE d = "newline"
        <3>1. /\ Feed(a, d) = At(<<>>, After(e, x1, c1), Ends(e))
              /\ Feed(v, d) = At(<<>>, After(e, x2, c2), Ends(e))
            BY <2>1, <2>3, FeedEnd, Zenon DEF After, Ends
        <3>2. Ends(e) \in {"reading", "done"}
            BY DEF Ends
        <3>3. CASE e = "delta"
            <4>1. After(e, x1, c1) = c1 \o x1 /\ After(e, x2, c2) = c2 \o x2
                BY <3>3 DEF After
            <4>2. SameLine(Feed(a, d), Feed(v, d))
                BY <2>1, <2>2, <3>1, <3>2, <3>3, <4>1, Zenon DEF SameLine
            <4>3. QED
                BY <4>2 DEF Sim
        <3>4. CASE e # "delta"
            <4>1. After(e, x1, c1) = c1 /\ After(e, x2, c2) = c2
                BY <3>4 DEF After
            <4>2. SameLine(Feed(a, d), Feed(v, d))
                BY <2>1, <3>1, <3>2, <4>1, Zenon DEF SameLine
            <4>3. QED
                BY <4>2 DEF Sim
        <3>5. QED
            BY <3>3, <3>4
    <2>4. CASE d # "newline"
        <3>1. /\ Feed(a, d) = At(Append(<<e>> \o x1, d), c1, "reading")
              /\ Feed(v, d) = At(Append(<<e>> \o x2, d), c2, "reading")
            BY <2>1, <2>4, FeedOther, Zenon
        <3>2. d \in Char /\ (e = "delta" => Begins(c2 \o Append(x2, d), st))
            BY <3>1, FitAppend, Zenon
        <3>3. /\ Append(<<e>> \o x1, d) = <<e>> \o Append(x1, d) /\ Append(x1, d) \in Seq(Char)
              /\ Append(<<e>> \o x2, d) = <<e>> \o Append(x2, d) /\ Append(x2, d) \in Seq(Char)
            BY <3>2, LineMore, Zenon
        <3>4. ASSUME e = "delta"
              PROVE  Free(c1 \o Append(x1, d)) /\ Tailed(c1 \o Append(x1, d), c2 \o Append(x2, d))
            <4>1. PICK z \in Seq(Char) : st = (c2 \o Append(x2, d)) \o z
                BY <3>2, <3>4, Zenon DEF Begins
            <4>2. /\ c1 \o Append(x1, d) = (c1 \o x1) \o <<d>>
                  /\ c2 \o Append(x2, d) = (c2 \o x2) \o <<d>>
                  /\ <<d>> \in Seq(Char) /\ c2 \o Append(x2, d) \in Seq(Char)
                <5>1. /\ c1 \o Append(x1, d) = Append(c1 \o x1, d)
                      /\ c2 \o Append(x2, d) = Append(c2 \o x2, d)
                    BY <3>2, AppendIn, Zenon
                <5>2. /\ Append(c1 \o x1, d) = (c1 \o x1) \o <<d>>
                      /\ Append(c2 \o x2, d) = (c2 \o x2) \o <<d>>
                    BY <2>2, <3>2, AppendIn, Zenon
                <5>3. <<d>> \in Seq(Char) /\ c2 \o Append(x2, d) \in Seq(Char)
                    BY <3>2, <3>3
                <5>4. QED
                    BY <5>1, <5>2, <5>3, Zenon
            <4>3. Free((c2 \o x2) \o <<d>>)
                BY <4>1, <4>2, FreeParts, Zenon
            <4>4. Free((c1 \o x1) \o <<d>>) /\ Tailed((c1 \o x1) \o <<d>>, (c2 \o x2) \o <<d>>)
                BY <2>1, <2>2, <3>4, <4>2, <4>3, TailedMore, Zenon
            <4>5. QED
                BY <4>2, <4>4, Zenon
        <3>5. SamePlace(Feed(a, d), Feed(v, d))
            BY <2>1, <3>1, <3>3, <3>4, Zenon DEF SamePlace
        <3>6. QED
            BY <3>5 DEF Sim
    <2>5. QED
        BY <2>3, <2>4
<1>3. QED
    BY <1>1, <1>2 DEF Sim

LEMMA SimTear ==
    ASSUME NEW a, NEW v, Sim(a, v), a.app = "reading", NEW d \in Char, NEW st \in Seq(Char),
           Free(st), Fit(Feed(v, d), st)
    PROVE  Sim(At(Append(Append(a.buf, Replacement), Replacement), a.content, a.app), Feed(v, d))
<1> DEFINE w == At(Append(Append(a.buf, Replacement), Replacement), a.content, a.app)
<1>0. d \in Sign /\ d # "newline" /\ d \notin Event /\ Replacement \in Char /\ Replacement \in Sign
    BY SignParts, StopParts
<1>1. CASE SameLine(a, v)
    <2>1. PICK c1 \in Seq(Char), c2 \in Seq(Char), g \in {"reading", "done"} :
              a = At(<<>>, c1, g) /\ v = At(<<>>, c2, g)
        BY <1>1, Zenon DEF SameLine
    <2>2. g = "reading"
        BY <2>1, AtParts
    <2>3. Append(<<>>, d) = <<d>>
        OBVIOUS
    <2>4. Feed(v, d) = At(<<d>>, c2, "reading")
        BY <1>0, <2>1, <2>2, <2>3, FeedOther, Zenon
    <2>5. d \in Event
        BY <1>0, <2>4, FitFirst, Zenon
    <2>6. QED
        BY <1>0, <2>5
<1>2. CASE SamePlace(a, v)
    <2>1. PICK c1 \in Seq(Char), c2 \in Seq(Char), x1 \in Seq(Char), x2 \in Seq(Char), e \in Event :
              /\ a = At(<<e>> \o x1, c1, "reading") /\ v = At(<<e>> \o x2, c2, "reading")
              /\ Free(c1) /\ Tailed(c1, c2)
              /\ e = "delta" => Free(c1 \o x1) /\ Tailed(c1 \o x1, c2 \o x2)
        BY <1>2, Zenon DEF SamePlace
    <2> DEFINE r1 == Append(x1, Replacement)
               r2 == Append(r1, Replacement)
               y2 == Append(x2, d)
    <2>2. /\ r1 \in Seq(Char) /\ r2 \in Seq(Char) /\ y2 \in Seq(Char)
          /\ c1 \o x1 \in Seq(Char) /\ c2 \o y2 \in Seq(Char)
        BY <1>0
    <2>3. /\ Append(<<e>> \o x1, Replacement) = <<e>> \o r1
          /\ Append(<<e>> \o r1, Replacement) = <<e>> \o r2
          /\ Append(<<e>> \o x2, d) = <<e>> \o y2
        BY <1>0, <2>2, LineMore, Zenon
    <2>4. w = At(<<e>> \o r2, c1, "reading")
        <3>0. LET u == At(<<e>> \o x1, c1, "reading")
              IN  u.buf = <<e>> \o x1 /\ u.content = c1 /\ u.app = "reading"
            BY DEF At
        <3>1. a.buf = <<e>> \o x1 /\ a.content = c1 /\ a.app = "reading"
            BY <2>1, <3>0, Zenon
        <3>2. QED
            BY <2>3, <3>1, Zenon
    <2>5. Feed(v, d) = At(<<e>> \o y2, c2, "reading")
        BY <1>0, <2>1, <2>3, FeedOther, Zenon
    <2>6. ASSUME e = "delta"
          PROVE  Free(c1 \o r2) /\ Tailed(c1 \o r2, c2 \o y2)
        <3>1. c1 \o r2 = Append(Append(c1 \o x1, Replacement), Replacement)
            <4>1. \A p, q \in Seq(Char) : Append(p \o q, Replacement) = p \o Append(q, Replacement)
                BY StopParts, AppendIn, Zenon
            <4>2. QED
                BY <2>2, <4>1, Zenon
        <3>2. QED
            BY <2>1, <2>2, <2>6, <3>1, TailedTear, Zenon
    <2>7. SamePlace(w, Feed(v, d))
        BY <2>1, <2>2, <2>4, <2>5, <2>6, Zenon DEF SamePlace
    <2>8. QED
        BY <2>7 DEF Sim
<1>3. QED
    BY <1>1, <1>2 DEF Sim

LEMMA SimRun ==
    ASSUME NEW a, NEW v, Sim(a, v), NEW st \in Seq(Char), Free(st),
           NEW s \in Seq(Sign), Fine(v, s, st)
    PROVE  Sim(Run(a, s), Run(v, s))
<1> DEFINE Q(u) == Fine(v, u, st) => Sim(Run(a, u), Run(v, u))
           P == {n \in Nat : \A u \in Seq(Sign) : Len(u) = n => Q(u)}
<1>1. 0 \in P
    <2>1. ASSUME NEW u \in Seq(Sign), Len(u) = 0
          PROVE  Q(u)
        <3>1. u = <<>>
            BY <2>1, EmptySeq
        <3>2. Run(a, u) = a /\ Run(v, u) = v
            BY <3>1, RunNone, Zenon
        <3>3. QED
            BY <3>2
    <2>2. QED
        BY <2>1
<1>2. ASSUME NEW n \in Nat, n \in P
      PROVE  n + 1 \in P
    <2>1. ASSUME NEW u \in Seq(Sign), Len(u) = n + 1
          PROVE  Q(u)
        <3>1. PICK w \in Seq(Sign), d \in Sign : u = Append(w, d) /\ Len(w) = n
            BY <2>1, CutLast
        <3>2. Q(w)
            BY <1>2, <3>1
        <3>3. SUFFICES ASSUME Fine(v, u, st)
                       PROVE  Sim(Run(a, u), Run(v, u))
            OBVIOUS
        <3>4. u = w \o <<d>> /\ <<d>> \in Seq(Sign) /\ SubSeq(u, 1, Len(u)) = u /\ Len(u) \in 0..Len(u)
            BY <3>1, Concats
        <3>5. Fine(v, w, st)
            BY <3>3, <3>4, FineCut, Zenon
        <3>6. Fit(Run(v, u), st)
            BY <3>3, <3>4, Zenon DEF Fine
        <3>7. Run(v, u) = Feed(Run(v, w), d) /\ Run(a, u) = Feed(Run(a, w), d)
            BY <3>1, RunMore, Zenon
        <3>8. Sim(Run(a, w), Run(v, w))
            BY <3>2, <3>5
        <3>9. QED
            BY <3>6, <3>7, <3>8, SimFeed, Zenon
    <2>2. QED
        BY <2>1
<1> HIDE DEF P, Q
<1>3. \A n \in Nat : n \in P
    BY <1>1, <1>2, InductiveSet
<1>4. Len(s) \in P
    BY <1>3
<1>5. QED
    BY <1>4 DEF P, Q

-----------------------------------------------------------------------------
(***************************************************************************)
(* A chunk is the rest of a character whose first half came before, whole  *)
(* characters, and perhaps the first half of one.                          *)
(***************************************************************************)
FirstOf(c) == <<<<c, 1>>>>
Held == {<<>>} \cup {FirstOf(c) : c \in Char}

LEMMA HeldType == Held \subseteq Seq(Octet)
<1>1. \A c \in Char : <<c, 1>> \in Octet
    BY DEF Octet, Byte
<1>2. \A c \in Char : FirstOf(c) \in Seq(Octet)
    <2>1. \A o \in Octet : <<o>> \in Seq(Octet)
        OBVIOUS
    <2>2. QED
        BY <1>1, <2>1, Zenon DEF FirstOf
<1>3. <<>> \in Seq(Octet)
    OBVIOUS
<1>4. QED
    BY <1>2, <1>3, Zenon DEF Held

LEMMA RegroupBytes ==
    /\ \A a, b, c \in Seq(Octet) : (a \o b) \o c = a \o (b \o c) /\ b \o c \in Seq(Octet)
    /\ \A a \in Seq(Octet), o \in Octet : Append(a, o) = a \o <<o>> /\ <<o>> \in Seq(Octet)
    /\ \A a \in Seq(Octet) : a \o <<>> = a /\ <<>> \o a = a
<1>1. \A a, b, c \in Seq(Octet) : (a \o b) \o c = a \o (b \o c) /\ b \o c \in Seq(Octet)
    <2>1. \A a, b, c \in Seq(Octet) : (a \o b) \o c = a \o (b \o c)
        BY Concats, Zenon
    <2>2. \A b, c \in Seq(Octet) : b \o c \in Seq(Octet)
        OBVIOUS
    <2>3. QED
        BY <2>1, <2>2, Zenon
<1>2. \A a \in Seq(Octet), o \in Octet : Append(a, o) = a \o <<o>> /\ <<o>> \in Seq(Octet)
    <2>1. \A a \in Seq(Octet), o \in Octet : Append(a, o) = a \o <<o>>
        BY Concats, Zenon
    <2>2. \A o \in Octet : <<o>> \in Seq(Octet)
        OBVIOUS
    <2>3. QED
        BY <2>1, <2>2, Zenon
<1>3. \A a \in Seq(Octet) : a \o <<>> = a /\ <<>> \o a = a
    OBVIOUS
<1>4. QED
    BY <1>1, <1>2, <1>3

LEMMA HalfIs ==
    ASSUME NEW bs \in Seq(Octet), NEW i, FirstHalf(bs, i)
    PROVE  \E c \in Char : bs[i] = <<c, 1>>
<1>1. i \in DOMAIN bs /\ bs[i][2] = 1
    BY Zenon DEF FirstHalf
<1>2. bs[i] \in Octet
    BY <1>1
<1>3. QED
    BY <1>1, <1>2 DEF Octet, Byte

LEMMA ChunkEnd ==
    ASSUME NEW rest \in Seq(Octet), Whole(rest), NEW k \in 0..Len(rest)
    PROVE  \E mid \in Seq(Octet), post \in Held :
               /\ SubSeq(rest, 1, k) = mid \o post
               /\ post = <<>> <=> ~FirstHalf(rest, k)
               /\ Whole(mid)
               /\ Whole(post \o SubSeq(rest, k + 1, Len(rest)))
<1> DEFINE a == SubSeq(rest, 1, k)
           b == SubSeq(rest, k + 1, Len(rest))
<1>0. /\ a \in Seq(Octet) /\ b \in Seq(Octet) /\ rest = a \o b /\ Len(a) = k
      /\ \A i \in 1..k : a[i] = rest[i]
    BY Cut
<1> HIDE DEF a, b
<1>1. /\ a \in Seq(Octet) /\ b \in Seq(Octet) /\ rest = a \o b /\ Len(a) = k /\ k \in Nat
      /\ \A i \in 1..k : a[i] = rest[i]
    BY <1>0
<1>2. /\ DOMAIN rest = 1..Len(rest) /\ DOMAIN a = 1..k
      /\ \A i \in 1..k : i \in 1..Len(rest)
    BY <1>1
<1>3. CASE ~FirstHalf(rest, k)
    <2>1. ~FirstHalf(a, Len(a))
        BY <1>1, <1>2, <1>3, Zenon DEF FirstHalf
    <2>2. Whole(a) /\ Whole(b)
        BY <1>1, <2>1, WholeCut, Zenon
    <2>3. a \o <<>> = a /\ <<>> \o b = b
        BY <1>1
    <2>4. <<>> \in Held
        BY DEF Held
    <2>5. QED
        BY <1>1, <1>3, <2>2, <2>3, <2>4, Zenon DEF a, b
<1>4. CASE FirstHalf(rest, k)
    <2>1. PICK c \in Char : rest[k] = <<c, 1>>
        BY <1>4, HalfIs
    <2> DEFINE post == <<<<c, 1>>>>
    <2>2. post \in Held /\ post \in Seq(Octet) /\ post # <<>>
        <3>1. post \in Held
            BY DEF Held, FirstOf
        <3>2. QED
            BY <3>1, HeldType
    <2>3. k >= 1 /\ k \in 1..Len(rest) /\ k \in 1..k /\ k - 1 \in Nat /\ Len(a) = (k - 1) + 1
        BY <1>1, <1>2, <1>4 DEF FirstHalf
    <2>4. PICK mid \in Seq(Octet), e \in Octet : a = Append(mid, e) /\ Len(mid) = k - 1
        BY <1>1, <2>3, CutLast
    <2>5. a[k] = e /\ \A i \in 1..(k - 1) : a[i] = mid[i]
        BY <2>3, <2>4
    <2>6. e = <<c, 1>>
        BY <1>1, <2>1, <2>3, <2>5, Zenon
    <2>7. a = mid \o post
        BY <2>4, <2>6, RegroupBytes, Zenon
    <2>8. rest = mid \o (post \o b) /\ post \o b \in Seq(Octet)
        <3>1. rest = (mid \o post) \o b
            BY <1>1, <2>7, Zenon
        <3> HIDE DEF post
        <3>2. (mid \o post) \o b = mid \o (post \o b) /\ post \o b \in Seq(Octet)
            BY <1>1, <2>2, <2>4, RegroupBytes, Zenon
        <3>3. QED
            BY <3>1, <3>2, Zenon
    <2>9. ~FirstHalf(mid, Len(mid))
        <3>1. SUFFICES ASSUME FirstHalf(mid, Len(mid))
                       PROVE  FALSE
            OBVIOUS
        <3>2. Len(mid) \in 1..(k - 1) /\ mid[Len(mid)][2] = 1
            BY <2>4, <3>1 DEF FirstHalf
        <3>3. k - 1 \in 1..k /\ k - 1 \in 1..Len(rest) /\ (k - 1) + 1 = k /\ k - 1 \in 1..(k - 1)
            BY <2>3, <2>4, <3>2
        <3>4. rest[k - 1][2] = 1
            BY <1>1, <2>4, <2>5, <3>2, <3>3, Zenon
        <3>5. FirstHalf(rest, k - 1)
            BY <1>2, <3>3, <3>4, Zenon DEF FirstHalf
        <3>6. SecondHalf(rest, k)
            BY <1>2, <3>3, <3>5, Zenon DEF Whole, Joined
        <3>7. rest[k][2] = 2 /\ rest[k][2] = 1
            BY <1>4, <3>6, Zenon DEF FirstHalf, SecondHalf
        <3>8. QED
            BY <3>7
    <2> HIDE DEF post
    <2>10. Whole(mid) /\ Whole(post \o b)
        BY <2>4, <2>8, <2>9, WholeCut, Zenon
    <2>11. QED
        BY <1>4, <2>2, <2>4, <2>7, <2>10, Zenon DEF a, b
<1>5. QED
    BY <1>3, <1>4

\* The second half, if the first one was held.
LEMMA ChunkHead ==
    ASSUME NEW c \in Char, NEW body1 \in Seq(Octet), Whole(FirstOf(c) \o body1)
    PROVE  \E rest \in Seq(Octet) :
               body1 = <<<<c, 2>>>> \o rest /\ Whole(rest) /\ ~FirstHalf(body1, 1)
<1> DEFINE h == FirstOf(c)
           H == h \o body1
<1>1. h \in Seq(Octet) /\ Len(h) = 1 /\ h[1] = <<c, 1>>
    BY DEF Octet, Byte, FirstOf
<1> HIDE DEF h
<1>2. /\ H \in Seq(Octet) /\ DOMAIN H = 1..(1 + Len(body1)) /\ H[1] = <<c, 1>> /\ Len(body1) \in Nat
      /\ \A i \in 1..Len(body1) : H[i + 1] = body1[i]
    <2>1. h \in Seq(Octet)
        BY <1>1, Zenon
    <2>2. /\ H \in Seq(Octet) /\ DOMAIN H = 1..(Len(h) + Len(body1)) /\ Len(body1) \in Nat
          /\ \A i \in 1..Len(h) : H[i] = h[i]
          /\ \A i \in 1..Len(body1) : H[Len(h) + i] = body1[i]
        BY <2>1, ConcatParts
    <2>3. 1 \in 1..1 /\ \A i \in 1..Len(body1) : 1 + i = i + 1
        BY <2>2
    <2>4. QED
        BY <1>1, <2>2, <2>3, Zenon
<1> HIDE DEF H
<1>3. FirstHalf(H, 1)
    <2>1. 1 \in DOMAIN H /\ <<c, 1>>[2] = 1
        BY <1>2
    <2>2. QED
        BY <1>2, <2>1, Zenon DEF FirstHalf
<1>4. SecondHalf(H, 1 + 1) /\ H[1][1] = H[1 + 1][1]
    BY <1>3, Zenon DEF Whole, Joined, FirstHalf, H, h
<1>5. 1 \in 1..Len(body1) /\ body1[1][2] = 2 /\ body1[1][1] = c
    <2>1. 1 + 1 \in DOMAIN H /\ H[1 + 1][2] = 2
        BY <1>4, Zenon DEF SecondHalf
    <2>2. 1 \in 1..Len(body1)
        BY <1>2, <2>1
    <2>3. H[1 + 1] = body1[1] /\ H[1][1] = c
        BY <1>2, <2>2
    <2>4. QED
        BY <1>4, <2>1, <2>2, <2>3, Zenon
<1>6. body1[1] = <<c, 2>> /\ ~FirstHalf(body1, 1)
    <2>1. body1[1] \in Octet
        BY <1>5
    <2>2. body1[1] = <<c, 2>>
        BY <1>5, <2>1 DEF Octet, Byte
    <2>3. 2 # 1
        OBVIOUS
    <2>4. QED
        BY <1>5, <2>2, <2>3, Zenon DEF FirstHalf
<1> DEFINE p == SubSeq(body1, 1, 1)
           rest == SubSeq(body1, 1 + 1, Len(body1))
<1>7. 1 \in 0..Len(body1)
    BY <1>5
<1>8. /\ p \in Seq(Octet) /\ rest \in Seq(Octet) /\ Len(p) = 1 /\ p[1] = body1[1]
      /\ body1 = p \o rest
    BY <1>7, Cut
<1> HIDE DEF p, rest
<1>9. p = <<<<c, 2>>>>
    <2>1. \A q \in Seq(Octet) : Len(q) = 1 => q = <<q[1]>>
        OBVIOUS
    <2>2. QED
        BY <1>6, <1>8, <2>1, Zenon
<1>10. H = (h \o p) \o rest /\ h \o p \in Seq(Octet)
    <2>1. H = h \o (p \o rest)
        BY <1>8, Zenon DEF H, h
    <2>2. h \in Seq(Octet) /\ p \in Seq(Octet) /\ rest \in Seq(Octet)
        BY <1>1, <1>8, Zenon
    <2>3. (h \o p) \o rest = h \o (p \o rest)
        BY <2>2, RegroupBytes
    <2>4. h \o p \in Seq(Octet)
        BY <2>2, RegroupBytes, Zenon
    <2>5. QED
        BY <2>1, <2>3, <2>4, Zenon
<1>11. ~FirstHalf(h \o p, Len(h \o p))
    <2>1. Len(h \o p) = 2 /\ (h \o p)[2] = p[1]
        <3>1. /\ Len(h \o p) = Len(h) + Len(p)
              /\ \A k \in 1..Len(p) : (h \o p)[Len(h) + k] = p[k]
            <4>1. h \in Seq(Octet) /\ p \in Seq(Octet)
                BY <1>1, <1>8, Zenon
            <4>2. QED
                BY <4>1, ConcatParts
        <3>2. 1 \in 1..1 /\ 1 + 1 = 2
            OBVIOUS
        <3>3. QED
            BY <1>1, <1>8, <3>1, <3>2, Zenon
    <2>2. (h \o p)[2][2] = 2 /\ 2 # 1
        <3>1. <<c, 2>>[2] = 2 /\ 2 # 1
            OBVIOUS
        <3>2. QED
            BY <1>6, <1>8, <2>1, <3>1, Zenon
    <2>3. QED
        BY <2>1, <2>2, Zenon DEF FirstHalf
<1>12. Whole(H)
    BY DEF H, h
<1>13. Whole(rest)
    BY <1>8, <1>10, <1>11, <1>12, WholeCut, Zenon
<1>14. QED
    BY <1>6, <1>8, <1>9, <1>13, Zenon

LEMMA LossyNone == Lossy(<<>>) = <<>> /\ Whole(<<>>)
<1>1. Pieces(<<>>) = <<>> /\ DOMAIN <<>> = {}
    BY DEF Pieces
<1>2. Whole(<<>>)
    BY <1>1, Zenon DEF Whole
<1>3. QED
    BY <1>1, <1>2, FlatNone, LossyIs, Zenon

LEMMA LoneHalf ==
    ASSUME NEW c \in Char, NEW n \in {1, 2}
    PROVE  Lossy(<<<<c, n>>>>) = <<Replacement>>
<1> DEFINE bs == <<<<c, n>>>>
<1>1. Len(bs) = 1 /\ DOMAIN bs = {1} /\ bs[1][2] = n /\ n # 0 /\ 1 + 1 \notin {1} /\ ~(1 > 1)
    OBVIOUS
<1> HIDE DEF bs
<1>2. ~Joined(bs, 1)
    BY <1>1, Zenon DEF Joined, SecondHalf
<1>3. Pieces(bs) = [i \in {1} |-> <<Replacement>>]
    <2>1. Piece(bs, 1) = <<Replacement>>
        BY <1>1, <1>2, Zenon DEF Piece
    <2>2. QED
        BY <1>1, <2>1, Zenon DEF Pieces
<1>4. [i \in {1} |-> <<Replacement>>] = <<<<Replacement>>>>
    OBVIOUS
<1>5. FlattenSeq(<<<<Replacement>>>>) = <<Replacement>>
    <2>1. <<Replacement>> \in Seq(Char)
        BY StopParts
    <2>2. QED
        BY <2>1, FlatOne
<1>6. QED
    BY <1>3, <1>4, <1>5, LossyIs, Zenon DEF bs

\* What the app sees of the first half of a character.
Cap(post) == IF post = <<>> THEN <<>> ELSE <<Replacement>>

ChunkIs(x, rest, y, cut, mid, post) ==
    /\ mid \in Seq(Octet) /\ post \in Held
    /\ post = <<>> <=> ~cut
    /\ Whole(post \o y)
    /\ Lossy(rest) = Lossy(mid) \o Lossy(post \o y)
    /\ Lossy(x) = Lossy(mid) \o Cap(post)

LEMMA ChunkText ==
    ASSUME NEW rest \in Seq(Octet), Whole(rest), NEW k \in 0..Len(rest)
    PROVE  \E mid, post : ChunkIs(SubSeq(rest, 1, k), rest, SubSeq(rest, k + 1, Len(rest)),
                                  FirstHalf(rest, k), mid, post)
<1> DEFINE x == SubSeq(rest, 1, k)
           y == SubSeq(rest, k + 1, Len(rest))
<1>1. x \in Seq(Octet) /\ y \in Seq(Octet) /\ rest = x \o y
    BY Cut
<1>2. PICK mid \in Seq(Octet), post \in Held :
          /\ x = mid \o post
          /\ post = <<>> <=> ~FirstHalf(rest, k)
          /\ Whole(mid)
          /\ Whole(post \o y)
    BY ChunkEnd, Zenon
<1> HIDE DEF x, y
<1>3. post \in Seq(Octet) /\ post \o y \in Seq(Octet)
    BY <1>1, <1>2, HeldType
<1>4. rest = mid \o (post \o y)
    <2>1. (mid \o post) \o y = mid \o (post \o y)
        BY <1>1, <1>2, <1>3, RegroupBytes
    <2>2. QED
        BY <1>1, <1>2, <2>1, Zenon
<1>5. ~FirstHalf(mid, Len(mid))
    BY <1>2, WholeEnds, Zenon
<1>6. Lossy(rest) = Lossy(mid) \o Lossy(post \o y)
    BY <1>2, <1>3, <1>4, <1>5, LossyConcat, Zenon DEF Meet
<1>7. Lossy(x) = Lossy(mid) \o Lossy(post)
    BY <1>2, <1>3, <1>5, LossyConcat, Zenon DEF Meet
<1>8. Lossy(post) = Cap(post)
    <2>1. CASE post = <<>>
        BY <2>1, LossyNone, Zenon DEF Cap
    <2>2. CASE post # <<>>
        <3>1. PICK c \in Char : post = <<<<c, 1>>>>
            BY <1>2, <2>2, Zenon DEF Held, FirstOf
        <3>2. Lossy(<<<<c, 1>>>>) = <<Replacement>>
            BY LoneHalf
        <3>3. QED
            BY <2>2, <3>1, <3>2, Zenon DEF Cap
    <2>3. QED
        BY <2>1, <2>2
<1>9. QED
    BY <1>2, <1>6, <1>7, <1>8, Zenon DEF ChunkIs, x, y

\* The same after the first half of a character.
LEMMA ChunkAfterHalf ==
    ASSUME NEW c \in Char, NEW bs \in Seq(Octet), Whole(FirstOf(c) \o bs), NEW k \in 1..Len(bs)
    PROVE  \E rest, x, mid, post :
               /\ rest \in Seq(Octet)
               /\ ChunkIs(x, rest, SubSeq(bs, k + 1, Len(bs)), FirstHalf(bs, k), mid, post)
               /\ Lossy(FirstOf(c) \o bs) = <<c>> \o Lossy(rest)
               /\ x \in Seq(Octet)
               /\ Lossy(SubSeq(bs, 1, k)) = <<Replacement>> \o Lossy(x)
<1> DEFINE h == FirstOf(c)
           p == <<<<c, 2>>>>
<1>1. PICK rest \in Seq(Octet) : bs = p \o rest /\ Whole(rest) /\ ~FirstHalf(bs, 1)
    BY ChunkHead, Zenon
<1>0. /\ h \in Seq(Octet) /\ p \in Seq(Octet) /\ Len(p) = 1
      /\ h \o p = <<<<c, 1>>, <<c, 2>>>>
    <2>1. <<c, 1>> \in Octet /\ <<c, 2>> \in Octet
        BY DEF Octet, Byte
    <2>2. \A o \in Octet : <<o>> \in Seq(Octet) /\ Len(<<o>>) = 1
        OBVIOUS
    <2>3. \A o, q \in Octet : <<o>> \o <<q>> = <<o, q>>
        <3>1. ASSUME NEW o \in Octet, NEW q \in Octet
              PROVE  <<o>> \o <<q>> = <<o, q>>
            <4>1. <<o, q>> = Append(<<o>>, q)
                OBVIOUS
            <4>2. QED
                BY <2>2, <4>1, RegroupBytes, Zenon
        <3>2. QED
            BY <3>1
    <2>4. QED
        BY <2>1, <2>2, <2>3, Zenon DEF FirstOf
<1>3. ~FirstHalf(p, Len(p)) /\ ~FirstHalf(p, 1)
    <2>1. p[1][2] = 2 /\ 2 # 1
        OBVIOUS
    <2>2. QED
        BY <1>0, <2>1, Zenon DEF FirstHalf
<1>4. Lossy(p) = <<Replacement>> /\ Whole(h \o p) /\ Lossy(h \o p) = <<c>> /\ h \o p \in Seq(Octet)
    <2>1. Lossy(p) = <<Replacement>>
        BY LoneHalf
    <2>2. Whole(h \o p) /\ Lossy(h \o p) = <<c>>
        BY <1>0, PairWhole, Zenon
    <2>3. h \o p \in Seq(Octet)
        BY <1>0, RegroupBytes, Zenon
    <2>4. QED
        BY <2>1, <2>2, <2>3
<1> HIDE DEF h, p
<1>2. h \in Seq(Octet) /\ p \in Seq(Octet)
    BY <1>0, Zenon
<1>20. /\ Len(p \o rest) = Len(p) + Len(rest) /\ Len(rest) \in Nat
       /\ \A i \in 1..Len(rest) : (p \o rest)[Len(p) + i] = rest[i]
    BY <1>2, ConcatParts
<1> DEFINE m == k - 1
           x == SubSeq(rest, 1, m)
           y == SubSeq(rest, m + 1, Len(rest))
<1>5. Len(bs) = 1 + Len(rest) /\ m \in 0..Len(rest) /\ k = 1 + m /\ Len(rest) \in Nat
    <2>1. \A n, j \in Nat : j \in 1..(1 + n) => j - 1 \in 0..n /\ j = 1 + (j - 1)
        OBVIOUS
    <2>2. Len(bs) = 1 + Len(rest) /\ k \in Nat
        BY <1>0, <1>1, <1>20
    <2>3. QED
        BY <1>20, <2>1, <2>2, Zenon
<1>6. SubSeq(bs, 1, k) = p \o x /\ x \in Seq(Octet)
    <2>1. SubSeq(p \o rest, 1, Len(p) + m) = p \o SubSeq(rest, 1, m)
        BY <1>1, <1>2, <1>5, Beginnings, SMTT(20)
    <2>2. x \in Seq(Octet)
        BY <1>5
    <2>3. QED
        BY <1>0, <1>1, <1>5, <2>1, <2>2, Zenon
<1>7. SubSeq(bs, k + 1, Len(bs)) = y
    <2> DEFINE z == SubSeq(bs, k + 1, Len(bs))
    <2>1. \A i \in 1..Len(rest) : bs[1 + i] = rest[i]
        BY <1>0, <1>1, <1>20, Zenon
    <2>2. /\ z \in Seq(Octet) /\ Len(z) = Len(rest) - m /\ \A i \in 1..(Len(rest) - m) : z[i] = bs[k + i]
        <3>1. k \in 0..Len(bs) /\ Len(bs) - k = Len(rest) - m
            BY <1>5
        <3>2. /\ z \in Seq(Octet) /\ Len(z) = Len(bs) - k /\ \A i \in 1..(Len(bs) - k) : z[i] = bs[k + i]
            BY <3>1, Cut
        <3>3. QED
            BY <3>1, <3>2, Zenon
    <2>3. /\ y \in Seq(Octet) /\ Len(y) = Len(rest) - m /\ \A i \in 1..(Len(rest) - m) : y[i] = rest[m + i]
        BY <1>5, Cut
    <2> HIDE DEF z, y
    <2>4. \A i \in 1..(Len(rest) - m) : bs[k + i] = rest[m + i]
        <3>1. ASSUME NEW i \in 1..(Len(rest) - m)
              PROVE  bs[k + i] = rest[m + i]
            <4>1. m + i \in 1..Len(rest) /\ k + i = 1 + (m + i)
                BY <1>5
            <4>2. QED
                BY <2>1, <4>1, Zenon
        <3>2. QED
            BY <3>1
    <2>5. \A i \in 1..Len(z) : z[i] = y[i]
        BY <2>2, <2>3, <2>4, Zenon
    <2>6. z = y
        BY <2>2, <2>3, <2>5, Equal
    <2>7. QED
        BY <2>6 DEF z
<1>8. FirstHalf(bs, k) <=> FirstHalf(rest, m)
    <2>1. CASE m = 0
        <3>1. k = 1 /\ ~FirstHalf(rest, m)
            BY <1>5, <2>1 DEF FirstHalf
        <3>2. QED
            BY <1>1, <3>1, Zenon
    <2>2. CASE m # 0
        <3>1. m \in 1..Len(rest)
            BY <1>5, <2>2
        <3>2. \A j \in 1..Len(rest) : FirstHalf(p \o rest, Len(p) + j) <=> FirstHalf(rest, j)
            BY <1>2, HalvesConcat, Zenon
        <3>3. QED
            BY <1>0, <1>1, <1>5, <3>1, <3>2, Zenon
    <2>3. QED
        BY <2>1, <2>2
<1>9. PICK mid, post : ChunkIs(x, rest, y, FirstHalf(rest, m), mid, post)
    BY <1>1, <1>5, ChunkText, Zenon
<1>10. Lossy(SubSeq(bs, 1, k)) = <<Replacement>> \o Lossy(x)
    BY <1>2, <1>3, <1>4, <1>6, LossyConcat, Zenon DEF Meet
<1>11. Lossy(h \o bs) = <<c>> \o Lossy(rest)
    <2>1. h \o bs = (h \o p) \o rest
        <3>1. (h \o p) \o rest = h \o (p \o rest)
            <4>1. Assoc(h, p, rest)
                BY <1>1, <1>2, Assocs, Zenon
            <4>2. QED
                BY <4>1, Zenon DEF Assoc
        <3>2. QED
            BY <1>1, <3>1, Zenon
    <2>2. ~Meet(h \o p, rest)
        BY <1>1, <1>4, WholeConcat, Zenon
    <2>3. QED
        BY <1>4, <2>1, <2>2, LossyConcat, Zenon
<1> HIDE DEF x, y, m
<1>12. ChunkIs(x, rest, SubSeq(bs, k + 1, Len(bs)), FirstHalf(bs, k), mid, post)
    <2>1. CASE FirstHalf(bs, k)
        BY <1>7, <1>8, <1>9, <2>1, Zenon DEF ChunkIs
    <2>2. CASE ~FirstHalf(bs, k)
        BY <1>7, <1>8, <1>9, <2>2, Zenon DEF ChunkIs
    <2>3. QED
        BY <2>1, <2>2
<1>13. QED
    BY <1>6, <1>10, <1>11, <1>12, Zenon DEF h

-----------------------------------------------------------------------------
(***************************************************************************)
(* The decoder.                                                            *)
(***************************************************************************)
LEMMA PrefixIs ==
    ASSUME NEW s \in Seq(Char), NEW t \in Seq(Char)
    PROVE  /\ IsPrefix(s, t) => /\ SubSeq(t, Len(s) + 1, Len(t)) \in Seq(Char)
                                /\ t = s \o SubSeq(t, Len(s) + 1, Len(t))
           /\ IsPrefix(s, t) <=> Begins(s, t)
<1>1. Len(s) \in Nat /\ Len(t) \in Nat /\ SubSeq(s, 1, Len(s)) = s
    OBVIOUS
<1>2. ASSUME IsPrefix(s, t)
      PROVE  /\ SubSeq(t, Len(s) + 1, Len(t)) \in Seq(Char)
             /\ t = s \o SubSeq(t, Len(s) + 1, Len(t))
    <2>1. Len(s) <= Len(t) /\ SubSeq(t, 1, Len(s)) = s
        BY <1>1, <1>2, Zenon DEF IsPrefix
    <2>2. Len(s) \in 0..Len(t)
        BY <1>1, <2>1
    <2>3. /\ SubSeq(t, Len(s) + 1, Len(t)) \in Seq(Char)
          /\ t = SubSeq(t, 1, Len(s)) \o SubSeq(t, Len(s) + 1, Len(t))
        BY <2>2, Cut
    <2>4. QED
        BY <2>1, <2>3, Zenon
<1>3. ASSUME NEW z \in Seq(Char), t = s \o z
      PROVE  IsPrefix(s, t)
    <2>1. Len(s \o z) = Len(s) + Len(z) /\ Len(z) \in Nat
        BY ConcatParts
    <2>2. Len(s) \in 0..Len(s) /\ Len(s) <= Len(t)
        BY <1>1, <1>3, <2>1
    <2>3. SubSeq(s \o z, 1, Len(s)) = SubSeq(s, 1, Len(s))
        BY <2>2, Beginnings
    <2>4. QED
        BY <1>3, <2>2, <2>3, Zenon DEF IsPrefix
<1>4. QED
    BY <1>2, <1>3, Zenon DEF Begins

\* The bytes of some tokens.
Code(toks) == FlattenSeq([i \in DOMAIN toks |-> Bytes[toks[i]]])

LEMMA CodeMore ==
    /\ \A x \in Seq(Token) : Code(x) \in Seq(Byte)
    /\ \A x \in Seq(Token), t \in Token : Code(Append(x, t)) = Code(x) \o Bytes[t]
    /\ \A t \in Token : Bytes[t] \in Seq(Byte)
    /\ Code(<<>>) = <<>>
<1> DEFINE U(x) == [i \in DOMAIN x |-> Bytes[x[i]]]
<1>1. \A t \in Token : Bytes[t] \in Seq(Byte)
    BY StreamAssumption
<1>2. ASSUME NEW x \in Seq(Token)
      PROVE  U(x) \in Seq(Seq(Byte))
    <2>1. \A i \in 1..Len(x) : Bytes[x[i]] \in Seq(Byte)
        BY <1>1
    <2>2. U(x) \in [1..Len(x) -> Seq(Byte)]
        BY <2>1
    <2>3. Len(x) \in Nat
        OBVIOUS
    <2> HIDE DEF U
    <2>4. QED
        BY <2>2, <2>3
<1>3. ASSUME NEW x \in Seq(Token), NEW t \in Token
      PROVE  U(Append(x, t)) = Append(U(x), Bytes[t])
    <2>1. Bytes[t] \in Seq(Byte) /\ U(x) \in Seq(Seq(Byte)) /\ Append(x, t) \in Seq(Token)
        BY <1>1, <1>2
    <2>2. U(Append(x, t)) \in Seq(Seq(Byte)) /\ Len(U(Append(x, t))) = Len(x) + 1
        <3>1. U(Append(x, t)) \in Seq(Seq(Byte))
            BY <1>2, <2>1
        <3>2. DOMAIN U(Append(x, t)) = 1..(Len(x) + 1) /\ Len(x) + 1 \in Nat
            OBVIOUS
        <3> HIDE DEF U
        <3>3. QED
            BY <3>1, <3>2
    <2>3. Append(U(x), Bytes[t]) \in Seq(Seq(Byte)) /\ Len(Append(U(x), Bytes[t])) = Len(x) + 1
        BY <2>1
    <2>4. \A i \in 1..(Len(x) + 1) : U(Append(x, t))[i] = Append(U(x), Bytes[t])[i]
        BY <1>1, <2>1
    <2> HIDE DEF U
    <2>5. QED
        BY <2>2, <2>3, <2>4, Equal
<1>4. ASSUME NEW x \in Seq(Token)
      PROVE  Code(x) \in Seq(Byte)
    <2>1. U(x) \in Seq(Seq(Byte))
        BY <1>2
    <2> HIDE DEF U
    <2>2. FlattenSeq(U(x)) \in Seq(Byte)
        BY <2>1, FlatType
    <2>3. QED
        BY <2>2, Zenon DEF Code, U
<1>5. ASSUME NEW x \in Seq(Token), NEW t \in Token
      PROVE  Code(Append(x, t)) = Code(x) \o Bytes[t]
    <2>1. U(x) \in Seq(Seq(Byte)) /\ Bytes[t] \in Seq(Byte)
        BY <1>1, <1>2
    <2> HIDE DEF U
    <2>2. FlattenSeq(Append(U(x), Bytes[t])) = FlattenSeq(U(x)) \o Bytes[t]
        BY <2>1, FlatMore
    <2>3. U(Append(x, t)) = Append(U(x), Bytes[t])
        BY <1>3
    <2>4. QED
        BY <2>2, <2>3, Zenon DEF Code, U
<1>6. Code(<<>>) = <<>>
    <2>1. U(<<>>) = <<>>
        OBVIOUS
    <2>2. QED
        BY <2>1, FlatNone, Zenon DEF Code
<1>7. QED
    BY <1>1, <1>4, <1>5, <1>6, Zenon

LEMMA TextIs ==
    /\ \A x : Text(x) = Lossy(Code(x))
    /\ \A x \in Seq(Token) : Text(x) \in Seq(Char)
    /\ Text(<<>>) = <<>>
<1>1. \A x : Text(x) = Lossy(Code(x))
    BY DEF Text, Code
<1>2. QED
    BY <1>1, CodeMore, LossyType, LossyNone, Zenon

\* A text that ends inside a character ends with a replacement.
LEMMA HalfAtEnd ==
    ASSUME NEW a \in Seq(Byte), FirstHalf(a, Len(a))
    PROVE  \E u \in Seq(Char) : /\ Lossy(a) = Append(u, Replacement)
                               /\ \A d \in Seq(Byte) : Begins(u, Lossy(a \o d))
<1>1. a \in Seq(Octet) /\ Len(a) \in Nat /\ Len(a) # 0
    <2>1. Len(a) \in DOMAIN a
        BY Zenon DEF FirstHalf
    <2>2. QED
        BY <2>1, ByteSeq
<1>2. Len(a) - 1 \in Nat /\ Len(a) = (Len(a) - 1) + 1
    BY <1>1
<1>3. PICK b \in Seq(Byte), o \in Byte : a = Append(b, o) /\ Len(b) = Len(a) - 1
    BY <1>2, CutLast
<1>4. PICK c \in Char : a[Len(a)] = <<c, 1>>
    BY <1>1, HalfIs
<1>5. a[Len(a)] = o
    BY <1>1, <1>3
<1>6. b \in Seq(Octet) /\ o \in Octet
    BY <1>3, ByteSeq, OctetParts
<1>7. a = b \o <<o>> /\ <<o>> \in Seq(Octet)
    BY <1>3, <1>6, RegroupBytes, Zenon
<1>8. ~SecondHalf(<<o>>, 1)
    <2>1. <<o>>[1] = o /\ <<c, 1>>[2] # 2
        OBVIOUS
    <2>2. QED
        BY <1>4, <1>5, <2>1, Zenon DEF SecondHalf
<1>9. Lossy(a) = Lossy(b) \o Lossy(<<o>>)
    BY <1>6, <1>7, <1>8, LossyConcat, Zenon DEF Meet
<1>10. Lossy(<<o>>) = <<Replacement>>
    <2>1. Lossy(<<<<c, 1>>>>) = <<Replacement>>
        BY LoneHalf
    <2>2. QED
        BY <1>4, <1>5, <2>1, Zenon
<1>11. Lossy(b) \in Seq(Char)
    BY <1>3, LossyType
<1>12. ASSUME NEW d \in Seq(Byte)
       PROVE  Begins(Lossy(b), Lossy(a \o d))
    <2> DEFINE h == <<o>>
               e == h \o d
    <2>1. d \in Seq(Octet) /\ h \in Seq(Octet) /\ h \in Seq(Byte) /\ Len(h) = 1 /\ h[1] = o
        BY <1>3, <1>7, ByteSeq
    <2> HIDE DEF h
    <2>2. e \in Seq(Octet) /\ e \in Seq(Byte) /\ e[1] = o
        <3>1. e \in Seq(Byte) /\ \A k \in 1..Len(h) : e[k] = h[k]
            BY <2>1, ConcatParts
        <3>2. 1 \in 1..Len(h)
            BY <2>1
        <3> HIDE DEF e
        <3>3. e[1] = o
            BY <2>1, <3>1, <3>2, Zenon
        <3>4. QED
            BY <3>1, <3>3, ByteSeq
    <2> HIDE DEF e
    <2>3. ~SecondHalf(e, 1)
        <3>1. <<c, 1>>[2] # 2
            OBVIOUS
        <3>2. QED
            BY <1>4, <1>5, <2>2, <3>1, Zenon DEF SecondHalf
    <2>4. Lossy(b \o e) = Lossy(b) \o Lossy(e)
        BY <1>6, <2>2, <2>3, LossyConcat, Zenon DEF Meet
    <2>5. a \o d = b \o e
        <3>1. Assoc(b, h, d)
            BY <1>6, <2>1, Assocs, Zenon
        <3>2. QED
            BY <1>7, <3>1, Zenon DEF Assoc, h, e
    <2>6. Lossy(e) \in Seq(Char)
        BY <2>2, LossyType
    <2>7. QED
        BY <2>4, <2>5, <2>6, Zenon DEF Begins
<1>13. Lossy(a) = Append(Lossy(b), Replacement)
    BY <1>9, <1>10, <1>11, AppendIn, StopParts, Zenon
<1>14. QED
    BY <1>11, <1>12, <1>13, Zenon

\* One token more adds to the text, unless it completes a character.
LEMMA TextMore ==
    ASSUME NEW x \in Seq(Token), NEW t \in Token
    PROVE  \/ Text(Append(x, t)) = Text(x) \o Lossy(Bytes[t])
           \/ \E u \in Seq(Char) : /\ Text(x) = Append(u, Replacement)
                                   /\ Begins(u, Text(Append(x, t)))
<1>1. /\ Code(x) \in Seq(Byte) /\ Bytes[t] \in Seq(Byte) /\ Code(Append(x, t)) = Code(x) \o Bytes[t]
      /\ Code(x) \in Seq(Octet) /\ Bytes[t] \in Seq(Octet)
    BY CodeMore, ByteSeq
<1>2. CASE Meet(Code(x), Bytes[t])
    <2>1. FirstHalf(Code(x), Len(Code(x)))
        BY <1>2, Zenon DEF Meet
    <2>2. PICK u \in Seq(Char) : /\ Lossy(Code(x)) = Append(u, Replacement)
                                /\ \A d \in Seq(Byte) : Begins(u, Lossy(Code(x) \o d))
        BY <1>1, <2>1, HalfAtEnd, Zenon
    <2>3. Begins(u, Text(Append(x, t)))
        BY <1>1, <2>2, TextIs, Zenon
    <2>4. QED
        BY <2>2, <2>3, TextIs, Zenon
<1>3. CASE ~Meet(Code(x), Bytes[t])
    <2>1. Lossy(Code(x) \o Bytes[t]) = Lossy(Code(x)) \o Lossy(Bytes[t])
        BY <1>1, <1>3, LossyConcat, Zenon
    <2>2. QED
        BY <1>1, <2>1, TextIs, Zenon
<1>4. QED
    BY <1>2, <1>3

\* What is kept of a text has no stop strings.
LEMMA Kept ==
    ASSUME NEW text \in Seq(Char)
    PROVE  /\ StripStop(text).kept \in Seq(Char) /\ Free(StripStop(text).kept)
           /\ Begins(StripStop(text).kept, text)
           /\ StripStop(text).stopped = (AllStops(text) # {})
           /\ AllStops(text) = {} => StripStop(text).kept = text
           /\ AllStops(text) # {} => /\ Min(AllStops(text)) \in AllStops(text)
                                     /\ \A p \in AllStops(text) : Min(AllStops(text)) <= p
                                     /\ StripStop(text).kept = SubSeq(text, 1, Min(AllStops(text)) - 1)
<1> DEFINE S == AllStops(text)
           m == Min(S)
<1>1. CASE S = {}
    <2>1. StripStop(text) = [kept |-> text, stopped |-> FALSE]
        BY <1>1, Zenon DEF StripStop
    <2>2. StripStop(text).kept = text /\ StripStop(text).stopped = FALSE
        BY <2>1
    <2>3. Begins(text, text)
        BY BeginsMore
    <2>4. QED
        BY <1>1, <2>2, <2>3, Zenon DEF Free
<1>2. CASE S # {}
    <2>1. S \subseteq 1..Len(text) /\ S \subseteq Nat
        BY DEF AllStops, StopsIn
    <2> HIDE DEF S
    <2>2. m \in S /\ \A p \in S : m <= p
        BY <1>2, <2>1, LeastIsMin
    <2>3. StripStop(text) = [kept |-> SubSeq(text, 1, m - 1), stopped |-> TRUE]
        BY <1>2, Zenon DEF StripStop, S
    <2> HIDE DEF m
    <2> DEFINE a == SubSeq(text, 1, m - 1)
               b == SubSeq(text, (m - 1) + 1, Len(text))
    <2>5. m - 1 \in 0..Len(text) /\ m \in Nat /\ Len(text) \in Nat
        BY <2>1, <2>2
    <2>6. a \in Seq(Char) /\ Len(a) = m - 1 /\ b \in Seq(Char) /\ text = a \o b
        BY <2>5, Cut
    <2> HIDE DEF a, b
    <2>4. StripStop(text).kept = a /\ StripStop(text).stopped = TRUE
        <3>1. [kept |-> a, stopped |-> TRUE].kept = a /\ [kept |-> a, stopped |-> TRUE].stopped = TRUE
            OBVIOUS
        <3>2. QED
            BY <2>3, <3>1, Zenon DEF a
    <2>7. Begins(a, text)
        BY <2>6, Zenon DEF Begins
    <2>8. ASSUME NEW s \in Stops, NEW p \in DOMAIN a
          PROVE  ~OccursAt(a, s, p)
        <3>1. SUFFICES ASSUME OccursAt(a, s, p)
                       PROVE  FALSE
            OBVIOUS
        <3>2. p \in 1..Len(a) /\ p \in DOMAIN text /\ p < m
            <4>1. p \in 1..(m - 1)
                BY <2>6
            <4>2. p \in 1..Len(text) /\ p < m
                BY <2>5, <4>1
            <4>3. QED
                BY <2>6, <4>1, <4>2
        <3>3. s \in Seq(Char) /\ Len(s) \in Nat \ {0}
            BY StopParts
        <3>4. \A q \in 1..Len(a) : OccursAt(a, s, q) => OccursAt(a \o b, s, q)
            BY <2>6, <3>3, OccursConcat
        <3>5. OccursAt(text, s, p)
            BY <2>6, <3>1, <3>2, <3>4, Zenon
        <3>6. p \in S
            BY <3>2, <3>5 DEF S, AllStops, StopsIn
        <3>7. m <= p /\ m \in Nat /\ p \in Nat
            BY <2>1, <2>2, <3>6
        <3>8. QED
            BY <3>2, <3>7
    <2>9. Free(a)
        BY <2>8, FreeIs, Zenon
    <2>10. QED
        BY <1>2, <2>2, <2>4, <2>6, <2>7, <2>9, Zenon DEF S, m, a
<1>3. QED
    BY <1>1, <1>2

-----------------------------------------------------------------------------
(***************************************************************************)
(* The app in the middle of a body. What is still to come, after the half  *)
(* character that was cut off if there is one (h), would bring a parser    *)
(* that saw no cut (v) to what was streamed; the real one (a) has the same *)
(* but for replacement characters.                                         *)
(***************************************************************************)
Reading(bd, st, fin, b, c, tn) ==
    \E h, a, v :
        /\ h \in Held
        /\ Whole(h \o bd)
        /\ Fine(v, Lossy(h \o bd), st)
        /\ Run(v, Lossy(h \o bd)) = At(<<>>, st, fin)
        /\ Sim(a, v) /\ a.app = "reading"
        /\ b = a.buf \o Cap(h) /\ c = a.content
        /\ ~tn => h = <<>> /\ a = v

\* What a chunk leaves the app with, y being the rest of the body.
Landed(r, y, st, fin, tn) ==
    /\ r.content \in Seq(Char) /\ Free(r.content) /\ r.buf \in Seq(Char \cup Event)
    /\ r.app \in {"reading", "done"}
    /\ r.app = "reading" => Reading(y, st, fin, r.buf, r.content, tn)
    /\ r.app = "done" => fin = "done" /\ (~tn => r.content = st)

LEMMA SimParts ==
    ASSUME NEW a, NEW v, Sim(a, v)
    PROVE  /\ a = At(a.buf, a.content, a.app) /\ v = At(v.buf, v.content, v.app)
           /\ a.content \in Seq(Char) /\ Free(a.content) /\ a.buf \in Seq(Char \cup Event)
           /\ a.app \in {"reading", "done"} /\ v.app = a.app
<1>1. CASE SameLine(a, v)
    <2>1. PICK c1 \in Seq(Char), c2 \in Seq(Char), g \in {"reading", "done"} :
              /\ a = At(<<>>, c1, g) /\ v = At(<<>>, c2, g)
              /\ Free(c1)
        BY <1>1, Zenon DEF SameLine
    <2>2. /\ a.buf = <<>> /\ a.content = c1 /\ a.app = g
          /\ v.buf = <<>> /\ v.content = c2 /\ v.app = g
        BY <2>1, AtParts
    <2>3. <<>> \in Seq(Char \cup Event)
        OBVIOUS
    <2>4. QED
        BY <2>1, <2>2, <2>3, Zenon
<1>2. CASE SamePlace(a, v)
    <2>1. PICK c1 \in Seq(Char), c2 \in Seq(Char), x1 \in Seq(Char), x2 \in Seq(Char), e \in Event :
              /\ a = At(<<e>> \o x1, c1, "reading") /\ v = At(<<e>> \o x2, c2, "reading")
              /\ Free(c1)
        BY <1>2, Zenon DEF SamePlace
    <2> DEFINE l1 == <<e>> \o x1
               l2 == <<e>> \o x2
    <2>2. l1 \in Seq(Char \cup Event)
        <3>1. x1 \in Seq(Char \cup Event) /\ e \in Char \cup Event
            OBVIOUS
        <3>2. QED
            BY <3>1
    <2> HIDE DEF l1, l2
    <2>3. a = At(l1, c1, "reading") /\ v = At(l2, c2, "reading")
        BY <2>1, Zenon DEF l1, l2
    <2>4. /\ a.buf = l1 /\ a.content = c1 /\ a.app = "reading"
          /\ v.buf = l2 /\ v.content = c2 /\ v.app = "reading"
        BY <2>3, AtParts
    <2>5. QED
        BY <2>1, <2>2, <2>3, <2>4
<1>3. QED
    BY <1>1, <1>2 DEF Sim

LEMMA CapType ==
    /\ \A h \in Held : Cap(h) \in Seq(Char) /\ Cap(h) \in Seq(Sign)
    /\ Cap(<<>>) = <<>>
    /\ \A h : h # <<>> => Cap(h) = <<Replacement>>
<1>1. /\ <<Replacement>> \in Seq(Char) /\ <<>> \in Seq(Char)
      /\ <<Replacement>> \in Seq(Sign) /\ <<>> \in Seq(Sign)
    BY StopParts, SignParts
<1>2. QED
    BY <1>1, Zenon DEF Cap

LEMMA ChunkRest ==
    ASSUME NEW a, NEW v, Sim(a, v), a.app = "reading",
           NEW st \in Seq(Char), Free(st), NEW fin,
           NEW rest \in Seq(Octet), NEW x \in Seq(Octet), NEW y \in Seq(Octet),
           NEW cut \in BOOLEAN, NEW mid, NEW post, ChunkIs(x, rest, y, cut, mid, post),
           Fine(v, Lossy(rest), st), Run(v, Lossy(rest)) = At(<<>>, st, fin),
           NEW tn \in BOOLEAN, ~tn => a = v
    PROVE  Landed(Run(a, Lossy(x)), y, st, fin, tn \/ cut)
<1> DEFINE m == Lossy(mid)
           q == Lossy(post \o y)
           a2 == Run(a, m)
           v2 == Run(v, m)
           r == Run(a, Lossy(x))
<1>1. /\ mid \in Seq(Octet) /\ post \in Held /\ (post = <<>> <=> ~cut)
      /\ Whole(post \o y) /\ Lossy(rest) = m \o q /\ Lossy(x) = m \o Cap(post)
    BY Zenon DEF ChunkIs
<1>2. post \o y \in Seq(Octet) /\ m \in Seq(Sign) /\ q \in Seq(Sign) /\ Cap(post) \in Seq(Sign)
    <2>1. post \in Seq(Octet)
        BY <1>1, HeldType
    <2>2. post \o y \in Seq(Octet)
        BY <2>1, RegroupBytes, Zenon
    <2>3. QED
        BY <1>1, <2>2, LossyType, CapType, Zenon
<1>3. Fine(v, m, st) /\ Fine(v2, q, st)
    <2>1. Fine(v, m \o q, st)
        BY <1>1, Zenon
    <2> HIDE DEF m, q
    <2>2. Fine(v, m, st) /\ Fine(Run(v, m), q, st)
        BY <1>2, <2>1, FineCut, Zenon
    <2>3. QED
        BY <2>2, Zenon
<1>4. Run(v2, q) = At(<<>>, st, fin)
    <2>1. Run(v, m \o q) = Run(Run(v, m), q)
        <3> HIDE DEF m, q
        <3>1. QED
            BY <1>2, RunConcat, Zenon
    <2>2. QED
        BY <1>1, <2>1, Zenon
<1>5. Sim(a2, v2)
    BY <1>2, <1>3, SimRun, Zenon
<1>6. r = Run(a2, Cap(post))
    <2> DEFINE d == Cap(post)
    <2> HIDE DEF m, d
    <2>1. Run(a, m \o d) = Run(Run(a, m), d)
        BY <1>2, RunConcat, Zenon DEF d
    <2>2. QED
        BY <1>1, <2>1, Zenon DEF d
<1>7. ~tn => a2 = v2
    OBVIOUS
<1> HIDE DEF a2, v2, m, q, r
<1>8. /\ a2 = At(a2.buf, a2.content, a2.app) /\ v2 = At(v2.buf, v2.content, v2.app)
      /\ a2.content \in Seq(Char) /\ Free(a2.content) /\ a2.buf \in Seq(Char \cup Event)
      /\ a2.app \in {"reading", "done"} /\ v2.app = a2.app
    BY <1>5, SimParts, Zenon
<1>9. CASE a2.app = "reading"
    <2>1. /\ r.buf = a2.buf \o Cap(post) /\ r.content = a2.content /\ r.app = "reading"
          /\ r.buf \in Seq(Char \cup Event)
        <3>1. CASE post = <<>>
            <4>1. r = a2
                BY <1>6, <3>1, CapType, RunNone, Zenon
            <4>2. a2.buf \o <<>> = a2.buf
                BY <1>8
            <4>3. QED
                BY <1>8, <1>9, <3>1, <4>1, <4>2, CapType, Zenon
        <3>2. CASE post # <<>>
            <4>1. Replacement \in Sign /\ Replacement # "newline" /\ Replacement \in Char
                BY SignParts, StopParts
            <4>2. r = Feed(a2, Replacement)
                BY <1>6, <3>2, <4>1, CapType, RunOne, Zenon
            <4> DEFINE b2 == Append(a2.buf, Replacement)
            <4>3. r = At(b2, a2.content, "reading")
                BY <1>8, <1>9, <4>1, <4>2, FeedOther, Zenon
            <4>4. b2 \in Seq(Char \cup Event) /\ b2 = a2.buf \o <<Replacement>>
                <5> DEFINE b1 == a2.buf
                <5>1. b1 \in Seq(Char \cup Event) /\ Replacement \in Char \cup Event
                    BY <1>8, <4>1
                <5> HIDE DEF b1
                <5>2. Append(b1, Replacement) \in Seq(Char \cup Event) /\ Append(b1, Replacement) = b1 \o <<Replacement>>
                    BY <5>1, Concats
                <5>3. QED
                    BY <5>2 DEF b1
            <4> HIDE DEF b2
            <4>5. r.buf = b2 /\ r.content = a2.content /\ r.app = "reading"
                BY <4>3, AtParts
            <4>6. QED
                BY <3>2, <4>4, <4>5, CapType, Zenon
        <3>3. QED
            BY <3>1, <3>2
    <2>2. ~(tn \/ cut) => post = <<>> /\ a2 = v2
        BY <1>1, <1>7
    <2>3. Reading(y, st, fin, r.buf, r.content, tn \/ cut)
        <3>1. /\ Whole(post \o y) /\ Fine(v2, Lossy(post \o y), st)
              /\ Run(v2, Lossy(post \o y)) = At(<<>>, st, fin)
            BY <1>1, <1>3, <1>4, Zenon DEF q
        <3> DEFINE n == tn \/ cut
        <3> HIDE DEF n
        <3>2. ~n => post = <<>> /\ a2 = v2
            BY <2>2 DEF n
        <3>3. Reading(y, st, fin, r.buf, r.content, n)
            BY <1>1, <1>5, <1>9, <2>1, <3>1, <3>2, Zenon DEF Reading
        <3>4. QED
            BY <3>3 DEF n
    <2>4. QED
        BY <1>8, <2>1, <2>3 DEF Landed, r
<1>10. CASE a2.app = "done"
    <2>1. a2.app # "reading" /\ v2.app # "reading"
        BY <1>8, <1>10
    <2>2. r = a2
        <3>1. Run(At(a2.buf, a2.content, a2.app), Cap(post)) = At(a2.buf, a2.content, a2.app)
            BY <1>2, <2>1, RunDone, Zenon
        <3>2. QED
            BY <1>6, <1>8, <3>1, Zenon
    <2>3. v2 = At(<<>>, st, fin)
        <3>1. Run(At(v2.buf, v2.content, v2.app), q) = At(v2.buf, v2.content, v2.app)
            BY <1>2, <2>1, RunDone, Zenon
        <3>2. QED
            BY <1>4, <1>8, <3>1, Zenon
    <2>4. v2.content = st /\ v2.app = fin
        BY <2>3, AtParts
    <2>5. QED
        BY <1>7, <1>8, <1>10, <2>1, <2>2, <2>4 DEF Landed, r
<1>11. QED
    BY <1>8, <1>9, <1>10

\* The first half of a character that was cut off, then the rest of it.
LEMMA ReadingChunk ==
    ASSUME NEW bd \in Seq(Octet), NEW st \in Seq(Char), Free(st), NEW fin, NEW b, NEW c,
           NEW tn \in BOOLEAN, Reading(bd, st, fin, b, c, tn), NEW k \in 1..Len(bd)
    PROVE  Landed(Run(At(b, c, "reading"), Lossy(SubSeq(bd, 1, k))),
                  SubSeq(bd, k + 1, Len(bd)), st, fin, tn \/ FirstHalf(bd, k))
<1> DEFINE x == SubSeq(bd, 1, k)
           y == SubSeq(bd, k + 1, Len(bd))
           cut == FirstHalf(bd, k)
<1>1. PICK h, a, v :
          /\ h \in Held
          /\ Whole(h \o bd)
          /\ Fine(v, Lossy(h \o bd), st)
          /\ Run(v, Lossy(h \o bd)) = At(<<>>, st, fin)
          /\ Sim(a, v) /\ a.app = "reading"
          /\ b = a.buf \o Cap(h) /\ c = a.content
          /\ ~tn => h = <<>> /\ a = v
    BY Zenon DEF Reading
<1>2. x \in Seq(Octet) /\ y \in Seq(Octet) /\ k \in 0..Len(bd) /\ cut \in BOOLEAN
    <2>1. k \in 0..Len(bd)
        OBVIOUS
    <2>2. x \in Seq(Octet) /\ y \in Seq(Octet)
        BY <2>1, Cut
    <2>3. cut \in BOOLEAN
        BY Zenon DEF FirstHalf
    <2>4. QED
        BY <2>1, <2>2, <2>3
<1>3. /\ a = At(a.buf, a.content, a.app) /\ a.content \in Seq(Char) /\ a.buf \in Seq(Char \cup Event)
    BY <1>1, SimParts, Zenon
<1>4. CASE h = <<>>
    <2>1. PICK mid, post : ChunkIs(x, bd, y, cut, mid, post)
        <3>1. <<>> \o bd = bd
            OBVIOUS
        <3>2. Whole(bd)
            BY <1>1, <1>4, <3>1, Zenon
        <3>3. QED
            BY <1>2, <3>2, ChunkText, Zenon
    <2>2. h \o bd = bd
        BY <1>4
    <2>3. a.buf \o <<>> = a.buf
        BY <1>3
    <2>4. At(b, c, "reading") = a
        BY <1>1, <1>3, <1>4, <2>3, CapType, Zenon
    <2> HIDE DEF x, y, cut
    <2>5. Landed(Run(a, Lossy(x)), y, st, fin, tn \/ cut)
        <3>1. Fine(v, Lossy(bd), st) /\ Run(v, Lossy(bd)) = At(<<>>, st, fin)
            BY <1>1, <2>2, Zenon
        <3>2. ~tn => a = v
            BY <1>1
        <3>3. Sim(a, v) /\ a.app = "reading"
            BY <1>1
        <3>4. QED
            BY <1>2, <2>1, <3>1, <3>2, <3>3, ChunkRest, Zenon
    <2>6. QED
        BY <2>4, <2>5, Zenon DEF x, y, cut
<1>5. CASE h # <<>>
    <2>1. PICK d \in Char : h = FirstOf(d)
        BY <1>1, <1>5, Zenon DEF Held
    <2>2. PICK rest, x1, mid, post :
              /\ rest \in Seq(Octet)
              /\ ChunkIs(x1, rest, y, cut, mid, post)
              /\ Lossy(FirstOf(d) \o bd) = <<d>> \o Lossy(rest)
              /\ x1 \in Seq(Octet)
              /\ Lossy(x) = <<Replacement>> \o Lossy(x1)
        <3>1. Whole(FirstOf(d) \o bd)
            BY <1>1, <2>1, Zenon
        <3>2. QED
            BY <3>1, ChunkAfterHalf, Zenon
    <2> DEFINE p == <<d>>
               q == Lossy(rest)
               w == <<Replacement>>
               u == Lossy(x1)
               v1 == Run(v, p)
               a1 == At(Append(Append(a.buf, Replacement), Replacement), a.content, a.app)
    <2>3. p \in Seq(Sign) /\ q \in Seq(Sign) /\ w \in Seq(Sign) /\ u \in Seq(Sign) /\ d \in Sign
        <3>1. d \in Sign /\ Replacement \in Sign
            BY SignParts, StopParts
        <3>2. p \in Seq(Sign) /\ w \in Seq(Sign)
            BY <3>1
        <3>3. QED
            BY <2>2, <3>1, <3>2, LossyType, Zenon
    <2>4. v1 = Feed(v, d) /\ Fit(v1, st) /\ Fine(v1, q, st) /\ Run(v1, q) = At(<<>>, st, fin)
        <3>1. Lossy(h \o bd) = p \o q
            BY <2>1, <2>2, Zenon
        <3>2. v1 = Feed(v, d)
            BY <2>3, RunOne, Zenon
        <3>3. Fine(v, p, st) /\ Fine(v1, q, st)
            BY <1>1, <2>3, <3>1, FineCut, Zenon
        <3>4. SubSeq(p, 1, Len(p)) = p /\ Len(p) \in 0..Len(p)
            <4> HIDE DEF p
            <4>1. QED
                BY <2>3, Beginnings
        <3>5. Fit(v1, st)
            BY <3>3, <3>4, Zenon DEF Fine
        <3>6. Run(v, p \o q) = Run(Run(v, p), q)
            <4> HIDE DEF p, q
            <4>1. QED
                BY <2>3, RunConcat, Zenon
        <3>7. QED
            BY <1>1, <3>1, <3>2, <3>3, <3>5, <3>6, Zenon
    <2>5. Sim(a1, v1)
        <3>1. Fit(Feed(v, d), st)
            BY <2>4, Zenon
        <3>2. Sim(a1, Feed(v, d))
            BY <1>1, <3>1, SimTear, Zenon
        <3>3. QED
            BY <2>4, <3>2, Zenon
    <2>6. Run(At(b, c, "reading"), Lossy(x)) = Run(a1, u) /\ a1.app = "reading"
        <3>1. Replacement \in Sign /\ Replacement # "newline"
            BY SignParts, StopParts
        <3>2. b = Append(a.buf, Replacement)
            <4>1. Cap(h) = <<Replacement>>
                BY <1>5, CapType
            <4> DEFINE l == a.buf
            <4>2. l \in Seq(Char \cup Event) /\ Replacement \in Char \cup Event
                BY <1>3, StopParts
            <4> HIDE DEF l
            <4>3. Append(l, Replacement) = l \o <<Replacement>>
                BY <4>2, Concats
            <4>4. QED
                BY <1>1, <4>1, <4>3, Zenon DEF l
        <3>3. Run(At(b, c, "reading"), w) = At(Append(b, Replacement), c, "reading")
            BY <3>1, FeedOther, RunOne, Zenon
        <3>4. At(Append(b, Replacement), c, "reading") = a1
            BY <1>1, <3>2, Zenon
        <3>5. Run(At(b, c, "reading"), w \o u) = Run(Run(At(b, c, "reading"), w), u)
            <4> DEFINE g == At(b, c, "reading")
            <4> HIDE DEF g, w, u
            <4>1. Run(g, w \o u) = Run(Run(g, w), u)
                BY <2>3, RunConcat, Zenon
            <4>2. QED
                BY <4>1 DEF g
        <3>6. a1.app = "reading"
            <4>1. \A z : At(z, a.content, a.app).app = a.app
                BY DEF At
            <4>2. QED
                BY <1>1, <4>1, Zenon
        <3>7. QED
            BY <2>2, <3>3, <3>4, <3>5, <3>6, Zenon
    <2> HIDE DEF x, y, cut, a1, v1
    <2>7. Landed(Run(a1, Lossy(x1)), y, st, fin, tn \/ cut)
        <3>1. ~tn => a1 = v1
            BY <1>1, <1>5
        <3>2. Fine(v1, Lossy(rest), st) /\ Run(v1, Lossy(rest)) = At(<<>>, st, fin)
            BY <2>4, Zenon
        <3>3. a1.app = "reading"
            BY <2>6
        <3>4. QED
            BY <1>2, <2>2, <2>5, <3>1, <3>2, <3>3, ChunkRest, Zenon
    <2>8. QED
        BY <2>6, <2>7, Zenon DEF x, y, cut
<1>6. QED
    BY <1>4, <1>5

\* The daemon sends one event more.
LEMMA ReadingLine ==
    ASSUME NEW bd \in Seq(Octet), NEW st \in Seq(Char), NEW b, NEW c, NEW tn,
           Reading(bd, st, "reading", b, c, tn), NEW e \in Event, NEW x \in Seq(Char)
    PROVE  Reading(bd \o Line(e, x), After(e, x, st), Ends(e), b, c, tn)
<1> DEFINE l == Line(e, x)
           s == (<<e>> \o x) \o <<"newline">>
           st2 == After(e, x, st)
<1>1. PICK h, a, v :
          /\ h \in Held
          /\ Whole(h \o bd)
          /\ Fine(v, Lossy(h \o bd), st)
          /\ Run(v, Lossy(h \o bd)) = At(<<>>, st, "reading")
          /\ Sim(a, v) /\ a.app = "reading"
          /\ b = a.buf \o Cap(h) /\ c = a.content
          /\ ~tn => h = <<>> /\ a = v
    BY Zenon DEF Reading
<1> DEFINE H == h \o bd
           g == Lossy(H)
<1>2. l \in Seq(Octet) /\ Whole(l) /\ Lossy(l) = s
    BY LineWhole, Zenon
<1>3. h \in Seq(Octet) /\ H \in Seq(Octet) /\ g \in Seq(Sign) /\ s \in Seq(Sign)
    <2>1. h \in Seq(Octet)
        BY <1>1, HeldType
    <2>2. H \in Seq(Octet)
        BY <2>1, RegroupBytes, Zenon
    <2>3. QED
        BY <1>2, <2>1, <2>2, LossyType, Zenon
<1> HIDE DEF l, s
<1>4. h \o (bd \o l) = H \o l
    <2>1. l \in Seq(Octet) /\ h \in Seq(Octet)
        BY <1>2, <1>3
    <2>2. (h \o bd) \o l = h \o (bd \o l)
        <3>1. Assoc(h, bd, l)
            BY <2>1, Assocs, Zenon
        <3>2. QED
            BY <3>1, Zenon DEF Assoc
    <2>3. QED
        BY <2>2
<1>5. Whole(H \o l) /\ Lossy(H \o l) = g \o s
    BY <1>1, <1>2, <1>3, WholeConcat, LossyConcat, Zenon
<1>6. /\ Run(At(<<>>, st, "reading"), s) = At(<<>>, st2, Ends(e))
      /\ Fine(At(<<>>, st, "reading"), s, st2)
    BY FineLine, Zenon DEF s
<1>7. Run(v, g \o s) = At(<<>>, st2, Ends(e))
    <2> HIDE DEF g
    <2>1. Run(v, g \o s) = Run(Run(v, g), s)
        BY <1>3, RunConcat, Zenon
    <2>2. QED
        BY <1>1, <1>6, <2>1, Zenon DEF g
<1>8. Fine(v, g, st2)
    <2>1. CASE e = "delta"
        <3>1. st2 = st \o x
            BY <2>1 DEF After
        <3>2. Fine(v, g, st \o x)
            BY <1>1, FineMore, Zenon
        <3>3. QED
            BY <3>1, <3>2, Zenon
    <2>2. CASE e # "delta"
        BY <1>1, <2>2 DEF After
    <2>3. QED
        BY <2>1, <2>2
<1>9. Fine(v, g \o s, st2)
    BY <1>1, <1>3, <1>6, <1>8, FineConcat, Zenon
<1>10. QED
    BY <1>1, <1>4, <1>5, <1>7, <1>9, Zenon DEF Reading, l

LEMMA ReadingNothing == Reading(<<>>, <<>>, "reading", <<>>, <<>>, FALSE)
<1> DEFINE v == At(<<>>, <<>>, "reading")
<1>1. /\ <<>> \o <<>> = <<>> /\ <<>> \in Held /\ <<>> \in Seq(Char) /\ <<>> \in Seq(Octet)
      /\ DOMAIN <<>> = {}
    BY DEF Held
<1>2. Lossy(<<>>) = <<>> /\ Whole(<<>>)
    BY LossyNone
<1>3. Fit(v, <<>>)
    BY <1>1, BeginsMore, Zenon DEF Fit, Between
<1>4. Fine(v, <<>>, <<>>)
    <2>1. \A n \in 0..Len(<<>>) : SubSeq(<<>>, 1, n) = <<>>
        OBVIOUS
    <2>2. QED
        BY <1>3, <2>1, RunNone, Zenon DEF Fine
<1>5. Free(<<>>)
    BY FreeNone
<1>6. Sim(v, v)
    BY <1>1, <1>5, TailedSame, Zenon DEF Sim, SameLine
<1>7. v.app = "reading" /\ v.buf = <<>> /\ v.content = <<>>
    BY DEF At
<1>8. Run(v, <<>>) = v
    BY RunNone
<1>9. QED
    BY <1>1, <1>2, <1>4, <1>6, <1>7, <1>8, CapType, Zenon DEF Reading

\* In the middle of a body that was not cut, the app has a beginning of what
\* was streamed.
LEMMA FitNow ==
    ASSUME NEW bd \in Seq(Octet), NEW st, NEW fin, NEW b, NEW c, Reading(bd, st, fin, b, c, FALSE)
    PROVE  Begins(c, st)
<1>1. PICK h, a, v : h \in Held /\ Fine(v, Lossy(h \o bd), st) /\ c = a.content /\ a = v
    BY Zenon DEF Reading
<1> DEFINE s == Lossy(h \o bd)
<1>2. s \in Seq(Sign)
    BY <1>1, HeldType, RegroupBytes, LossyType
<1>3. Fine(v, s, st)
    BY <1>1, Zenon
<1> HIDE DEF s
<1>4. 0 \in 0..Len(s) /\ SubSeq(s, 1, 0) = <<>>
    BY <1>2
<1>5. Fit(v, st)
    BY <1>3, <1>4, RunNone, Zenon DEF Fine
<1>6. Begins(v.content, st)
    <2>1. CASE Between(v, st)
        <3>1. PICK d \in Seq(Char), e \in {"reading", "done"} : v = At(<<>>, d, e) /\ Begins(d, st)
            BY <2>1, Zenon DEF Between
        <3>2. v.content = d
            BY <3>1, AtParts
        <3>3. QED
            BY <3>1, <3>2, Zenon
    <2>2. CASE Inside(v, st)
        <3>1. PICK d \in Seq(Char), x \in Seq(Char), e \in Event :
                  v = At(<<e>> \o x, d, "reading") /\ Begins(d, st)
            BY <2>2, Zenon DEF Inside
        <3>2. v.content = d
            BY <3>1, AtParts
        <3>3. QED
            BY <3>1, <3>2, Zenon
    <2>3. QED
        BY <1>5, <2>1, <2>2, Zenon DEF Fit
<1>7. QED
    BY <1>1, <1>6, Zenon

-----------------------------------------------------------------------------
(***************************************************************************)
(* The inductive invariant.                                                *)
(***************************************************************************)
\* How the app will have ended when it has read all there is.
EndOf(tk) == IF tk \in {"complete", "timed out", "failed"} THEN "done" ELSE "reading"

\* The decoder has no more than what it was given; what it has sent ends as
\* what it has decoded does.
Decodes ==
    ~decoder.finished =>
        /\ decoder.ids = tokens /\ decoder.prev = Text(tokens)
        /\ Free(decoder.prev) /\ Tailed(streamed, decoder.prev)

Showing ==
    /\ app = "reading" => Reading(body, streamed, EndOf(task), buf, content, torn)
    /\ app = "done" /\ ~torn => content = streamed /\ task # "running"

IInv ==
    /\ TypeOK /\ body \in Seq(Octet)
    /\ Free(streamed) /\ Free(content)
    /\ Decodes
    /\ Showing

LEMMA PushParts ==
    ASSUME NEW d, NEW t
    PROVE  LET p   == Push(d, t)
               cut == StripStop(Text(Append(d.ids, t)))
           IN  /\ d.finished => p.delta = <<>> /\ p.decoder = d
               /\ ~d.finished => /\ p.delta = Delta(d.prev, cut.kept)
                                 /\ p.decoder.ids = Append(d.ids, t)
                                 /\ p.decoder.prev = cut.kept
                                 /\ p.decoder.finished = cut.stopped
<1> DEFINE p   == Push(d, t)
           cut == StripStop(Text(Append(d.ids, t)))
           i   == Append(d.ids, t)
           x   == Delta(d.prev, cut.kept)
           k   == cut.kept
           f   == cut.stopped
<1>1. p = IF d.finished THEN [delta |-> <<>>, decoder |-> d]
          ELSE [delta |-> x, decoder |-> [ids |-> i, prev |-> k, finished |-> f]]
    BY Zenon DEF Push
<1> HIDE DEF p, i, x, k, f
<1>2. d.finished => p.delta = <<>> /\ p.decoder = d
    BY <1>1
<1>3. ~d.finished => /\ p.delta = x /\ p.decoder.ids = i
                     /\ p.decoder.prev = k /\ p.decoder.finished = f
    BY <1>1
<1>4. QED
    BY <1>2, <1>3 DEF p, i, x, k, f

LEMMA GenerateDecodes ==
    ASSUME TypeOK, Free(streamed), Decodes, NEW t \in Token, Generate(t)
    PROVE  /\ Free(streamed') /\ Decodes'
           /\ decoder'.ids \in Seq(Token) /\ decoder'.prev \in Seq(Char) /\ decoder'.finished \in BOOLEAN
           /\ tokens' \in Seq(Token) /\ Len(tokens') <= MaxTokens
           /\ \E x \in Seq(Char) : /\ streamed' = streamed \o x
                                   /\ body' = IF x = <<>> THEN body ELSE body \o Line("delta", x)
<1> DEFINE p == Push(decoder, t)
           x == p.delta
<1>1. /\ tokens' = Append(tokens, t) /\ Len(tokens) < MaxTokens
      /\ decoder' = p.decoder /\ streamed' = streamed \o x
      /\ body' = IF x = <<>> THEN body ELSE body \o Line("delta", x)
    BY DEF Generate
<1>2. /\ decoder.ids \in Seq(Token) /\ decoder.prev \in Seq(Char) /\ decoder.finished \in BOOLEAN
      /\ tokens \in Seq(Token) /\ streamed \in Seq(Char) /\ MaxTokens \in Nat
    BY StreamAssumption DEF TypeOK
<1>3. tokens' \in Seq(Token) /\ Len(tokens') <= MaxTokens
    BY <1>1, <1>2
<1> HIDE DEF p
<1>4. CASE decoder.finished
    <2>1. x = <<>> /\ p.decoder = decoder
        BY <1>4, PushParts, Zenon DEF p
    <2>2. streamed \o <<>> = streamed /\ <<>> \in Seq(Char)
        BY <1>2
    <2>3. streamed' = streamed /\ decoder' = decoder
        BY <1>1, <2>1, <2>2, Zenon
    <2>4. Free(streamed')
        BY <2>3 DEF Free
    <2>5. Decodes'
        BY <1>4, <2>3 DEF Decodes
    <2>6. QED
        BY <1>1, <1>2, <1>3, <2>1, <2>2, <2>3, <2>4, <2>5, Zenon
<1>5. CASE ~decoder.finished
    <2> DEFINE full == Text(Append(tokens, t))
               cut == StripStop(full)
               kept == cut.kept
               prev == decoder.prev
    <2>1. /\ decoder.ids = tokens /\ prev = Text(tokens)
          /\ Free(prev) /\ Tailed(streamed, prev)
        BY <1>5 DEF Decodes
    <2>2. /\ x = Delta(prev, kept) /\ p.decoder.ids = Append(tokens, t)
          /\ p.decoder.prev = kept /\ p.decoder.finished = cut.stopped
        <3> DEFINE cut0 == StripStop(Text(Append(decoder.ids, t)))
        <3>1. /\ x = Delta(decoder.prev, cut0.kept) /\ p.decoder.ids = Append(decoder.ids, t)
              /\ p.decoder.prev = cut0.kept /\ p.decoder.finished = cut0.stopped
            BY <1>5, PushParts DEF p
        <3>2. Append(decoder.ids, t) = Append(tokens, t)
            BY <2>1, Zenon
        <3>3. QED
            BY <3>1, <3>2, Zenon
    <2>3. full \in Seq(Char) /\ Append(tokens, t) \in Seq(Token)
        BY <1>1, <1>3, TextIs, Zenon
    <2>4. /\ kept \in Seq(Char) /\ Free(kept)
          /\ cut.stopped = (AllStops(full) # {})
          /\ AllStops(full) = {} => kept = full
        BY <2>3, Kept, Zenon
    <2> HIDE DEF full, cut, kept
    <2>5. ASSUME IsPrefix(prev, kept)
          PROVE  /\ x \in Seq(Char) /\ Free(streamed \o x)
                 /\ AllStops(full) = {} => Tailed(streamed \o x, full)
        <3>1. x = SubSeq(kept, Len(prev) + 1, Len(kept))
            BY <2>2, <2>5, Zenon DEF Delta
        <3>2. x \in Seq(Char) /\ kept = prev \o x
            BY <1>2, <2>4, <2>5, <3>1, PrefixIs, Zenon
        <3>3. Free(prev \o x)
            BY <2>4, <3>2, Zenon
        <3>4. Free(streamed \o x) /\ Tailed(streamed \o x, kept)
            BY <1>2, <2>1, <3>2, <3>3, TailedMore, Zenon
        <3>5. QED
            BY <2>4, <3>2, <3>4, Zenon
    <2>6. ASSUME ~IsPrefix(prev, kept)
          PROVE  /\ x \in Seq(Char) /\ Free(streamed \o x)
                 /\ AllStops(full) = {} => Tailed(streamed \o x, full)
        <3>1. x = <<>> /\ <<>> \in Seq(Char) /\ streamed \o <<>> = streamed
            BY <1>2, <2>2, <2>6 DEF Delta
        <3>2. ASSUME AllStops(full) = {}
              PROVE  Tailed(streamed, full)
            <4>1. kept = full /\ ~Begins(prev, full)
                <5>1. kept = full
                    BY <2>4, <3>2, Zenon
                <5>2. IsPrefix(prev, kept) <=> Begins(prev, kept)
                    BY <1>2, <2>4, PrefixIs, Zenon
                <5>3. QED
                    BY <2>6, <5>1, <5>2, Zenon
            <4>2. full # prev \o Lossy(Bytes[t])
                <5>1. Lossy(Bytes[t]) \in Seq(Char)
                    BY CodeMore, LossyType
                <5>2. QED
                    BY <4>1, <5>1, Zenon DEF Begins
            <4>3. PICK u \in Seq(Char) : prev = Append(u, Replacement)
                BY <1>2, <2>1, <4>2, TextMore, Zenon DEF full
            <4>4. PICK y \in Seq(Char), w \in Seq(Char), z \in Seq(Char) :
                      streamed = y \o z /\ prev = w \o z /\ (y = <<>> \/ y[Len(y)] = Replacement)
                BY <2>1, Zenon DEF Tailed
            <4>5. streamed = <<>> \/ streamed[Len(streamed)] = Replacement
                <5>1. CASE z = <<>>
                    <6>1. y \o <<>> = y
                        OBVIOUS
                    <6>2. streamed = y
                        BY <4>4, <5>1, <6>1, Zenon
                    <6>3. QED
                        BY <4>4, <6>2, Zenon
                <5>2. CASE z # <<>>
                    <6>1. Len(z) \in 1..Len(z) /\ Len(z) \in Nat /\ Len(y) \in Nat /\ Len(w) \in Nat
                        BY <5>2
                    <6>2. /\ Len(y \o z) = Len(y) + Len(z) /\ (y \o z)[Len(y) + Len(z)] = z[Len(z)]
                          /\ Len(w \o z) = Len(w) + Len(z) /\ (w \o z)[Len(w) + Len(z)] = z[Len(z)]
                        BY <6>1, ConcatParts
                    <6>3. /\ Append(u, Replacement)[Len(u) + 1] = Replacement
                          /\ Len(Append(u, Replacement)) = Len(u) + 1
                        BY StopParts, AppendParts
                    <6>4. prev[Len(prev)] = Replacement /\ prev[Len(prev)] = z[Len(z)]
                        BY <4>3, <4>4, <6>2, <6>3, Zenon
                    <6>5. streamed[Len(streamed)] = z[Len(z)]
                        BY <4>4, <6>2, Zenon
                    <6>6. QED
                        BY <6>4, <6>5, Zenon
                <5>3. QED
                    BY <5>1, <5>2
            <4>6. full \o <<>> = full
                BY <2>3
            <4>7. QED
                BY <1>2, <2>3, <3>1, <4>5, <4>6, Zenon DEF Tailed
        <3>3. QED
            BY <2>4, <3>1, <3>2, Zenon
    <2>7. /\ x \in Seq(Char) /\ Free(streamed \o x)
          /\ AllStops(full) = {} => Tailed(streamed \o x, full)
        BY <2>5, <2>6, Zenon
    <2>8. Free(streamed')
        BY <1>1, <2>7 DEF Free
    <2>9. Decodes'
        <3>1. SUFFICES ASSUME ~decoder'.finished
                       PROVE  /\ decoder'.ids = tokens' /\ decoder'.prev = Text(tokens')
                              /\ Free(decoder'.prev) /\ Tailed(streamed', decoder'.prev)
            BY DEF Decodes, Text, Free, Tailed, AllStops, StopsIn
        <3>2. AllStops(full) = {}
            BY <1>1, <2>2, <2>4, <3>1, Zenon
        <3>3. decoder'.prev = full /\ full = Text(tokens')
            BY <1>1, <2>2, <2>4, <3>2, Zenon DEF full
        <3>4. QED
            BY <1>1, <2>2, <2>4, <2>7, <3>2, <3>3, Zenon
    <2>10. decoder'.ids \in Seq(Token) /\ decoder'.prev \in Seq(Char) /\ decoder'.finished \in BOOLEAN
        BY <1>1, <2>2, <2>3, <2>4
    <2>11. QED
        BY <1>1, <1>3, <2>7, <2>8, <2>9, <2>10, Zenon
<1>6. QED
    BY <1>2, <1>4, <1>5

LEMMA Starts == Init => IInv
<1> SUFFICES ASSUME Init PROVE IInv
    OBVIOUS
<1>1. /\ tokens = <<>> /\ decoder.ids = <<>> /\ decoder.prev = <<>> /\ decoder.finished = FALSE
      /\ task = "running" /\ streamed = <<>> /\ reason = NotYet /\ body = Line("delta", <<>>)
      /\ buf = <<>> /\ content = <<>> /\ app = "reading" /\ torn = FALSE
    BY DEF Init
<1>2. <<>> \in Seq(Token) /\ <<>> \in Seq(Char) /\ <<>> \in Seq(Char \cup Event) /\ Len(<<>>) = 0 /\ MaxTokens \in Nat
    BY StreamAssumption
<1>3. TypeOK
    <2>1. Len(tokens) <= MaxTokens
        BY <1>1, <1>2
    <2>2. QED
        BY <1>1, <1>2, <2>1, Zenon DEF TypeOK
<1>4. "delta" \in Event
    BY DEF Event
<1>5. Line("delta", <<>>) \in Seq(Octet)
    BY <1>2, <1>4, LineWhole, Zenon
<1>6. Free(streamed) /\ Free(content)
    BY <1>1, FreeNone, Zenon
<1>7. Decodes
    <2>1. Text(<<>>) = <<>> /\ Tailed(<<>>, <<>>) /\ Free(<<>>)
        BY <1>2, TextIs, TailedSame, FreeNone, Zenon
    <2>2. QED
        BY <1>1, <2>1, Zenon DEF Decodes
<1>8. Showing
    <2> DEFINE l == Line("delta", <<>>)
    <2>1. <<>> \in Seq(Octet) /\ <<>> \o <<>> = <<>>
        OBVIOUS
    <2>2. Reading(<<>> \o l, After("delta", <<>>, <<>>), Ends("delta"), <<>>, <<>>, FALSE)
        BY <1>2, <1>4, <2>1, ReadingNothing, ReadingLine, Zenon
    <2>3. <<>> \o l = l
        <3>1. l \in Seq(Octet)
            BY <1>5
        <3> HIDE DEF l
        <3>2. QED
            BY <3>1
    <2>4. After("delta", <<>>, <<>>) = <<>> /\ Ends("delta") = "reading"
        BY <2>1 DEF After, Ends
    <2>5. Reading(l, <<>>, "reading", <<>>, <<>>, FALSE)
        BY <2>2, <2>3, <2>4, Zenon
    <2>6. EndOf(task) = "reading"
        BY <1>1 DEF EndOf
    <2>7. app # "done"
        BY <1>1
    <2>8. QED
        BY <1>1, <2>5, <2>6, <2>7, Zenon DEF Showing
<1>9. QED
    BY <1>1, <1>3, <1>5, <1>6, <1>7, <1>8, Zenon DEF IInv

\* Generate: nothing more for the app, or one delta.
LEMMA GenerateKeeps ==
    ASSUME IInv, NEW t \in Token, Generate(t)
    PROVE  IInv'
<1>1. /\ Free(streamed') /\ Decodes'
      /\ decoder'.ids \in Seq(Token) /\ decoder'.prev \in Seq(Char) /\ decoder'.finished \in BOOLEAN
      /\ tokens' \in Seq(Token) /\ Len(tokens') <= MaxTokens
      /\ \E x \in Seq(Char) : /\ streamed' = streamed \o x
                              /\ body' = IF x = <<>> THEN body ELSE body \o Line("delta", x)
    BY GenerateDecodes, Zenon DEF IInv
<1>2. PICK x \in Seq(Char) : /\ streamed' = streamed \o x
                             /\ body' = IF x = <<>> THEN body ELSE body \o Line("delta", x)
    BY <1>1
<1>3. /\ task' = task /\ reason' = reason /\ buf' = buf /\ content' = content
      /\ app' = app /\ torn' = torn /\ task = "running"
    BY DEF Generate, appVars
<1>4. /\ streamed \in Seq(Char) /\ body \in Seq(Octet) /\ torn \in BOOLEAN
      /\ streamed \o x \in Seq(Char)
    <2>1. streamed \in Seq(Char) /\ body \in Seq(Octet) /\ torn \in BOOLEAN
        BY Zenon DEF IInv, TypeOK
    <2>2. QED
        BY <2>1, Regroup, Zenon
<1>5. "delta" \in Event
    BY DEF Event
<1> DEFINE l == Line("delta", x)
<1>6. l \in Seq(Octet)
    BY <1>5, LineWhole, Zenon
<1>7. body' \in Seq(Octet)
    <2> HIDE DEF l
    <2>1. body \o l \in Seq(Octet)
        BY <1>4, <1>6
    <2>2. QED
        BY <1>2, <1>4, <2>1, Zenon DEF l
<1>8. TypeOK'
    BY <1>1, <1>2, <1>3, <1>4 DEF IInv, TypeOK
<1>9. Free(content')
    BY <1>3, Zenon DEF IInv
<1>10. Showing'
    <2>1. EndOf(task') = EndOf(task) /\ EndOf(task) = "reading"
        BY <1>3 DEF EndOf
    <2>2. ~(app = "done" /\ ~torn)
        BY <1>3 DEF IInv, Showing
    <2>3. ASSUME app = "reading"
          PROVE  Reading(body', streamed', "reading", buf, content, torn)
        <3>1. Reading(body, streamed, "reading", buf, content, torn)
            BY <2>1, <2>3, Zenon DEF IInv, Showing
        <3>2. CASE x = <<>>
            <4>1. streamed \o <<>> = streamed
                BY <1>4
            <4>2. QED
                BY <1>2, <3>1, <3>2, <4>1, Zenon
        <3>3. CASE x # <<>>
            <4>1. Reading(body \o Line("delta", x), After("delta", x, streamed), Ends("delta"), buf, content, torn)
                BY <1>4, <1>5, <3>1, ReadingLine, Zenon
            <4>2. After("delta", x, streamed) = streamed \o x /\ Ends("delta") = "reading"
                BY DEF After, Ends
            <4>3. QED
                BY <1>2, <3>3, <4>1, <4>2, Zenon
        <3>4. QED
            BY <3>2, <3>3
    <2>4. app' = "reading" => Reading(body', streamed', EndOf(task'), buf', content', torn')
        BY <1>3, <2>1, <2>3, Zenon
    <2>5. ~(app' = "done" /\ ~torn')
        BY <1>3, <2>2, Zenon
    <2>6. QED
        BY <2>4, <2>5, Zenon DEF Showing
<1>11. QED
    BY <1>1, <1>7, <1>8, <1>9, <1>10, Zenon DEF IInv

LEMMA NoText == <<>> \in Seq(Char)
OBVIOUS

\* Finish, TimeOut and GenerationFails: two events, and the app will be done.
LEMMA CloseKeeps ==
    ASSUME IInv, NEW end \in {"complete", "timed out", "failed"}, NEW event \in {"finish", "error"},
           NEW why \in {NotYet, "length", "stop"}, Close(end, event, why)
    PROVE  IInv'
<1> DEFINE l1 == Line(event, <<>>)
           l2 == Line("done", <<>>)
<1>1. /\ task = "running" /\ task' = end /\ reason' = why /\ body' = (body \o l1) \o l2
      /\ tokens' = tokens /\ decoder' = decoder /\ streamed' = streamed
      /\ buf' = buf /\ content' = content /\ app' = app /\ torn' = torn
    BY DEF Close, appVars
<1>2. streamed \in Seq(Char) /\ body \in Seq(Octet) /\ torn \in BOOLEAN /\ <<>> \in Seq(Char)
    BY NoText, Zenon DEF IInv, TypeOK
<1>3. event \in Event /\ "done" \in Event
    BY DEF Event
<1>4. l1 \in Seq(Octet) /\ l2 \in Seq(Octet)
    BY <1>2, <1>3, LineWhole, Zenon
<1>5. body \o l1 \in Seq(Octet) /\ body' \in Seq(Octet)
    <2> HIDE DEF l1, l2
    <2>1. body \o l1 \in Seq(Octet) /\ (body \o l1) \o l2 \in Seq(Octet)
        BY <1>2, <1>4, RegroupBytes, Zenon
    <2>2. QED
        BY <1>1, <2>1
<1>6. TypeOK'
    BY <1>1 DEF IInv, TypeOK
<1>7. Free(streamed') /\ Free(content')
    BY <1>1, Zenon DEF IInv
<1>8. Decodes'
    BY <1>1 DEF IInv, Decodes
<1>9. Showing'
    <2>1. EndOf(task) = "reading" /\ EndOf(task') = "done"
        BY <1>1 DEF EndOf
    <2>2. ~(app = "done" /\ ~torn)
        BY <1>1 DEF IInv, Showing
    <2>3. ASSUME app = "reading"
          PROVE  Reading(body', streamed, "done", buf, content, torn)
        <3>1. Reading(body, streamed, "reading", buf, content, torn)
            BY <2>1, <2>3, Zenon DEF IInv, Showing
        <3>2. Reading(body \o l1, After(event, <<>>, streamed), Ends(event), buf, content, torn)
            BY <1>2, <1>3, <3>1, ReadingLine, Zenon
        <3>3. After(event, <<>>, streamed) = streamed /\ Ends(event) = "reading"
            BY DEF After, Ends
        <3>4. Reading(body \o l1, streamed, "reading", buf, content, torn)
            BY <3>2, <3>3, Zenon
        <3> DEFINE bd == body \o l1
        <3>5. bd \in Seq(Octet) /\ Reading(bd, streamed, "reading", buf, content, torn)
            BY <1>5, <3>4
        <3> HIDE DEF bd
        <3>6. Reading(bd \o Line("done", <<>>), After("done", <<>>, streamed), Ends("done"), buf, content, torn)
            BY <1>2, <1>3, <3>5, ReadingLine, Zenon
        <3>7. After("done", <<>>, streamed) = streamed /\ Ends("done") = "done"
            BY DEF After, Ends
        <3>8. QED
            BY <1>1, <3>6, <3>7, Zenon DEF bd
    <2>4. app' = "reading" => Reading(body', streamed', EndOf(task'), buf', content', torn')
        BY <1>1, <2>1, <2>3, Zenon
    <2>5. ~(app' = "done" /\ ~torn')
        BY <1>1, <2>2, Zenon
    <2>6. QED
        BY <2>4, <2>5, Zenon DEF Showing
<1>10. QED
    BY <1>5, <1>6, <1>7, <1>8, <1>9, Zenon DEF IInv

LEMMA AbortKeeps ==
    ASSUME IInv, Abort
    PROVE  IInv'
<1>1. /\ task = "running" /\ task' = "aborted" /\ reason' = reason /\ body' = body
      /\ tokens' = tokens /\ decoder' = decoder /\ streamed' = streamed
      /\ buf' = buf /\ content' = content /\ app' = app /\ torn' = torn
    BY DEF Abort, appVars
<1>2. TypeOK'
    BY <1>1 DEF IInv, TypeOK
<1>3. Free(streamed') /\ Free(content') /\ body' \in Seq(Octet)
    BY <1>1, Zenon DEF IInv
<1>4. Decodes'
    BY <1>1 DEF IInv, Decodes
<1>5. Showing'
    <2>1. EndOf(task) = EndOf(task') /\ task' # "running"
        BY <1>1 DEF EndOf
    <2>2. QED
        BY <1>1, <2>1, Zenon DEF IInv, Showing
<1>6. QED
    BY <1>2, <1>3, <1>4, <1>5, Zenon DEF IInv

LEMMA ReceiveKeeps ==
    ASSUME IInv, NEW k \in 1..Len(body), Receive(k)
    PROVE  IInv'
<1> DEFINE r == Run(At(buf, content, "reading"), Lossy(SubSeq(body, 1, k)))
           y == SubSeq(body, k + 1, Len(body))
           tn == (torn \/ FirstHalf(body, k))
<1>1. app = "reading" /\ body \in Seq(Octet) /\ streamed \in Seq(Char) /\ Free(streamed) /\ torn \in BOOLEAN
    BY DEF IInv, TypeOK, Receive
<1>2. /\ tokens' = tokens /\ decoder' = decoder /\ task' = task /\ streamed' = streamed
      /\ reason' = reason /\ body' = y /\ torn' = tn
    BY DEF Receive, daemonVars
<1>3. buf' = r.buf /\ content' = r.content /\ app' = r.app
    BY <1>1 DEF Receive, Received, Run, At
<1>4. Landed(r, y, streamed, EndOf(task), tn)
    <2>1. Reading(body, streamed, EndOf(task), buf, content, torn)
        BY <1>1, Zenon DEF IInv, Showing
    <2>2. QED
        BY <1>1, <2>1, ReadingChunk, Zenon
<1>5. y \in Seq(Octet)
    BY <1>1
<1>6. tn \in BOOLEAN
    BY Zenon DEF FirstHalf
<1> HIDE DEF r, y, tn
<1>7. /\ content' \in Seq(Char) /\ Free(content') /\ buf' \in Seq(Char \cup Event)
      /\ app' \in {"reading", "done"}
    BY <1>3, <1>4, Zenon DEF Landed
<1>8. TypeOK'
    BY <1>2, <1>6, <1>7 DEF IInv, TypeOK
<1>9. Free(streamed') /\ body' \in Seq(Octet)
    BY <1>1, <1>2, <1>5, Zenon
<1>10. Decodes'
    BY <1>2 DEF IInv, Decodes
<1>11. Showing'
    <2>1. app' = "reading" => Reading(body', streamed', EndOf(task'), buf', content', torn')
        BY <1>2, <1>3, <1>4, Zenon DEF Landed
    <2>2. app' = "done" => EndOf(task') = "done" /\ (~torn' => content' = streamed')
        BY <1>2, <1>3, <1>4, Zenon DEF Landed
    <2>3. EndOf(task') = "done" => task' # "running"
        BY DEF EndOf
    <2>4. QED
        BY <2>1, <2>2, <2>3, Zenon DEF Showing
<1>12. QED
    BY <1>7, <1>8, <1>9, <1>10, <1>11, Zenon DEF IInv

\* With nothing to come and no cut, the app has what was streamed.
LEMMA ReadAll ==
    ASSUME NEW st, NEW fin, NEW b, NEW c, Reading(<<>>, st, fin, b, c, FALSE)
    PROVE  c = st
<1>1. PICK h, a, v :
          /\ h \in Held
          /\ Run(v, Lossy(h \o <<>>)) = At(<<>>, st, fin)
          /\ c = a.content
          /\ h = <<>> /\ a = v
    BY Zenon DEF Reading
<1>2. <<>> \o <<>> = <<>>
    OBVIOUS
<1>3. Run(v, <<>>) = At(<<>>, st, fin)
    BY <1>1, <1>2, LossyNone, Zenon
<1>4. v = At(<<>>, st, fin)
    BY <1>3, RunNone, Zenon
<1>5. QED
    BY <1>1, <1>4, AtParts

LEMMA BodyEndsKeeps ==
    ASSUME IInv, BodyEnds
    PROVE  IInv'
<1>1. /\ app = "reading" /\ body = <<>> /\ task # "running" /\ app' = "done"
      /\ tokens' = tokens /\ decoder' = decoder /\ task' = task /\ streamed' = streamed
      /\ reason' = reason /\ body' = body /\ buf' = buf /\ content' = content /\ torn' = torn
    BY DEF BodyEnds, daemonVars
<1>2. TypeOK'
    BY <1>1 DEF IInv, TypeOK
<1>3. Free(streamed') /\ Free(content') /\ body' \in Seq(Octet)
    BY <1>1, Zenon DEF IInv
<1>4. Decodes'
    BY <1>1 DEF IInv, Decodes
<1>5. Showing'
    <2>1. ASSUME ~torn
          PROVE  content = streamed
        <3>1. torn = FALSE
            BY <2>1 DEF IInv, TypeOK
        <3>2. Reading(<<>>, streamed, EndOf(task), buf, content, FALSE)
            BY <1>1, <3>1, Zenon DEF IInv, Showing
        <3>3. QED
            BY <3>2, ReadAll, Zenon
    <2>2. app' # "reading" /\ (~torn' => content' = streamed') /\ task' # "running"
        BY <1>1, <2>1
    <2>3. QED
        BY <2>2, Zenon DEF Showing
<1>6. QED
    BY <1>2, <1>3, <1>4, <1>5, Zenon DEF IInv

LEMMA BreaksKeeps ==
    ASSUME IInv, Breaks
    PROVE  IInv'
<1>1. /\ app' = "failed" /\ content' = <<>>
      /\ tokens' = tokens /\ decoder' = decoder /\ task' = task /\ streamed' = streamed
      /\ reason' = reason /\ body' = body /\ buf' = buf /\ torn' = torn
    BY DEF Breaks, daemonVars
<1>2. <<>> \in Seq(Char) /\ Free(<<>>)
    BY FreeNone
<1>3. TypeOK'
    BY <1>1, <1>2 DEF IInv, TypeOK
<1>4. Free(streamed') /\ Free(content') /\ body' \in Seq(Octet)
    BY <1>1, <1>2, Zenon DEF IInv
<1>5. Decodes'
    BY <1>1 DEF IInv, Decodes
<1>6. Showing'
    BY <1>1 DEF Showing
<1>7. QED
    BY <1>3, <1>4, <1>5, <1>6, Zenon DEF IInv

LEMMA Keeps == IInv /\ [Next]_vars => IInv'
<1> SUFFICES ASSUME IInv, [Next]_vars PROVE IInv'
    OBVIOUS
<1>1. ASSUME NEW t \in Token, Generate(t) PROVE IInv'
    BY <1>1, GenerateKeeps
<1>2. CASE Finish
    BY <1>2, CloseKeeps DEF Finish
<1>3. CASE TimeOut
    BY <1>3, CloseKeeps DEF TimeOut
<1>4. CASE GenerationFails
    BY <1>4, CloseKeeps DEF GenerationFails
<1>5. CASE Abort
    BY <1>5, AbortKeeps
<1>6. ASSUME NEW k \in 1..Len(body), Receive(k) PROVE IInv'
    BY <1>6, ReceiveKeeps
<1>7. CASE BodyEnds
    BY <1>7, BodyEndsKeeps
<1>8. CASE Breaks
    BY <1>8, BreaksKeeps
<1>9. CASE UNCHANGED vars
    BY <1>9, Zenon DEF vars, daemonVars, appVars, IInv, TypeOK, Decodes, Showing
<1>10. QED
    BY <1>1, <1>2, <1>3, <1>4, <1>5, <1>6, <1>7, <1>8, <1>9 DEF Next, Daemon, App

-----------------------------------------------------------------------------
(***************************************************************************)
(* Against the blocking endpoint.                                          *)
(***************************************************************************)
\* No stop string of the text lies across the end of a.
Apart(a, text) ==
    \A s \in Stops, p \in DOMAIN text :
        OccursAt(text, s, p) => Len(a) < p \/ p + Len(s) - 1 <= Len(a)

LEMMA StopsAre ==
    ASSUME NEW x
    PROVE  \A p : p \in AllStops(x) <=> p \in DOMAIN x /\ \E s \in Stops : OccursAt(x, s, p)
BY DEF AllStops, StopsIn

\* Then what was cut from a stays cut, and what was kept stays kept.
LEMMA StripMore ==
    ASSUME NEW a \in Seq(Char), NEW b \in Seq(Char), Apart(a, a \o b)
    PROVE  /\ AllStops(a) # {} => /\ AllStops(a \o b) # {}
                                  /\ StripStop(a \o b).kept = StripStop(a).kept
           /\ AllStops(a) = {} => Begins(a, StripStop(a \o b).kept)
<1> DEFINE c == a \o b
           S == AllStops(a)
           T == AllStops(c)
<1>1. /\ c \in Seq(Char) /\ Len(c) = Len(a) + Len(b) /\ Len(a) \in Nat /\ Len(b) \in Nat
      /\ DOMAIN a = 1..Len(a) /\ DOMAIN c = 1..Len(c)
    BY ConcatParts
<1>2. /\ \A p \in S : p \in 1..Len(a) /\ \E s \in Stops : OccursAt(a, s, p)
      /\ \A p \in 1..Len(a), s \in Stops : OccursAt(a, s, p) => p \in S
      /\ \A p \in T : p \in 1..Len(c) /\ \E s \in Stops : OccursAt(c, s, p)
      /\ \A p \in 1..Len(c), s \in Stops : OccursAt(c, s, p) => p \in T
    <2> HIDE DEF c
    <2>1. QED
        BY <1>1, StopsAre, Zenon DEF S, T
<1> HIDE DEF c, S, T
<1>3. ASSUME NEW p \in S
      PROVE  p \in T
    <2>1. PICK s \in Stops : p \in 1..Len(a) /\ OccursAt(a, s, p)
        BY <1>2
    <2>2. s \in Seq(Char) /\ Len(s) \in Nat \ {0}
        BY StopParts
    <2>3. OccursAt(c, s, p)
        BY <2>1, <2>2, OccursConcat, Zenon DEF c
    <2>4. p \in 1..Len(c)
        BY <1>1, <2>1
    <2>5. QED
        BY <1>2, <2>3, <2>4, Zenon
<1>4. ASSUME NEW p \in T
      PROVE  p \in S \/ Len(a) < p
    <2>1. PICK s \in Stops : p \in 1..Len(c) /\ OccursAt(c, s, p)
        BY <1>2
    <2>2. s \in Seq(Char) /\ Len(s) \in Nat \ {0} /\ p \in Nat \ {0} /\ Len(a) \in Nat
        BY <1>1, <2>1, StopParts
    <2>3. Len(a) < p \/ p + Len(s) - 1 <= Len(a)
        BY <1>1, <2>1, Zenon DEF Apart, c
    <2>4. CASE Len(a) < p
        BY <2>4
    <2>5. CASE p + Len(s) - 1 <= Len(a)
        <3>1. p \in 1..Len(a) /\ p + Len(s) <= Len(a) + 1
            BY <2>2, <2>5
        <3>2. OccursAt(a, s, p)
            BY <2>1, <2>2, <3>1, OccursConcat, Zenon DEF c
        <3>3. QED
            BY <1>2, <3>1, <3>2, Zenon
    <2>6. QED
        BY <2>3, <2>4, <2>5
<1>5. /\ S # {} => /\ Min(S) \in S /\ \A p \in S : Min(S) <= p
                   /\ StripStop(a).kept = SubSeq(a, 1, Min(S) - 1)
      /\ T # {} => /\ Min(T) \in T /\ \A p \in T : Min(T) <= p
                   /\ StripStop(c).kept = SubSeq(c, 1, Min(T) - 1)
      /\ T = {} => StripStop(c).kept = c
    BY <1>1, Kept, Zenon DEF S, T
<1>6. ASSUME S # {}
      PROVE  T # {} /\ StripStop(c).kept = StripStop(a).kept
    <2>1. Min(S) \in T /\ T # {} /\ Min(S) \in 1..Len(a)
        BY <1>2, <1>3, <1>5, <1>6, Zenon
    <2>2. Min(T) \in T /\ Min(T) \in 1..Len(c)
        BY <1>2, <1>5, <2>1, Zenon
    <2>3. Min(T) <= Min(S)
        BY <1>5, <2>1, Zenon
    <2>4. ~(Len(a) < Min(T))
        BY <1>1, <2>1, <2>2, <2>3
    <2>5. Min(T) \in S
        BY <1>4, <2>2, <2>4, Zenon
    <2>6. Min(S) <= Min(T)
        BY <1>5, <1>6, <2>5, Zenon
    <2>7. Min(T) = Min(S)
        BY <2>1, <2>2, <2>3, <2>6
    <2>8. Min(S) - 1 \in 0..Len(a)
        BY <1>1, <2>1
    <2>9. SubSeq(c, 1, Min(S) - 1) = SubSeq(a, 1, Min(S) - 1)
        BY <2>8, Beginnings DEF c
    <2>10. QED
        BY <1>5, <1>6, <2>1, <2>7, <2>9, Zenon
<1>7. ASSUME S = {}
      PROVE  Begins(a, StripStop(c).kept)
    <2>1. CASE T = {}
        BY <1>5, <2>1, Zenon DEF Begins, c
    <2>2. CASE T # {}
        <3>1. Min(T) \in 1..Len(c) /\ Len(a) < Min(T)
            BY <1>2, <1>4, <1>5, <1>7, <2>2
        <3> DEFINE n == Min(T) - 1 - Len(a)
        <3>2. n \in 0..Len(b) /\ Len(a) + n = Min(T) - 1
            BY <1>1, <3>1
        <3> HIDE DEF n
        <3>3. SubSeq(c, 1, Len(a) + n) = a \o SubSeq(b, 1, n)
            BY <3>2, Beginnings DEF c
        <3>4. SubSeq(b, 1, n) \in Seq(Char)
            BY <3>2, Cut
        <3>5. StripStop(c).kept = a \o SubSeq(b, 1, n)
            BY <1>5, <2>2, <3>2, <3>3, Zenon
        <3>6. QED
            BY <3>4, <3>5, Zenon DEF Begins
    <2>3. QED
        BY <2>1, <2>2
<1>8. QED
    BY <1>6, <1>7 DEF c, S, T

\* What the hypotheses of StreamedIsBlocking say of the last token.
LEMMA LastToken ==
    ASSUME NEW x \in Seq(Token), NEW t \in Token, Encode(Lossy(Bytes[t])) = Bytes[t]
    PROVE  /\ Lossy(Bytes[t]) \in Seq(Char)
           /\ Text(Append(x, t)) = Text(x) \o Lossy(Bytes[t])
<1>1. /\ Code(x) \in Seq(Byte) /\ Bytes[t] \in Seq(Byte) /\ Code(Append(x, t)) = Code(x) \o Bytes[t]
      /\ Code(x) \in Seq(Octet) /\ Bytes[t] \in Seq(Octet)
    BY CodeMore, ByteSeq
<1>2. Lossy(Bytes[t]) \in Seq(Char)
    BY <1>1, LossyType
<1>3. Whole(Bytes[t])
    <2>1. Whole(Encode(Lossy(Bytes[t])))
        BY <1>2, EncodeWhole, Zenon
    <2>2. QED
        BY <2>1
<1>4. ~Meet(Code(x), Bytes[t])
    BY <1>1, <1>3, WholeEnds, Zenon DEF Meet
<1>5. Lossy(Code(x) \o Bytes[t]) = Lossy(Code(x)) \o Lossy(Bytes[t])
    BY <1>1, <1>4, LossyConcat, Zenon
<1>6. QED
    BY <1>1, <1>2, <1>5, TextIs, Zenon

Aligned(toks) ==
    \A n \in DOMAIN toks, s \in Stops, p \in DOMAIN Text(toks) :
        LET seen == Len(Text(SubSeq(toks, 1, n)))
        IN  OccursAt(Text(toks), s, p) => ~(p <= seen /\ seen < p + Len(s) - 1)

LEMMA AlignedMore ==
    ASSUME NEW x \in Seq(Token), NEW t \in Token, Encode(Lossy(Bytes[t])) = Bytes[t],
           Aligned(Append(x, t))
    PROVE  Aligned(x) /\ Apart(Text(x), Text(Append(x, t)))
<1> DEFINE y == Append(x, t)
           a == Text(x)
           b == Lossy(Bytes[t])
           c == Text(y)
<1>1. /\ y \in Seq(Token) /\ Len(x) \in Nat /\ DOMAIN x = 1..Len(x) /\ DOMAIN y = 1..(Len(x) + 1)
      /\ \A n \in 1..Len(x) : SubSeq(y, 1, n) = SubSeq(x, 1, n)
    <2>1. \A n \in 0..Len(x) : SubSeq(x \o <<t>>, 1, n) = SubSeq(x, 1, n)
        BY Beginnings
    <2>2. y = x \o <<t>>
        OBVIOUS
    <2>3. QED
        BY <2>1, <2>2
<1>2. a \in Seq(Char) /\ b \in Seq(Char) /\ c = a \o b
    BY LastToken, TextIs, Zenon
<1>3. /\ c \in Seq(Char) /\ Len(c) = Len(a) + Len(b) /\ Len(a) \in Nat /\ Len(b) \in Nat
      /\ DOMAIN a = 1..Len(a) /\ DOMAIN c = 1..Len(c)
    <2> HIDE DEF a, b, c
    <2>1. /\ a \o b \in Seq(Char) /\ Len(a \o b) = Len(a) + Len(b)
          /\ Len(a) \in Nat /\ Len(b) \in Nat /\ DOMAIN a = 1..Len(a)
          /\ DOMAIN (a \o b) = 1..Len(a \o b)
        BY <1>2, ConcatParts
    <2>2. QED
        BY <1>2, <2>1
<1>4. \A n \in DOMAIN y, s \in Stops, p \in DOMAIN c :
          OccursAt(c, s, p) => ~(p <= Len(Text(SubSeq(y, 1, n))) /\ Len(Text(SubSeq(y, 1, n))) < p + Len(s) - 1)
    BY Zenon DEF Aligned
<1> HIDE DEF y, a, b, c
<1>5. Aligned(x)
    <2>1. SUFFICES ASSUME NEW n \in 1..Len(x), NEW s \in Stops, NEW p \in 1..Len(a), OccursAt(a, s, p)
                   PROVE  LET seen == Len(Text(SubSeq(x, 1, n)))
                          IN  ~(p <= seen /\ seen < p + Len(s) - 1)
        BY <1>1, <1>3, Zenon DEF Aligned, a
    <2>2. s \in Seq(Char) /\ Len(s) \in Nat \ {0}
        BY StopParts
    <2>3. OccursAt(c, s, p)
        BY <1>2, <2>1, <2>2, OccursConcat, Zenon
    <2>4. n \in DOMAIN y /\ p \in DOMAIN c
        BY <1>1, <1>3
    <2>5. QED
        BY <1>1, <1>4, <2>3, <2>4, Zenon
<1>6. Apart(a, c)
    <2>1. SUFFICES ASSUME NEW s \in Stops, NEW p \in 1..Len(c), OccursAt(c, s, p)
                   PROVE  Len(a) < p \/ p + Len(s) - 1 <= Len(a)
        BY <1>3, Zenon DEF Apart
    <2>2. Len(s) \in Nat /\ p \in Nat \ {0} /\ p \in DOMAIN c
        BY <1>3, StopParts
    <2>3. CASE x = <<>>
        <3>1. a = <<>>
            BY <2>3, TextIs, Zenon DEF a
        <3>2. QED
            BY <2>2, <3>1
    <2>4. CASE x # <<>>
        <3>1. Len(x) \in 1..Len(x) /\ SubSeq(x, 1, Len(x)) = x
            BY <2>4, EmptySeq
        <3>2. SubSeq(y, 1, Len(x)) = x /\ Len(x) \in DOMAIN y
            BY <1>1, <3>1
        <3>3. ~(p <= Len(a) /\ Len(a) < p + Len(s) - 1)
            BY <1>4, <2>1, <2>2, <3>2, Zenon DEF a
        <3>4. QED
            BY <1>3, <2>2, <3>3
    <2>5. QED
        BY <2>3, <2>4
<1>7. QED
    BY <1>5, <1>6 DEF a, c, y

-----------------------------------------------------------------------------
(***************************************************************************)
(* Theorems.                                                               *)
(***************************************************************************)
LEMMA Inductive == Spec => []IInv
<1>1. Init => IInv
    BY Starts
<1>2. IInv /\ [Next]_vars => IInv'
    BY Keeps
<1>3. QED
    BY <1>1, <1>2, PTL DEF Spec

\* Whatever the tokens and the chunks, decoder, task and parser keep their
\* types: never more tokens than max_tokens, and a buffer of characters.
THEOREM TypeCorrect == Spec => []TypeOK
<1>1. IInv => TypeOK
    BY Zenon DEF IInv
<1>2. QED
    BY <1>1, Inductive, PTL

\* For any tokens and any chunks, neither the deltas (StreamDecoder::push cuts
\* before it diffs) nor the transcript (run_chat) ever show a stop string; a
\* replacement character in the middle of one does not bring one about.
THEOREM StopsHidden == Spec => []StopNeverShown
<1>1. IInv => StopNeverShown
    BY Zenon DEF IInv, Free, StopNeverShown
<1>2. QED
    BY <1>1, Inductive, PTL

\* As long as no chunk has ended inside a character, the transcript of run_chat
\* is a beginning of what stream_completion has sent, wherever the connection
\* cuts the body; once the app has seen [DONE], or the end of the body, it is
\* all of it.
THEOREM TranscriptExact == Spec => []TranscriptIsStreamed
<1>1. ASSUME IInv
      PROVE  TranscriptIsStreamed
    <2>1. SUFFICES ASSUME ~torn, app # "failed"
                   PROVE  IsPrefix(content, streamed) /\ (app = "done" => content = streamed)
        BY DEF TranscriptIsStreamed
    <2>2. content \in Seq(Char) /\ streamed \in Seq(Char) /\ torn = FALSE /\ app \in {"reading", "done"}
        BY <1>1, <2>1 DEF IInv, TypeOK
    <2>3. CASE app = "done"
        <3>1. content = streamed
            BY <1>1, <2>1, <2>3, Zenon DEF IInv, Showing
        <3>2. Begins(streamed, streamed)
            BY <2>2, BeginsMore, Zenon
        <3>3. QED
            BY <2>2, <3>1, <3>2, PrefixIs, Zenon
    <2>4. CASE app = "reading"
        <3>0. body \in Seq(Octet)
            BY <1>1, Zenon DEF IInv
        <3>1. Reading(body, streamed, EndOf(task), buf, content, FALSE)
            BY <1>1, <2>2, <2>4, Zenon DEF IInv, Showing
        <3>2. Begins(content, streamed)
            BY <2>2, <3>1, <3>0, FitNow, Zenon
        <3>3. QED
            BY <2>2, <2>4, <3>2, PrefixIs, Zenon
    <2>5. QED
        BY <2>2, <2>3, <2>4
<1>2. QED
    BY <1>1, Inductive, PTL

-----------------------------------------------------------------------------
(***************************************************************************)
(* The two endpoints agree: the invariant of StreamedIsBlocking.           *)
(***************************************************************************)
Agreeing == streamed = Blocking.kept /\ decoder.finished = Blocking.stopped

Reasoned ==
    task = "complete" => (reason = "length" <=> ~decoder.finished /\ Len(tokens) >= MaxTokens)

JInv ==
    /\ IInv
    /\ WholeTokens /\ StopsInTokens => Agreeing
    /\ Reasoned

LEMMA AgreeingStarts == Init => JInv
<1> SUFFICES ASSUME Init PROVE JInv
    OBVIOUS
<1>1. tokens = <<>> /\ decoder.finished = FALSE /\ streamed = <<>> /\ task = "running"
    BY DEF Init
<1>2. Text(tokens) = <<>>
    BY <1>1, TextIs, Zenon
<1>3. AllStops(<<>>) = {}
    BY FreeNone, Zenon DEF Free
<1>4. StripStop(<<>>).kept = <<>> /\ StripStop(<<>>).stopped = FALSE
    BY <1>3, Kept, NoText, Zenon
<1>5. Agreeing
    BY <1>1, <1>2, <1>4, Zenon DEF Agreeing, Blocking
<1>6. Reasoned
    BY <1>1 DEF Reasoned
<1>7. QED
    BY <1>5, <1>6, Starts, Zenon DEF JInv

\* Generate: the only step after which there is more to agree on.
LEMMA AgreeingGenerate ==
    ASSUME IInv, WholeTokens /\ StopsInTokens => Agreeing, NEW t \in Token, Generate(t),
           WholeTokens', StopsInTokens'
    PROVE  Agreeing'
<1> DEFINE p == Push(decoder, t)
           a == Text(tokens)
           b == Lossy(Bytes[t])
           c == Text(Append(tokens, t))
<1>1. /\ tokens' = Append(tokens, t) /\ decoder' = p.decoder /\ streamed' = streamed \o p.delta
    BY DEF Generate
<1>2. tokens \in Seq(Token) /\ streamed \in Seq(Char)
    BY Zenon DEF IInv, TypeOK
<1>3. /\ Len(tokens) \in Nat /\ DOMAIN tokens = 1..Len(tokens)
      /\ DOMAIN tokens' = 1..(Len(tokens) + 1) /\ tokens'[Len(tokens) + 1] = t
      /\ \A i \in DOMAIN tokens : i \in DOMAIN tokens' /\ tokens'[i] = tokens[i]
    <2> DEFINE q == Append(tokens, t)
    <2>1. /\ Len(tokens) \in Nat /\ DOMAIN tokens = 1..Len(tokens)
          /\ DOMAIN q = 1..(Len(tokens) + 1) /\ q[Len(tokens) + 1] = t
          /\ \A i \in DOMAIN tokens : i \in DOMAIN q /\ q[i] = tokens[i]
        BY <1>2
    <2> HIDE DEF q
    <2>2. tokens' = q
        BY <1>1, Zenon DEF q
    <2>3. QED
        BY <2>1, <2>2, Zenon
<1>4. WholeTokens /\ Encode(Lossy(Bytes[t])) = Bytes[t]
    <2>1. \A i \in DOMAIN tokens' : Encode(Lossy(Bytes[tokens'[i]])) = Bytes[tokens'[i]]
        BY DEF WholeTokens, Encode, Lossy, Joined, FirstHalf, SecondHalf, Utf8
    <2>2. Len(tokens) + 1 \in DOMAIN tokens'
        BY <1>3
    <2>3. WholeTokens
        BY <1>3, <2>1, Zenon DEF WholeTokens
    <2>4. QED
        BY <1>3, <2>1, <2>2, <2>3, Zenon
<1>5. Aligned(Append(tokens, t))
    BY <1>1, Zenon DEF Aligned, StopsInTokens
<1>6. StopsInTokens /\ Apart(a, c)
    BY <1>2, <1>4, <1>5, AlignedMore, Zenon DEF Aligned, StopsInTokens
<1>7. Agreeing
    BY <1>4, <1>6
<1>8. a \in Seq(Char) /\ b \in Seq(Char) /\ c = a \o b
    BY <1>2, <1>4, LastToken, TextIs, Zenon
<1>9. Blocking' = StripStop(c)
    BY <1>1, Zenon DEF Blocking
<1>10. Blocking = StripStop(a)
    BY Zenon DEF Blocking
<1> HIDE DEF p, a, b, c
<1>11. /\ AllStops(a) # {} => /\ AllStops(c) # {} /\ StripStop(c).kept = StripStop(a).kept
       /\ AllStops(a) = {} => Begins(a, StripStop(c).kept)
    BY <1>6, <1>8, StripMore, Zenon
<1>12. c \in Seq(Char)
    BY <1>8, Regroup, Zenon
<1>13. /\ StripStop(a).stopped = (AllStops(a) # {}) /\ StripStop(c).stopped = (AllStops(c) # {})
       /\ AllStops(a) = {} => StripStop(a).kept = a
       /\ StripStop(c).kept \in Seq(Char)
    BY <1>8, <1>12, Kept, Zenon
<1>14. CASE decoder.finished
    <2>1. p.delta = <<>> /\ p.decoder = decoder
        BY <1>14, PushParts DEF p
    <2>2. streamed \o <<>> = streamed
        BY <1>2
    <2>3. streamed' = streamed /\ decoder' = decoder
        BY <1>1, <2>1, <2>2, Zenon
    <2>4. AllStops(a) # {}
        BY <1>7, <1>10, <1>13, <1>14, Zenon DEF Agreeing
    <2>5. streamed' = StripStop(c).kept /\ decoder'.finished = StripStop(c).stopped
        BY <1>7, <1>10, <1>11, <1>13, <1>14, <2>3, <2>4 DEF Agreeing
    <2>6. QED
        BY <1>9, <2>5, Zenon DEF Agreeing
<1>15. CASE ~decoder.finished
    <2> DEFINE kept == StripStop(c).kept
    <2>1. decoder.ids = tokens /\ decoder.prev = a
        BY <1>15, Zenon DEF IInv, Decodes, a
    <2>2. p.delta = Delta(a, kept) /\ p.decoder.finished = StripStop(c).stopped
        <3> DEFINE cut0 == StripStop(Text(Append(decoder.ids, t)))
        <3>1. p.delta = Delta(decoder.prev, cut0.kept) /\ p.decoder.finished = cut0.stopped
            BY <1>15, PushParts DEF p
        <3>2. QED
            BY <2>1, <3>1, Zenon DEF c
    <2>3. AllStops(a) = {} /\ streamed = a
        BY <1>7, <1>10, <1>13, <1>15, Zenon DEF Agreeing
    <2> HIDE DEF kept
    <2>4. Begins(a, kept) /\ kept \in Seq(Char)
        BY <1>11, <1>13, <2>3, Zenon DEF kept
    <2>5. Delta(a, kept) = SubSeq(kept, Len(a) + 1, Len(kept)) /\ kept = a \o Delta(a, kept)
        BY <1>8, <2>4, PrefixIs, Zenon DEF Delta
    <2>6. streamed' = kept
        BY <1>1, <2>2, <2>3, <2>5, Zenon
    <2>7. QED
        BY <1>1, <1>9, <2>2, <2>6, Zenon DEF Agreeing, kept
<1>16. QED
    BY <1>14, <1>15

LEMMA AgreeingKeeps == JInv /\ [Next]_vars => JInv'
<1> SUFFICES ASSUME JInv, [Next]_vars PROVE JInv'
    OBVIOUS
<1>1. IInv /\ IInv'
    BY Keeps, Zenon DEF JInv
<1> DEFINE P == WholeTokens /\ StopsInTokens => Agreeing
<1>2. ASSUME tokens' = tokens, decoder' = decoder, streamed' = streamed
      PROVE  P'
    BY <1>2, Zenon DEF JInv, WholeTokens, StopsInTokens, Agreeing, Blocking
<1>3. ASSUME tokens' = tokens, decoder' = decoder, task' = task, reason' = reason
      PROVE  Reasoned'
    BY <1>3, Zenon DEF JInv, Reasoned
<1> HIDE DEF P
<1> SUFFICES P' /\ Reasoned'
    BY <1>1, Zenon DEF JInv, P
<1>4. ASSUME NEW t \in Token, Generate(t) PROVE P' /\ Reasoned'
    <2>1. P'
        BY <1>1, <1>4, AgreeingGenerate, Zenon DEF P, JInv
    <2>2. task' # "complete"
        BY <1>4 DEF Generate
    <2>3. QED
        BY <2>1, <2>2, Zenon DEF Reasoned
<1>5. CASE Finish
    <2>1. tokens' = tokens /\ decoder' = decoder /\ streamed' = streamed
        BY <1>5 DEF Finish, Close
    <2>2. reason' = "length" <=> ~decoder.finished /\ Len(tokens) >= MaxTokens
        BY <1>5 DEF Finish, Close
    <2>3. QED
        BY <1>2, <2>1, <2>2, Zenon DEF Reasoned
<1>6. CASE TimeOut
    BY <1>2, <1>6 DEF TimeOut, Close, Reasoned
<1>7. CASE GenerationFails
    BY <1>2, <1>7 DEF GenerationFails, Close, Reasoned
<1>8. CASE Abort
    BY <1>2, <1>8 DEF Abort, Reasoned
<1>9. CASE App \/ Breaks \/ UNCHANGED vars
    <2>1. /\ tokens' = tokens /\ decoder' = decoder /\ streamed' = streamed
          /\ task' = task /\ reason' = reason
        BY <1>9 DEF App, Receive, BodyEnds, Breaks, vars, daemonVars
    <2>2. QED
        BY <1>2, <1>3, <2>1
<1>10. QED
    BY <1>4, <1>5, <1>6, <1>7, <1>8, <1>9, Zenon DEF Next, Daemon

\* For tokens of whole characters and stop strings within tokens, what
\* stream_completion has sent is at every moment the answer of the blocking
\* endpoint to the same tokens, and the answer ends with the same
\* finish_reason, whatever the vocabulary, the stop strings and max_tokens.
THEOREM EndpointsAgree == Spec => []StreamedIsBlocking
<1>1. JInv => StreamedIsBlocking
    BY Zenon DEF JInv, Agreeing, Reasoned, StreamedIsBlocking
<1>2. QED
    BY <1>1, AgreeingStarts, AgreeingKeeps, PTL DEF Spec

-----------------------------------------------------------------------------
(***************************************************************************)
(* Subsequences: what Picked, Embeds and Shown make of concatenations.     *)
(***************************************************************************)
Bits(t, S) == [i \in DOMAIN t |-> IF i \in S THEN <<t[i]>> ELSE <<>>]

Allowed(t, S, Y) == \A i \in 1..Len(t) : i \in S => t[i] \in Y

LEMMA BitsType ==
    ASSUME NEW Y, NEW t \in Seq(Char), NEW S, Allowed(t, S, Y)
    PROVE  /\ Bits(t, S) \in Seq(Seq(Y)) /\ Len(Bits(t, S)) = Len(t)
           /\ \A i \in 1..Len(t) : Bits(t, S)[i] = IF i \in S THEN <<t[i]>> ELSE <<>>
           /\ Picked(t, S) = FlattenSeq(Bits(t, S)) /\ Picked(t, S) \in Seq(Y)
<1> DEFINE B == Bits(t, S)
<1>1. DOMAIN t = 1..Len(t) /\ Len(t) \in Nat
    OBVIOUS
<1>2. \A i \in 1..Len(t) : (IF i \in S THEN <<t[i]>> ELSE <<>>) \in Seq(Y)
    <2>1. \A y \in Y : <<y>> \in Seq(Y)
        OBVIOUS
    <2>2. <<>> \in Seq(Y)
        OBVIOUS
    <2>3. QED
        BY <2>1, <2>2, Zenon DEF Allowed
<1>3. /\ B \in [1..Len(t) -> Seq(Y)] /\ DOMAIN B = 1..Len(t)
      /\ \A i \in 1..Len(t) : B[i] = IF i \in S THEN <<t[i]>> ELSE <<>>
    BY <1>1, <1>2, Zenon DEF Bits
<1>4. Picked(t, S) = FlattenSeq(B)
    BY Zenon DEF Picked, Bits
<1> HIDE DEF B
<1>5. B \in Seq(Seq(Y)) /\ Len(B) = Len(t)
    BY <1>1, <1>3
<1>6. FlattenSeq(B) \in Seq(Y)
    BY <1>5, FlatType
<1>7. QED
    BY <1>3, <1>4, <1>5, <1>6 DEF B

LEMMA AllowedAll ==
    ASSUME NEW t \in Seq(Char), NEW S
    PROVE  Allowed(t, S, Char)
BY DEF Allowed

\* Only the positions in the text count.
LEMMA PickedSame ==
    ASSUME NEW t \in Seq(Char), NEW S, NEW U, S \cap (1..Len(t)) = U \cap (1..Len(t))
    PROVE  Picked(t, S) = Picked(t, U)
<1>1. DOMAIN t = 1..Len(t)
    OBVIOUS
<1>2. \A i \in DOMAIN t : i \in S <=> i \in U
    BY <1>1
<1>3. Bits(t, S) = Bits(t, U)
    BY <1>2, Zenon DEF Bits
<1>4. QED
    BY <1>3, Zenon DEF Picked, Bits

LEMMA PickedNone ==
    ASSUME NEW S
    PROVE  Picked(<<>>, S) = <<>>
<1>1. Bits(<<>>, S) = <<>>
    BY DEF Bits
<1>2. QED
    BY <1>1, FlatNone, Zenon DEF Picked, Bits

LEMMA PickedOne ==
    ASSUME NEW c \in Char, NEW S
    PROVE  Picked(<<c>>, S) = IF 1 \in S THEN <<c>> ELSE <<>>
<1> DEFINE p == IF 1 \in S THEN <<c>> ELSE <<>>
<1>1. p \in Seq(Char)
    BY NoText
<1>2. Bits(<<c>>, S) = <<p>>
    BY DEF Bits
<1> HIDE DEF p
<1>3. FlattenSeq(<<p>>) = p
    BY <1>1, FlatOne
<1>4. Picked(<<c>>, S) = FlattenSeq(Bits(<<c>>, S))
    BY Zenon DEF Picked, Bits
<1>5. QED
    BY <1>2, <1>3, <1>4, Zenon DEF p

\* What is picked of a concatenation.
From(U, n) == {j \in Nat \ {0} : n + j \in U}

LEMMA PickedConcat ==
    ASSUME NEW a \in Seq(Char), NEW b \in Seq(Char), NEW U
    PROVE  Picked(a \o b, U) = Picked(a, U) \o Picked(b, From(U, Len(a)))
<1> DEFINE c == a \o b
           T == From(U, Len(a))
           A == Bits(a, U)
           B == Bits(b, T)
           C == Bits(c, U)
<1>1. /\ c \in Seq(Char) /\ Len(c) = Len(a) + Len(b) /\ Len(a) \in Nat /\ Len(b) \in Nat
      /\ \A i \in 1..Len(a) : c[i] = a[i]
      /\ \A j \in 1..Len(b) : c[Len(a) + j] = b[j]
    BY ConcatParts
<1>0. c \in Seq(Char)
    BY <1>1
<1> HIDE DEF c
<1>2. \A j \in 1..Len(b) : Len(a) + j \in U <=> j \in T
    BY <1>1 DEF From
<1> HIDE DEF T
<1>3. Allowed(a, U, Char) /\ Allowed(b, T, Char) /\ Allowed(c, U, Char)
    BY <1>0, AllowedAll, Zenon
<1>4. /\ A \in Seq(Seq(Char)) /\ Len(A) = Len(a)
      /\ \A i \in 1..Len(a) : A[i] = IF i \in U THEN <<a[i]>> ELSE <<>>
    BY <1>3, BitsType, Zenon
<1>5. /\ B \in Seq(Seq(Char)) /\ Len(B) = Len(b)
      /\ \A i \in 1..Len(b) : B[i] = IF i \in T THEN <<b[i]>> ELSE <<>>
    BY <1>3, BitsType, Zenon
<1>6. /\ C \in Seq(Seq(Char)) /\ Len(C) = Len(c)
      /\ \A i \in 1..Len(c) : C[i] = IF i \in U THEN <<c[i]>> ELSE <<>>
    BY <1>0, <1>3, BitsType, Zenon
<1>7. Picked(c, U) = FlattenSeq(C) /\ Picked(a, U) = FlattenSeq(A) /\ Picked(b, T) = FlattenSeq(B)
    BY <1>0, <1>3, BitsType, Zenon
<1> HIDE DEF A, B, C
<1> DEFINE D == A \o B
<1>8. /\ D \in Seq(Seq(Char)) /\ Len(D) = Len(c)
      /\ \A i \in 1..Len(a) : D[i] = A[i]
      /\ \A j \in 1..Len(b) : D[Len(a) + j] = B[j]
    <2> DEFINE X == Seq(Char)
    <2>1. A \in Seq(X) /\ B \in Seq(X)
        BY <1>4, <1>5
    <2> HIDE DEF X
    <2>2. /\ D \in Seq(X) /\ Len(D) = Len(A) + Len(B)
          /\ \A i \in 1..Len(A) : D[i] = A[i]
          /\ \A j \in 1..Len(B) : D[Len(A) + j] = B[j]
        BY <2>1, ConcatParts
    <2>3. Len(D) = Len(c)
        BY <1>1, <1>4, <1>5, <2>2
    <2>4. QED
        BY <1>4, <1>5, <2>2, <2>3, Zenon DEF X
<1> HIDE DEF D
<1>9. \A i \in 1..Len(a) : C[i] = D[i]
    <2>1. \A i \in 1..Len(a) : i \in 1..Len(c)
        BY <1>1
    <2>2. SUFFICES ASSUME NEW i \in 1..Len(a)
                   PROVE  C[i] = D[i]
        BY Zenon
    <2>3. C[i] = IF i \in U THEN <<c[i]>> ELSE <<>>
        BY <1>6, <2>1, Zenon
    <2>4. D[i] = IF i \in U THEN <<a[i]>> ELSE <<>>
        BY <1>4, <1>8, Zenon
    <2>5. c[i] = a[i]
        BY <1>1, Zenon
    <2>6. QED
        BY <2>3, <2>4, <2>5, Zenon
<1>10. \A j \in 1..Len(b) : C[Len(a) + j] = D[Len(a) + j]
    <2>1. \A j \in 1..Len(b) : Len(a) + j \in 1..Len(c)
        BY <1>1
    <2>2. SUFFICES ASSUME NEW j \in 1..Len(b)
                   PROVE  C[Len(a) + j] = D[Len(a) + j]
        BY Zenon
    <2>3. C[Len(a) + j] = IF Len(a) + j \in U THEN <<c[Len(a) + j]>> ELSE <<>>
        BY <1>6, <2>1, Zenon
    <2>4. D[Len(a) + j] = IF j \in T THEN <<b[j]>> ELSE <<>>
        BY <1>5, <1>8, Zenon
    <2>5. c[Len(a) + j] = b[j] /\ (Len(a) + j \in U <=> j \in T)
        BY <1>1, <1>2, Zenon
    <2>6. QED
        BY <2>3, <2>4, <2>5, Zenon
<1>11. \A i \in 1..Len(c) : C[i] = D[i]
    <2>1. ASSUME NEW i \in 1..Len(c)
          PROVE  i \in 1..Len(a) \/ \E j \in 1..Len(b) : i = Len(a) + j
        <3>1. i \in 1..Len(a) \/ i - Len(a) \in 1..Len(b)
            BY <1>1
        <3>2. i = Len(a) + (i - Len(a))
            BY <1>1
        <3>3. QED
            BY <3>1, <3>2, Zenon
    <2>2. QED
        BY <1>9, <1>10, <2>1, Zenon
<1>12. C = D
    <2> DEFINE X == Seq(Char)
    <2>1. C \in Seq(X) /\ D \in Seq(X) /\ Len(C) = Len(D) /\ \A i \in 1..Len(C) : C[i] = D[i]
        BY <1>6, <1>8, <1>11, Zenon
    <2> HIDE DEF X
    <2>2. QED
        BY <2>1, Equal
<1>13. FlattenSeq(A \o B) = FlattenSeq(A) \o FlattenSeq(B)
    BY <1>4, <1>5, FlatConcat
<1>14. QED
    BY <1>7, <1>12, <1>13, Zenon DEF c, D, T

\* What is picked is no longer than what it is picked from.
LEMMA PickedLength ==
    ASSUME NEW t \in Seq(Char), NEW S
    PROVE  /\ Picked(t, S) \in Seq(Char) /\ Len(Picked(t, S)) <= Len(t)
           /\ S = {} => Picked(t, S) = <<>>
           /\ 1..Len(t) \subseteq S => Picked(t, S) = t
<1> DEFINE Q(u, V) == /\ Len(Picked(u, V)) <= Len(u)
                      /\ V = {} => Picked(u, V) = <<>>
                      /\ 1..Len(u) \subseteq V => Picked(u, V) = u
           P == {n \in Nat : \A u \in Seq(Char) : Len(u) = n => Q(u, S)}
<1>0. \A u \in Seq(Char) : Picked(u, S) \in Seq(Char)
    BY AllowedAll, BitsType, Zenon
<1>1. 0 \in P
    <2>1. ASSUME NEW u \in Seq(Char), Len(u) = 0
          PROVE  Q(u, S)
        <3>1. u = <<>> /\ Len(<<>>) <= Len(<<>>)
            BY <2>1, EmptySeq
        <3>2. QED
            BY <3>1, PickedNone, Zenon
    <2>2. QED
        BY <2>1
<1>2. ASSUME NEW n \in Nat, n \in P
      PROVE  n + 1 \in P
    <2>1. ASSUME NEW u \in Seq(Char), Len(u) = n + 1
          PROVE  Q(u, S)
        <3>1. PICK v \in Seq(Char), c \in Char : u = Append(v, c) /\ Len(v) = n
            BY <2>1, CutLast
        <3> DEFINE w == <<c>>
                   T == From(S, Len(v))
        <3>2. w \in Seq(Char) /\ u = v \o w
            BY <3>1, AppendIn
        <3>3. Picked(u, S) = Picked(v, S) \o Picked(w, T)
            <4>1. Picked(v \o w, S) = Picked(v, S) \o Picked(w, T)
                BY <3>2, PickedConcat, Zenon
            <4>2. QED
                BY <3>2, <4>1, Zenon
        <3>4. Picked(w, T) = IF 1 \in T THEN w ELSE <<>>
            BY PickedOne, Zenon
        <3>5. Q(v, S)
            BY <1>2, <3>1
        <3>6. (S = {} => 1 \notin T) /\ (1..Len(u) \subseteq S => 1 \in T /\ 1..Len(v) \subseteq S)
            BY <2>1, <3>1 DEF From
        <3> HIDE DEF w, T
        <3> DEFINE p == Picked(v, S)
        <3>7. p \in Seq(Char) /\ Len(p) <= n
            BY <1>0, <3>1, <3>5
        <3> HIDE DEF p
        <3>8. p \o <<>> = p /\ Len(p) \in Nat
            BY <3>7
        <3>9. Len(p \o w) = Len(p) + 1
            BY <3>7 DEF w
        <3>10. Len(Picked(u, S)) <= n + 1
            <4>1. CASE 1 \in T
                <5>1. Picked(u, S) = p \o w
                    BY <3>3, <3>4, <4>1, Zenon DEF p
                <5>2. QED
                    BY <3>7, <3>8, <3>9, <5>1
            <4>2. CASE 1 \notin T
                <5>1. Picked(u, S) = p
                    BY <3>3, <3>4, <3>8, <4>2, Zenon DEF p
                <5>2. QED
                    BY <3>7, <3>8, <5>1
            <4>3. QED
                BY <4>1, <4>2
        <3>11. S = {} => Picked(u, S) = <<>>
            <4>1. <<>> \o <<>> = <<>>
                OBVIOUS
            <4>2. QED
                BY <3>3, <3>4, <3>5, <3>6, <4>1, Zenon
        <3>12. 1..Len(u) \subseteq S => Picked(u, S) = u
            BY <3>2, <3>3, <3>4, <3>5, <3>6, Zenon
        <3>13. QED
            BY <2>1, <3>10, <3>11, <3>12, Zenon
    <2>2. QED
        BY <2>1
<1> HIDE DEF P
<1>3. \A n \in Nat : n \in P
    BY <1>1, <1>2, InductiveSet
<1>4. Len(t) \in Nat
    OBVIOUS
<1>5. Q(t, S)
    BY <1>3, <1>4 DEF P
<1>6. QED
    BY <1>0, <1>5, Zenon

-----------------------------------------------------------------------------
(***************************************************************************)
(* Embeds.                                                                 *)
(***************************************************************************)
LEMMA EmbedsIs ==
    ASSUME NEW t \in Seq(Char)
    PROVE  /\ \A S : Embeds(Picked(t, S), t)
           /\ \A s : Embeds(s, t) => s \in Seq(Char) /\ Len(s) <= Len(t) /\ Len(s) \in Nat /\ Len(t) \in Nat
           /\ Embeds(<<>>, t) /\ Embeds(t, t)
<1>1. DOMAIN t = 1..Len(t)
    OBVIOUS
<1>2. ASSUME NEW S
      PROVE  Embeds(Picked(t, S), t)
    <2> DEFINE U == S \cap (1..Len(t))
    <2>1. Picked(t, S) = Picked(t, U)
        <3>1. S \cap (1..Len(t)) = U \cap (1..Len(t))
            OBVIOUS
        <3> HIDE DEF U
        <3>2. QED
            BY <3>1, PickedSame, Zenon
    <2>2. U \in SUBSET DOMAIN t
        BY <1>1
    <2>3. QED
        BY <2>1, <2>2, Zenon DEF Embeds
<1>3. ASSUME NEW s, Embeds(s, t)
      PROVE  s \in Seq(Char) /\ Len(s) <= Len(t) /\ Len(s) \in Nat /\ Len(t) \in Nat
    <2>1. PICK S \in SUBSET DOMAIN t : s = Picked(t, S)
        BY <1>3, Zenon DEF Embeds
    <2>2. s \in Seq(Char) /\ Len(s) <= Len(t)
        BY <2>1, PickedLength, Zenon
    <2>3. QED
        BY <2>2
<1>4. Picked(t, {}) = <<>> /\ Picked(t, 1..Len(t)) = t
    BY PickedLength, Zenon
<1>5. QED
    BY <1>2, <1>3, <1>4, Zenon

\* Subsequences of the parts make one of the whole, ...
LEMMA EmbedsConcat ==
    ASSUME NEW a \in Seq(Char), NEW b \in Seq(Char), NEW s, NEW t, Embeds(s, a), Embeds(t, b)
    PROVE  Embeds(s \o t, a \o b)
<1>1. PICK S \in SUBSET DOMAIN a : s = Picked(a, S)
    BY Zenon DEF Embeds
<1>2. PICK T \in SUBSET DOMAIN b : t = Picked(b, T)
    BY Zenon DEF Embeds
<1>3. /\ DOMAIN a = 1..Len(a) /\ DOMAIN b = 1..Len(b) /\ Len(a) \in Nat /\ Len(b) \in Nat
      /\ a \o b \in Seq(Char)
    BY ConcatParts
<1> DEFINE U == S \cup {Len(a) + j : j \in T}
           V == From(U, Len(a))
<1>4. S \cap (1..Len(a)) = U \cap (1..Len(a))
    BY <1>3
<1>5. V \cap (1..Len(b)) = T \cap (1..Len(b))
    BY <1>3 DEF From
<1> HIDE DEF U, V
<1>6. s = Picked(a, U) /\ t = Picked(b, V)
    BY <1>1, <1>2, <1>4, <1>5, PickedSame, Zenon
<1>7. Picked(a \o b, U) = Picked(a, U) \o Picked(b, V)
    BY PickedConcat, Zenon DEF V
<1>8. QED
    BY <1>3, <1>6, <1>7, EmbedsIs, Zenon

\* ... and one of the whole is cut into subsequences of the parts.
LEMMA EmbedsCut ==
    ASSUME NEW a \in Seq(Char), NEW b \in Seq(Char), NEW s, Embeds(s, a \o b)
    PROVE  \E p, q : s = p \o q /\ Embeds(p, a) /\ Embeds(q, b)
<1>1. PICK U \in SUBSET DOMAIN (a \o b) : s = Picked(a \o b, U)
    BY Zenon DEF Embeds
<1>2. s = Picked(a, U) \o Picked(b, From(U, Len(a)))
    BY <1>1, PickedConcat, Zenon
<1>3. QED
    BY <1>2, EmbedsIs, Zenon

SplitAs(s, a, b) == \E p, q \in Seq(Char) : s = p \o q /\ Embeds(p, a) /\ Embeds(q, b)

LEMMA EmbedsSplit ==
    ASSUME NEW a \in Seq(Char), NEW b \in Seq(Char), NEW s, Embeds(s, a \o b)
    PROVE  SplitAs(s, a, b)
<1>1. PICK p, q : s = p \o q /\ Embeds(p, a) /\ Embeds(q, b)
    BY EmbedsCut, Zenon
<1>2. p \in Seq(Char) /\ q \in Seq(Char)
    BY <1>1, EmbedsIs, Zenon
<1>3. QED
    BY <1>1, <1>2, Zenon DEF SplitAs

LEMMA EmbedsMore ==
    ASSUME NEW a \in Seq(Char), NEW b, Begins(a, b), NEW s, Embeds(s, a)
    PROVE  Embeds(s, b) /\ b \in Seq(Char)
<1>1. PICK z \in Seq(Char) : b = a \o z
    BY DEF Begins
<1>2. Embeds(<<>>, z) /\ s \in Seq(Char)
    BY EmbedsIs, Zenon
<1>3. s \o <<>> = s
    BY <1>2
<1>4. a \o z \in Seq(Char)
    BY Regroup, Zenon
<1>5. QED
    BY <1>1, <1>2, <1>3, <1>4, EmbedsConcat, Zenon

-----------------------------------------------------------------------------
(***************************************************************************)
(* Shown.                                                                  *)
(***************************************************************************)
Plain == Char \ {Replacement}

Visible(text) == {i \in DOMAIN text : text[i] # Replacement}

LEMMA ShownType ==
    ASSUME NEW t \in Seq(Char)
    PROVE  Shown(t) \in Seq(Plain) /\ Shown(t) \in Seq(Char) /\ Embeds(Shown(t), t)
<1>1. Allowed(t, Visible(t), Plain)
    BY DEF Allowed, Visible, Plain
<1>2. Shown(t) = Picked(t, Visible(t))
    BY Zenon DEF Shown, Visible
<1>3. Shown(t) \in Seq(Plain)
    <2>1. Picked(t, Visible(t)) \in Seq(Plain)
        BY <1>1, BitsType, Zenon
    <2>2. QED
        BY <1>2, <2>1, Zenon
<1>4. Embeds(Shown(t), t)
    BY <1>2, EmbedsIs, Zenon
<1>5. Shown(t) \in Seq(Char)
    BY <1>4, EmbedsIs, Zenon
<1>6. QED
    BY <1>3, <1>4, <1>5

LEMMA ShownConcat ==
    ASSUME NEW a \in Seq(Char), NEW b \in Seq(Char)
    PROVE  Shown(a \o b) = Shown(a) \o Shown(b)
<1> DEFINE c == a \o b
           U == Visible(c)
           V == From(U, Len(a))
<1>1. /\ c \in Seq(Char) /\ Len(c) = Len(a) + Len(b) /\ Len(a) \in Nat /\ Len(b) \in Nat
      /\ \A i \in 1..Len(a) : c[i] = a[i]
      /\ \A j \in 1..Len(b) : c[Len(a) + j] = b[j]
    BY ConcatParts
<1> HIDE DEF c
<1>2. DOMAIN a = 1..Len(a) /\ DOMAIN b = 1..Len(b) /\ DOMAIN c = 1..Len(c)
    BY <1>1
<1>3. U \cap (1..Len(a)) = Visible(a) \cap (1..Len(a))
    BY <1>1, <1>2 DEF Visible
<1>4. V \cap (1..Len(b)) = Visible(b) \cap (1..Len(b))
    BY <1>1, <1>2 DEF Visible, From
<1> HIDE DEF U, V
<1>5. Picked(a, U) = Picked(a, Visible(a)) /\ Picked(b, V) = Picked(b, Visible(b))
    BY <1>3, <1>4, PickedSame, Zenon
<1>6. Picked(c, U) = Picked(a, U) \o Picked(b, V)
    BY PickedConcat, Zenon DEF V, c
<1>7. QED
    BY <1>5, <1>6, Zenon DEF Shown, Visible, U, c

LEMMA ShownNone == Shown(<<>>) = <<>>
BY PickedNone, Zenon DEF Shown

\* Without replacement characters, there is nothing to pick of one.
LEMMA EmbedsPlain ==
    ASSUME NEW s \in Seq(Plain), NEW u \in Seq(Char), Embeds(s, Append(u, Replacement))
    PROVE  Embeds(s, u)
<1> DEFINE r == <<Replacement>>
<1>1. r \in Seq(Char) /\ Append(u, Replacement) = u \o r /\ Replacement \in Char
    BY StopParts, AppendIn
<1>2. PICK p, q : s = p \o q /\ Embeds(p, u) /\ Embeds(q, r)
    <2>1. Embeds(s, u \o r)
        BY <1>1, Zenon
    <2> HIDE DEF r
    <2>2. QED
        BY <1>1, <2>1, EmbedsCut, Zenon
<1>3. PICK S : q = Picked(r, S)
    BY <1>2, Zenon DEF Embeds
<1>4. q = <<>> \/ q = r
    BY <1>1, <1>3, PickedOne, Zenon
<1>5. p \in Seq(Char) /\ Len(p) \in Nat
    BY <1>2, EmbedsIs, Zenon
<1>6. q # r
    <2>1. SUFFICES ASSUME q = r PROVE FALSE
        BY Zenon
    <2>2. s = Append(p, Replacement)
        BY <1>1, <1>2, <1>5, <2>1, AppendIn, Zenon
    <2>3. Len(s) = Len(p) + 1 /\ s[Len(p) + 1] = Replacement
        BY <1>1, <1>5, <2>2, AppendParts, Zenon
    <2>4. s[Len(p) + 1] \in Plain
        BY <1>5, <2>3
    <2>5. QED
        BY <2>3, <2>4 DEF Plain
<1>7. p \o <<>> = p
    BY <1>5
<1>8. QED
    BY <1>2, <1>4, <1>6, <1>7, Zenon

-----------------------------------------------------------------------------
(***************************************************************************)
(* Nothing is invented.                                                    *)
(***************************************************************************)
LEMMA EmbedsToken ==
    ASSUME NEW x \in Seq(Token), NEW t \in Token, NEW s \in Seq(Plain), Embeds(s, Text(x))
    PROVE  Embeds(s, Text(Append(x, t)))
<1> DEFINE a == Text(x)
           c == Text(Append(x, t))
<1>1. a \in Seq(Char) /\ Lossy(Bytes[t]) \in Seq(Char)
    BY TextIs, CodeMore, LossyType
<1>2. CASE c = a \o Lossy(Bytes[t])
    <2>1. Begins(a, c)
        BY <1>1, <1>2, Zenon DEF Begins
    <2>2. QED
        BY <1>1, <2>1, EmbedsMore, Zenon
<1>3. ASSUME NEW u \in Seq(Char), a = Append(u, Replacement), Begins(u, c)
      PROVE  Embeds(s, c)
    <2>1. Embeds(s, Append(u, Replacement))
        BY <1>3
    <2>2. Embeds(s, u)
        BY <2>1, EmbedsPlain, Zenon
    <2>3. QED
        BY <1>3, <2>2, EmbedsMore, Zenon
<1>4. QED
    BY <1>2, <1>3, TextMore, Zenon

\* What begins a text, but for a replacement character at its end.
LEMMA BeginsLast ==
    ASSUME NEW u \in Seq(Char), NEW v \in Seq(Char), NEW r \in Char, Begins(u, Append(v, r))
    PROVE  Begins(u, v) \/ u = Append(v, r)
<1> DEFINE w == Append(v, r)
<1>1. PICK z \in Seq(Char) : w = u \o z
    BY DEF Begins
<1>2. CASE z = <<>>
    <2>1. u \o <<>> = u
        OBVIOUS
    <2>2. QED
        BY <1>1, <1>2, <2>1, Zenon
<1>3. CASE z # <<>>
    <2>1. Len(z) \in Nat /\ Len(z) # 0
        BY <1>3, EmptySeq
    <2>2. PICK n \in Nat : Len(z) = n + 1
        <3>1. Len(z) - 1 \in Nat /\ Len(z) = (Len(z) - 1) + 1
            BY <2>1
        <3>2. QED
            BY <3>1, Zenon
    <2>3. PICK y \in Seq(Char), e \in Char : z = Append(y, e) /\ Len(y) = n
        BY <2>2, CutLast
    <2>4. Append(v, r) = Append(u \o y, e)
        BY <1>1, <2>3, AppendIn, Zenon
    <2> DEFINE q == u \o y
    <2>5. q \in Seq(Char)
        BY Regroup, Zenon
    <2> HIDE DEF q
    <2>6. v = q
        <3>1. /\ Len(Append(v, r)) = Len(v) + 1 /\ Len(Append(q, e)) = Len(q) + 1
              /\ Len(v) \in Nat /\ Len(q) \in Nat
              /\ \A k \in 1..Len(v) : Append(v, r)[k] = v[k]
              /\ \A k \in 1..Len(q) : Append(q, e)[k] = q[k]
            BY <2>5, AppendParts
        <3>2. Append(v, r) = Append(q, e)
            BY <2>4, Zenon DEF q
        <3>3. Len(v) = Len(q)
            <4>1. Len(v) + 1 = Len(q) + 1
                BY <3>1, <3>2, Zenon
            <4>2. QED
                BY <3>1, <4>1
        <3>4. \A k \in 1..Len(v) : v[k] = q[k]
            BY <3>1, <3>2, <3>3, Zenon
        <3>5. QED
            BY <2>5, <3>3, <3>4, Equal
    <2>7. QED
        BY <2>6, Zenon DEF Begins, q
<1>4. QED
    BY <1>2, <1>3

\* s can be picked of a beginning of the text that has no stop string.
Said(s, text) == \E u \in Seq(Char) : Begins(u, text) /\ Free(u) /\ Embeds(s, u)

LEMMA SaidToken ==
    ASSUME NEW x \in Seq(Token), NEW t \in Token, NEW s \in Seq(Plain), Said(s, Text(x))
    PROVE  Said(s, Text(Append(x, t)))
<1> DEFINE a == Text(x)
           b == Lossy(Bytes[t])
           c == Text(Append(x, t))
<1>1. PICK u \in Seq(Char) : Begins(u, a) /\ Free(u) /\ Embeds(s, u)
    BY Zenon DEF Said
<1>2. a \in Seq(Char) /\ b \in Seq(Char) /\ Replacement \in Char
    BY TextIs, CodeMore, LossyType, StopParts
<1>3. CASE c = a \o b
    <2> HIDE DEF a, b, c
    <2>1. PICK z \in Seq(Char) : a = u \o z
        BY <1>1, Zenon DEF Begins
    <2>2. Begins(u, u)
        BY BeginsMore, Zenon
    <2>3. z \o b \in Seq(Char) /\ (u \o z) \o b = u \o (z \o b)
        BY <1>2, Regroup, Zenon
    <2>4. Begins(u, c)
        BY <1>3, <2>1, <2>3, Zenon DEF Begins
    <2>5. QED
        BY <1>1, <2>4, Zenon DEF Said, c
<1>4. ASSUME NEW v \in Seq(Char), a = Append(v, Replacement), Begins(v, c)
      PROVE  Said(s, c)
    <2> HIDE DEF a, c
    <2>1. Begins(u, Append(v, Replacement))
        BY <1>1, <1>4, Zenon
    <2>2. CASE Begins(u, v)
        <3>1. PICK y \in Seq(Char) : v = u \o y
            BY <2>2, Zenon DEF Begins
        <3>2. PICK z \in Seq(Char) : c = v \o z
            BY <1>4, Zenon DEF Begins
        <3>3. Assoc(u, y, z)
            BY Assocs, Zenon
        <3>4. y \o z \in Seq(Char)
            BY Regroup, Zenon
        <3>5. Begins(u, c)
            BY <3>1, <3>2, <3>3, <3>4, Zenon DEF Begins, Assoc
        <3>6. QED
            BY <1>1, <3>5, Zenon DEF Said
    <2>3. CASE u = Append(v, Replacement)
        <3>1. Embeds(s, v)
            BY <1>1, <2>3, EmbedsPlain, Zenon
        <3>2. Append(v, Replacement) = v \o <<Replacement>> /\ <<Replacement>> \in Seq(Char)
            BY <1>2, AppendIn
        <3>3. Free(v)
            BY <1>1, <2>3, <3>2, FreeParts, Zenon
        <3>4. QED
            BY <1>4, <3>1, <3>3, Zenon DEF Said
    <2>4. QED
        BY <1>2, <2>1, <2>2, <2>3, BeginsLast, Zenon
<1>5. QED
    BY <1>3, <1>4, TextMore, Zenon

\* Then all of it but a part of a stop string can be picked of what is kept.
LEMMA SaidIsKept ==
    ASSUME NEW text \in Seq(Char), NEW s, Said(s, text)
    PROVE  \/ Embeds(s, StripStop(text).kept)
           \/ \E stop \in Stops, p, r \in Seq(Char) :
                  /\ s = p \o r /\ Embeds(p, StripStop(text).kept)
                  /\ Len(r) < Len(stop) /\ Embeds(r, stop)
<1> DEFINE kept == StripStop(text).kept
<1>1. PICK u \in Seq(Char) : Begins(u, text) /\ Free(u) /\ Embeds(s, u)
    BY Zenon DEF Said
<1>2. CASE AllStops(text) = {}
    <2>1. Embeds(s, text)
        BY <1>1, EmbedsMore, Zenon
    <2>2. QED
        BY <1>2, <2>1, Kept, Zenon
<1>3. CASE AllStops(text) # {}
    <2> DEFINE m == Min(AllStops(text))
    <2>1. m \in AllStops(text) /\ kept = SubSeq(text, 1, m - 1)
        BY <1>3, Kept, Zenon
    <2>2. PICK stop \in Stops : m \in DOMAIN text /\ OccursAt(text, stop, m)
        BY <2>1, StopsAre, Zenon
    <2> HIDE DEF m, kept
    <2>3. PICK z \in Seq(Char) : text = u \o z
        BY <1>1, Zenon DEF Begins
    <2>4. /\ stop \in Seq(Char) /\ Len(stop) \in Nat \ {0} /\ m \in 1..Len(text)
          /\ Len(u) \in Nat /\ Len(text) \in Nat /\ DOMAIN u = 1..Len(u)
        BY <2>2, StopParts
    <2>5. There(text, stop, m)
        BY <2>2, <2>4, OccursIs
    <2>6. /\ \A n \in 0..Len(u) : SubSeq(text, 1, n) = SubSeq(u, 1, n)
          /\ SubSeq(u, 1, Len(u)) = u /\ Len(u) <= Len(text)
          /\ \A i \in 1..Len(u) : text[i] = u[i]
        <3>1. /\ \A n \in 0..Len(u) : SubSeq(u \o z, 1, n) = SubSeq(u, 1, n)
              /\ SubSeq(u, 1, Len(u)) = u
            BY Beginnings
        <3>2. Len(u \o z) = Len(u) + Len(z) /\ Len(z) \in Nat /\ \A i \in 1..Len(u) : (u \o z)[i] = u[i]
            BY ConcatParts
        <3>3. Len(text) = Len(u) + Len(z) /\ Len(z) \in Nat
            BY <2>3, <3>2, Zenon
        <3>4. Len(u) <= Len(text)
            BY <2>4, <3>3
        <3>5. QED
            BY <2>3, <3>1, <3>2, <3>4, Zenon
    <2>7. Len(u) < m + Len(stop) - 1
        <3>1. SUFFICES ASSUME m + Len(stop) - 1 <= Len(u) PROVE FALSE
            BY <2>4
        <3>2. m + Len(stop) <= Len(u) + 1 /\ m \in 1..Len(u)
            BY <2>4, <3>1
        <3>3. \A i \in 1..Len(stop) : m + i - 1 \in 1..Len(u)
            BY <2>4, <3>1
        <3>4. \A i \in 1..Len(stop) : u[m + i - 1] = stop[i]
            BY <2>5, <2>6, <3>3, Zenon DEF There
        <3>5. There(u, stop, m)
            BY <3>2, <3>4, Zenon DEF There
        <3>6. OccursAt(u, stop, m)
            BY <2>4, <3>5, OccursIs
        <3>7. QED
            BY <1>1, <2>4, <3>2, <3>6, FreeIs, Zenon
    <2>8. CASE Len(u) < m
        <3>1. Len(u) \in 0..(m - 1) /\ m - 1 \in 0..Len(text)
            BY <2>4, <2>8
        <3> DEFINE k == m - 1
                   w == SubSeq(text, 1, k)
        <3>2. Begins(u, w) /\ w \in Seq(Char)
            <4>1. w \in Seq(Char) /\ Len(w) = k /\ \A i \in 1..k : w[i] = text[i]
                BY <3>1, Cut
            <4> HIDE DEF w
            <4>2. /\ SubSeq(w, 1, Len(u)) \in Seq(Char) /\ Len(SubSeq(w, 1, Len(u))) = Len(u)
                  /\ SubSeq(w, Len(u) + 1, Len(w)) \in Seq(Char)
                  /\ \A i \in 1..Len(u) : SubSeq(w, 1, Len(u))[i] = w[i]
                  /\ w = SubSeq(w, 1, Len(u)) \o SubSeq(w, Len(u) + 1, Len(w))
                <5>1. Len(u) \in 0..Len(w)
                    BY <3>1, <4>1
                <5>2. w \in Seq(Char)
                    BY <4>1
                <5>3. QED
                    BY <5>1, <5>2, Cut, Zenon
            <4> DEFINE h == SubSeq(w, 1, Len(u))
            <4>3. \A i \in 1..Len(u) : i \in 1..k
                BY <3>1
            <4>4. \A i \in 1..Len(u) : h[i] = u[i]
                BY <2>6, <4>1, <4>2, <4>3, Zenon
            <4> HIDE DEF h
            <4>5. h = u
                BY <4>2, <4>4, Equal DEF h
            <4>6. QED
                BY <4>1, <4>2, <4>5, Zenon DEF h, Begins
        <3>3. Embeds(s, w)
            BY <1>1, <3>2, EmbedsMore, Zenon
        <3>4. QED
            BY <2>1, <3>3, Zenon DEF kept
    <2>9. CASE ~(Len(u) < m)
        <3> DEFINE k == m - 1
                   h == SubSeq(u, 1, k)
                   q == SubSeq(u, k + 1, Len(u))
                   n == Len(u) - k
        <3>1. k \in 0..Len(u) /\ n \in Nat /\ n < Len(stop)
            BY <2>4, <2>7, <2>9
        <3>2. /\ h \in Seq(Char) /\ q \in Seq(Char) /\ Len(q) = n /\ u = h \o q
              /\ \A i \in 1..n : q[i] = u[k + i]
            BY <3>1, Cut
        <3>3. h = kept
            BY <2>1, <2>6, <3>1, Zenon
        <3>4. \A i \in 1..n : q[i] = stop[i]
            <4>1. SUFFICES ASSUME NEW i \in 1..n PROVE q[i] = stop[i]
                BY Zenon
            <4>2. k + i \in 1..Len(u) /\ i \in 1..Len(stop) /\ m + i - 1 = k + i
                BY <2>4, <3>1
            <4>3. text[m + i - 1] = stop[i]
                BY <2>5, <4>2, Zenon DEF There
            <4>4. q[i] = u[k + i] /\ text[k + i] = u[k + i]
                BY <2>6, <3>2, <4>1, <4>2, Zenon
            <4>5. QED
                BY <4>2, <4>3, <4>4
        <3> HIDE DEF h, q
        <3>5. Begins(q, stop)
            <4> DEFINE g == SubSeq(stop, 1, n)
                       f == SubSeq(stop, n + 1, Len(stop))
            <4>1. n \in 0..Len(stop)
                BY <2>4, <3>1
            <4> HIDE DEF n
            <4>2. /\ g \in Seq(Char) /\ f \in Seq(Char) /\ Len(g) = n /\ stop = g \o f
                  /\ \A i \in 1..n : g[i] = stop[i]
                BY <2>4, <4>1, Cut
            <4> HIDE DEF g, f
            <4>3. g = q
                BY <3>2, <3>4, <4>2, Equal
            <4>4. QED
                BY <4>2, <4>3, Zenon DEF Begins
        <3>6. PICK p \in Seq(Char), r \in Seq(Char) : s = p \o r /\ Embeds(p, h) /\ Embeds(r, q)
            <4>1. Embeds(s, h \o q)
                BY <1>1, <3>2, Zenon
            <4>2. SplitAs(s, h, q)
                BY <3>2, <4>1, EmbedsSplit, Zenon
            <4>3. QED
                BY <4>2, Zenon DEF SplitAs
        <3>7. p \in Seq(Char) /\ r \in Seq(Char) /\ Len(r) <= Len(q) /\ Len(r) \in Nat
            BY <3>2, <3>6, EmbedsIs, Zenon
        <3>8. Embeds(r, stop)
            BY <3>2, <3>5, <3>6, EmbedsMore, Zenon
        <3>9. Len(r) < Len(stop)
            BY <2>4, <3>1, <3>2, <3>7
        <3>10. QED
            BY <3>3, <3>6, <3>7, <3>8, <3>9, Zenon DEF kept
    <2>10. QED
        BY <2>8, <2>9
<1>4. QED
    BY <1>2, <1>3

\* The invariant of NothingInvented.
Saying ==
    /\ Said(Shown(streamed), Text(tokens))
    /\ ~decoder.finished => Embeds(Shown(streamed), Text(tokens))

KInv == IInv /\ Saying

LEMMA SayingStarts == Init => KInv
<1> SUFFICES ASSUME Init PROVE KInv
    OBVIOUS
<1>1. tokens = <<>> /\ streamed = <<>>
    BY DEF Init
<1>2. Text(tokens) = <<>> /\ Shown(streamed) = <<>>
    BY <1>1, TextIs, ShownNone, Zenon
<1>3. Embeds(<<>>, <<>>) /\ Begins(<<>>, <<>>) /\ Free(<<>>)
    BY NoText, EmbedsIs, BeginsMore, FreeNone, Zenon
<1>4. Saying
    BY <1>2, <1>3, NoText, Zenon DEF Saying, Said
<1>5. QED
    BY <1>4, Starts, Zenon DEF KInv

LEMMA SayingGenerate ==
    ASSUME KInv, NEW t \in Token, Generate(t)
    PROVE  /\ Said(Shown(streamed'), Text(tokens'))
           /\ ~decoder'.finished => Embeds(Shown(streamed'), Text(tokens'))
<1> DEFINE p == Push(decoder, t)
           a == Text(tokens)
           c == Text(Append(tokens, t))
           s == Shown(streamed)
           kept == StripStop(c).kept
<1>1. tokens' = Append(tokens, t) /\ decoder' = p.decoder /\ streamed' = streamed \o p.delta
    BY DEF Generate
<1>2. tokens \in Seq(Token) /\ streamed \in Seq(Char) /\ Append(tokens, t) \in Seq(Token)
    <2>1. tokens \in Seq(Token) /\ streamed \in Seq(Char)
        BY Zenon DEF KInv, IInv, TypeOK
    <2>2. QED
        BY <2>1, AppendParts
<1>3. a \in Seq(Char) /\ c \in Seq(Char) /\ s \in Seq(Plain)
    BY <1>2, TextIs, ShownType, Zenon
<1>4. /\ kept \in Seq(Char) /\ Free(kept) /\ Begins(kept, c) /\ Begins(kept, kept)
      /\ StripStop(c).stopped = (AllStops(c) # {}) /\ (AllStops(c) = {} => kept = c)
    BY <1>3, Kept, BeginsMore, Zenon
<1>5. /\ Said(s, a) /\ Said(s, c)
      /\ ~decoder.finished => Embeds(s, a) /\ Embeds(s, c)
    BY <1>2, <1>3, SaidToken, EmbedsToken, Zenon DEF KInv, Saying
<1>6. /\ decoder.finished => p.delta = <<>> /\ p.decoder.finished = decoder.finished
      /\ ~decoder.finished => p.delta = Delta(a, kept) /\ p.decoder.finished = (AllStops(c) # {})
    <2>1. CASE decoder.finished
        <3>1. p.delta = <<>> /\ p.decoder = decoder
            BY <2>1, PushParts DEF p
        <3>2. QED
            BY <2>1, <3>1
    <2>2. CASE ~decoder.finished
        <3> DEFINE cut0 == StripStop(Text(Append(decoder.ids, t)))
        <3>1. p.delta = Delta(decoder.prev, cut0.kept) /\ p.decoder.finished = cut0.stopped
            BY <2>2, PushParts DEF p
        <3>2. decoder.ids = tokens /\ decoder.prev = a
            BY <2>2, Zenon DEF KInv, IInv, Decodes
        <3>3. p.delta = Delta(a, kept) /\ p.decoder.finished = StripStop(c).stopped
            BY <3>1, <3>2, Zenon
        <3>4. QED
            BY <1>4, <2>2, <3>3, Zenon
    <2>3. QED
        BY <2>1, <2>2
<1>7. c = Text(tokens')
    BY <1>1, Zenon
<1> HIDE DEF p, a, c, s, kept
<1>8. ASSUME p.delta = <<>>, ~decoder'.finished => ~decoder.finished
      PROVE  Said(Shown(streamed'), c) /\ (~decoder'.finished => Embeds(Shown(streamed'), c))
    <2>1. streamed \o <<>> = streamed
        BY <1>2
    <2>2. Shown(streamed') = s
        BY <1>1, <1>8, <2>1, Zenon DEF s
    <2>3. QED
        BY <1>5, <1>8, <2>2, Zenon
<1>9. CASE decoder.finished
    BY <1>1, <1>6, <1>7, <1>8, <1>9, Zenon
<1>10. CASE ~decoder.finished /\ ~IsPrefix(a, kept)
    <2>1. p.delta = <<>>
        BY <1>6, <1>10, Zenon DEF Delta
    <2>2. QED
        BY <1>7, <1>8, <1>10, <2>1, Zenon
<1>11. CASE ~decoder.finished /\ IsPrefix(a, kept)
    <2> DEFINE d == p.delta
    <2>1. d \in Seq(Char) /\ kept = a \o d
        <3>1. d = SubSeq(kept, Len(a) + 1, Len(kept))
            BY <1>6, <1>11, Zenon DEF Delta
        <3>2. QED
            BY <1>3, <1>4, <1>11, <3>1, PrefixIs, Zenon
    <2>2. streamed' = streamed \o d
        BY <1>1
    <2> HIDE DEF d
    <2>3. Shown(streamed') = s \o Shown(d)
        BY <1>2, <2>1, <2>2, ShownConcat, Zenon DEF s
    <2>4. Embeds(s, a) /\ Embeds(Shown(d), d)
        BY <1>5, <1>11, <2>1, ShownType, Zenon
    <2>5. Embeds(Shown(streamed'), kept)
        <3>1. Embeds(s \o Shown(d), a \o d)
            BY <1>3, <2>1, <2>4, EmbedsConcat, Zenon
        <3>2. QED
            BY <2>1, <2>3, <3>1, Zenon
    <2>6. Said(Shown(streamed'), c)
        BY <1>4, <2>5, Zenon DEF Said
    <2>7. ~decoder'.finished => kept = c
        BY <1>1, <1>4, <1>6, <1>11, Zenon
    <2>8. QED
        BY <1>7, <2>5, <2>6, <2>7, Zenon
<1>12. QED
    BY <1>9, <1>10, <1>11, Zenon

LEMMA SayingKeeps == KInv /\ [Next]_vars => KInv'
<1> SUFFICES ASSUME KInv, [Next]_vars PROVE KInv'
    OBVIOUS
<1>1. IInv'
    BY Keeps, Zenon DEF KInv
<1> SUFFICES Saying'
    BY <1>1, Zenon DEF KInv
<1>2. ASSUME /\ Said(Shown(streamed'), Text(tokens'))
             /\ ~decoder'.finished => Embeds(Shown(streamed'), Text(tokens'))
      PROVE  Saying'
    BY <1>2, Zenon DEF Saying, Said, Embeds, Picked, Shown, Text, Begins, Free, AllStops, StopsIn
<1>3. ASSUME UNCHANGED <<tokens, decoder, streamed>>
      PROVE  Saying'
    BY <1>2, <1>3 DEF KInv, Saying
<1>4. ASSUME NEW t \in Token, Generate(t) PROVE Saying'
    BY <1>2, <1>4, SayingGenerate, Zenon
<1>5. CASE \/ Finish \/ TimeOut \/ GenerationFails \/ Abort \/ BodyEnds \/ Breaks \/ UNCHANGED vars
           \/ \E k \in 1..Len(body) : Receive(k)
    <2>1. UNCHANGED <<tokens, decoder, streamed>>
        BY <1>5 DEF Finish, TimeOut, GenerationFails, Close, Abort, BodyEnds, Breaks, Receive,
                    daemonVars, vars
    <2>2. QED
        BY <1>3, <2>1
<1>6. QED
    BY <1>4, <1>5, Zenon DEF Next, Daemon, App

\* For any vocabulary: whatever StreamDecoder::push makes of characters that
\* come in halves, and of a stop string that shows up late, what it has sent is,
\* but for replacement characters and a part of a stop string at the end,
\* characters of the blocking answer in their order.
THEOREM SaidOnce == Spec => []NothingInvented
<1>1. ASSUME KInv
      PROVE  NothingInvented
    <2> DEFINE s == Shown(streamed)
               text == Text(tokens)
               kept == Blocking.kept
    <2>1. streamed \in Seq(Char) /\ text \in Seq(Char) /\ Said(s, text)
        BY <1>1, TextIs, Zenon DEF KInv, Saying, IInv, TypeOK
    <2>2. kept = StripStop(text).kept
        BY Zenon DEF Blocking
    <2>3. s \in Seq(Char)
        BY <2>1, ShownType, Zenon
    <2> HIDE DEF s, text, kept
    <2>4. SUFFICES \E n \in 0..Len(s) :
                       /\ \/ SubSeq(s, n + 1, Len(s)) = <<>>
                          \/ \E stop \in Stops : /\ Len(SubSeq(s, n + 1, Len(s))) < Len(stop)
                                                 /\ Embeds(SubSeq(s, n + 1, Len(s)), stop)
                       /\ Embeds(SubSeq(s, 1, n), kept)
        BY Zenon DEF NothingInvented, s, kept
    <2>5. CASE Embeds(s, kept)
        <3>1. Len(s) \in 0..Len(s) /\ SubSeq(s, Len(s) + 1, Len(s)) = <<>>
            BY <2>3
        <3>2. SubSeq(s, 1, Len(s)) = s
            BY <2>3, Beginnings
        <3>3. QED
            BY <2>5, <3>1, <3>2, Zenon
    <2>6. ASSUME NEW stop \in Stops, NEW p \in Seq(Char), NEW r \in Seq(Char),
                 s = p \o r, Embeds(p, kept), Len(r) < Len(stop), Embeds(r, stop)
          PROVE  \E n \in 0..Len(s) :
                     /\ \/ SubSeq(s, n + 1, Len(s)) = <<>>
                        \/ \E q \in Stops : /\ Len(SubSeq(s, n + 1, Len(s))) < Len(q)
                                            /\ Embeds(SubSeq(s, n + 1, Len(s)), q)
                     /\ Embeds(SubSeq(s, 1, n), kept)
        <3> DEFINE e == p \o r
                   g == SubSeq(e, 1, Len(p))
                   h == SubSeq(e, Len(p) + 1, Len(e))
        <3>1. /\ e \in Seq(Char) /\ Len(e) = Len(p) + Len(r) /\ Len(p) \in Nat /\ Len(r) \in Nat
              /\ \A k \in 1..Len(p) : e[k] = p[k]
              /\ \A k \in 1..Len(r) : e[Len(p) + k] = r[k]
            BY ConcatParts
        <3> HIDE DEF e
        <3>2. Len(p) \in 0..Len(e)
            BY <3>1
        <3>3. /\ g \in Seq(Char) /\ Len(g) = Len(p) /\ \A k \in 1..Len(p) : g[k] = e[k]
              /\ h \in Seq(Char) /\ Len(h) = Len(e) - Len(p)
              /\ \A k \in 1..(Len(e) - Len(p)) : h[k] = e[Len(p) + k]
            BY <3>1, <3>2, Cut, Zenon
        <3>4. Len(e) - Len(p) = Len(r)
            BY <3>1
        <3> HIDE DEF g, h
        <3>5. Len(h) = Len(r) /\ \A k \in 1..Len(r) : h[k] = r[k]
            BY <3>1, <3>3, <3>4, Zenon
        <3>6. g = p
            <4>1. \A k \in 1..Len(g) : g[k] = p[k]
                BY <3>1, <3>3, Zenon
            <4>2. QED
                BY <3>3, <4>1, Equal
        <3>7. h = r
            BY <3>3, <3>5, Equal
        <3>8. s = e
            BY <2>6, Zenon DEF e
        <3>9. QED
            BY <2>6, <3>2, <3>6, <3>7, <3>8, Zenon DEF g, h
    <2>7. QED
        BY <2>1, <2>2, <2>5, <2>6, SaidIsKept, Zenon
<1>2. Init => KInv
    BY SayingStarts
<1>3. KInv /\ [Next]_vars => KInv'
    BY SayingKeeps
<1>4. QED
    BY <1>1, <1>2, <1>3, PTL DEF Spec

=============================================================================
