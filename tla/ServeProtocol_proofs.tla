------------------------ MODULE ServeProtocol_proofs -------------------------
(***************************************************************************)
(* The serve loop answers serially, for any vocabulary, any deterministic  *)
(* network, any requests and any context size: proofs about ServeProtocol. *)
(***************************************************************************)
EXTENDS ServeProtocol, SequenceTheorems, InductionLemmas, TLAPS

USE EngineAssumption, ClientAssumption

\* The argmax is one token: a network that never ties.
Deterministic == \A ctx \in Seq(Token) : \E t \in Token : Decode(ctx) = {t}

-----------------------------------------------------------------------------
(***************************************************************************)
(* The reference: FoldLeft over a sequence that grows.                     *)
(***************************************************************************)
Fresh == [ctx |-> <<>>, lines |-> <<>>]
Served(s) == FoldLeft(Reply, Fresh, s)

\* g is the function FoldLeft is made of, on the first n requests of s.
Folds(g, s, n) ==
    g = [S \in SUBSET (1..n) |->
            IF S = {} THEN Fresh ELSE Reply(g[S \ {Max(S)}], s[Max(S)])]

\* There is such a function.
LEMMA FoldExists ==
    ASSUME NEW s, NEW n \in Nat
    PROVE  \E g : Folds(g, s, n)
<1> DEFINE P == {k \in Nat : \E g : Folds(g, s, k)}
<1>1. 0 \in P
    <2>1. 1..0 = {}
        OBVIOUS
    <2>2. Folds([S \in SUBSET (1..0) |-> Fresh], s, 0)
        BY <2>1 DEF Folds
    <2>3. QED
        BY <2>2
<1>2. ASSUME NEW k \in Nat, k \in P
      PROVE  k + 1 \in P
    <2>1. PICK g : Folds(g, s, k)
        BY <1>2
    <2> DEFINE Next1(S) == IF k + 1 \in S THEN Reply(g[S \ {k + 1}], s[k + 1]) ELSE g[S]
               h == [S \in SUBSET (1..(k + 1)) |-> Next1(S)]
    <2>2. ASSUME NEW S \in SUBSET (1..(k + 1))
          PROVE  h[S] = IF S = {} THEN Fresh ELSE Reply(h[S \ {Max(S)}], s[Max(S)])
        <3>1. CASE k + 1 \in S
            <4>1. Max(S) = k + 1 /\ S # {}
                BY <3>1, MaxOfTop
            <4>2. /\ S \ {k + 1} \in SUBSET (1..(k + 1)) /\ k + 1 \notin S \ {k + 1}
                OBVIOUS
            <4>3. h[S \ {k + 1}] = g[S \ {k + 1}]
                BY <4>2
            <4>4. h[S] = Reply(g[S \ {k + 1}], s[k + 1])
                BY <3>1
            <4>5. QED
                BY <4>1, <4>3, <4>4, Zenon
        <3>2. CASE k + 1 \notin S
            <4>1. S \in SUBSET (1..k)
                BY <3>2
            <4>2. h[S] = g[S]
                BY <3>2
            <4>3. g[S] = IF S = {} THEN Fresh ELSE Reply(g[S \ {Max(S)}], s[Max(S)])
                BY <2>1, <4>1, Zenon DEF Folds
            <4>4. S # {} => h[S \ {Max(S)}] = g[S \ {Max(S)}]
                BY <3>2
            <4>5. QED
                BY <4>2, <4>3, <4>4, Zenon
        <3>3. QED
            BY <3>1, <3>2
    <2>3. h = [S \in SUBSET (1..(k + 1)) |->
                  IF S = {} THEN Fresh ELSE Reply(h[S \ {Max(S)}], s[Max(S)])]
        BY <2>2, Zenon
    <2> HIDE DEF h
    <2>4. Folds(h, s, k + 1)
        BY <2>3, Zenon DEF Folds
    <2>5. k + 1 \in Nat
        OBVIOUS
    <2>6. QED
        BY <2>4, <2>5, Zenon
<1> HIDE DEF P
<1>3. n \in P
    BY <1>1, <1>2, InductiveSet
<1>4. QED
    BY <1>3 DEF P

\* It depends on the requests alone, not on how many follow them.
LEMMA FoldAgrees ==
    ASSUME NEW s, NEW t, NEW n \in Nat, NEW m \in Nat, n <= m,
           \A i \in 1..n : s[i] = t[i], NEW g, NEW h, Folds(g, s, n), Folds(h, t, m)
    PROVE  \A S \in SUBSET (1..n) : g[S] = h[S]
<1> DEFINE P == {k \in Nat : k <= n => \A S \in SUBSET (1..k) : g[S] = h[S]}
<1>0. /\ \A S \in SUBSET (1..n) :
            g[S] = IF S = {} THEN Fresh ELSE Reply(g[S \ {Max(S)}], s[Max(S)])
      /\ \A S \in SUBSET (1..m) :
            h[S] = IF S = {} THEN Fresh ELSE Reply(h[S \ {Max(S)}], t[Max(S)])
    BY Zenon DEF Folds
<1>1. 0 \in P
    <2>1. \A S \in SUBSET (1..0) : S = {}
        OBVIOUS
    <2>2. {} \in SUBSET (1..n) /\ {} \in SUBSET (1..m)
        OBVIOUS
    <2>3. g[{}] = h[{}]
        BY <1>0, <2>2, Zenon
    <2>4. QED
        BY <2>1, <2>3
<1>2. ASSUME NEW k \in Nat, k \in P
      PROVE  k + 1 \in P
    <2>1. SUFFICES ASSUME k + 1 <= n, NEW S \in SUBSET (1..(k + 1))
                   PROVE  g[S] = h[S]
        OBVIOUS
    <2>2. \A T \in SUBSET (1..k) : g[T] = h[T]
        BY <1>2, <2>1
    <2>3. CASE k + 1 \in S
        <3>1. Max(S) = k + 1 /\ S # {}
            BY <2>3, MaxOfTop
        <3>2. S \in SUBSET (1..n) /\ S \in SUBSET (1..m) /\ k + 1 \in 1..n
            BY <2>1
        <3>3. S \ {k + 1} \in SUBSET (1..k)
            OBVIOUS
        <3>4. g[S] = Reply(g[S \ {k + 1}], s[k + 1])
            BY <1>0, <3>1, <3>2, Zenon
        <3>5. h[S] = Reply(h[S \ {k + 1}], t[k + 1])
            BY <1>0, <3>1, <3>2, Zenon
        <3>6. QED
            BY <2>2, <3>2, <3>3, <3>4, <3>5, Zenon
    <2>4. CASE k + 1 \notin S
        <3>1. S \in SUBSET (1..k)
            BY <2>4
        <3>2. QED
            BY <2>2, <3>1
    <2>5. QED
        BY <2>3, <2>4
<1> HIDE DEF P
<1>3. n \in P
    BY <1>1, <1>2, InductiveSet
<1>4. QED
    BY <1>3 DEF P

\* One request more is one reply more.
LEMMA ServedMore ==
    ASSUME NEW E, NEW s \in Seq(E), NEW r \in E
    PROVE  Served(Append(s, r)) = Reply(Served(s), r)
<1> DEFINE t == Append(s, r)
           n == Len(s)
           F(q) == CHOOSE iter : iter = [S \in SUBSET (DOMAIN q) |->
                        IF S = {} THEN Fresh ELSE Reply(iter[S \ {Max(S)}], q[Max(S)])]
<1>1. \A q : Served(q) = F(q)[DOMAIN q]
    BY DEF Served, FoldLeft, MapThenFoldSet
<1>2. /\ n \in Nat /\ n + 1 \in Nat /\ n <= n + 1 /\ DOMAIN s = 1..n /\ DOMAIN t = 1..(n + 1)
      /\ t[n + 1] = r /\ \A i \in 1..n : s[i] = t[i]
    OBVIOUS
<1> HIDE DEF t, n
<1>3. Folds(F(s), s, n)
    <2>1. \E g : Folds(g, s, n)
        BY <1>2, FoldExists
    <2>2. QED
        BY <1>2, <2>1, Zenon DEF Folds
<1>4. Folds(F(t), t, n + 1)
    <2>1. \E g : Folds(g, t, n + 1)
        BY <1>2, FoldExists, Zenon
    <2>2. QED
        BY <1>2, <2>1, Zenon DEF Folds
<1> HIDE DEF F
<1>5. F(t)[1..(n + 1)] = Reply(F(t)[(1..(n + 1)) \ {n + 1}], t[n + 1])
    <2>1. 1..(n + 1) \in SUBSET (1..(n + 1)) /\ n + 1 \in 1..(n + 1) /\ 1..(n + 1) # {}
        <3>1. \A k \in Nat : k + 1 \in 1..(k + 1)
            OBVIOUS
        <3>2. QED
            BY <1>2, <3>1, Zenon
    <2>2. Max(1..(n + 1)) = n + 1
        BY <1>2, <2>1, MaxOfTop
    <2>3. QED
        BY <1>4, <2>1, <2>2, Zenon DEF Folds
<1>6. (1..(n + 1)) \ {n + 1} = 1..n
    BY <1>2
<1>7. F(s)[1..n] = F(t)[1..n]
    <2>1. \A S \in SUBSET (1..n) : F(s)[S] = F(t)[S]
        <3>1. \A g, h : Folds(g, s, n) /\ Folds(h, t, n + 1) =>
                            \A S \in SUBSET (1..n) : g[S] = h[S]
            BY <1>2, FoldAgrees
        <3>2. QED
            BY <1>3, <1>4, <3>1, Zenon
    <2>2. QED
        BY <2>1, Zenon
<1>8. QED
    BY <1>1, <1>2, <1>5, <1>6, <1>7, Zenon DEF t

LEMMA ServedNone == Served(<<>>) = Fresh
<1> DEFINE f == CHOOSE iter : iter = [S \in SUBSET (DOMAIN <<>>) |->
                    IF S = {} THEN Fresh ELSE Reply(iter[S \ {Max(S)}], <<>>[Max(S)])]
<1>1. Served(<<>>) = f[DOMAIN <<>>]
    BY DEF Served, FoldLeft, MapThenFoldSet
<1>2. DOMAIN <<>> = {} /\ 1..0 = {} /\ 0 \in Nat
    OBVIOUS
<1>3. Folds(f, <<>>, 0)
    <2>1. \E g : Folds(g, <<>>, 0)
        BY <1>2, FoldExists
    <2>2. QED
        BY <1>2, <2>1, Zenon DEF Folds
<1> HIDE DEF f
<1>4. f[{}] = Fresh
    <2>1. {} \in SUBSET (1..0)
        OBVIOUS
    <2>2. QED
        BY <1>3, <2>1, Zenon DEF Folds
<1>5. QED
    BY <1>1, <1>2, <1>4, Zenon

-----------------------------------------------------------------------------
(***************************************************************************)
(* The reference: the greedy answer to one request.                        *)
(***************************************************************************)
Greedily(ctx, p) == \A i \in 1..Len(p) : p[i] \in Decode(ctx \o SubSeq(p, 1, i - 1))
GoesOn(p) == \A i \in 1..(Len(p) - 1) : p[i] \notin Eos
Closed(p, n) == Len(p) = n \/ (p # <<>> /\ p[Len(p)] \in Eos)

\* An answer that may still go on to n tokens, and one that may not.
Begun(ctx, n, p) == p \in Seq(Token) /\ Len(p) <= n /\ Greedily(ctx, p) /\ GoesOn(p)
Whole(ctx, n, p) == Begun(ctx, n, p) /\ Closed(p, n)

LEMMA TokenMore ==
    ASSUME NEW p \in Seq(Token), NEW t \in Token
    PROVE  /\ Append(p, t) \in Seq(Token) /\ Len(p) \in Nat
           /\ Len(Append(p, t)) = Len(p) + 1
           /\ Append(p, t)[Len(p) + 1] = t /\ Append(p, t) # <<>>
           /\ \A i \in 1..Len(p) : Append(p, t)[i] = p[i]
           /\ \A i \in 0..Len(p) : SubSeq(Append(p, t), 1, i) = SubSeq(p, 1, i)
           /\ SubSeq(Append(p, t), 1, Len(p)) = p
<1>1. Append(p, t) # <<>> /\ Append(p, t)[Len(p) + 1] = t
    BY AppendProperties
<1>2. QED
    BY <1>1

\* One more token is chosen after an answer that was not closed.
LEMMA BegunMore ==
    ASSUME NEW ctx \in Seq(Token), NEW n \in Nat, NEW p, Begun(ctx, n, p), ~Closed(p, n),
           NEW t \in Token, t \in Decode(ctx \o p)
    PROVE  /\ Begun(ctx, n, Append(p, t)) /\ Len(p) + 1 <= n
           /\ Closed(Append(p, t), n) <=> (t \in Eos \/ Len(p) + 1 >= n)
<1> DEFINE q == Append(p, t)
<1>1. p \in Seq(Token) /\ Len(p) <= n /\ Greedily(ctx, p) /\ GoesOn(p)
    BY DEF Begun
<1>2. /\ q \in Seq(Token) /\ Len(p) \in Nat /\ Len(q) = Len(p) + 1
      /\ q[Len(p) + 1] = t /\ q # <<>>
      /\ \A i \in 1..Len(p) : q[i] = p[i]
      /\ \A i \in 0..Len(p) : SubSeq(q, 1, i) = SubSeq(p, 1, i)
      /\ SubSeq(q, 1, Len(p)) = p
    BY <1>1, TokenMore
<1> HIDE DEF q
<1>3. /\ Len(p) # n /\ Len(p) + 1 <= n
      /\ Len(p) + 1 >= n <=> Len(p) + 1 = n
    <2>1. \A a, b \in Nat : a <= b /\ a # b => a + 1 <= b /\ (a + 1 >= b <=> a + 1 = b)
        OBVIOUS
    <2>2. Len(p) # n
        BY Zenon DEF Closed
    <2>3. QED
        BY <1>1, <1>2, <2>1, <2>2, Zenon
<1>4. Greedily(ctx, q)
    <2>1. SUFFICES ASSUME NEW i \in 1..Len(q)
                   PROVE  q[i] \in Decode(ctx \o SubSeq(q, 1, i - 1))
        BY DEF Greedily
    <2>2. CASE i \in 1..Len(p)
        <3>1. i - 1 \in 0..Len(p)
            BY <1>2, <2>2
        <3>2. QED
            BY <1>1, <1>2, <2>2, <3>1, Zenon DEF Greedily
    <2>3. CASE i = Len(p) + 1
        <3>1. i - 1 = Len(p)
            BY <1>2, <2>3
        <3>2. QED
            BY <1>2, <2>3, <3>1, Zenon
    <2>4. QED
        BY <1>2, <2>2, <2>3
<1>5. GoesOn(q)
    <2>1. \A i \in 1..Len(p) : p[i] \notin Eos
        <3>1. SUFFICES ASSUME NEW i \in 1..Len(p)
                       PROVE  p[i] \notin Eos
            OBVIOUS
        <3>2. p # <<>> /\ (i = Len(p) \/ i \in 1..(Len(p) - 1))
            <4>1. \A m \in Nat : \A j \in 1..m : j = m \/ j \in 1..(m - 1)
                OBVIOUS
            <4>2. Len(<<>>) = 0 /\ 1..0 = {}
                OBVIOUS
            <4>3. Len(p) # 0
                BY <4>2, Zenon
            <4>4. QED
                BY <1>2, <4>1, <4>2, <4>3, Zenon
        <3>3. CASE i = Len(p)
            BY <3>2, <3>3, Zenon DEF Closed
        <3>4. CASE i \in 1..(Len(p) - 1)
            BY <1>1, <3>4 DEF GoesOn
        <3>5. QED
            BY <3>2, <3>3, <3>4
    <2>2. Len(q) - 1 = Len(p)
        BY <1>2
    <2>3. QED
        BY <1>2, <2>1, <2>2, Zenon DEF GoesOn
<1>6. Closed(q, n) <=> (t \in Eos \/ Len(p) + 1 >= n)
    BY <1>2, <1>3, Zenon DEF Closed
<1>7. Len(q) <= n
    BY <1>2, <1>3
<1>8. QED
    BY <1>2, <1>3, <1>4, <1>5, <1>6, <1>7, Zenon DEF Begun, q

LEMMA AnswerExists ==
    ASSUME Deterministic, NEW ctx \in Seq(Token), NEW n \in Nat
    PROVE  \E p : Whole(ctx, n, p)
<1> DEFINE P == {k \in Nat : k <= n =>
                    \/ \E p : Whole(ctx, n, p)
                    \/ \E p : Begun(ctx, n, p) /\ Len(p) = k}
<1>1. 0 \in P
    <2>1. <<>> \in Seq(Token) /\ Len(<<>>) = 0 /\ 0 <= n
        OBVIOUS
    <2>2. Begun(ctx, n, <<>>)
        BY <2>1 DEF Begun, Greedily, GoesOn
    <2>3. QED
        BY <2>1, <2>2
<1>2. ASSUME NEW k \in Nat, k \in P
      PROVE  k + 1 \in P
    <2>1. SUFFICES ASSUME k + 1 <= n, NEW p, Begun(ctx, n, p), Len(p) = k, ~Closed(p, n)
                   PROVE  \E q : Begun(ctx, n, q) /\ Len(q) = k + 1
        BY <1>2 DEF Whole
    <2>2. ctx \o p \in Seq(Token) /\ p \in Seq(Token)
        BY <2>1 DEF Begun
    <2>3. PICK t \in Token : Decode(ctx \o p) = {t}
        BY <2>2 DEF Deterministic
    <2>4. Begun(ctx, n, Append(p, t))
        BY <2>1, <2>3, BegunMore
    <2>5. Len(Append(p, t)) = k + 1
        BY <2>1, <2>2, <2>3, TokenMore
    <2>6. QED
        BY <2>4, <2>5
<1> HIDE DEF P
<1>3. n \in P
    BY <1>1, <1>2, InductiveSet
<1>4. QED
    BY <1>3 DEF P, Whole, Closed

\* Two answers to one request agree as far as both go, and none goes on after
\* the other is closed.
LEMMA AnswersAgree ==
    ASSUME Deterministic, NEW ctx \in Seq(Token), NEW n \in Nat,
           NEW a, Whole(ctx, n, a), NEW p, Begun(ctx, n, p)
    PROVE  Len(p) <= Len(a) /\ \A i \in 1..Len(p) : p[i] = a[i]
<1>1. /\ a \in Seq(Token) /\ p \in Seq(Token) /\ Len(a) \in Nat /\ Len(p) \in Nat
      /\ Greedily(ctx, a) /\ Greedily(ctx, p) /\ Len(p) <= n
    BY DEF Whole, Begun
<1> DEFINE P == {k \in Nat : k <= Len(p) /\ k <= Len(a) => \A i \in 1..k : p[i] = a[i]}
<1>2. 0 \in P
    OBVIOUS
<1>3. ASSUME NEW k \in Nat, k \in P
      PROVE  k + 1 \in P
    <2>1. SUFFICES ASSUME k + 1 <= Len(p), k + 1 <= Len(a)
                   PROVE  \A i \in 1..(k + 1) : p[i] = a[i]
        OBVIOUS
    <2>2. \A i \in 1..k : p[i] = a[i]
        BY <1>1, <1>3, <2>1
    <2>3. SubSeq(p, 1, k) = SubSeq(a, 1, k) /\ SubSeq(a, 1, k) \in Seq(Token)
        BY <1>1, <2>1, <2>2
    <2>4. p[k + 1] = a[k + 1]
        <3>1. k + 1 \in 1..Len(p) /\ k + 1 \in 1..Len(a) /\ (k + 1) - 1 = k
            BY <1>1, <2>1
        <3>2. p[k + 1] \in Decode(ctx \o SubSeq(p, 1, k))
            BY <1>1, <3>1, Zenon DEF Greedily
        <3>3. a[k + 1] \in Decode(ctx \o SubSeq(a, 1, k))
            BY <1>1, <3>1, Zenon DEF Greedily
        <3>4. ctx \o SubSeq(a, 1, k) \in Seq(Token)
            BY <2>3
        <3>5. PICK t \in Token : Decode(ctx \o SubSeq(a, 1, k)) = {t}
            BY <3>4, Zenon DEF Deterministic
        <3>6. p[k + 1] \in {t} /\ a[k + 1] \in {t}
            BY <2>3, <3>2, <3>3, <3>5, Zenon
        <3>7. QED
            BY <3>6
    <2>5. QED
        BY <2>2, <2>4
<1> HIDE DEF P
<1>4. ASSUME NEW k \in Nat, k <= Len(p), k <= Len(a)
      PROVE  \A i \in 1..k : p[i] = a[i]
    <2>1. k \in P
        BY <1>2, <1>3, InductiveSet
    <2>2. QED
        BY <1>4, <2>1 DEF P
<1>5. Len(p) <= Len(a)
    <2>1. SUFFICES ASSUME Len(a) < Len(p)
                   PROVE  FALSE
        BY <1>1
    <2>2. Closed(a, n) /\ Len(a) # n
        BY <1>1, <2>1 DEF Whole
    <2>3. a # <<>> /\ a[Len(a)] \in Eos
        BY <2>2 DEF Closed
    <2>4. Len(a) \in 1..Len(a) /\ Len(a) \in 1..(Len(p) - 1)
        BY <1>1, <2>1, <2>3
    <2>5. p[Len(a)] = a[Len(a)]
        BY <1>1, <1>4, <2>1, <2>4
    <2>6. QED
        BY <2>3, <2>4, <2>5 DEF Begun, GoesOn
<1>6. QED
    BY <1>1, <1>4, <1>5

\* Answer is the answer.
LEMMA AnswerIsWhole ==
    ASSUME Deterministic, NEW ctx \in Seq(Token), NEW n \in Nat
    PROVE  Whole(ctx, n, Answer(ctx, n))
<1> DEFINE Is(a) == /\ \A k \in DOMAIN a : a[k] \in Decode(ctx \o SubSeq(a, 1, k - 1))
                    /\ \A k \in 1..(Len(a) - 1) : a[k] \notin Eos
                    /\ Len(a) = n \/ (a # <<>> /\ Last(a) \in Eos)
<1>1. ASSUME NEW a \in Seq(Token)
      PROVE  Is(a) <=> Greedily(ctx, a) /\ GoesOn(a) /\ Closed(a, n)
    <2>1. DOMAIN a = 1..Len(a)
        OBVIOUS
    <2>2. QED
        BY <2>1, Zenon DEF Greedily, GoesOn, Closed, Last
<1>2. \A a : a \in BoundedSeq(Token, n) <=> a \in Seq(Token) /\ Len(a) <= n
    <2>1. ASSUME NEW a \in Seq(Token), Len(a) <= n
          PROVE  a \in BoundedSeq(Token, n)
        <3>1. Len(a) \in 0..n /\ a \in [1..Len(a) -> Token]
            BY <2>1
        <3>2. QED
            BY <3>1 DEF BoundedSeq, SeqOf
    <2>2. ASSUME NEW a \in BoundedSeq(Token, n)
          PROVE  a \in Seq(Token) /\ Len(a) <= n
        <3>1. PICK m \in 0..n : a \in [1..m -> Token]
            BY <2>2 DEF BoundedSeq, SeqOf
        <3>2. a \in Seq(Token) /\ Len(a) = m
            BY <3>1
        <3>3. QED
            BY <3>2
    <2>3. QED
        BY <2>1, <2>2
<1>3. PICK p : Whole(ctx, n, p)
    BY AnswerExists
<1>4. p \in BoundedSeq(Token, n) /\ Is(p)
    BY <1>1, <1>2, <1>3 DEF Whole, Begun
<1>5. Answer(ctx, n) = CHOOSE a \in BoundedSeq(Token, n) : Is(a)
    BY DEF Answer
<1> HIDE DEF Is
<1>6. Answer(ctx, n) \in BoundedSeq(Token, n) /\ Is(Answer(ctx, n))
    BY <1>4, <1>5, Zenon
<1>7. QED
    BY <1>1, <1>2, <1>6, Zenon DEF Whole, Begun

LEMMA AnswerIs ==
    ASSUME Deterministic, NEW ctx \in Seq(Token), NEW n \in Nat, NEW p, Whole(ctx, n, p)
    PROVE  Answer(ctx, n) = p
<1>1. Whole(ctx, n, Answer(ctx, n))
    BY AnswerIsWhole
<1>2. /\ Len(p) <= Len(Answer(ctx, n)) /\ Len(Answer(ctx, n)) <= Len(p)
      /\ \A i \in 1..Len(p) : p[i] = Answer(ctx, n)[i]
    BY <1>1, AnswersAgree DEF Whole
<1>3. p \in Seq(Token) /\ Answer(ctx, n) \in Seq(Token)
    BY <1>1 DEF Whole, Begun
<1>4. Len(p) = Len(Answer(ctx, n))
    BY <1>2, <1>3
<1>5. QED
    BY <1>2, <1>3, <1>4, SeqEqual

-----------------------------------------------------------------------------
(***************************************************************************)
(* The reference: the reply to one request, and to the first k of them.    *)
(***************************************************************************)
Served1 == [ctx : Seq(Token), lines : Seq(Line)]

Fed(p) == IF FeedsLast \/ p = <<>> THEN p ELSE SubSeq(p, 1, Len(p) - 1)
Lines(i, p) == [k \in DOMAIN p |-> TokLine(i, p[k])]
Start(s, r) == IF r.reset THEN <<>> ELSE s.ctx
Context(s, r) == Start(s, r) \o r.ids
NoRoom(s, r) == Len(Context(s, r)) + r.n + Slack >= MaxT

\* p is what the request is answered with.
AnswerTo(s, r, p) == IF r.ids = <<>> THEN p = <<>> ELSE Whole(Context(s, r), r.n, p)

LEMMA RequestTypes ==
    ASSUME NEW r \in Request
    PROVE  /\ r.id \in Nat \ {0} /\ r.ids \in Seq(Token) /\ r.n \in Nat
           /\ r.reset \in BOOLEAN /\ r.stop \in BOOLEAN
BY DEF Request

LEMMA LineTypes ==
    ASSUME NEW i \in Nat
    PROVE  /\ \A t \in Token : TokLine(i, t) \in Line
           /\ \A k \in Nat : DoneLine(i, k) \in Line
           /\ ErrorLine(i) \in Line
BY DEF Line, TokLine, DoneLine, ErrorLine

LEMMA LinesType ==
    ASSUME NEW i \in Nat, NEW p \in Seq(Token)
    PROVE  Lines(i, p) \in Seq(Line) /\ Len(Lines(i, p)) = Len(p)
<1>1. DOMAIN p = 1..Len(p) /\ Len(p) \in Nat /\ \A k \in 1..Len(p) : p[k] \in Token
    OBVIOUS
<1>2. Lines(i, p) \in [1..Len(p) -> Line]
    BY <1>1, LineTypes DEF Lines
<1>3. \A n \in Nat : \A f \in [1..n -> Line] : f \in Seq(Line) /\ Len(f) = n
    OBVIOUS
<1>4. QED
    BY <1>1, <1>2, <1>3, Zenon

LEMMA LinesMore ==
    ASSUME NEW i \in Nat, NEW p \in Seq(Token), NEW t \in Token
    PROVE  Lines(i, Append(p, t)) = Append(Lines(i, p), TokLine(i, t))
<1> DEFINE a == Lines(i, Append(p, t))
           b == Append(Lines(i, p), TokLine(i, t))
<1>1. /\ Append(p, t) \in Seq(Token) /\ Len(Append(p, t)) = Len(p) + 1 /\ Len(p) \in Nat
      /\ Append(p, t)[Len(p) + 1] = t /\ \A k \in 1..Len(p) : Append(p, t)[k] = p[k]
    BY TokenMore
<1>2. a \in Seq(Line) /\ Len(a) = Len(p) + 1
    BY <1>1, LinesType
<1>3. /\ Lines(i, p) \in Seq(Line) /\ Len(Lines(i, p)) = Len(p)
      /\ TokLine(i, t) \in Line
    BY LinesType, LineTypes
<1>4. b \in Seq(Line) /\ Len(b) = Len(p) + 1
    BY <1>3
<1>5. ASSUME NEW k \in 1..(Len(p) + 1)
      PROVE  a[k] = b[k]
    <2>1. DOMAIN p = 1..Len(p) /\ DOMAIN Append(p, t) = 1..(Len(p) + 1)
        BY <1>1
    <2>2. a[k] = TokLine(i, Append(p, t)[k])
        BY <2>1 DEF Lines
    <2>3. CASE k \in 1..Len(p)
        <3>1. b[k] = Lines(i, p)[k]
            BY <1>3, <2>3
        <3>2. Lines(i, p)[k] = TokLine(i, p[k])
            BY <2>1, <2>3 DEF Lines
        <3>3. QED
            BY <1>1, <2>2, <2>3, <3>1, <3>2, Zenon
    <2>4. CASE k = Len(p) + 1
        <3>1. b[Len(p) + 1] = TokLine(i, t)
            BY <1>3
        <3>2. QED
            BY <1>1, <2>2, <2>4, <3>1, Zenon
    <2>5. QED
        <3>1. \A m \in Nat : \A j \in 1..(m + 1) : j \in 1..m \/ j = m + 1
            OBVIOUS
        <3>2. k \in 1..Len(p) \/ k = Len(p) + 1
            BY <1>1, <3>1, Zenon
        <3>3. QED
            BY <2>3, <2>4, <3>2, Zenon
<1> HIDE DEF a, b
<1>6. a = b
    BY <1>2, <1>4, <1>5, SeqEqual
<1>7. QED
    BY <1>6 DEF a, b

LEMMA ConcatParts ==
    ASSUME NEW s \in Seq(Line), NEW t \in Seq(Line)
    PROVE  /\ s \o t \in Seq(Line) /\ Len(s \o t) = Len(s) + Len(t)
           /\ \A k \in 1..Len(s) : (s \o t)[k] = s[k]
           /\ \A k \in 1..Len(t) : (s \o t)[Len(s) + k] = t[k]
OBVIOUS

LEMMA LinesConcat ==
    ASSUME NEW i \in Nat, NEW p \in Seq(Token), NEW q \in Seq(Token)
    PROVE  Lines(i, p \o q) = Lines(i, p) \o Lines(i, q)
<1> DEFINE a == Lines(i, p \o q)
           b == Lines(i, p) \o Lines(i, q)
<1>1. /\ p \o q \in Seq(Token) /\ Len(p \o q) = Len(p) + Len(q)
      /\ Len(p) \in Nat /\ Len(q) \in Nat
      /\ DOMAIN p = 1..Len(p) /\ DOMAIN q = 1..Len(q) /\ DOMAIN (p \o q) = 1..(Len(p) + Len(q))
      /\ \A k \in 1..Len(p) : (p \o q)[k] = p[k]
      /\ \A k \in 1..Len(q) : (p \o q)[Len(p) + k] = q[k]
    OBVIOUS
<1>2. /\ a \in Seq(Line) /\ Len(a) = Len(p) + Len(q)
      /\ Lines(i, p) \in Seq(Line) /\ Len(Lines(i, p)) = Len(p)
      /\ Lines(i, q) \in Seq(Line) /\ Len(Lines(i, q)) = Len(q)
    BY <1>1, LinesType
<1>3. /\ \A k \in 1..Len(p) : Lines(i, p)[k] = TokLine(i, p[k])
      /\ \A k \in 1..Len(q) : Lines(i, q)[k] = TokLine(i, q[k])
      /\ \A k \in 1..(Len(p) + Len(q)) : a[k] = TokLine(i, (p \o q)[k])
    BY <1>1 DEF Lines
<1>4. /\ b \in Seq(Line) /\ Len(b) = Len(Lines(i, p)) + Len(Lines(i, q))
      /\ \A k \in 1..Len(Lines(i, p)) : b[k] = Lines(i, p)[k]
      /\ \A k \in 1..Len(Lines(i, q)) : b[Len(Lines(i, p)) + k] = Lines(i, q)[k]
    BY <1>2, ConcatParts, Zenon
<1>5. /\ b \in Seq(Line) /\ Len(b) = Len(p) + Len(q)
      /\ \A k \in 1..Len(p) : b[k] = Lines(i, p)[k]
      /\ \A k \in 1..Len(q) : b[Len(p) + k] = Lines(i, q)[k]
    BY <1>2, <1>4, Zenon
<1> HIDE DEF a, b
<1>6. ASSUME NEW k \in 1..(Len(p) + Len(q))
      PROVE  a[k] = b[k]
    <2>1. CASE k \in 1..Len(p)
        BY <1>1, <1>3, <1>5, <2>1, Zenon
    <2>2. CASE k \notin 1..Len(p)
        <3>1. k - Len(p) \in 1..Len(q) /\ k = Len(p) + (k - Len(p))
            BY <1>1, <2>2
        <3>2. PICK j \in 1..Len(q) : k = Len(p) + j
            BY <3>1, Zenon
        <3>3. a[k] = TokLine(i, q[j])
            BY <1>1, <1>3, <3>2, Zenon
        <3>4. QED
            BY <1>3, <1>5, <3>2, <3>3, Zenon
    <2>3. QED
        BY <2>1, <2>2
<1>7. a = b
    BY <1>2, <1>5, <1>6, SeqEqual
<1>8. QED
    BY <1>7 DEF a, b

\* What is fed back of an answer.
LEMMA FedType ==
    ASSUME NEW p \in Seq(Token)
    PROVE  Fed(p) \in Seq(Token)
<1>1. Len(p) \in Nat /\ Len(p) - 1 \in Int /\ Len(p) - 1 <= Len(p)
    OBVIOUS
<1>2. SubSeq(p, 1, Len(p) - 1) \in Seq(Token)
    OBVIOUS
<1>3. QED
    BY <1>2, Zenon DEF Fed

LEMMA FedMore ==
    ASSUME NEW p \in Seq(Token), NEW t \in Token
    PROVE  Fed(Append(p, t)) = IF FeedsLast THEN Append(p, t) ELSE p
<1>1. /\ Append(p, t) # <<>> /\ Len(Append(p, t)) - 1 = Len(p)
      /\ SubSeq(Append(p, t), 1, Len(p)) = p
    BY TokenMore
<1>2. QED
    BY <1>1, Zenon DEF Fed

LEMMA ReplyStop ==
    ASSUME NEW s \in Served1, NEW r \in Request, r.stop
    PROVE  Reply(s, r) = [ctx |-> s.ctx, lines |-> Append(s.lines, DoneLine(r.id, 0))]
BY DEF Reply, Served1

LEMMA ReplyRefused ==
    ASSUME NEW s \in Served1, NEW r \in Request, ~r.stop, NoRoom(s, r)
    PROVE  Reply(s, r) = [ctx |-> Start(s, r), lines |-> Append(s.lines, ErrorLine(r.id))]
BY DEF Reply, NoRoom, Context, Start

LEMMA ContextType ==
    ASSUME NEW s \in Served1, NEW r \in Request
    PROVE  /\ Start(s, r) \in Seq(Token) /\ Context(s, r) \in Seq(Token)
           /\ Len(Context(s, r)) = Len(Start(s, r)) + Len(r.ids)
<1>1. s.ctx \in Seq(Token) /\ r.ids \in Seq(Token) /\ <<>> \in Seq(Token)
    BY RequestTypes DEF Served1
<1>2. Start(s, r) \in Seq(Token)
    BY <1>1 DEF Start
<1>3. QED
    BY <1>1, <1>2, ConcatProperties DEF Context

LEMMA ReplyAnswered ==
    ASSUME Deterministic, NEW s \in Served1, NEW r \in Request, ~r.stop, ~NoRoom(s, r),
           NEW p, AnswerTo(s, r, p)
    PROVE  Reply(s, r) =
            [ctx   |-> Context(s, r) \o Fed(p),
             lines |-> s.lines \o Lines(r.id, p) \o <<DoneLine(r.id, Len(p))>>]
<1>1. (IF r.ids = <<>> THEN <<>> ELSE Answer(Context(s, r), r.n)) = p
    <2>1. r.n \in Nat /\ Context(s, r) \in Seq(Token)
        BY RequestTypes, ContextType
    <2>2. r.ids # <<>> => Answer(Context(s, r), r.n) = p
        BY <2>1, AnswerIs DEF AnswerTo
    <2>3. QED
        BY <2>2 DEF AnswerTo
<1>2. (IF FeedsLast \/ p = <<>> THEN p ELSE Front(p)) = Fed(p)
    BY Zenon DEF Fed, Front
<1>3. QED
    BY <1>1, <1>2, Zenon DEF Reply, NoRoom, Context, Start, Lines

\* There is an answer to every request.
LEMMA AnswerToExists ==
    ASSUME Deterministic, NEW s \in Served1, NEW r \in Request
    PROVE  \E p \in Seq(Token) : AnswerTo(s, r, p)
<1>1. r.n \in Nat /\ Context(s, r) \in Seq(Token) /\ <<>> \in Seq(Token)
    BY RequestTypes, ContextType
<1>2. QED
    BY <1>1, AnswerExists DEF AnswerTo, Whole, Begun

\* t is s and more.
Grows(s, t) == \E u \in Seq(Line) : t = s \o u

LEMMA GrowsLaws ==
    ASSUME NEW s \in Seq(Line)
    PROVE  /\ Grows(s, s)
           /\ \A e \in Line : Grows(s, Append(s, e))
           /\ \A u, v \in Seq(Line) : Grows(s, s \o u \o v)
           /\ \A w : \A t \in Seq(Line) : Grows(s, t) /\ Grows(t, w) => Grows(s, w)
           /\ \A t \in Seq(Line) : Grows(s, t) => IsPrefix(s, t)
<1>1. s = s \o <<>> /\ <<>> \in Seq(Line)
    OBVIOUS
<1>2. \A e \in Line : <<e>> \in Seq(Line) /\ Append(s, e) = s \o <<e>>
    OBVIOUS
<1>3. \A u, v \in Seq(Line) : u \o v \in Seq(Line) /\ s \o u \o v = s \o (u \o v)
    BY ConcatAssociative, ConcatProperties
<1>4. \A u \in Seq(Line) : IsPrefix(s, s \o u)
    <2>1. SUFFICES ASSUME NEW u \in Seq(Line)
                   PROVE  IsPrefix(s, s \o u)
        OBVIOUS
    <2>2. Len(s) \in Nat /\ Len(u) \in Nat /\ Len(s \o u) = Len(s) + Len(u)
        OBVIOUS
    <2>3. Len(s) <= Len(s \o u)
        BY <2>2
    <2>4. SubSeq(s, 1, Len(s)) = SubSeq(s \o u, 1, Len(s))
        OBVIOUS
    <2>5. QED
        BY <2>3, <2>4 DEF IsPrefix
<1>5. ASSUME NEW t \in Seq(Line), NEW w, Grows(s, t), Grows(t, w)
      PROVE  Grows(s, w)
    <2>1. PICK u \in Seq(Line), v \in Seq(Line) : t = s \o u /\ w = t \o v
        BY <1>5 DEF Grows
    <2>2. u \o v \in Seq(Line) /\ w = s \o (u \o v)
        BY <1>3, <2>1, Zenon
    <2>3. QED
        BY <2>2, Zenon DEF Grows
<1>6. Grows(s, s) /\ \A e \in Line : Grows(s, Append(s, e))
    BY <1>1, <1>2, Zenon DEF Grows
<1>7. \A u, v \in Seq(Line) : Grows(s, s \o u \o v)
    BY <1>3, Zenon DEF Grows
<1>8. \A t \in Seq(Line) : Grows(s, t) => IsPrefix(s, t)
    BY <1>4, Zenon DEF Grows
<1>9. QED
    BY <1>5, <1>6, <1>7, <1>8, Zenon

LEMMA ReplyGrows ==
    ASSUME Deterministic, NEW s \in Served1, NEW r \in Request
    PROVE  Reply(s, r) \in Served1 /\ Grows(s.lines, Reply(s, r).lines)
<1>1. /\ s.ctx \in Seq(Token) /\ s.lines \in Seq(Line)
      /\ r.id \in Nat /\ Start(s, r) \in Seq(Token) /\ Context(s, r) \in Seq(Token)
    BY RequestTypes, ContextType DEF Served1
<1>2. ErrorLine(r.id) \in Line /\ \A k \in Nat : DoneLine(r.id, k) \in Line
    BY <1>1, LineTypes
<1>3. ASSUME NEW c \in Seq(Token), NEW l \in Seq(Line), Grows(s.lines, l),
             Reply(s, r) = [ctx |-> c, lines |-> l]
      PROVE  Reply(s, r) \in Served1 /\ Grows(s.lines, Reply(s, r).lines)
    BY <1>3 DEF Served1
<1>4. ASSUME NEW e \in Line
      PROVE  Append(s.lines, e) \in Seq(Line) /\ Grows(s.lines, Append(s.lines, e))
    <2>1. Append(s.lines, e) \in Seq(Line)
        BY <1>1
    <2>2. QED
        BY <1>1, <2>1, GrowsLaws
<1>5. CASE r.stop
    <2>1. DoneLine(r.id, 0) \in Line
        BY <1>2
    <2>2. QED
        BY <1>1, <1>3, <1>4, <1>5, <2>1, ReplyStop
<1>6. CASE ~r.stop /\ NoRoom(s, r)
    BY <1>1, <1>2, <1>3, <1>4, <1>6, ReplyRefused
<1>7. CASE ~r.stop /\ ~NoRoom(s, r)
    <2>1. PICK p \in Seq(Token) : AnswerTo(s, r, p)
        BY AnswerToExists
    <2> DEFINE c == Context(s, r) \o Fed(p)
               d == <<DoneLine(r.id, Len(p))>>
               l == s.lines \o Lines(r.id, p) \o d
    <2>2. Lines(r.id, p) \in Seq(Line) /\ Fed(p) \in Seq(Token) /\ Len(p) \in Nat
        BY <1>1, LinesType, FedType
    <2>3. d \in Seq(Line) /\ c \in Seq(Token)
        BY <1>1, <1>2, <2>2, ConcatProperties
    <2>4. Reply(s, r) = [ctx |-> c, lines |-> l]
        BY <1>7, <2>1, ReplyAnswered
    <2> HIDE DEF d, c
    <2>5. l \in Seq(Line) /\ Grows(s.lines, l)
        <3>1. s.lines \o Lines(r.id, p) \in Seq(Line)
            BY <1>1, <2>2, ConcatProperties
        <3>2. l \in Seq(Line)
            BY <2>3, <3>1, ConcatProperties
        <3>3. QED
            BY <1>1, <2>2, <2>3, <3>2, GrowsLaws, Zenon
    <2> HIDE DEF l
    <2>6. QED
        BY <1>3, <2>3, <2>4, <2>5
<1>8. QED
    BY <1>5, <1>6, <1>7

\* The replies to the first k requests.
Upto(s, k) == Served(SubSeq(s, 1, k))

LEMMA UptoNext ==
    ASSUME NEW s \in Seq(Request), NEW k \in 0..(Len(s) - 1)
    PROVE  /\ Upto(s, k + 1) = Reply(Upto(s, k), s[k + 1])
           /\ s[k + 1] \in Request
<1>1. /\ SubSeq(s, 1, k) \in Seq(Request) /\ s[k + 1] \in Request
      /\ SubSeq(s, 1, k + 1) = Append(SubSeq(s, 1, k), s[k + 1])
    OBVIOUS
<1>2. QED
    BY <1>1, ServedMore DEF Upto

LEMMA UptoType ==
    ASSUME Deterministic, NEW s \in Seq(Request), NEW k \in 0..Len(s)
    PROVE  Upto(s, k) \in Served1 /\ Grows(Upto(s, k).lines, Upto(s, Len(s)).lines)
<1> DEFINE P == {i \in Nat : i <= Len(s) => Upto(s, i) \in Served1}
           Q == {i \in Nat : i <= Len(s) =>
                    Grows(Upto(s, Len(s) - i).lines, Upto(s, Len(s)).lines)}
<1>1. 0 \in P
    <2>1. SubSeq(s, 1, 0) = <<>>
        OBVIOUS
    <2>2. <<>> \in Seq(Token) /\ <<>> \in Seq(Line)
        OBVIOUS
    <2>3. Upto(s, 0) \in Served1
        <3>1. Upto(s, 0) = Fresh
            BY <2>1, ServedNone, Zenon DEF Upto
        <3>2. Fresh \in Served1
            BY <2>2 DEF Served1, Fresh
        <3>3. QED
            BY <3>1, <3>2, Zenon
    <2>4. QED
        BY <2>3
<1>2. ASSUME NEW i \in Nat, i \in P
      PROVE  i + 1 \in P
    <2>1. SUFFICES ASSUME i + 1 <= Len(s)
                   PROVE  Upto(s, i + 1) \in Served1
        OBVIOUS
    <2>2. i \in 0..(Len(s) - 1)
        BY <2>1
    <2>3. Upto(s, i) \in Served1
        BY <1>2, <2>1
    <2>4. Upto(s, i + 1) = Reply(Upto(s, i), s[i + 1]) /\ s[i + 1] \in Request
        BY <2>2, UptoNext
    <2>5. QED
        BY <2>3, <2>4, ReplyGrows
<1> HIDE DEF P
<1>3. \A i \in 0..Len(s) : Upto(s, i) \in Served1
    <2>1. \A i \in Nat : i \in P
        BY <1>1, <1>2, InductiveSet
    <2>2. QED
        BY <2>1 DEF P
<1>4. \A i \in 0..Len(s) : Upto(s, i).lines \in Seq(Line)
    BY <1>3 DEF Served1
<1>5. 0 \in Q
    <2>1. Len(s) - 0 = Len(s) /\ Len(s) \in 0..Len(s)
        OBVIOUS
    <2>2. QED
        BY <1>4, <2>1, GrowsLaws
<1>6. ASSUME NEW i \in Nat, i \in Q
      PROVE  i + 1 \in Q
    <2>1. SUFFICES ASSUME i + 1 <= Len(s)
                   PROVE  Grows(Upto(s, Len(s) - (i + 1)).lines, Upto(s, Len(s)).lines)
        OBVIOUS
    <2> DEFINE j == Len(s) - (i + 1)
    <2>2. j \in 0..(Len(s) - 1) /\ j + 1 = Len(s) - i /\ j \in 0..Len(s) /\ j + 1 \in 0..Len(s)
        BY <2>1
    <2>3. Grows(Upto(s, Len(s) - i).lines, Upto(s, Len(s)).lines)
        BY <1>6, <2>1
    <2> HIDE DEF j
    <2>4. Upto(s, j + 1) = Reply(Upto(s, j), s[j + 1]) /\ s[j + 1] \in Request
        BY <2>2, UptoNext
    <2>5. Grows(Upto(s, j).lines, Upto(s, j + 1).lines)
        BY <1>3, <2>2, <2>4, ReplyGrows
    <2>6. Grows(Upto(s, j).lines, Upto(s, Len(s)).lines)
        <3>1. \A w : \A t \in Seq(Line) :
                Grows(Upto(s, j).lines, t) /\ Grows(t, w) => Grows(Upto(s, j).lines, w)
            BY <1>4, <2>2, GrowsLaws
        <3>2. QED
            BY <1>4, <2>2, <2>3, <2>5, <3>1, Zenon
    <2>7. QED
        BY <2>6 DEF j
<1> HIDE DEF Q
<1>7. Grows(Upto(s, k).lines, Upto(s, Len(s)).lines)
    <2>1. Len(s) - k \in Q
        BY <1>5, <1>6, InductiveSet
    <2>2. Len(s) - (Len(s) - k) = k /\ Len(s) - k <= Len(s)
        OBVIOUS
    <2>3. QED
        BY <2>1, <2>2 DEF Q
<1>8. QED
    BY <1>3, <1>7

-----------------------------------------------------------------------------
(***************************************************************************)
(* The inductive invariant. k requests have been read, the others wait in  *)
(* stdin. Between two jobs the lines printed and the context are the ones  *)
(* of the first k replies; in a job, p has been printed of the answer to   *)
(* the k-th request, after the first k - 1 replies.                        *)
(***************************************************************************)
Doing(s, r, p, jb, out, c) ==
    /\ ~r.stop /\ ~NoRoom(s, r)
    /\ jb.id = r.id /\ jb.n = r.n /\ jb.n_out = Len(p)
    /\ out = s.lines \o Lines(r.id, p)
    /\ IF r.ids = <<>> THEN p = <<>> /\ ~jb.go
       ELSE Begun(Context(s, r), r.n, p) /\ (jb.go <=> ~Closed(p, r.n))
    /\ c = Context(s, r) \o (IF jb.go THEN p ELSE Fed(p))

At(k, jb, out, c) ==
    IF jb.id = 0 THEN out = Upto(sent, k).lines /\ c = Upto(sent, k).ctx
    ELSE k # 0 /\ \E p \in Seq(Token) : Doing(Upto(sent, k - 1), sent[k], p, jb, out, c)

Types == EngineTypeOK /\ sent \in Seq(Request)

IInv ==
    /\ Types
    /\ \E k \in 0..Len(sent) : /\ stdin = SubSeq(sent, k + 1, Len(sent))
                               /\ At(k, job, stdout, kv)

LEMMA AppendConcat ==
    /\ \A a, b \in Seq(Token), e \in Token : Append(a \o b, e) = a \o Append(b, e)
    /\ \A a, b \in Seq(Line), e \in Line : Append(a \o b, e) = a \o Append(b, e)
OBVIOUS

\* The end of a sequence that grows.
LEMMA SuffixAppend ==
    ASSUME NEW S, NEW s \in Seq(S), NEW e \in S, NEW k \in 0..Len(s)
    PROVE  SubSeq(Append(s, e), k + 1, Len(s) + 1) = Append(SubSeq(s, k + 1, Len(s)), e)
<1> DEFINE a == SubSeq(Append(s, e), k + 1, Len(s) + 1)
           c == SubSeq(s, k + 1, Len(s))
<1>1. /\ a \in Seq(S) /\ Len(a) = Len(s) - k + 1
      /\ \A i \in 1..(Len(s) - k) : a[i] = s[k + i]
      /\ a[Len(s) - k + 1] = e
    <2>1. /\ Append(s, e) \in Seq(S) /\ Len(Append(s, e)) = Len(s) + 1
          /\ Append(s, e)[Len(s) + 1] = e
          /\ \A i \in 1..Len(s) : Append(s, e)[i] = s[i]
        OBVIOUS
    <2> DEFINE x == Append(s, e)
    <2> HIDE DEF x
    <2>2. x \in Seq(S) /\ Len(x) = Len(s) + 1 /\ Len(s) \in Nat
        BY <2>1 DEF x
    <2>3. /\ SubSeq(x, k + 1, Len(x)) \in Seq(S)
          /\ Len(SubSeq(x, k + 1, Len(x))) = Len(x) - k
          /\ \A i \in 1..(Len(x) - k) : SubSeq(x, k + 1, Len(x))[i] = x[k + i]
        BY <2>2
    <2>4. a = SubSeq(x, k + 1, Len(x))
        BY <2>2 DEF x
    <2>5. a \in Seq(S) /\ Len(a) = Len(s) - k + 1
        BY <2>2, <2>3, <2>4
    <2>6. \A i \in 1..(Len(s) - k + 1) : a[i] = x[k + i]
        BY <2>2, <2>3, <2>4
    <2>7. \A i \in 1..(Len(s) - k) : a[i] = s[k + i]
        <3>1. TAKE i \in 1..(Len(s) - k)
        <3>2. i \in 1..(Len(s) - k + 1) /\ k + i \in 1..Len(s)
            BY <2>2
        <3>3. QED
            BY <2>1, <2>6, <3>2, Zenon DEF x
    <2>8. a[Len(s) - k + 1] = e
        <3>1. Len(s) - k + 1 \in 1..(Len(s) - k + 1) /\ k + (Len(s) - k + 1) = Len(s) + 1
            BY <2>2
        <3>2. QED
            BY <2>1, <2>6, <3>1, Zenon DEF x
    <2>9. QED
        BY <2>5, <2>7, <2>8
<1>2. /\ c \in Seq(S) /\ Len(c) = Len(s) - k
      /\ \A i \in 1..(Len(s) - k) : c[i] = s[k + i]
    OBVIOUS
<1> HIDE DEF a, c
<1>3. /\ Append(c, e) \in Seq(S) /\ Len(Append(c, e)) = Len(a)
      /\ \A i \in 1..Len(a) : Append(c, e)[i] = a[i]
    <2>1. Len(c) \in Nat /\ Len(a) = Len(c) + 1 /\ Len(s) - k = Len(c)
        BY <1>1, <1>2
    <2>2. /\ Append(c, e) \in Seq(S) /\ Len(Append(c, e)) = Len(c) + 1
          /\ Append(c, e)[Len(c) + 1] = e /\ \A i \in 1..Len(c) : Append(c, e)[i] = c[i]
        BY <1>2
    <2>3. \A i \in 1..(Len(c) + 1) : i \in 1..Len(c) \/ i = Len(c) + 1
        BY <2>1
    <2>4. QED
        BY <1>1, <1>2, <2>1, <2>2, <2>3, Zenon
<1>4. a = Append(c, e)
    BY <1>1, <1>3, SeqEqual
<1>5. QED
    BY <1>4 DEF a, c

\* A token more of the answer under way.
LEMMA DoingEmit ==
    ASSUME NEW s \in Served1, NEW r \in Request, NEW p \in Seq(Token), NEW jb \in Job,
           NEW out, NEW c, Doing(s, r, p, jb, out, c), jb.go,
           NEW t \in Token, t \in Decode(c),
           NEW leaves \in BOOLEAN, leaves <=> (t \in Eos \/ jb.n_out + 1 >= jb.n),
           NEW jb2, jb2 = [jb EXCEPT !.n_out = @ + 1, !.go = ~leaves]
    PROVE  Doing(s, r, Append(p, t), jb2, Append(out, TokLine(jb.id, t)),
                 IF FeedsLast \/ ~leaves THEN Append(c, t) ELSE c)
<1> DEFINE q == Append(p, t)
           ctx == Context(s, r)
           c2 == IF FeedsLast \/ ~leaves THEN Append(c, t) ELSE c
           out2 == Append(out, TokLine(jb.id, t))
<1>1. /\ ~r.stop /\ ~NoRoom(s, r)
      /\ jb.id = r.id /\ jb.n = r.n /\ jb.n_out = Len(p)
      /\ out = s.lines \o Lines(r.id, p)
      /\ r.ids # <<>> /\ Begun(ctx, r.n, p) /\ ~Closed(p, r.n)
      /\ c = ctx \o p
    BY Zenon DEF Doing
<1>2. /\ ctx \in Seq(Token) /\ r.id \in Nat /\ r.n \in Nat /\ s.lines \in Seq(Line)
      /\ Lines(r.id, p) \in Seq(Line) /\ TokLine(r.id, t) \in Line
    BY ContextType, RequestTypes, LinesType, LineTypes DEF Served1
<1>3. q \in Seq(Token) /\ Len(q) = Len(p) + 1
    BY TokenMore
<1> HIDE DEF ctx, q
<1>4. /\ Begun(ctx, r.n, q)
      /\ Closed(q, r.n) <=> (t \in Eos \/ Len(p) + 1 >= r.n)
    BY <1>1, <1>2, BegunMore, Zenon DEF q
<1>5. /\ jb2.id = jb.id /\ jb2.n = jb.n /\ jb2.n_out = jb.n_out + 1 /\ jb2.go = ~leaves
    BY DEF Job
<1>6. jb2.go <=> ~Closed(q, r.n)
    BY <1>1, <1>4, <1>5, Zenon
<1>7. out2 = s.lines \o Lines(r.id, q)
    <2>1. Lines(r.id, q) = Append(Lines(r.id, p), TokLine(r.id, t))
        BY <1>2, LinesMore DEF q
    <2>2. \A a, b \in Seq(Line), e \in Line : Append(a \o b, e) = a \o Append(b, e)
        BY AppendConcat, Zenon
    <2>3. out = s.lines \o Lines(r.id, p) /\ TokLine(jb.id, t) = TokLine(r.id, t)
        BY <1>1, Zenon
    <2>4. /\ s.lines \in Seq(Line) /\ Lines(r.id, p) \in Seq(Line)
          /\ TokLine(r.id, t) \in Line
        BY <1>2, Zenon
    <2>5. Append(s.lines \o Lines(r.id, p), TokLine(r.id, t))
            = s.lines \o Append(Lines(r.id, p), TokLine(r.id, t))
        BY <2>2, <2>4, Zenon
    <2>6. QED
        BY <2>1, <2>3, <2>5, Zenon
<1>8. c2 = ctx \o (IF jb2.go THEN q ELSE Fed(q))
    <2>1. Append(c, t) = ctx \o q
        <3>1. \A a, b \in Seq(Token), e \in Token : Append(a \o b, e) = a \o Append(b, e)
            BY AppendConcat, Zenon
        <3>2. QED
            BY <1>1, <1>2, <3>1, Zenon DEF q
    <2>2. Fed(q) = IF FeedsLast THEN q ELSE p
        BY FedMore DEF q
    <2>3. CASE jb2.go
        BY <1>5, <2>1, <2>3, Zenon
    <2>4. CASE ~jb2.go /\ FeedsLast
        BY <2>1, <2>2, <2>4, Zenon
    <2>5. CASE ~jb2.go /\ ~FeedsLast
        BY <1>1, <1>5, <2>2, <2>5, Zenon
    <2>6. QED
        BY <2>3, <2>4, <2>5, Zenon
<1> HIDE DEF c2, out2
<1>9. Doing(s, r, q, jb2, out2, c2)
    BY <1>1, <1>3, <1>4, <1>5, <1>6, <1>7, <1>8, Zenon DEF Doing, ctx
<1>10. QED
    BY <1>9 DEF q, out2, c2

\* The answer is closed: the job ends with its reply printed.
LEMMA DoingFinish ==
    ASSUME Deterministic, NEW s \in Served1, NEW r \in Request, NEW p \in Seq(Token),
           NEW jb \in Job, NEW out, NEW c, Doing(s, r, p, jb, out, c), ~jb.go
    PROVE  /\ Append(out, DoneLine(jb.id, jb.n_out)) = Reply(s, r).lines
           /\ c = Reply(s, r).ctx
<1>1. /\ ~r.stop /\ ~NoRoom(s, r)
      /\ jb.id = r.id /\ jb.n_out = Len(p)
      /\ out = s.lines \o Lines(r.id, p)
      /\ AnswerTo(s, r, p)
      /\ c = Context(s, r) \o Fed(p)
    BY Zenon DEF Doing, AnswerTo, Whole
<1>2. /\ s.lines \in Seq(Line) /\ Lines(r.id, p) \in Seq(Line)
      /\ DoneLine(r.id, Len(p)) \in Line
    BY RequestTypes, LinesType, LineTypes DEF Served1
<1>3. Reply(s, r) = [ctx   |-> Context(s, r) \o Fed(p),
                     lines |-> s.lines \o Lines(r.id, p) \o <<DoneLine(r.id, Len(p))>>]
    BY <1>1, ReplyAnswered
<1>4. Append(out, DoneLine(r.id, Len(p))) = out \o <<DoneLine(r.id, Len(p))>>
    <2>1. out \in Seq(Line)
        BY <1>1, <1>2, ConcatProperties
    <2>2. QED
        BY <1>2, <2>1, AppendIsConcat
<1>5. /\ Reply(s, r).ctx = Context(s, r) \o Fed(p)
      /\ Reply(s, r).lines = s.lines \o Lines(r.id, p) \o <<DoneLine(r.id, Len(p))>>
    <2> DEFINE x == Context(s, r) \o Fed(p)
               l == s.lines \o Lines(r.id, p) \o <<DoneLine(r.id, Len(p))>>
    <2>1. Reply(s, r) = [ctx |-> x, lines |-> l]
        BY <1>3
    <2> HIDE DEF x, l
    <2>2. Reply(s, r).ctx = x /\ Reply(s, r).lines = l
        BY <2>1
    <2>3. QED
        BY <2>2 DEF x, l
<1>6. QED
    BY <1>1, <1>4, <1>5, Zenon

\* Whatever was printed of an answer, the reply goes on from there.
LEMMA DoingGrows ==
    ASSUME Deterministic, NEW s \in Served1, NEW r \in Request, NEW p \in Seq(Token),
           NEW jb \in Job, NEW out \in Seq(Line), NEW c, Doing(s, r, p, jb, out, c)
    PROVE  Grows(out, Reply(s, r).lines)
<1>1. /\ ~r.stop /\ ~NoRoom(s, r) /\ out = s.lines \o Lines(r.id, p)
      /\ r.ids = <<>> => p = <<>>
      /\ r.ids # <<>> => Begun(Context(s, r), r.n, p)
    BY Zenon DEF Doing
<1>2. PICK a \in Seq(Token) : AnswerTo(s, r, a)
    BY AnswerToExists
<1>3. /\ s.lines \in Seq(Line) /\ r.id \in Nat /\ r.n \in Nat /\ Context(s, r) \in Seq(Token)
      /\ Len(a) \in Nat /\ Len(p) \in Nat
    BY ContextType, RequestTypes DEF Served1
<1>4. Len(p) <= Len(a) /\ \A i \in 1..Len(p) : p[i] = a[i]
    <2>1. CASE r.ids = <<>>
        BY <1>1, <1>2, <2>1 DEF AnswerTo
    <2>2. CASE r.ids # <<>>
        BY <1>1, <1>2, <1>3, <2>2, AnswersAgree DEF AnswerTo
    <2>3. QED
        BY <2>1, <2>2
<1> DEFINE b == SubSeq(a, Len(p) + 1, Len(a))
           d == <<DoneLine(r.id, Len(a))>>
<1>5. b \in Seq(Token) /\ a = p \o b
    BY <1>3, <1>4
<1> HIDE DEF b
<1>6. Lines(r.id, a) = Lines(r.id, p) \o Lines(r.id, b)
    BY <1>3, <1>5, LinesConcat, Zenon
<1>7. /\ Lines(r.id, p) \in Seq(Line) /\ Lines(r.id, b) \in Seq(Line) /\ d \in Seq(Line)
    BY <1>3, <1>5, LinesType, LineTypes
<1>8. Reply(s, r).lines = s.lines \o Lines(r.id, a) \o d
    <2> DEFINE x == Context(s, r) \o Fed(a)
               l == s.lines \o Lines(r.id, a) \o d
    <2>1. Reply(s, r) = [ctx |-> x, lines |-> l]
        BY <1>1, <1>2, ReplyAnswered
    <2> HIDE DEF x, l
    <2>2. Reply(s, r).lines = l
        BY <2>1
    <2>3. QED
        BY <2>2 DEF l
<1> HIDE DEF d
<1>9. s.lines \o Lines(r.id, a) = out \o Lines(r.id, b)
    <2>1. s.lines \in Seq(Line)
        BY DEF Served1
    <2>2. \A x, y, w \in Seq(Line) : x \o (y \o w) = (x \o y) \o w
        OBVIOUS
    <2>3. s.lines \o (Lines(r.id, p) \o Lines(r.id, b)) = (s.lines \o Lines(r.id, p)) \o Lines(r.id, b)
        BY <1>7, <2>1, <2>2, Zenon
    <2>4. QED
        BY <1>1, <1>6, <2>3, Zenon
<1>10. QED
    BY <1>7, <1>8, <1>9, GrowsLaws

\* A request is taken.
LEMMA DoingAccept ==
    ASSUME NEW s \in Served1, NEW r \in Request, ~r.stop, ~NoRoom(s, r), NEW jb,
           jb = [id |-> r.id, n |-> r.n, n_out |-> 0, go |-> r.n > 0 /\ r.ids # <<>>]
    PROVE  Doing(s, r, <<>>, jb, s.lines, Context(s, r))
<1>1. /\ Context(s, r) \in Seq(Token) /\ r.n \in Nat /\ s.lines \in Seq(Line)
    BY ContextType, RequestTypes DEF Served1
<1>2. /\ <<>> \in Seq(Token) /\ Len(<<>>) = 0 /\ Lines(r.id, <<>>) = <<>>
    BY DEF Lines
<1>3. s.lines = s.lines \o Lines(r.id, <<>>) /\ Context(s, r) = Context(s, r) \o <<>>
    BY <1>1, <1>2, ConcatEmptySeq
<1>4. Fed(<<>>) = <<>>
    BY DEF Fed
<1>5. Begun(Context(s, r), r.n, <<>>) /\ (Closed(<<>>, r.n) <=> r.n = 0)
    BY <1>1, <1>2 DEF Begun, Greedily, GoesOn, Closed
<1>6. /\ jb.id = r.id /\ jb.n = r.n /\ jb.n_out = 0
      /\ jb.go <=> r.n > 0 /\ r.ids # <<>>
    OBVIOUS
<1>7. r.n > 0 <=> r.n # 0
    BY <1>1
<1>8. QED
    BY <1>2, <1>3, <1>4, <1>5, <1>6, <1>7, Zenon DEF Doing

\* What is left to read.
LEMMA Reads ==
    ASSUME NEW s \in Seq(Request), NEW k \in 0..Len(s), NEW in,
           in = SubSeq(s, k + 1, Len(s)), in # <<>>
    PROVE  /\ k \in 0..(Len(s) - 1) /\ k + 1 \in 0..Len(s) /\ k + 1 # 0
           /\ (k + 1) - 1 = k
           /\ Head(in) = s[k + 1] /\ s[k + 1] \in Request
           /\ Tail(in) = SubSeq(s, (k + 1) + 1, Len(s))
<1>1. k # Len(s)
    <2>1. SubSeq(s, Len(s) + 1, Len(s)) = <<>>
        OBVIOUS
    <2>2. QED
        BY <2>1
<1>2. /\ k \in 0..(Len(s) - 1) /\ k + 1 \in 1..Len(s) /\ Len(s) \in (k + 1)..Len(s)
    BY <1>1
<1>3. /\ Head(SubSeq(s, k + 1, Len(s))) = s[k + 1]
      /\ Tail(SubSeq(s, k + 1, Len(s))) = SubSeq(s, (k + 1) + 1, Len(s))
    BY <1>2, HeadTailOfSubSeq
<1>4. s[k + 1] \in Request /\ k + 1 \in 0..Len(s) /\ k + 1 # 0 /\ (k + 1) - 1 = k
    BY <1>2
<1>5. QED
    BY <1>2, <1>3, <1>4

LEMMA Writes ==
    ASSUME NEW s \in Seq(Request), NEW k \in 0..Len(s), NEW r \in Request
    PROVE  /\ Append(s, r) \in Seq(Request) /\ k \in 0..Len(Append(s, r))
           /\ SubSeq(Append(s, r), k + 1, Len(Append(s, r)))
                = Append(SubSeq(s, k + 1, Len(s)), r)
           /\ Upto(Append(s, r), k) = Upto(s, k)
           /\ k # 0 => Upto(Append(s, r), k - 1) = Upto(s, k - 1) /\ Append(s, r)[k] = s[k]
<1>1. /\ Append(s, r) \in Seq(Request) /\ Len(Append(s, r)) = Len(s) + 1
      /\ k \in 0..Len(Append(s, r))
    OBVIOUS
<1>2. SubSeq(Append(s, r), k + 1, Len(s) + 1) = Append(SubSeq(s, k + 1, Len(s)), r)
    BY SuffixAppend
<1>3. \A i \in 0..Len(s) : SubSeq(Append(s, r), 1, i) = SubSeq(s, 1, i)
    OBVIOUS
<1>4. k # 0 => k - 1 \in 0..Len(s) /\ Append(s, r)[k] = s[k]
    OBVIOUS
<1>5. QED
    BY <1>1, <1>2, <1>3, <1>4, Zenon DEF Upto

-----------------------------------------------------------------------------
(***************************************************************************)
(* The steps.                                                              *)
(***************************************************************************)
LEMMA TypesStep ==
    ASSUME Types, [Next]_vars
    PROVE  Types'
<1> USE DEF Types, EngineTypeOK
<1>1. /\ stdin \in Seq(Request) /\ stdout \in Seq(Line) /\ kv \in Seq(Token) /\ job \in Job
      /\ sent \in Seq(Request) /\ alive \in BOOLEAN
    OBVIOUS
<1>2. stdin # <<>> => Head(stdin) \in Request /\ Tail(stdin) \in Seq(Request)
    BY <1>1
<1>3. \A r \in Request : Base(r) \in Seq(Token)
    BY <1>1, EmptySeq DEF Base
<1>4. ASSUME NEW r \in Request, Write(r)
      PROVE  Types'
    BY <1>1, <1>4, AppendProperties DEF Write
<1>5. ASSUME NEW ids \in Inputs, NEW n \in Counts, NEW reset \in BOOLEAN, Ask(ids, n, reset)
      PROVE  Types'
    <2> DEFINE r == [id |-> Len(sent) + 1, ids |-> ids, n |-> n, reset |-> reset,
                     stop |-> FALSE]
    <2>1. Len(sent) + 1 \in Nat \ {0} /\ ids \in Seq(Token) /\ n \in Nat
        BY <1>1
    <2>2. r \in Request
        BY <2>1 DEF Request
    <2>3. Write(r)
        BY <1>5 DEF Ask
    <2>4. QED
        BY <1>4, <2>2, <2>3
<1>6. ASSUME NEW i \in 1..MaxSent, AskToStop(i)
      PROVE  Types'
    <2> DEFINE r == [id |-> i, ids |-> <<>>, n |-> 0, reset |-> FALSE, stop |-> TRUE]
    <2>1. i \in Nat \ {0} /\ <<>> \in Seq(Token)
        OBVIOUS
    <2>2. r \in Request
        BY <2>1 DEF Request
    <2>3. Write(r)
        BY <1>6 DEF AskToStop
    <2>4. QED
        BY <1>4, <2>2, <2>3
<1>7. CASE Serves
    <2>1. sent' = sent
        BY <1>7 DEF Serves
    <2>2. stdin # <<>> => /\ Head(stdin).id \in Nat /\ Head(stdin).n \in Nat
                          /\ Head(stdin).ids \in Seq(Token)
        BY <1>2, RequestTypes
    <2>3. CASE AnswerStop
        <3>1. DoneLine(Head(stdin).id, 0) \in Line
            BY <2>2, <2>3, LineTypes DEF AnswerStop
        <3>2. QED
            BY <1>1, <1>2, <2>1, <2>3, <3>1 DEF AnswerStop
    <2>4. CASE Refuse
        <3>1. ErrorLine(Head(stdin).id) \in Line
            BY <2>2, <2>4, LineTypes DEF Refuse
        <3>2. QED
            BY <1>1, <1>2, <1>3, <2>1, <2>4, <3>1 DEF Refuse
    <2>5. CASE Accept
        <3>1. job' \in Job
            <4>1. /\ job' = [id |-> Head(stdin).id, n |-> Head(stdin).n, n_out |-> 0,
                             go |-> Head(stdin).n > 0 /\ Head(stdin).ids # <<>>]
                  /\ stdin # <<>>
                BY <2>5 DEF Accept
            <4>2. QED
                BY <2>2, <4>1 DEF Job
        <3>2. kv' \in Seq(Token)
            <4>1. stdin # <<>> /\ kv' = Base(Head(stdin)) \o Head(stdin).ids
                BY <2>5 DEF Accept
            <4>2. QED
                BY <1>2, <1>3, <2>2, <4>1, ConcatProperties
        <3>3. QED
            BY <1>1, <1>2, <2>1, <2>5, <3>1, <3>2 DEF Accept
    <2>6. ASSUME NEW t \in Token, Emit(t)
          PROVE  Types'
        <3>1. TokLine(job.id, t) \in Line
            BY <1>1, LineTypes DEF Job
        <3>2. job' \in Job
            <4>1. (~Leaves(t)) \in BOOLEAN
                BY DEF Leaves
            <4>2. job.n_out + 1 \in Nat
                BY <1>1 DEF Job
            <4>3. \A m \in Nat, b \in BOOLEAN : [job EXCEPT !.n_out = m, !.go = b] \in Job
                BY <1>1 DEF Job
            <4>4. job' = [job EXCEPT !.n_out = job.n_out + 1, !.go = ~Leaves(t)]
                BY <2>6, Zenon DEF Emit
            <4>5. QED
                BY <4>1, <4>2, <4>3, <4>4, Zenon
        <3>3. stdout' \in Seq(Line) /\ kv' \in Seq(Token)
            BY <1>1, <2>6, <3>1 DEF Emit
        <3>4. QED
            BY <1>1, <2>1, <2>6, <3>2, <3>3 DEF Emit
    <2>7. CASE Finish
        <3>1. DoneLine(job.id, job.n_out) \in Line
            BY <1>1, LineTypes DEF Job
        <3>2. NoJob \in Job
            BY DEF NoJob, Job
        <3>3. QED
            BY <1>1, <2>1, <2>7, <3>1, <3>2 DEF Finish
    <2>8. QED
        BY <1>7, <2>3, <2>4, <2>5, <2>6, <2>7 DEF Serves, ServeStep
<1>8. CASE Dies \/ UNCHANGED vars
    BY <1>8 DEF Dies, Exit, vars, engineVars
<1>9. QED
    BY <1>5, <1>6, <1>7, <1>8 DEF Next

\* The k-th reply, from the replies before it.
LEMMA Before ==
    ASSUME Deterministic, Types, NEW k \in 0..Len(sent)
    PROVE  /\ Upto(sent, k) \in Served1
           /\ k # 0 => /\ Upto(sent, k - 1) \in Served1 /\ sent[k] \in Request
                       /\ Upto(sent, k) = Reply(Upto(sent, k - 1), sent[k])
<1>1. sent \in Seq(Request)
    BY DEF Types
<1>2. k # 0 => k - 1 \in 0..(Len(sent) - 1) /\ k - 1 \in 0..Len(sent) /\ (k - 1) + 1 = k
    BY <1>1
<1>3. QED
    BY <1>1, <1>2, UptoType, UptoNext, Zenon

\* A line is written: what was read stays what it was.
LEMMA WriteStep ==
    ASSUME Deterministic, IInv, Types', NEW r \in Request, Write(r)
    PROVE  IInv'
<1>1. sent \in Seq(Request)
    BY DEF IInv, Types
<1>2. PICK k \in 0..Len(sent) : /\ stdin = SubSeq(sent, k + 1, Len(sent))
                                /\ At(k, job, stdout, kv)
    BY DEF IInv
<1>3. /\ stdin' = Append(stdin, r) /\ sent' = Append(sent, r)
      /\ stdout' = stdout /\ kv' = kv /\ job' = job
    BY DEF Write
<1>4. /\ k \in 0..Len(sent')
      /\ stdin' = SubSeq(sent', k + 1, Len(sent'))
      /\ Upto(sent', k) = Upto(sent, k)
      /\ k # 0 => Upto(sent', k - 1) = Upto(sent, k - 1) /\ sent'[k] = sent[k]
    BY <1>1, <1>2, <1>3, Writes, Zenon
<1>5. At(k, job, stdout, kv)'
    BY <1>2, <1>3, <1>4, Zenon DEF At
<1>6. QED
    BY <1>4, <1>5, Zenon DEF IInv

\* The engine takes a turn.
LEMMA ServeKeeps ==
    ASSUME Deterministic, IInv, Types', Serves
    PROVE  IInv'
<1>1. /\ Types /\ sent \in Seq(Request) /\ sent' = sent /\ job \in Job
      /\ kv \in Seq(Token) /\ stdout \in Seq(Line)
    BY DEF IInv, Types, EngineTypeOK, Serves
<1>2. PICK k \in 0..Len(sent) : /\ stdin = SubSeq(sent, k + 1, Len(sent))
                                /\ At(k, job, stdout, kv)
    BY DEF IInv
<1> DEFINE s == Upto(sent, k)
           r == sent[k + 1]
           z == Upto(sent, k - 1)
           q == sent[k]
<1>3. s \in Served1 /\ s.ctx \in Seq(Token)
    BY <1>1, Before DEF Served1
<1>4. ~Working /\ stdin # <<>> =>
        /\ k + 1 \in 0..Len(sent) /\ k + 1 # 0 /\ (k + 1) - 1 = k
        /\ Head(stdin) = r /\ r \in Request
        /\ Tail(stdin) = SubSeq(sent, (k + 1) + 1, Len(sent))
        /\ Upto(sent, k + 1) = Reply(s, r)
        /\ stdout = s.lines /\ kv = s.ctx
        /\ Base(r) = Start(s, r)
        /\ Fits(r) <=> ~NoRoom(s, r)
    <2>1. SUFFICES ASSUME ~Working, stdin # <<>>
                   PROVE  /\ k + 1 \in 0..Len(sent) /\ k + 1 # 0 /\ (k + 1) - 1 = k
                          /\ Head(stdin) = r /\ r \in Request
                          /\ Tail(stdin) = SubSeq(sent, (k + 1) + 1, Len(sent))
                          /\ Upto(sent, k + 1) = Reply(s, r)
                          /\ stdout = s.lines /\ kv = s.ctx
                          /\ Base(r) = Start(s, r)
                          /\ Fits(r) <=> ~NoRoom(s, r)
        OBVIOUS
    <2>2. /\ k \in 0..(Len(sent) - 1) /\ k + 1 \in 0..Len(sent) /\ k + 1 # 0
          /\ (k + 1) - 1 = k /\ Head(stdin) = r /\ r \in Request
          /\ Tail(stdin) = SubSeq(sent, (k + 1) + 1, Len(sent))
        BY <1>1, <1>2, <2>1, Reads
    <2>3. Upto(sent, k + 1) = Reply(s, r)
        BY <1>1, <2>2, UptoNext
    <2>4. stdout = s.lines /\ kv = s.ctx
        BY <1>2, <2>1, Zenon DEF At, Working
    <2>5. Base(r) = Start(s, r)
        BY <2>4, Zenon DEF Base, Start
    <2>6. /\ Len(Context(s, r)) = Len(Start(s, r)) + Len(r.ids)
          /\ Len(Start(s, r)) \in Nat /\ Len(r.ids) \in Nat /\ r.n \in Nat
        <3>1. /\ Start(s, r) \in Seq(Token)
              /\ Len(Context(s, r)) = Len(Start(s, r)) + Len(r.ids)
            BY <1>3, <2>2, ContextType, Zenon
        <3>2. r.ids \in Seq(Token) /\ r.n \in Nat
            BY <2>2, RequestTypes, Zenon
        <3>3. \A x \in Seq(Token) : Len(x) \in Nat
            OBVIOUS
        <3>4. QED
            BY <3>1, <3>2, <3>3, Zenon
    <2>7. Fits(r) <=> ~NoRoom(s, r)
        <3>1. \A a, b, c, d, m \in Nat : a + b + c + d < m <=> ~((a + b) + c + d >= m)
            OBVIOUS
        <3>2. QED
            BY <2>5, <2>6, <3>1, Zenon DEF Fits, NoRoom
    <2>8. QED
        BY <2>2, <2>3, <2>4, <2>5, <2>7, Zenon
<1>5. Working => /\ k # 0 /\ z \in Served1 /\ q \in Request
                 /\ s = Reply(z, q)
                 /\ \E p \in Seq(Token) : Doing(z, q, p, job, stdout, kv)
    BY <1>1, <1>2, Before, Zenon DEF At, Working
<1> HIDE DEF s, r, z, q
<1>6. CASE AnswerStop
    <2>1. /\ ~Working /\ stdin # <<>> /\ Head(stdin).stop
          /\ stdout' = Append(stdout, DoneLine(Head(stdin).id, 0))
          /\ stdin' = Tail(stdin) /\ kv' = kv /\ job' = job
        BY <1>6 DEF AnswerStop
    <2>2. Upto(sent, k + 1) = [ctx |-> kv, lines |-> stdout']
        BY <1>3, <1>4, <2>1, ReplyStop, Zenon
    <2>3. Upto(sent, k + 1).ctx = kv /\ Upto(sent, k + 1).lines = stdout'
        BY <2>2
    <2>4. At(k + 1, job, stdout, kv)'
        <3>1. QED
            BY <1>1, <2>1, <2>3, Zenon DEF At, Working
    <2>5. QED
        BY <1>1, <1>4, <2>1, <2>4, Zenon DEF IInv
<1>7. CASE Refuse
    <2>1. /\ ~Working /\ stdin # <<>> /\ ~Head(stdin).stop /\ ~Fits(Head(stdin))
          /\ stdout' = Append(stdout, ErrorLine(Head(stdin).id))
          /\ stdin' = Tail(stdin) /\ kv' = Base(Head(stdin)) /\ job' = job
        BY <1>7 DEF Refuse
    <2>2. Upto(sent, k + 1) = [ctx |-> kv', lines |-> stdout']
        BY <1>3, <1>4, <2>1, ReplyRefused, Zenon
    <2>3. Upto(sent, k + 1).ctx = kv' /\ Upto(sent, k + 1).lines = stdout'
        BY <2>2
    <2>4. At(k + 1, job, stdout, kv)'
        BY <1>1, <2>1, <2>3, Zenon DEF At, Working
    <2>5. QED
        BY <1>1, <1>4, <2>1, <2>4, Zenon DEF IInv
<1>8. CASE Accept
    <2>1. /\ ~Working /\ stdin # <<>> /\ ~Head(stdin).stop /\ Fits(Head(stdin))
          /\ kv' = Base(Head(stdin)) \o Head(stdin).ids
          /\ job' = [id |-> Head(stdin).id, n |-> Head(stdin).n, n_out |-> 0,
                     go |-> Head(stdin).n > 0 /\ Head(stdin).ids # <<>>]
          /\ stdin' = Tail(stdin) /\ stdout' = stdout
        BY <1>8 DEF Accept
    <2>2. /\ r \in Request /\ ~r.stop /\ ~NoRoom(s, r) /\ kv' = Context(s, r)
          /\ job' = [id |-> r.id, n |-> r.n, n_out |-> 0, go |-> r.n > 0 /\ r.ids # <<>>]
          /\ stdout' = s.lines
        BY <1>4, <2>1, Zenon DEF Context
    <2>3. Doing(s, r, <<>>, job', stdout', kv')
        BY <1>3, <2>2, DoingAccept, Zenon
    <2>4. job'.id # 0
        BY <2>2, RequestTypes
    <2>5. At(k + 1, job, stdout, kv)'
        <3>1. <<>> \in Seq(Token)
            OBVIOUS
        <3>2. QED
            BY <1>1, <1>4, <2>1, <2>3, <2>4, <3>1, Zenon DEF At, s, r
    <2>6. QED
        BY <1>1, <1>4, <2>1, <2>5, Zenon DEF IInv
<1>9. ASSUME NEW t \in Token, Emit(t)
      PROVE  IInv'
    <2>1. /\ Working /\ job.go /\ t \in Decode(kv) /\ stdin' = stdin
          /\ stdout' = Append(stdout, TokLine(job.id, t))
          /\ job' = [job EXCEPT !.n_out = @ + 1, !.go = ~Leaves(t)]
          /\ kv' = IF FeedsLast \/ ~Leaves(t) THEN Append(kv, t) ELSE kv
        BY <1>9 DEF Emit
    <2>2. PICK p \in Seq(Token) : Doing(z, q, p, job, stdout, kv)
        BY <1>5, <2>1
    <2>3. Leaves(t) \in BOOLEAN /\ (Leaves(t) <=> (t \in Eos \/ job.n_out + 1 >= job.n))
        BY DEF Leaves
    <2>4. Doing(z, q, Append(p, t), job', stdout', kv')
        <3>1. \A x, y, jb2 :
                Doing(z, q, p, job, x, y) /\ job.go /\ t \in Decode(y)
                /\ jb2 = [job EXCEPT !.n_out = @ + 1, !.go = ~Leaves(t)] =>
                    Doing(z, q, Append(p, t), jb2, Append(x, TokLine(job.id, t)),
                          IF FeedsLast \/ ~Leaves(t) THEN Append(y, t) ELSE y)
            BY <1>1, <1>5, <2>1, <2>2, <2>3, DoingEmit
        <3>2. QED
            BY <2>1, <2>2, <3>1
    <2>5. Append(p, t) \in Seq(Token)
        BY <2>2, TokenMore
    <2>6. job'.id # 0
        BY <1>1, <2>1 DEF Job, Working
    <2>7. At(k, job, stdout, kv)'
        BY <1>1, <1>5, <2>1, <2>4, <2>5, <2>6, Zenon DEF At, z, q
    <2>8. QED
        BY <1>1, <1>2, <2>1, <2>7, Zenon DEF IInv
<1>10. CASE Finish
    <2>1. /\ Working /\ ~job.go /\ stdin' = stdin /\ kv' = kv /\ job' = NoJob
          /\ stdout' = Append(stdout, DoneLine(job.id, job.n_out))
        BY <1>10 DEF Finish
    <2>2. PICK p \in Seq(Token) : Doing(z, q, p, job, stdout, kv)
        BY <1>5, <2>1
    <2>3. stdout' = s.lines /\ kv' = s.ctx
        <3>1. /\ Append(stdout, DoneLine(job.id, job.n_out)) = Reply(z, q).lines
              /\ kv = Reply(z, q).ctx
            <4>1. z \in Served1 /\ q \in Request /\ job \in Job /\ ~job.go
                BY <1>1, <1>5, <2>1, Zenon
            <4>2. p \in Seq(Token) /\ Doing(z, q, p, job, stdout, kv)
                BY <2>2, Zenon
            <4>3. \A out, c :
                    Doing(z, q, p, job, out, c) =>
                        /\ Append(out, DoneLine(job.id, job.n_out)) = Reply(z, q).lines
                        /\ c = Reply(z, q).ctx
                BY <4>1, <4>2, DoingFinish
            <4>4. QED
                BY <4>2, <4>3
        <3>2. s = Reply(z, q)
            BY <1>5, <2>1, Zenon
        <3>3. QED
            BY <2>1, <3>1, <3>2, Zenon
    <2>4. job'.id = 0
        BY <2>1 DEF NoJob
    <2>5. At(k, job, stdout, kv)'
        BY <1>1, <2>3, <2>4, Zenon DEF At, s
    <2>6. QED
        BY <1>1, <1>2, <2>1, <2>5, Zenon DEF IInv
<1>11. QED
    BY <1>6, <1>7, <1>8, <1>9, <1>10 DEF Serves, ServeStep

LEMMA IInvStep ==
    ASSUME Deterministic, IInv, [Next]_vars
    PROVE  IInv'
<1>1. Types /\ Types' /\ sent \in Seq(Request)
    <2>1. Types
        BY DEF IInv
    <2>2. QED
        BY <2>1, TypesStep DEF Types
<1>2. ASSUME NEW ids \in Inputs, NEW n \in Counts, NEW reset \in BOOLEAN, Ask(ids, n, reset)
      PROVE  IInv'
    <2> DEFINE r == [id |-> Len(sent) + 1, ids |-> ids, n |-> n, reset |-> reset,
                     stop |-> FALSE]
    <2>1. Len(sent) + 1 \in Nat \ {0} /\ ids \in Seq(Token) /\ n \in Nat
        BY <1>1
    <2>2. r \in Request
        BY <2>1 DEF Request
    <2>3. Write(r)
        BY <1>2 DEF Ask
    <2>4. QED
        BY <1>1, <2>2, <2>3, WriteStep
<1>3. ASSUME NEW i \in 1..MaxSent, AskToStop(i)
      PROVE  IInv'
    <2> DEFINE r == [id |-> i, ids |-> <<>>, n |-> 0, reset |-> FALSE, stop |-> TRUE]
    <2>1. i \in Nat \ {0} /\ <<>> \in Seq(Token)
        OBVIOUS
    <2>2. r \in Request
        BY <2>1 DEF Request
    <2>3. Write(r)
        BY <1>3 DEF AskToStop
    <2>4. QED
        BY <1>1, <2>2, <2>3, WriteStep
<1>4. CASE Serves
    BY <1>1, <1>4, ServeKeeps
<1>5. CASE Dies \/ UNCHANGED vars
    <2>1. stdin' = stdin /\ stdout' = stdout /\ kv' = kv /\ job' = job /\ sent' = sent
        BY <1>5 DEF Dies, Exit, vars, engineVars
    <2>2. QED
        BY <1>1, <2>1, Zenon DEF IInv, At
<1>6. QED
    BY <1>2, <1>3, <1>4, <1>5 DEF Next

\* For a network that never ties: whatever a client pipelines, warm or cold,
\* refused, empty or `stop`, and wherever the process dies, the lines printed
\* are a prefix of the replies to the requests one after the other (the serve
\* loops of qwen.c, olmoe.c and gemma.c).
THEOREM SerialAnswers ==
    ASSUME Deterministic
    PROVE  Spec => []AnswersAreSerial
<1>1. Init => IInv
    <2> SUFFICES ASSUME Init
                 PROVE  IInv
        OBVIOUS
    <2>1. /\ alive = TRUE /\ stdin = <<>> /\ stdout = <<>> /\ kv = <<>> /\ job = NoJob
          /\ sent = <<>>
        BY DEF Init, FreshEngine
    <2>2. NoJob \in Job /\ NoJob.id = 0
        BY DEF NoJob, Job
    <2>3. Types
        BY <2>1, <2>2, EmptySeq DEF Types, EngineTypeOK
    <2>4. /\ Len(<<>>) = 0 /\ SubSeq(<<>>, 0 + 1, 0) = <<>> /\ SubSeq(<<>>, 1, 0) = <<>>
          /\ 0 \in 0..0
        OBVIOUS
    <2>5. Upto(sent, 0).lines = <<>> /\ Upto(sent, 0).ctx = <<>>
        <3>1. SubSeq(sent, 1, 0) = <<>>
            BY <2>1, <2>4, Zenon
        <3>2. Upto(sent, 0) = Fresh
            BY <3>1, ServedNone, Zenon DEF Upto
        <3>3. Fresh.lines = <<>> /\ Fresh.ctx = <<>>
            BY DEF Fresh
        <3>4. QED
            BY <3>2, <3>3, Zenon
    <2>6. At(0, job, stdout, kv)
        BY <2>1, <2>2, <2>5, Zenon DEF At
    <2>7. QED
        BY <2>1, <2>3, <2>4, <2>6, Zenon DEF IInv
<1>2. IInv /\ [Next]_vars => IInv'
    BY IInvStep
<1>3. IInv => AnswersAreSerial
    <2> SUFFICES ASSUME IInv
                 PROVE  IsPrefix(stdout, Replies)
        BY DEF AnswersAreSerial
    <2>1. /\ Types /\ sent \in Seq(Request) /\ stdout \in Seq(Line) /\ job \in Job
          /\ kv \in Seq(Token)
        BY DEF IInv, Types, EngineTypeOK
    <2>2. PICK k \in 0..Len(sent) : At(k, job, stdout, kv)
        BY DEF IInv
    <2>3. Replies = Upto(sent, Len(sent)).lines
        <3>1. SubSeq(sent, 1, Len(sent)) = sent
            BY <2>1
        <3>2. QED
            BY <3>1, Zenon DEF Replies, Upto, Served, Fresh
    <2>4. /\ Upto(sent, k) \in Served1
          /\ Grows(Upto(sent, k).lines, Upto(sent, Len(sent)).lines)
          /\ Len(sent) \in 0..Len(sent)
        BY <2>1, UptoType
    <2>5. Upto(sent, Len(sent)) \in Served1
        BY <2>1, <2>4, UptoType
    <2>6. Upto(sent, k).lines \in Seq(Line) /\ Upto(sent, Len(sent)).lines \in Seq(Line)
        BY <2>4, <2>5 DEF Served1
    <2>7. Grows(stdout, Upto(sent, k).lines)
        <3>1. CASE job.id = 0
            BY <2>1, <2>2, <2>6, <3>1, GrowsLaws DEF At
        <3>2. CASE job.id # 0
            <4> DEFINE z == Upto(sent, k - 1)
                       q == sent[k]
            <4>1. PICK p \in Seq(Token) : Doing(z, q, p, job, stdout, kv)
                BY <2>2, <3>2 DEF At
            <4>2. z \in Served1 /\ q \in Request /\ Upto(sent, k) = Reply(z, q)
                BY <2>1, <2>2, <3>2, Before DEF At
            <4> HIDE DEF z, q
            <4>3. QED
                BY <2>1, <4>1, <4>2, DoingGrows
        <3>3. QED
            BY <3>1, <3>2
    <2>8. Grows(stdout, Replies)
        BY <2>1, <2>3, <2>4, <2>6, <2>7, GrowsLaws
    <2>9. QED
        BY <2>1, <2>3, <2>6, <2>8, GrowsLaws
<1>4. QED
    BY <1>1, <1>2, <1>3, PTL DEF Spec

=============================================================================
