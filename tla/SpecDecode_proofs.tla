-------------------------- MODULE SpecDecode_proofs ---------------------------
(***************************************************************************)
(* Speculation is invisible, for any vocabulary, network, draft length and *)
(* context size: proofs about SpecDecode.                                  *)
(***************************************************************************)
EXTENDS SpecDecode, SequenceTheorems, InductionLemmas, TLAPS

USE SpecAssumption

(***************************************************************************)
(* The inductive invariant. The properties are about the context and about *)
(* the answer; to go from one iteration to the next it also takes that a   *)
(* loop that goes on has tokens left, of which a draft takes all but one,  *)
(* and that the room the request asked for is still there.                 *)
(***************************************************************************)
Room == go => Len(out) < n /\ Len(start) + n + SpecK < MaxT

IInv ==
    /\ GreedyEquivalent
    /\ ContextIsConversation
    /\ KvFits
    /\ Room

(***************************************************************************)
(* Lemmas about sequences.                                                 *)
(***************************************************************************)
\* A prefix of a sequence of tokens.
LEMMA PrefixType ==
    ASSUME NEW s \in Seq(Token), NEW k \in 0..Len(s)
    PROVE  /\ SubSeq(s, 1, k) \in Seq(Token) /\ Len(SubSeq(s, 1, k)) = k
           /\ \A i \in 1..k : SubSeq(s, 1, k)[i] = s[i]
OBVIOUS

\* The prefixes of a concatenation: the ones of its first part, and the first
\* part with the ones of the second.
LEMMA PrefixOfConcat ==
    ASSUME NEW s \in Seq(Token), NEW t \in Seq(Token)
    PROVE  /\ \A k \in 0..Len(s) : SubSeq(s \o t, 1, k) = SubSeq(s, 1, k)
           /\ \A k \in 0..Len(t) : SubSeq(s \o t, 1, Len(s) + k) = s \o SubSeq(t, 1, k)
OBVIOUS

\* One token more, and a draft more, at the end of a sequence.
LEMMA ConcatAppend ==
    ASSUME NEW s \in Seq(Token), NEW t \in Seq(Token), NEW e \in Token
    PROVE  Append(s \o t, e) = s \o Append(t, e)
OBVIOUS

Longer(t, e, d, r) ==
    /\ r = Append(t, e) \o d
    /\ r \in Seq(Token) /\ Len(r) = Len(t) + 1 + Len(d)
    /\ \A i \in 1..Len(t) : r[i] = t[i]
    /\ r[Len(t) + 1] = e
    /\ \A i \in 1..Len(d) : r[Len(t) + 1 + i] = d[i]

LEMMA ConcatMore ==
    ASSUME NEW t \in Seq(Token), NEW e \in Token, NEW d \in Seq(Token)
    PROVE  Longer(t, e, d, t \o <<e>> \o d)
<1> DEFINE a == Append(t, e)
<1>1. /\ a \in Seq(Token) /\ Len(a) = Len(t) + 1 /\ a[Len(t) + 1] = e
      /\ \A i \in 1..Len(t) : a[i] = t[i]
    OBVIOUS
<1>2. t \o <<e>> = a
    OBVIOUS
<1> HIDE DEF a
<1>3. a \o d \in Seq(Token) /\ Len(a \o d) = Len(t) + 1 + Len(d)
    <2>1. a \o d \in Seq(Token) /\ Len(a \o d) = Len(a) + Len(d)
        BY <1>1, ConcatProperties, Zenon
    <2>2. QED
        BY <1>1, <2>1, Zenon
<1>4. \A i \in 1..Len(t) : (a \o d)[i] = t[i]
    BY <1>1
<1>5. (a \o d)[Len(t) + 1] = e
    BY <1>1
<1>6. \A i \in 1..Len(d) : (a \o d)[Len(t) + 1 + i] = d[i]
    BY <1>1
<1>7. QED
    BY <1>2, <1>3, <1>4, <1>5, <1>6, Zenon DEF a, Longer

\* What a draft is: tokens.
LEMMA DraftType ==
    ASSUME NEW h \in Seq(Token)
    PROVE  Draft(h) \in Seq(Token)
<1>1. CASE Matches(h) = {}
    BY <1>1 DEF Draft
<1>2. CASE Matches(h) # {}
    <2> DEFINE j == Max(Matches(h))
               m == Min({j + SpecK, Len(h)})
    <2>1. /\ Matches(h) \subseteq Nat /\ Len(h) \in Nat
          /\ \A i \in Matches(h) : i <= Len(h)
        BY DEF Matches
    <2>2. j \in Matches(h)
        BY <1>2, <2>1, GreatestNumber
    <2>3. j \in Nat /\ j <= Len(h)
        BY <2>1, <2>2
    <2>4. m \in Nat /\ m <= Len(h)
        <3>1. j + SpecK \in Nat /\ Len(h) \in Nat
            BY <2>1, <2>3
        <3>2. QED
            BY <3>1, MinOfTwo
    <2>5. SubSeq(h, j + 1, m) \in Seq(Token)
        <3> HIDE DEF j, m
        <3>1. QED
            BY <2>3, <2>4
    <2>6. QED
        BY <1>2, <2>5 DEF Draft
<1>3. QED
    BY <1>1, <1>2

\* A draft cut leaves a token of the answer.
LEMMA CutDraftType ==
    ASSUME TypeOK, NEW best \in Token, n - Len(out) - 2 \in Nat
    PROVE  /\ CutDraft(best) \in Seq(Token)
           /\ Len(CutDraft(best)) <= n - Len(out) - 2
<1> DEFINE d == IF Speculates THEN Draft(Append(hist, best)) ELSE <<>>
           m == Min({Len(d), n - Len(out) - 2})
<1>1. d \in Seq(Token)
    <2>1. Append(hist, best) \in Seq(Token)
        BY DEF TypeOK
    <2>2. Draft(Append(hist, best)) \in Seq(Token)
        BY <2>1, DraftType, Zenon
    <2>3. <<>> \in Seq(Token)
        BY EmptySeq
    <2>4. QED
        BY <2>2, <2>3, Zenon
<1>2. m \in Nat /\ m <= Len(d) /\ m <= n - Len(out) - 2
    <2>1. Len(d) \in Nat
        BY <1>1
    <2> HIDE DEF d
    <2>2. QED
        BY <2>1, MinOfTwo
<1>3. SubSeq(d, 1, m) \in Seq(Token) /\ Len(SubSeq(d, 1, m)) = m
    <2> HIDE DEF d, m
    <2>1. QED
        BY <1>1, <1>2, PrefixType
<1>4. CutDraft(best) = SubSeq(d, 1, m)
    BY DEF CutDraft
<1>5. QED
    <2> HIDE DEF d, m
    <2>1. QED
        BY <1>2, <1>3, <1>4

\* The context in front of the positions that count.
LEMMA ContextType ==
    ASSUME TypeOK
    PROVE  Context \in Seq(Token) /\ Len(Context) = pos
BY PrefixType DEF TypeOK, Context

(***************************************************************************)
(* Greedy answers.                                                         *)
(***************************************************************************)
\* Each token of o is a choice after s and the tokens before it.
Chosen(s, o) == \A k \in DOMAIN o : o[k] \in Decode(s \o SubSeq(o, 1, k - 1))

\* A choice more.
LEMMA ChosenOne ==
    ASSUME NEW s \in Seq(Token), NEW o \in Seq(Token), Chosen(s, o),
           NEW t \in Token, t \in Decode(s \o o)
    PROVE  Chosen(s, Append(o, t))
<1> DEFINE o2 == Append(o, t)
<1>1. SUFFICES ASSUME NEW k \in DOMAIN o2
               PROVE  o2[k] \in Decode(s \o SubSeq(o2, 1, k - 1))
    BY DEF Chosen
<1>2. CASE k \in DOMAIN o
    <2>1. SubSeq(o2, 1, k - 1) = SubSeq(o, 1, k - 1) /\ o2[k] = o[k]
        BY <1>2
    <2>2. QED
        BY <1>2, <2>1 DEF Chosen
<1>3. CASE k = Len(o) + 1
    <2>1. SubSeq(o2, 1, k - 1) = o /\ o2[k] = t
        BY <1>3
    <2>2. QED
        BY <2>1
<1>4. QED
    BY <1>2, <1>3

\* The tokens of a draft that were checked one after the other.
LEMMA ChosenMore ==
    ASSUME NEW s \in Seq(Token), NEW o \in Seq(Token), Chosen(s, o),
           NEW e \in Seq(Token),
           \A i \in 1..Len(e) : e[i] \in Decode(s \o o \o SubSeq(e, 1, i - 1))
    PROVE  Chosen(s, o \o e)
<1> DEFINE o2 == o \o e
<1>1. SUFFICES ASSUME NEW k \in DOMAIN o2
               PROVE  o2[k] \in Decode(s \o SubSeq(o2, 1, k - 1))
    BY DEF Chosen
<1>2. k \in 1..(Len(o) + Len(e))
    OBVIOUS
<1>3. CASE k <= Len(o)
    <2>1. SubSeq(o2, 1, k - 1) = SubSeq(o, 1, k - 1) /\ o2[k] = o[k] /\ k \in DOMAIN o
        BY <1>2, <1>3, PrefixOfConcat
    <2>2. QED
        BY <2>1 DEF Chosen
<1>4. CASE k > Len(o)
    <2> DEFINE i == k - Len(o)
    <2>1. i \in 1..Len(e) /\ i - 1 \in 0..Len(e) /\ Len(o) + (i - 1) = k - 1
        BY <1>2, <1>4
    <2>2. SubSeq(o2, 1, k - 1) = o \o SubSeq(e, 1, i - 1)
        <3> HIDE DEF i
        <3>1. SubSeq(o \o e, 1, Len(o) + (i - 1)) = o \o SubSeq(e, 1, i - 1)
            BY <2>1, PrefixOfConcat
        <3>2. QED
            BY <2>1, <3>1
    <2>3. o2[k] = e[i]
        BY <1>2, <1>4
    <2>4. s \o (o \o SubSeq(e, 1, i - 1)) = s \o o \o SubSeq(e, 1, i - 1)
        <3> DEFINE f == SubSeq(e, 1, i - 1)
        <3>1. f \in Seq(Token)
            BY <2>1, PrefixType
        <3> HIDE DEF f
        <3>2. (s \o o) \o f = s \o (o \o f)
            BY <3>1
        <3>3. QED
            BY <3>2 DEF f
    <2>5. QED
        BY <2>1, <2>2, <2>3, <2>4
<1>5. QED
    BY <1>2, <1>3, <1>4

(***************************************************************************)
(* The steps.                                                              *)
(***************************************************************************)
\* A request, taken or refused, starts from a prefix of what is stored.
LEMMA RequestStep ==
    ASSUME TypeOK, IInv, NEW ids \in Inputs, NEW m \in Counts, NEW reset \in BOOLEAN,
           Refuse(ids, m, reset) \/ Prefill(ids, m, reset)
    PROVE  (TypeOK /\ IInv)'
<1> DEFINE b == Base(reset)
           base == SubSeq(kv, 1, b)
<1>1. /\ b \in 0..Len(kv) /\ b \in Nat /\ Recalled(reset) \in Seq(Token)
      /\ ids \in Seq(Token) /\ m \in Nat /\ kv \in Seq(Token) /\ Len(ids) \in Nat
    BY EmptySeq DEF TypeOK, Base, Recalled
<1>2. base \in Seq(Token) /\ Len(base) = b
    BY <1>1, PrefixType
<1>3. <<>> \in Seq(Token) /\ DOMAIN <<>> = {} /\ Len(<<>>) = 0 /\ base \o <<>> = base
    BY <1>2, EmptySeq, ConcatEmptySeq
<1>4. CASE Refuse(ids, m, reset)
    <2>1. /\ ~go /\ pos' = b /\ hist' = Recalled(reset) /\ start' = base /\ n' = 0
          /\ out' = <<>> /\ kv' = kv /\ row' = row /\ go' = go
        BY <1>4 DEF Refuse
    <2>2. TypeOK'
        BY <1>1, <1>2, <1>3, <2>1 DEF TypeOK
    <2>3. Context' = base
        BY <2>1 DEF Context
    <2>4. QED
        BY <1>3, <2>1, <2>2, <2>3
        DEF IInv, GreedyEquivalent, ContextIsConversation, KvFits, Room
<1>5. CASE Prefill(ids, m, reset)
    <2> DEFINE full == base \o ids
    <2>1. /\ kv' = full /\ pos' = b + Len(ids) /\ hist' = Recalled(reset) \o ids
          /\ row' = full /\ go' = (m > 0 /\ ids # <<>>) /\ start' = full
          /\ n' = (IF ids = <<>> THEN 0 ELSE m) /\ out' = <<>>
          /\ b + Len(ids) + m + SpecK < MaxT
        BY <1>5 DEF Prefill, Fits
    <2>2. full \in Seq(Token) /\ Len(full) = b + Len(ids) /\ full \o <<>> = full
        BY <1>1, <1>2, ConcatProperties, ConcatEmptySeq
    <2>3. TypeOK'
        <3>1. n' \in Nat /\ go' \in BOOLEAN
            BY <1>1, <2>1
        <3>2. pos' = Len(kv') /\ pos' \in Nat /\ hist' \in Seq(Token)
            BY <1>1, <2>1, <2>2, ConcatProperties
        <3> HIDE DEF full
        <3>3. QED
            BY <1>3, <2>1, <2>2, <3>1, <3>2 DEF TypeOK
    <2>4. Context' = full
        <3> HIDE DEF full
        <3>1. SubSeq(full, 1, Len(full)) = full
            BY <2>2, SubSeqFull
        <3>2. QED
            BY <2>1, <2>2, <3>1 DEF Context
    <2>5. KvFits' /\ (go' => Len(start') + n' + SpecK < MaxT)
        <3>1. n' \in Nat /\ n' <= m
            BY <1>1, <2>1
        <3>2. Len(kv') = b + Len(ids) /\ Len(start') = b + Len(ids)
            BY <2>1, <2>2
        <3>3. b + Len(ids) + m + SpecK < MaxT
            BY <2>1
        <3> HIDE DEF b, full
        <3>4. b + Len(ids) <= MaxT /\ b + Len(ids) + n' + SpecK < MaxT
            BY <1>1, <3>1, <3>3
        <3>5. QED
            BY <3>2, <3>4 DEF KvFits
    <2>6. go' => Len(out') < n'
        BY <1>3, <2>1
    <2>7. ~go' => Len(out') = n'
        <3>1. ~go' => n' = 0
            <4>1. CASE ids = <<>>
                BY <2>1, <4>1
            <4>2. CASE ids # <<>>
                <5>1. ~go' => ~(m > 0)
                    BY <2>1, <4>2, Zenon
                <5>2. n' = m
                    BY <2>1, <4>2
                <5>3. QED
                    BY <1>1, <5>1, <5>2
            <4>3. QED
                BY <4>1, <4>2
        <3>2. QED
            BY <1>3, <2>1, <3>1
    <2>8. GreedyEquivalent'
        <3>1. Len(out') <= n' /\ DOMAIN out' = {}
            BY <1>1, <1>3, <2>1
        <3>2. QED
            BY <2>7, <3>1 DEF GreedyEquivalent
    <2>9. ContextIsConversation'
        BY <2>1, <2>2, <2>4 DEF ContextIsConversation
    <2>10. QED
        BY <2>3, <2>5, <2>6, <2>8, <2>9 DEF IInv, Room
<1>6. QED
    BY <1>4, <1>5

\* What the loop knows when it goes on.
LEMMA GoingOn ==
    ASSUME TypeOK, IInv, go
    PROVE  /\ row = Context /\ Context = start \o out /\ Len(Context) = pos
           /\ pos = Len(start) + Len(out)
           /\ Len(out) < n /\ Len(start) + n + SpecK < MaxT
           /\ Chosen(start, out)
           /\ \A k \in DOMAIN out : out[k] \notin Eos
<1>1. /\ row = Context /\ Context = start \o out /\ Len(Context) = pos
      /\ start \in Seq(Token) /\ out \in Seq(Token)
    BY ContextType DEF IInv, ContextIsConversation, TypeOK
<1>2. pos = Len(start) + Len(out)
    BY <1>1
<1>3. QED
    BY <1>1, <1>2 DEF IInv, GreedyEquivalent, Room, Chosen

\* The last token is printed, and does not enter the context.
LEMMA LeaveStep ==
    ASSUME TypeOK, IInv, NEW best \in Token, Leave(best)
    PROVE  (TypeOK /\ IInv)'
<1>1. /\ go /\ best \in Decode(row) /\ Leaves(best)
      /\ out' = Append(out, best) /\ hist' = Append(hist, best) /\ go' = FALSE
      /\ kv' = kv /\ pos' = pos /\ row' = row /\ start' = start /\ n' = n
    BY DEF Leave
<1>2. out \in Seq(Token) /\ hist \in Seq(Token) /\ start \in Seq(Token) /\ n \in Nat
    BY DEF TypeOK
<1>3. /\ out' \in Seq(Token) /\ Len(out') = Len(out) + 1 /\ out' # <<>>
      /\ out'[Len(out')] = best /\ Front(out') = out
      /\ \A k \in DOMAIN out : out'[k] = out[k]
      /\ DOMAIN out' = 1..(Len(out) + 1) /\ DOMAIN out = 1..Len(out)
    BY <1>1, <1>2 DEF Front
<1>4. TypeOK'
    <2>1. hist' \in Seq(Token)
        BY <1>1, <1>2
    <2>2. QED
        BY <1>1, <1>3, <2>1 DEF TypeOK
<1>5. Chosen(start, out')
    BY <1>1, <1>2, GoingOn, ChosenOne
<1>6. \A k \in DOMAIN out' : out'[k] \in Eos => k = Len(out')
    BY <1>2, <1>3, GoingOn, <1>1
<1>7. Len(out') <= n /\ (Len(out') = n \/ best \in Eos)
    <2>1. Len(out) < n /\ Len(out) \in Nat
        BY <1>1, <1>2, GoingOn
    <2>2. QED
        BY <1>1, <1>2, <1>3, <2>1 DEF Leaves
<1>8. GreedyEquivalent'
    BY <1>1, <1>3, <1>5, <1>6, <1>7 DEF GreedyEquivalent, Chosen, Last
<1>9. ContextIsConversation'
    <2>1. Context' = Context /\ Context = start \o out
        BY <1>1, GoingOn DEF Context
    <2>2. QED
        BY <1>1, <1>3, <2>1 DEF ContextIsConversation
<1>10. KvFits' /\ Room'
    BY <1>1 DEF IInv, KvFits, Room
<1>11. QED
    BY <1>4, <1>8, <1>9, <1>10 DEF IInv

\* A token printed enters the context, and the loop goes on.
LEMMA StepStep ==
    ASSUME TypeOK, IInv, NEW best \in Token, Step(best)
    PROVE  (TypeOK /\ IInv)'
<1>1. /\ go /\ best \in Decode(row) /\ ~Leaves(best)
      /\ out' = Append(out, best) /\ hist' = Append(hist, best) /\ go' = go
      /\ kv' = Append(Context, best) /\ pos' = pos + 1 /\ row' = kv'
      /\ start' = start /\ n' = n
    BY DEF Step
<1>2. /\ out \in Seq(Token) /\ hist \in Seq(Token) /\ start \in Seq(Token) /\ n \in Nat
      /\ Context \in Seq(Token) /\ Len(Context) = pos /\ pos \in Nat
    BY ContextType DEF TypeOK
<1>3. /\ out' \in Seq(Token) /\ Len(out') = Len(out) + 1
      /\ \A k \in DOMAIN out : out'[k] = out[k]
      /\ out'[Len(out')] = best
      /\ DOMAIN out' = 1..(Len(out) + 1) /\ DOMAIN out = 1..Len(out)
    BY <1>1, <1>2
<1>4. /\ kv' \in Seq(Token) /\ Len(kv') = pos + 1 /\ Context' = kv'
      /\ kv' = start \o out'
    <2>1. kv' \in Seq(Token) /\ Len(kv') = pos + 1
        BY <1>1, <1>2
    <2>2. SubSeq(kv', 1, Len(kv')) = kv'
        BY <2>1, SubSeqFull
    <2>3. Context' = kv'
        BY <1>1, <2>1, <2>2 DEF Context
    <2>4. Context = start \o out
        BY <1>1, GoingOn
    <2>5. Append(start \o out, best) = start \o Append(out, best)
        BY <1>2, ConcatAppend, Zenon
    <2>6. QED
        BY <1>1, <2>1, <2>3, <2>4, <2>5
<1>5. TypeOK'
    <2>1. hist' \in Seq(Token) /\ row' \in Seq(Token) /\ pos' \in 0..Len(kv')
        BY <1>1, <1>2, <1>4
    <2>2. QED
        BY <1>1, <1>2, <1>3, <1>4, <2>1 DEF TypeOK
<1>6. Chosen(start, out')
    BY <1>1, <1>2, GoingOn, ChosenOne
<1>7. \A k \in DOMAIN out' : out'[k] \notin Eos
    BY <1>1, <1>2, <1>3, GoingOn DEF Leaves
<1>8. Len(out') < n
    BY <1>1, <1>2, <1>3 DEF Leaves
<1>9. GreedyEquivalent'
    BY <1>1, <1>2, <1>3, <1>6, <1>7, <1>8 DEF GreedyEquivalent, Chosen
<1>10. ContextIsConversation'
    BY <1>1, <1>4 DEF ContextIsConversation
<1>11. KvFits' /\ Room'
    <2>1. Len(start) + n + SpecK < MaxT /\ pos = Len(start) + Len(out) /\ Len(out) < n
        BY <1>1, GoingOn
    <2>2. Len(start) \in Nat /\ Len(out) \in Nat
        BY <1>2
    <2>3. QED
        BY <1>1, <1>2, <1>4, <1>8, <2>1, <2>2 DEF KvFits, Room
<1>12. QED
    BY <1>5, <1>9, <1>10, <1>11 DEF IInv

\* A draft is verified: what was accepted is printed, and the positions of what
\* was not do not count any more.
LEMMA VerifyStep ==
    ASSUME TypeOK, IInv, NEW best \in Token, NEW acc \in 0..SpecK, Verify(best, acc)
    PROVE  (TypeOK /\ IInv)'
<1> DEFINE d == CutDraft(best)
           e == SubSeq(d, 1, acc)
           o1 == Append(out, best)
<1>1. /\ go /\ best \in Decode(row) /\ ~Leaves(best)
      /\ acc \in 0..Len(d) /\ Accepts(best, d, acc)
      /\ out' = out \o <<best>> \o e /\ hist' = hist \o <<best>> \o e
      /\ kv' = Context \o <<best>> \o d /\ pos' = pos + (1 + acc)
      /\ row' = SubSeq(kv', 1, pos + 1 + acc)
      /\ go' = ~(acc > 0 /\ d[acc] \in Eos)
      /\ start' = start /\ n' = n
    BY DEF Verify, VerifyKeeping
<1>2. /\ out \in Seq(Token) /\ hist \in Seq(Token) /\ start \in Seq(Token) /\ n \in Nat
      /\ Context \in Seq(Token) /\ Len(Context) = pos /\ pos \in Nat
      /\ Len(out) \in Nat /\ Len(start) \in Nat
    BY ContextType DEF TypeOK
<1>3. /\ row = Context /\ Context = start \o out /\ pos = Len(start) + Len(out)
      /\ Len(start) + n + SpecK < MaxT /\ Chosen(start, out)
      /\ \A k \in DOMAIN out : out[k] \notin Eos
    BY <1>1, GoingOn
<1>4. best \notin Eos /\ Len(out) + 1 < n
    BY <1>1, <1>2 DEF Leaves
<1>5. d \in Seq(Token) /\ Len(d) <= n - Len(out) - 2 /\ Len(d) \in Nat
    <2>1. n - Len(out) - 2 \in Nat
        BY <1>2, <1>4
    <2>2. d \in Seq(Token) /\ Len(d) <= n - Len(out) - 2
        BY <2>1, CutDraftType
    <2> HIDE DEF d
    <2>3. QED
        BY <2>2
<1> HIDE DEF d
<1>6. /\ e \in Seq(Token) /\ Len(e) = acc /\ acc \in Nat /\ acc <= Len(d)
      /\ \A i \in 1..acc : e[i] = d[i]
    BY <1>1, <1>5, PrefixType
<1> HIDE DEF e
<1>7. /\ out' = o1 \o e /\ out' \in Seq(Token) /\ Len(out') = Len(out) + 1 + acc
      /\ \A i \in 1..Len(out) : out'[i] = out[i]
      /\ out'[Len(out) + 1] = best
      /\ \A i \in 1..acc : out'[Len(out) + 1 + i] = d[i]
    <2>1. Longer(out, best, e, out \o <<best>> \o e)
        BY <1>2, <1>6, ConcatMore, Zenon
    <2>2. QED
        BY <1>1, <1>6, <2>1, Zenon DEF Longer
<1>8. /\ kv' = Append(Context, best) \o d /\ kv' \in Seq(Token)
      /\ Len(kv') = pos + 1 + Len(d)
    <2>1. Longer(Context, best, d, Context \o <<best>> \o d)
        BY <1>2, <1>5, ConcatMore, Zenon
    <2>2. QED
        BY <1>1, <1>2, <2>1, Zenon DEF Longer
<1>9. Context' = start \o out' /\ row' = Context'
    <2>1. pos' = pos + 1 + acc /\ Len(Append(Context, best)) = pos + 1
        BY <1>1, <1>2, <1>6
    <2>2. Append(Context, best) \in Seq(Token) /\ acc \in 0..Len(d)
        BY <1>1, <1>2
    <2>3. SubSeq(kv', 1, pos + 1 + acc) = Append(Context, best) \o e
        <3> DEFINE c1 == Append(Context, best)
        <3>1. SubSeq(c1 \o d, 1, Len(c1) + acc) = c1 \o SubSeq(d, 1, acc)
            BY <1>5, <2>2, PrefixOfConcat, Zenon
        <3>2. QED
            BY <1>8, <2>1, <3>1, Zenon DEF e
    <2>4. Append(Context, best) = start \o o1
        BY <1>2, <1>3, ConcatAppend
    <2>5. (start \o o1) \o e = start \o (o1 \o e)
        <3>1. o1 \in Seq(Token)
            BY <1>2
        <3> HIDE DEF o1
        <3>2. QED
            BY <1>2, <1>6, <3>1
    <2>6. SubSeq(kv', 1, pos + 1 + acc) = start \o out'
        BY <1>7, <2>3, <2>4, <2>5, Zenon
    <2>7. Context' = SubSeq(kv', 1, pos + 1 + acc)
        BY <2>1 DEF Context
    <2>8. QED
        BY <1>1, <2>6, <2>7
<1>10. TypeOK'
    <2>1. hist' \in Seq(Token)
        BY <1>1, <1>2, <1>6, ConcatMore DEF Longer
    <2>2. pos' \in 0..Len(kv')
        BY <1>1, <1>2, <1>5, <1>6, <1>8
    <2>3. row' \in Seq(Token)
        BY <1>2, <1>7, <1>9, ConcatProperties
    <2>4. go' \in BOOLEAN
        BY <1>1
    <2>5. QED
        BY <1>1, <1>2, <1>7, <1>8, <2>1, <2>2, <2>3, <2>4 DEF TypeOK
<1>11. Chosen(start, out')
    <2>1. o1 \in Seq(Token) /\ Chosen(start, o1)
        <3>1. best \in Decode(start \o out)
            BY <1>1, <1>3, Zenon
        <3>2. Chosen(start, o1)
            BY <1>2, <1>3, <3>1, ChosenOne, Zenon
        <3>3. QED
            BY <1>2, <3>2
    <2>2. \A i \in 1..Len(e) : e[i] \in Decode(start \o o1 \o SubSeq(e, 1, i - 1))
        <3>1. SUFFICES ASSUME NEW i \in 1..acc
                       PROVE  e[i] \in Decode(start \o o1 \o SubSeq(e, 1, i - 1))
            BY <1>6
        <3>2. d[i] \in Decode(Context \o <<best>> \o SubSeq(d, 1, i - 1))
            BY <1>1 DEF Accepts
        <3>3. Context \o <<best>> = start \o o1
            <4>1. Context \o <<best>> = Append(Context, best)
                BY <1>2
            <4>2. QED
                BY <1>2, <1>3, <4>1, ConcatAppend
        <3>4. SubSeq(d, 1, i - 1) = SubSeq(e, 1, i - 1)
            BY <1>5, <1>6 DEF e
        <3>5. QED
            BY <1>6, <3>2, <3>3, <3>4
    <2> HIDE DEF o1
    <2>3. QED
        BY <1>2, <1>6, <1>7, <2>1, <2>2, ChosenMore
<1>12. \A k \in DOMAIN out' : out'[k] \in Eos => k = Len(out') /\ ~go'
    <2>1. SUFFICES ASSUME NEW k \in DOMAIN out', out'[k] \in Eos
                   PROVE  k = Len(out') /\ ~go'
        OBVIOUS
    <2>2. k \in 1..(Len(out) + 1 + acc)
        BY <1>7
    <2>3. ~(k <= Len(out)) /\ k # Len(out) + 1
        BY <1>2, <1>3, <1>4, <1>7, <2>1, <2>2
    <2> DEFINE i == k - (Len(out) + 1)
    <2>4. i \in 1..acc /\ k = Len(out) + 1 + i
        BY <1>2, <1>6, <2>2, <2>3
    <2> HIDE DEF i
    <2>5. d[i] \in Eos
        BY <1>7, <2>1, <2>4
    <2>6. i = acc
        <3>1. \A q \in 1..(acc - 1) : d[q] \notin Eos
            BY <1>1 DEF Accepts
        <3>2. i \notin 1..(acc - 1)
            BY <2>5, <3>1, Zenon
        <3>3. QED
            BY <1>6, <2>4, <3>2
    <2>7. k = Len(out') /\ acc > 0 /\ d[acc] \in Eos
        BY <1>6, <1>7, <2>4, <2>5, <2>6
    <2>8. QED
        BY <1>1, <2>7, Zenon
<1>13. Len(out') < n
    BY <1>2, <1>5, <1>6, <1>7
<1>14. ~go' => out' # <<>> /\ Last(out') \in Eos
    <2>1. SUFFICES ASSUME ~go' PROVE out' # <<>> /\ Last(out') \in Eos
        OBVIOUS
    <2>2. acc > 0 /\ d[acc] \in Eos
        BY <1>1, <2>1, Zenon
    <2>3. Len(out') # 0 /\ acc \in 1..acc
        BY <1>2, <1>6, <1>7, <2>2
    <2>4. out'[Len(out')] = d[acc]
        BY <1>7, <2>3
    <2>5. QED
        BY <2>2, <2>3, <2>4 DEF Last
<1>15. GreedyEquivalent'
    <2>1. Len(out') <= n
        BY <1>2, <1>7, <1>13
    <2>2. QED
        BY <1>1, <1>11, <1>12, <1>14, <2>1 DEF GreedyEquivalent, Chosen
<1>16. ContextIsConversation'
    BY <1>1, <1>9 DEF ContextIsConversation
<1>17. KvFits' /\ Room'
    BY <1>1, <1>2, <1>3, <1>5, <1>8, <1>13 DEF KvFits, Room
<1>18. QED
    BY <1>10, <1>15, <1>16, <1>17 DEF IInv

-----------------------------------------------------------------------------
(***************************************************************************)
(* The theorems.                                                           *)
(***************************************************************************)
\* Every state of every behaviour satisfies the invariant, and is typed.
THEOREM Inductive == Spec => [](TypeOK /\ IInv)
<1>1. Init => TypeOK /\ IInv
    <2>1. <<>> \in Seq(Token) /\ DOMAIN <<>> = {} /\ Len(<<>>) = 0
        BY EmptySeq
    <2>2. SUFFICES ASSUME Init PROVE TypeOK /\ IInv
        OBVIOUS
    <2>3. TypeOK
        <3>1. 0 \in 0..Len(<<>>) /\ 0 \in Nat
            BY <2>1
        <3>2. QED
            BY <2>1, <2>2, <3>1, Zenon DEF Init, TypeOK
    <2>4. GreedyEquivalent
        BY <2>1, <2>2 DEF Init, GreedyEquivalent
    <2>5. Context = <<>> /\ start \o out = <<>>
        BY <2>1, <2>2 DEF Init, Context
    <2>6. QED
        BY <2>1, <2>2, <2>3, <2>4, <2>5
        DEF Init, IInv, ContextIsConversation, KvFits, Room
<1>2. TypeOK /\ IInv /\ [Next]_vars => (TypeOK /\ IInv)'
    <2>1. SUFFICES ASSUME TypeOK, IInv, [Next]_vars
                   PROVE  (TypeOK /\ IInv)'
        OBVIOUS
    <2>2. ASSUME NEW ids \in Inputs, NEW m \in Counts, NEW reset \in BOOLEAN,
                 Refuse(ids, m, reset) \/ Prefill(ids, m, reset)
          PROVE  (TypeOK /\ IInv)'
        BY <2>1, <2>2, RequestStep
    <2>3. ASSUME NEW best \in Token, Leave(best)
          PROVE  (TypeOK /\ IInv)'
        BY <2>1, <2>3, LeaveStep
    <2>4. ASSUME NEW best \in Token, Step(best)
          PROVE  (TypeOK /\ IInv)'
        BY <2>1, <2>4, StepStep
    <2>5. ASSUME NEW best \in Token, NEW acc \in 0..SpecK, Verify(best, acc)
          PROVE  (TypeOK /\ IInv)'
        BY <2>1, <2>5, VerifyStep
    <2>6. CASE UNCHANGED vars
        BY <2>1, <2>6
        DEF vars, TypeOK, IInv, GreedyEquivalent, ContextIsConversation, KvFits, Room,
            Context
    <2>7. QED
        BY <2>1, <2>2, <2>3, <2>4, <2>5, <2>6 DEF Next
<1>3. QED
    BY <1>1, <1>2, PTL DEF Spec

\* kv, the history, the logits' context and the answer are tokens, and no more
\* positions count than are stored (gemma.c:843-848, the rollback).
THEOREM TypeCorrect == Spec => []TypeOK
BY Inductive, PTL

\* Whatever is drafted and however much of it is accepted, the answer is the one
\* decoded token by token (gemma.c:825-826).
THEOREM DraftsInvisible == Spec => []GreedyEquivalent
<1>1. IInv => GreedyEquivalent
    BY DEF IInv
<1>2. QED
    BY <1>1, Inductive, PTL

\* The rollback leaves exactly the conversation, and the logits after it.
THEOREM RollbackIsExact == Spec => []ContextIsConversation
<1>1. IInv => ContextIsConversation
    BY DEF IInv
<1>2. QED
    BY <1>1, Inductive, PTL

\* No batch, with its rejected drafts, writes past the allocation.
THEOREM BatchesFit == Spec => []KvFits
<1>1. IInv => KvFits
    BY DEF IInv
<1>2. QED
    BY <1>1, Inductive, PTL

=============================================================================
