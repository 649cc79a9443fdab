-------------------------- MODULE WarmAppend_proofs --------------------------
(***************************************************************************)
(* Proofs about WarmAppend, for any vocabulary, network (Decode), prompts, *)
(* budgets and context size.                                               *)
(***************************************************************************)
EXTENDS WarmAppend, SequenceTheorems, FiniteSetTheorems, TLAPS

USE EngineAssumption, DaemonAssumption

(***************************************************************************)
(* Sequences and lines.                                                    *)
(***************************************************************************)
\* The lines the engine prints are lines.
LEMMA LineTypes ==
    /\ \A i \in Nat, t \in Token : TokLine(i, t) \in Line
    /\ \A i \in Nat, k \in Nat : DoneLine(i, k) \in Line
    /\ \A i \in Nat : ErrorLine(i) \in Line
    /\ \A l \in Line : l.id \in Nat /\ (l.kind = "tok" => l.tok \in Token)
BY DEF Line, TokLine, DoneLine, ErrorLine

\* A prefix of a sequence is not disturbed by appending to it.
LEMMA PrefixOfAppend ==
    ASSUME NEW S, NEW s \in Seq(S), NEW e \in S, NEW n \in 0..Len(s)
    PROVE  SubSeq(Append(s, e), 1, n) = SubSeq(s, 1, n)
OBVIOUS

\* A sequence is its own whole prefix.
LEMMA WholePrefix ==
    ASSUME NEW S, NEW s \in Seq(S)
    PROVE  SubSeq(s, 1, Len(s)) = s
BY SubSeqFull

\* A sequence with elements is not the empty one.
LEMMA LongIsNotEmpty ==
    ASSUME NEW S, NEW s \in Seq(S), Len(s) > 0
    PROVE  s # <<>>
OBVIOUS

\* A sequence of one element.
LEMMA SingletonSeq ==
    ASSUME NEW S, NEW e \in S
    PROVE  <<e>> \in Seq(S)
OBVIOUS

\* A prefix and the rest make up the sequence again.
LEMMA PrefixAndRest ==
    ASSUME NEW S, NEW s \in Seq(S), NEW t \in Seq(S), IsStrictPrefix(s, t)
    PROVE  /\ Len(s) < Len(t)
           /\ SubSeq(t, Len(s) + 1, Len(t)) \in Seq(S)
           /\ SubSeq(t, Len(s) + 1, Len(t)) # <<>>
           /\ s \o SubSeq(t, Len(s) + 1, Len(t)) = t
<1>1. Len(s) <= Len(t) /\ SubSeq(t, 1, Len(s)) = s /\ s # t
    BY SubSeqFull DEF IsStrictPrefix, IsPrefix
<1>2. Len(s) < Len(t)
    BY <1>1, SubSeqFull
<1>3. SubSeq(t, Len(s) + 1, Len(t)) \in Seq(S) /\ SubSeq(t, Len(s) + 1, Len(t)) # <<>>
    <2>1. \A i \in (Len(s) + 1)..Len(t) : t[i] \in S
        OBVIOUS
    <2>2. Len(s) + 1 \in Int /\ Len(t) \in Int /\ Len(s) + 1 <= Len(t)
        BY <1>2
    <2>3. SubSeq(t, Len(s) + 1, Len(t)) \in Seq(S)
        BY <2>1, <2>2, SubSeqProperties
    <2>4. Len(SubSeq(t, Len(s) + 1, Len(t))) = Len(t) - (Len(s) + 1) + 1
        <3> DEFINE m == Len(s) + 1
                   n == Len(t)
        <3>1. Len(SubSeq(t, m, n)) = IF m <= n THEN n - m + 1 ELSE 0
            <4> m \in Int /\ n \in Int /\ \A i \in m..n : t[i] \in S
                BY <2>1, <2>2
            <4> HIDE DEF m, n
            <4> QED
                BY SubSeqProperties
        <3>2. QED
            BY <2>2, <3>1
    <2>5. Len(SubSeq(t, Len(s) + 1, Len(t))) > 0
        BY <2>2, <2>4
    <2>6. QED
        BY <2>3, <2>5, LongIsNotEmpty
<1>4. SubSeq(t, 1, Len(s)) \o SubSeq(t, Len(s) + 1, Len(t)) = SubSeq(t, 1, Len(t))
    <2>1. /\ 1 \in 1..(Len(t) + 1)
          /\ Len(s) \in (1 - 1)..Len(t)
          /\ Len(t) \in Len(s)..Len(t)
        BY <1>2
    <2>2. QED
        BY <2>1, ConcatAdjacentSubSeq
<1>5. QED
    BY <1>1, <1>2, <1>3, <1>4, SubSeqFull

\* Appending to the second of two sequences appends to their concatenation.
LEMMA ConcatAppend ==
    ASSUME NEW S, NEW s \in Seq(S), NEW t \in Seq(S), NEW e \in S
    PROVE  s \o Append(t, e) = Append(s \o t, e)
OBVIOUS

\* One element more of a prefix.
LEMMA LongerPrefix ==
    ASSUME NEW S, NEW s \in Seq(S), NEW n \in 0..(Len(s) - 1)
    PROVE  SubSeq(s, 1, n + 1) = Append(SubSeq(s, 1, n), s[n + 1])
OBVIOUS

\* The last element of a concatenation is the last of its second sequence.
LEMMA LastOfConcat ==
    ASSUME NEW S, NEW s \in Seq(S), NEW t \in Seq(S), t # <<>>
    PROVE  /\ Len(t) > 0
           /\ Len(s \o t) = Len(s) + Len(t)
           /\ (s \o t)[Len(s) + Len(t)] = t[Len(t)]
OBVIOUS

\* The lengths of two sequences add up to a natural number.
LEMMA LengthSum ==
    ASSUME NEW S, NEW s \in Seq(S), NEW t \in Seq(S)
    PROVE  Len(s) + Len(t) \in Nat
OBVIOUS

\* When two sequences are a prefix of a third, its next element can be appended
\* to the second.
LEMMA NextDelivered ==
    ASSUME NEW s \in Seq(Token), NEW t \in Seq(Token), NEW c \in Seq(Token),
           NEW g \in Nat, g = Len(s) + Len(t), g < Len(c), SubSeq(c, 1, g) = s \o t
    PROVE  /\ c[g + 1] \in Token
           /\ SubSeq(c, 1, g + 1) = s \o Append(t, c[g + 1])
<1>1. c[g + 1] \in Token /\ g \in 0..(Len(c) - 1)
    OBVIOUS
<1>2. SubSeq(c, 1, g + 1) = Append(SubSeq(c, 1, g), c[g + 1])
    BY <1>1, LongerPrefix
<1>3. s \o Append(t, c[g + 1]) = Append(s \o t, c[g + 1])
    BY <1>1, ConcatAppend
<1>4. QED
    BY <1>1, <1>2, <1>3

(***************************************************************************)
(* Type correctness, for every engine and however calls are dropped.       *)
(***************************************************************************)
\* A request line and a new call are well typed.
LEMMA BeginTypes ==
    ASSUME TypeOK, NEW ids \in Prompts, NEW n \in Budgets, NEW i \in Nat \ {0},
           NEW w \in BOOLEAN, w => Extends(ids)
    PROVE  /\ ids \in Seq(Token) /\ n \in Nat
           /\ RequestLine(i, ToSend(ids, w), n, ~w) \in Request
           /\ \A st \in States : NewCall(st, ids, n, i, w) \in Call
<1>1. ids \in Seq(Token) /\ n \in Nat
    OBVIOUS
<1>2. ToSend(ids, w) \in Seq(Token)
    BY <1>1, PrefixAndRest DEF TypeOK, ToSend, Extends
<1>3. QED
    BY <1>1, <1>2 DEF RequestLine, Request, NewCall, Call

\* The types of the calls that end before they begin.
LEMMA FailedCallTypes ==
    ASSUME NEW ids \in Prompts, NEW n \in Budgets, NEW i \in Nat, NEW w \in BOOLEAN
    PROVE  NewCall("failed", ids, n, i, w) \in Call
BY DEF NewCall, Call, States

\* The engine's own steps keep its variables typed.
LEMMA ServeTypes ==
    ASSUME EngineTypeOK, ServeStep
    PROVE  EngineTypeOK'
<1> USE DEF EngineTypeOK
<1>1. ASSUME stdin # <<>>
      PROVE  Head(stdin) \in Request /\ Tail(stdin) \in Seq(Request)
    BY <1>1
<1>2. ASSUME NEW r \in Request
      PROVE  Base(r) \in Seq(Token)
    BY DEF Base
<1>3. CASE AnswerStop
    <2>1. DoneLine(Head(stdin).id, 0) \in Line
        BY <1>1, <1>3, LineTypes DEF AnswerStop, Request
    <2>2. QED
        BY <1>1, <1>3, <2>1 DEF AnswerStop
<1>4. CASE Refuse
    <2>1. ErrorLine(Head(stdin).id) \in Line
        BY <1>1, <1>4, LineTypes DEF Refuse, Request
    <2>2. QED
        BY <1>1, <1>2, <1>4, <2>1 DEF Refuse
<1>5. CASE Accept
    <2> DEFINE r == Head(stdin)
    <2>1. r \in Request
        BY <1>1, <1>5 DEF Accept
    <2>2. r.ids \in Seq(Token) /\ r.id \in Nat /\ r.n \in Nat
        BY <2>1 DEF Request
    <2>3. Base(r) \o r.ids \in Seq(Token)
        BY <1>2, <2>1, <2>2
    <2>4. [id |-> r.id, n |-> r.n, n_out |-> 0, go |-> r.n > 0 /\ r.ids # <<>>] \in Job
        BY <2>2 DEF Job
    <2>5. QED
        BY <1>1, <1>5, <2>3, <2>4 DEF Accept
<1>6. ASSUME NEW t \in Token, Emit(t)
      PROVE  EngineTypeOK'
    <2>1. TokLine(job.id, t) \in Line
        BY LineTypes DEF Job
    <2>2. job' \in Job
        <3>1. (~Leaves(t)) \in BOOLEAN
            BY DEF Leaves
        <3>2. job.n_out + 1 \in Nat
            BY DEF Job
        <3>3. \A k \in Nat, b \in BOOLEAN : [job EXCEPT !.n_out = k, !.go = b] \in Job
            BY DEF Job
        <3>4. QED
            BY <1>6, <3>1, <3>2, <3>3, Zenon DEF Emit
    <2>3. QED
        BY <1>6, <2>1, <2>2 DEF Emit
<1>7. CASE Finish
    <2>1. DoneLine(job.id, job.n_out) \in Line
        BY LineTypes DEF Job
    <2>2. NoJob \in Job
        BY DEF NoJob, Job
    <2>3. QED
        BY <1>7, <2>1, <2>2 DEF Finish
<1>8. QED
    BY <1>3, <1>4, <1>5, <1>6, <1>7 DEF ServeStep

\* What mark_down and eject leave of the process is typed.
LEMMA DiscardTypes ==
    ASSUME Discard
    PROVE  EngineTypeOK' /\ proc' \in BOOLEAN
<1>1. stdin' \in Seq(Request) /\ stdout' \in Seq(Line) /\ kv' \in Seq(Token)
    BY EmptySeq DEF Discard
<1>2. alive' \in BOOLEAN /\ proc' \in BOOLEAN /\ job' \in Job
    BY DEF Discard, NoJob, Job
<1>3. QED
    BY <1>1, <1>2 DEF EngineTypeOK

\* The type invariant is inductive on its own.
LEMMA TypeStep ==
    ASSUME TypeOK, [Next]_vars
    PROVE  TypeOK'
<1> USE DEF TypeOK
<1>0. ASSUME stdout # <<>>
      PROVE  Head(stdout) \in Line /\ Tail(stdout) \in Seq(Line)
    BY <1>0 DEF EngineTypeOK
<1>1. ASSUME NEW ids \in Prompts, NEW n \in Budgets, Begin(ids, n)
      PROVE  TypeOK'
    <2> DEFINE w == Extends(ids)
    <2>1. nextId + 1 \in Nat \ {0} /\ w \in BOOLEAN
        BY DEF Extends, IsStrictPrefix, IsPrefix
    <2>2. /\ RequestLine(nextId + 1, ToSend(ids, w), n, ~w) \in Request
          /\ NewCall("busy", ids, n, nextId + 1, w) \in Call
        BY <2>1, BeginTypes DEF States
    <2>3. QED
        BY <1>1, <2>1, <2>2 DEF Begin, EngineTypeOK
<1>2. ASSUME NEW ids \in Prompts, NEW n \in Budgets, BeginOnDead(ids, n)
      PROVE  TypeOK'
    <2>1. Extends(ids) \in BOOLEAN
        BY DEF Extends, IsStrictPrefix, IsPrefix
    <2>2. NewCall("failed", ids, n, nextId + 1, Extends(ids)) \in Call
        BY <2>1, FailedCallTypes
    <2>3. EngineTypeOK' /\ proc' \in BOOLEAN /\ history' \in Seq(Token)
        BY <1>2, DiscardTypes, EmptySeq DEF BeginOnDead, MarkDown
    <2>4. QED
        BY <1>2, <2>2, <2>3 DEF BeginOnDead
<1>3. ASSUME NEW ids \in Prompts, NEW n \in Budgets, BeginWithSpawn(ids, n)
      PROVE  TypeOK'
    <2>1. /\ RequestLine(nextId + 1, ids, n, TRUE) \in Request
          /\ NewCall("busy", ids, n, nextId + 1, FALSE) \in Call
        BY BeginTypes DEF States, RequestLine, Request, NewCall, Call
    <2>2. stdin' \in Seq(Request)
        BY <1>3, <2>1, SingletonSeq DEF BeginWithSpawn
    <2>3. stdout' \in Seq(Line) /\ kv' \in Seq(Token) /\ history' \in Seq(Token)
        BY <1>3, EmptySeq DEF BeginWithSpawn
    <2>4. job' \in Job
        BY <1>3 DEF BeginWithSpawn, NoJob, Job
    <2>5. EngineTypeOK'
        BY <1>3, <2>2, <2>3, <2>4 DEF BeginWithSpawn, EngineTypeOK
    <2>6. proc' \in BOOLEAN /\ nextId' \in Nat
        BY <1>3 DEF BeginWithSpawn
    <2>7. call' \in Call
        BY <1>3, <2>1, Zenon DEF BeginWithSpawn
    <2>8. QED
        BY <2>3, <2>5, <2>6, <2>7
<1>4. ASSUME NEW ids \in Prompts, NEW n \in Budgets, SpawnFails(ids, n)
      PROVE  TypeOK'
    <2>1. NewCall("failed", ids, n, 0, FALSE) \in Call
        BY FailedCallTypes
    <2>2. QED
        BY <1>4, <2>1 DEF SpawnFails, EngineTypeOK, engineVars
<1>5. CASE Read
    <2>1. CASE ReadStale
        BY <1>0, <2>1 DEF ReadStale, Reading, EngineTypeOK, daemonVars
    <2>2. CASE ReadTok
        <3>1. Head(stdout).tok \in Token
            BY <1>0, <2>2, LineTypes DEF ReadTok, Reading
        <3>2. Append(call.out, Head(stdout).tok) \in Seq(Token)
            BY <3>1 DEF Call
        <3>3. call' \in Call
            BY <2>2, <3>2 DEF ReadTok, Call
        <3>4. QED
            BY <1>0, <2>2, <3>3 DEF ReadTok, Reading, EngineTypeOK
    <2>3. CASE ReadDone
        <3>1. history' \in Seq(Token)
            BY <2>3 DEF ReadDone, Call
        <3>2. call' \in Call
            BY <2>3 DEF ReadDone, Call, States
        <3>3. QED
            BY <1>0, <2>3, <3>1, <3>2 DEF ReadDone, Reading, EngineTypeOK
    <2>4. CASE RetryCold
        <3>1. RequestLine(nextId + 1, call.ids, call.n, TRUE) \in Request
            BY DEF RequestLine, Request, Call
        <3>2. nextId + 1 \in Nat /\ FALSE \in BOOLEAN
            OBVIOUS
        <3>3. call' \in Call
            <4>1. \A i \in Nat, w \in BOOLEAN :
                    [call EXCEPT !.id = i, !.warm = w] \in Call
                BY DEF Call
            <4>2. QED
                BY <2>4, <3>2, <4>1, Zenon DEF RetryCold
        <3>4. stdin' \in Seq(Request) /\ stdout' \in Seq(Line)
            <4>1. stdin \in Seq(Request)
                BY DEF EngineTypeOK
            <4>2. \A r \in Request : Append(stdin, r) \in Seq(Request)
                BY <4>1
            <4>3. stdout' \in Seq(Line)
                BY <1>0, <2>4, Zenon DEF RetryCold, ReadError, Reading
            <4>4. QED
                BY <2>4, <3>1, <4>2, <4>3, Zenon DEF RetryCold
        <3>5. QED
            BY <2>4, <3>2, <3>3, <3>4, EmptySeq DEF RetryCold, EngineTypeOK
    <2>5. CASE RetryOnDead
        <3>1. EngineTypeOK' /\ proc' \in BOOLEAN /\ history' \in Seq(Token)
            BY <2>5, DiscardTypes, EmptySeq DEF RetryOnDead, MarkDown
        <3>2. nextId + 1 \in Nat /\ FALSE \in BOOLEAN /\ "failed" \in States
            BY DEF States
        <3>3. call' \in Call
            <4>1. \A st \in States, i \in Nat, w \in BOOLEAN :
                    [call EXCEPT !.state = st, !.id = i, !.warm = w] \in Call
                BY DEF Call
            <4>2. QED
                BY <2>5, <3>2, <4>1, Zenon DEF RetryOnDead
        <3>4. QED
            BY <2>5, <3>1, <3>2, <3>3 DEF RetryOnDead
    <2>6. CASE FailOnError
        <3>1. call' \in Call
            BY <2>6 DEF FailOnError, Call, States
        <3>2. QED
            BY <1>0, <2>6, <3>1, EmptySeq
            DEF FailOnError, ReadError, Reading, EngineTypeOK
    <2>7. CASE ReadEof
        <3>1. EngineTypeOK' /\ proc' \in BOOLEAN /\ history' \in Seq(Token)
            BY <2>7, DiscardTypes, EmptySeq DEF ReadEof, MarkDown
        <3>2. QED
            BY <2>7, <3>1 DEF ReadEof, Call, States
    <2>8. QED
        BY <1>5, <2>1, <2>2, <2>3, <2>4, <2>5, <2>6, <2>7 DEF Read
<1>6. CASE DropCall
    BY <1>6 DEF DropCall, engineVars, EngineTypeOK, Call, States
<1>7. CASE Eject \/ EjectDropped
    <2>1. EngineTypeOK' /\ proc' \in BOOLEAN
        BY <1>7, DiscardTypes DEF Eject, EjectDropped
    <2>2. QED
        BY <1>7, <2>1, EmptySeq DEF Eject, EjectDropped
<1>8. CASE EngineExits
    BY <1>8 DEF EngineExits, Exit, EngineTypeOK, daemonVars
<1>9. CASE EngineRuns
    BY <1>9, ServeTypes DEF EngineRuns, daemonVars
<1>10. CASE UNCHANGED vars
    BY <1>10 DEF vars, engineVars, daemonVars, EngineTypeOK
<1>11. QED
    BY <1>1, <1>2, <1>3, <1>4, <1>5, <1>6, <1>7, <1>8, <1>9, <1>10 DEF Next

\* Every variable keeps its type, with any engine and any dropped call.
THEOREM TypeCorrect == Spec => []TypeOK
<1>1. Init => TypeOK
    <2> SUFFICES ASSUME Init
                 PROVE  TypeOK
        OBVIOUS
    <2>1. NoJob \in Job
        BY DEF NoJob, Job
    <2>2. NoCall \in Call
        BY EmptySeq DEF NoCall, Call, States
    <2>3. EngineTypeOK
        BY <2>1, EmptySeq DEF Init, FreshEngine, EngineTypeOK
    <2>4. QED
        BY <2>2, <2>3, EmptySeq DEF Init, TypeOK
<1>2. TypeOK /\ [Next]_vars => TypeOK'
    BY TypeStep
<1>3. QED
    BY <1>1, <1>2, PTL DEF Spec

-----------------------------------------------------------------------------
(***************************************************************************)
(* The context never outgrows its allocation: whatever was dropped, in     *)
(* whatever order requests were queued, and for both kinds of engine.      *)
(***************************************************************************)
\* A job that goes on has tokens left to print; the room they need is free.
Room == ContextBound /\ (Working /\ job.go => job.n_out < job.n)

\* The engine's steps keep the room it reserved.
LEMMA RoomServes ==
    ASSUME TypeOK, Room, ServeStep
    PROVE  Room'
<1>1. /\ kv \in Seq(Token) /\ stdin \in Seq(Request) /\ job \in Job
      /\ Slack \in Nat /\ MaxT \in Nat
    BY DEF TypeOK, EngineTypeOK
<1>2. CASE AnswerStop
    BY <1>2 DEF AnswerStop, Room, ContextBound, Working
<1>3. CASE Refuse
    BY <1>3 DEF Refuse, Room, ContextBound, Working
<1>4. CASE Accept
    <2> DEFINE q == Head(stdin)
    <2>1. q \in Request
        BY <1>1, <1>4 DEF Accept
    <2>2. q.ids \in Seq(Token) /\ q.n \in Nat /\ Base(q) \in Seq(Token)
        BY <1>1, <2>1 DEF Request, Base
    <2>3. /\ Fits(q) /\ kv' = Base(q) \o q.ids
          /\ job'.n_out = 0 /\ job'.n = q.n
          /\ job'.go = (q.n > 0 /\ q.ids # <<>>)
        BY <1>4 DEF Accept
    <2> HIDE DEF q
    <2>4. Len(kv') = Len(Base(q)) + Len(q.ids)
        BY <2>2, <2>3
    <2>5. PICK b \in Nat, k \in Nat, n \in Nat :
                b = Len(Base(q)) /\ k = Len(q.ids) /\ n = q.n
        <3>1. Len(Base(q)) \in Nat /\ Len(q.ids) \in Nat
            BY <2>2
        <3>2. QED
            BY <2>2, <3>1, Zenon
    <2>6. b + k + n + Slack < MaxT
        BY <2>3, <2>5, Zenon DEF Fits
    <2>7. Len(kv') = b + k /\ job'.n_out = 0 /\ job'.n = n
        BY <2>3, <2>4, <2>5, Zenon
    <2>8. (b + k) + (n - 0) + Slack < MaxT /\ (b + k) + 0 + Slack < MaxT
        BY <1>1, <2>6
    <2>9. job'.go => 0 < n
        BY <2>3, <2>5
    <2>10. QED
        BY <2>7, <2>8, <2>9 DEF Room, ContextBound
<1>5. ASSUME NEW t \in Token, Emit(t)
      PROVE  Room'
    <2>1. PICK L \in Nat, n \in Nat, k \in Nat : L = Len(kv) /\ n = job.n /\ k = job.n_out
        BY <1>1 DEF Job
    <2>2. Working /\ job.go
        BY <1>5 DEF Emit
    <2>3. L + (n - k) + Slack < MaxT /\ k < n
        BY <2>1, <2>2, Zenon DEF Room, ContextBound
    <2>4. Len(kv') = L \/ Len(kv') = L + 1
        BY <1>1, <1>5, <2>1 DEF Emit
    <2>5. job'.n = n /\ job'.n_out = k + 1 /\ job'.go = ~Leaves(t)
        BY <1>1, <1>5, <2>1 DEF Emit, Job
    <2>6. ~Leaves(t) => k + 1 < n
        BY <2>1 DEF Leaves
    <2>7. PICK M \in Nat : M = Len(kv') /\ M <= L + 1
        BY <2>4
    <2>8. k + 1 < n => M + (n - (k + 1)) + Slack < MaxT
        BY <1>1, <2>3, <2>7
    <2>9. M + 0 + Slack < MaxT
        BY <1>1, <2>3, <2>7
    <2>10. job'.go => M + (n - (k + 1)) + Slack < MaxT /\ k + 1 < n
        BY <2>5, <2>6, <2>8, Zenon
    <2>11. QED
        BY <2>5, <2>7, <2>9, <2>10 DEF Room, ContextBound
<1>6. CASE Finish
    BY <1>6 DEF Finish, Room, ContextBound, Working, NoJob
<1>7. QED
    BY <1>2, <1>3, <1>4, <1>5, <1>6 DEF ServeStep

\* No step takes the room away; a fresh process has no job.
LEMMA RoomStep ==
    ASSUME TypeOK, Room, [Next]_vars
    PROVE  Room'
<1>1. ASSUME job' = NoJob
      PROVE  Room'
    BY <1>1 DEF Room, ContextBound, Working, NoJob
<1>2. ASSUME UNCHANGED <<kv, job>>
      PROVE  Room'
    BY <1>2 DEF Room, ContextBound, Working
<1>3. ASSUME NEW ids \in Prompts, NEW n \in Budgets,
             \/ Begin(ids, n) \/ BeginOnDead(ids, n)
             \/ BeginWithSpawn(ids, n) \/ SpawnFails(ids, n)
      PROVE  Room'
    <2>1. job' = NoJob \/ UNCHANGED <<kv, job>>
        BY <1>3, Zenon
        DEF Begin, BeginOnDead, BeginWithSpawn, SpawnFails, MarkDown, Discard, engineVars
    <2>2. QED
        BY <1>1, <1>2, <2>1
<1>4. CASE Read
    <2>1. job' = NoJob \/ UNCHANGED <<kv, job>>
        BY <1>4, Zenon
        DEF Read, ReadStale, ReadTok, ReadDone, RetryCold, RetryOnDead, FailOnError,
            ReadEof, MarkDown, Discard
    <2>2. QED
        BY <1>1, <1>2, <2>1
<1>5. CASE Eject \/ EjectDropped
    BY <1>1, <1>5 DEF Eject, EjectDropped, Discard
<1>6. CASE DropCall \/ EngineExits \/ UNCHANGED vars
    BY <1>2, <1>6 DEF DropCall, EngineExits, Exit, engineVars, vars
<1>7. CASE EngineRuns
    BY <1>7, RoomServes DEF EngineRuns
<1>8. QED
    BY <1>3, <1>4, <1>5, <1>6, <1>7 DEF Next

\* Over any series of warm appends on one process, abandoned ones included, the
\* context and the tokens still to be printed fit in max_t (qwen.c:588,
\* olmoe.c:512, gemma.c:801).
THEOREM ContextBounded == Spec => []ContextBound
<1>1. Init => Room
    BY DEF Init, FreshEngine, NoJob, Room, ContextBound, Working
<1>2. TypeOK /\ Room /\ [Next]_vars => Room'
    BY RoomStep
<1>3. Room => ContextBound
    BY DEF Room
<1>4. QED
    BY <1>1, <1>2, <1>3, TypeCorrect, PTL DEF Spec

-----------------------------------------------------------------------------
(***************************************************************************)
(* The conversation, for engines that feed the last token (qwen, olmoe)    *)
(* and calls that run to their end.                                        *)
(***************************************************************************)
\* Before anything was sent there is nothing to disagree about.
LEMMA ConversationInit == Init => Conversation
BY DEF Init, Conversation, Busy, NoCall, Quiet, Working, NoJob, FreshEngine

\* Throwing the process away ends the conversation.
LEMMA ConversationDiscarded ==
    ASSUME Discard, history' = <<>> , call'.state # "busy"
    PROVE  Conversation'
BY DEF Discard, Conversation, Busy, Quiet, Working, NoJob

\* In a call, the first unread line is the call's own; it is a token exactly
\* when tokens are unread, and an error only of a refused request.
LEMMA FirstLine ==
    ASSUME TypeOK, Conversation, Reading
    PROVE  /\ Head(stdout) = stdout[1]
           /\ Mine(Head(stdout))
           /\ \/ Decoding /\ Head(stdout) = TokLine(call.id, kv[Given + 1])
              \/ /\ Answered /\ Len(stdout) > 1
                 /\ Head(stdout) = TokLine(call.id, kv[Given + 1])
              \/ /\ Answered /\ Len(stdout) = 1
                 /\ Head(stdout) = DoneLine(call.id, Len(kv) - Len(call.ids))
              \/ Refused /\ Head(stdout) = ErrorLine(call.id)
<1>1. stdout \in Seq(Line) /\ stdout # <<>>
    BY DEF TypeOK, EngineTypeOK, Reading
<1>2. Len(stdout) \in Nat /\ Len(stdout) > 0 /\ Head(stdout) = stdout[1]
    BY <1>1
<1>3. Decoding \/ Answered \/ Refused
    BY <1>1 DEF Conversation, Reading, Unread
<1>4. ASSUME NEW m \in Nat, m > 0, InStep(m)
      PROVE  stdout[1] = TokLine(call.id, kv[Given + 1])
    BY <1>4 DEF InStep
<1>5. CASE Decoding
    <2>1. Head(stdout) = TokLine(call.id, kv[Given + 1])
        BY <1>2, <1>4, <1>5 DEF Decoding
    <2>2. QED
        BY <1>2, <1>5, <2>1 DEF Mine, TokLine
<1>6. CASE Answered /\ Len(stdout) > 1
    <2>1. InStep(Len(stdout) - 1) /\ Len(stdout) - 1 \in Nat /\ Len(stdout) - 1 > 0
        BY <1>2, <1>6 DEF Answered
    <2>2. Head(stdout) = TokLine(call.id, kv[Given + 1])
        BY <1>2, <1>4, <2>1
    <2>3. QED
        BY <1>2, <1>6, <2>2 DEF Mine, TokLine
<1>7. CASE Answered /\ Len(stdout) = 1
    BY <1>2, <1>7 DEF Answered, Mine, DoneLine
<1>8. CASE Refused
    BY <1>2, <1>8 DEF Refused, Mine, ErrorLine
<1>9. Len(stdout) > 1 \/ Len(stdout) = 1
    <2>1. \A k \in Nat : k > 0 => k > 1 \/ k = 1
        OBVIOUS
    <2>2. QED
        BY <1>2, <2>1, Zenon
<1>10. CASE Answered
    BY <1>6, <1>7, <1>9, <1>10, Zenon
<1>11. QED
    BY <1>3, <1>5, <1>8, <1>10, Zenon

\* A call begins: what is on the wire continues the context to the prompt.
LEMMA ConversationBegins ==
    ASSUME TypeOK, Conversation, NEW ids \in Prompts, NEW n \in Budgets,
           Begin(ids, n) \/ BeginWithSpawn(ids, n)
    PROVE  Conversation'
<1> DEFINE r == stdin'[1]
<1>0. ids \in Seq(Token) /\ ids # <<>>
    OBVIOUS
<1>1. CASE Begin(ids, n)
    <2> DEFINE w == Extends(ids)
               q == RequestLine(nextId + 1, ToSend(ids, w), n, ~w)
    <2>1. Quiet /\ (history # <<>> => kv = history)
        BY <1>1 DEF Begin, Conversation
    <2>2. stdin' = <<q>>
        BY <1>1, <2>1 DEF Begin, Quiet
    <2>3. /\ q.id = nextId + 1 /\ q.n = n /\ q.stop = FALSE
          /\ q.ids = ToSend(ids, w) /\ q.reset = ~w
        BY DEF RequestLine
    <2>4. ToSend(ids, w) # <<>> /\ (IF ~w THEN <<>> ELSE kv) \o ToSend(ids, w) = ids
        <3>1. CASE w
            BY <1>0, <2>1, <3>1, PrefixAndRest DEF ToSend, Extends, TypeOK
        <3>2. CASE ~w
            BY <1>0, <3>2 DEF ToSend
        <3>3. QED
            BY <3>1, <3>2
    <2>5. call' = NewCall("busy", ids, n, nextId + 1, w)
        BY <1>1 DEF Begin
    <2>6. Unread'
        <3>1. Len(stdin') = 1 /\ stdin'[1] = q
            BY <2>2
        <3>2. stdout' = <<>> /\ ~Working' /\ kv' = kv
            BY <1>1, <2>1 DEF Begin, Quiet, Working
        <3>3. call'.id = nextId + 1 /\ call'.n = n /\ call'.ids = ids /\ call'.out = <<>>
            BY <2>5 DEF NewCall
        <3> HIDE DEF q, w
        <3>4. (Base(stdin[1]) \o stdin[1].ids)' = ids
            BY <2>3, <2>4, <3>1, <3>2 DEF Base
        <3>5. QED
            BY <2>3, <2>4, <3>1, <3>2, <3>3, <3>4 DEF Unread
    <2>7. QED
        BY <1>1, <2>5, <2>6 DEF Begin, Conversation, Busy, NewCall, TypeOK
<1>2. CASE BeginWithSpawn(ids, n)
    <2>1. Unread'
        BY <1>0, <1>2
        DEF BeginWithSpawn, Unread, RequestLine, NewCall, Base, Working, NoJob
    <2>2. QED
        BY <1>2, <2>1 DEF BeginWithSpawn, Conversation, Busy, NewCall, TypeOK
<1>3. QED
    BY <1>1, <1>2


\* A token read leaves the unread ones behind it the last of the context.
LEMMA TokenRead ==
    \A m \in Nat :
        /\ TypeOK /\ ReadTok
        /\ m > 0 /\ InStep(m) /\ m <= Len(stdout)
        /\ Head(stdout) = TokLine(call.id, kv[Given + 1])
        => /\ call'.ids = call.ids /\ call'.n = call.n /\ call'.id = call.id
           /\ \A k \in 1..(Len(stdout) - 1) : stdout'[k] = stdout[k + 1]
           /\ Len(stdout') = Len(stdout) - 1
           /\ InStep(m - 1)'
<1>0. SUFFICES ASSUME NEW m \in Nat, TypeOK, ReadTok, m > 0, InStep(m),
                      m <= Len(stdout),
                      Head(stdout) = TokLine(call.id, kv[Given + 1])
               PROVE  /\ call'.ids = call.ids /\ call'.n = call.n /\ call'.id = call.id
                      /\ \A k \in 1..(Len(stdout) - 1) : stdout'[k] = stdout[k + 1]
                      /\ Len(stdout') = Len(stdout) - 1
                      /\ InStep(m - 1)'
    BY Zenon
<1>1. stdout \in Seq(Line) /\ stdout # <<>> /\ kv \in Seq(Token)
    BY <1>0 DEF TypeOK, EngineTypeOK, ReadTok, Reading
<1>2. /\ Len(stdout') = Len(stdout) - 1
      /\ \A k \in 1..(Len(stdout) - 1) : stdout'[k] = stdout[k + 1]
    BY <1>0, <1>1 DEF ReadTok
<1>3. call.ids \in Seq(Token) /\ call.out \in Seq(Token) /\ call.n \in Nat
    BY <1>0 DEF TypeOK, Call
<1>4. PICK g \in Nat : g = Given /\ g = Len(call.ids) + Len(call.out)
    BY <1>3, LengthSum, Zenon DEF Given
<1>5. Len(kv) = g + m /\ SubSeq(kv, 1, g) = call.ids \o call.out
    BY <1>0, <1>4, Zenon DEF InStep
<1>6. /\ kv[g + 1] \in Token
      /\ Len(Append(call.out, kv[g + 1])) = Len(call.out) + 1
      /\ Len(call.ids) + Len(Append(call.out, kv[g + 1])) = g + 1
      /\ SubSeq(kv, 1, g + 1) = call.ids \o Append(call.out, kv[g + 1])
    <2>1. g < Len(kv)
        BY <1>0, <1>1, <1>5
    <2>2. PICK ids \in Seq(Token), out \in Seq(Token), c \in Seq(Token) :
                ids = call.ids /\ out = call.out /\ c = kv
        BY <1>1, <1>3
    <2>3. g = Len(ids) + Len(out) /\ g < Len(c) /\ SubSeq(c, 1, g) = ids \o out
        BY <1>4, <1>5, <2>1, <2>2, Zenon
    <2>4. c[g + 1] \in Token
        BY <2>3, NextDelivered
    <2>5. SubSeq(c, 1, g + 1) = ids \o Append(out, c[g + 1])
        BY <2>3, NextDelivered, SMTT(30)
    <2>6. Len(Append(out, c[g + 1])) = Len(out) + 1
        BY <2>4
    <2>7. Len(ids) + (Len(out) + 1) = g + 1
        BY <2>3
    <2>8. QED
        BY <2>2, <2>4, <2>5, <2>6, <2>7, Zenon
<1>7. /\ call'.ids = call.ids /\ call'.n = call.n /\ call'.id = call.id
      /\ call'.out = Append(call.out, kv[g + 1])
    <2>1. Head(stdout).tok = kv[g + 1]
        <3>1. Head(stdout) = TokLine(call.id, kv[g + 1])
            BY <1>0, <1>4, Zenon
        <3>2. QED
            BY <3>1 DEF TokLine
    <2>2. call' = [call EXCEPT !.out = Append(call.out, kv[g + 1])]
        BY <1>0, <2>1 DEF ReadTok
    <2>3. QED
        BY <1>0, <2>2 DEF TypeOK, Call
<1>8. Len(call'.out) = Len(call.out) + 1 /\ Given' = g + 1
    <2>1. Given' = Len(call'.ids) + Len(call'.out)
        BY Zenon DEF Given
    <2>2. QED
        BY <1>6, <1>7, <2>1, Zenon
<1>9. SubSeq(kv, 1, g + 1) = call.ids \o call'.out
    BY <1>6, <1>7
<1>10. InStep(m - 1)'
    <2>1. kv' = kv
        BY <1>0 DEF ReadTok
    <2>2. Len(kv) = (g + 1) + (m - 1)
        BY <1>0, <1>5
    <2>3. \A i \in 1..(m - 1) : stdout'[i] = TokLine(call.id, kv[(g + 1) + i])
        <3> SUFFICES ASSUME NEW i \in 1..(m - 1)
                     PROVE  stdout'[i] = TokLine(call.id, kv[(g + 1) + i])
            OBVIOUS
        <3>1. i + 1 \in 1..m /\ i \in 1..(Len(stdout) - 1)
            BY <1>0, <1>1
        <3>2. stdout'[i] = stdout[i + 1]
            BY <1>2, <3>1
        <3>3. stdout[i + 1] = TokLine(call.id, kv[g + (i + 1)])
            BY <1>0, <1>4, <3>1 DEF InStep
        <3>4. g + (i + 1) = (g + 1) + i
            OBVIOUS
        <3>5. QED
            BY <3>2, <3>3, <3>4
    <2>4. /\ \A k \in (Len(call.ids) + 1)..Len(kv) :
                kv[k] \in Decode(SubSeq(kv, 1, k - 1))
          /\ \A k \in (Len(call.ids) + 1)..(Len(kv) - 1) : kv[k] \notin Eos
          /\ Len(kv) <= Len(call.ids) + call.n
        BY <1>0 DEF InStep
    <2>5. QED
        BY <1>7, <1>8, <1>9, <2>1, <2>2, <2>3, <2>4, Zenon DEF InStep
<1>11. QED
    BY <1>2, <1>7, <1>10

\* Reading keeps the conversation, and no line is ever stale.
LEMMA ConversationReads ==
    ASSUME TypeOK, Conversation, Read
    PROVE  Conversation'
<1>a. Busy
    BY DEF Read, ReadStale, ReadTok, ReadDone, RetryCold, RetryOnDead,
           FailOnError, ReadError, ReadEof, Reading
<1>b. stdout \in Seq(Line) /\ Len(stdout) \in Nat
    BY DEF TypeOK, EngineTypeOK
<1>0. /\ stdout \in Seq(Line) /\ Len(stdout) \in Nat
      /\ proc /\ call.id # 0 /\ call.ids # <<>> /\ Busy
    BY <1>a, <1>b, Zenon DEF Conversation
<1>1. CASE ReadStale
    BY <1>1, FirstLine DEF ReadStale
<1>2. CASE ReadTok
    <2>1. Reading /\ Head(stdout).kind = "tok" /\ stdout # <<>>
        BY <1>2 DEF ReadTok, Reading
    <2>2. /\ Mine(Head(stdout))
          /\ Head(stdout) = TokLine(call.id, kv[Given + 1])
          /\ Decoding \/ (Answered /\ Len(stdout) > 1)
        <3>1. Head(stdout) # DoneLine(call.id, Len(kv) - Len(call.ids))
            BY <2>1 DEF DoneLine
        <3>2. Head(stdout) # ErrorLine(call.id)
            BY <2>1 DEF ErrorLine
        <3>3. Mine(Head(stdout))
            BY <2>1, FirstLine, Zenon
        <3>4. CASE Decoding /\ Head(stdout) = TokLine(call.id, kv[Given + 1])
            BY <3>3, <3>4, Zenon
        <3>5. CASE /\ Answered /\ Len(stdout) > 1
                   /\ Head(stdout) = TokLine(call.id, kv[Given + 1])
            BY <3>3, <3>5, Zenon
        <3>6. QED
            BY <2>1, <3>1, <3>2, <3>4, <3>5, FirstLine, Zenon
    <2>3. UNCHANGED <<alive, stdin, kv, job, proc>> /\ Busy'
        BY <1>2 DEF ReadTok, Busy, Reading, TypeOK, Call
    <2>4. CASE Decoding
        <3>1. PICK m \in Nat : m = Len(stdout)
            BY <1>0
        <3>2. m > 0 /\ InStep(m)
            BY <1>0, <2>1, <2>4, <3>1 DEF Decoding
        <3>3. /\ call'.ids = call.ids /\ call'.n = call.n /\ call'.id = call.id
              /\ Len(stdout') = m - 1
              /\ InStep(m - 1)'
            BY <1>0, <1>2, <2>2, <3>1, <3>2, TokenRead
        <3>4. InStep(Len(stdout))'
            BY <3>3 DEF InStep
        <3>5. Decoding'
            BY <2>3, <2>4, <3>3, <3>4 DEF Decoding, Working, Ended
        <3>6. QED
            BY <1>0, <2>3, <3>3, <3>5 DEF Conversation
    <2>5. CASE Answered /\ Len(stdout) > 1
        <3>1. PICK m \in Nat : m = Len(stdout) - 1
            BY <1>0, <2>5
        <3>2. m > 0 /\ m <= Len(stdout) /\ InStep(m)
            BY <1>0, <2>5, <3>1 DEF Answered
        <3>3. /\ call'.ids = call.ids /\ call'.n = call.n /\ call'.id = call.id
              /\ Len(stdout') = Len(stdout) - 1
              /\ \A k \in 1..(Len(stdout) - 1) : stdout'[k] = stdout[k + 1]
              /\ InStep(m - 1)'
            BY <1>2, <2>2, <3>2, TokenRead
        <3>4. InStep(Len(stdout) - 1)'
            <4>1. Len(stdout') - 1 = m - 1
                BY <3>1, <3>3
            <4>2. QED
                BY <3>3, <4>1 DEF InStep
        <3>5. stdout' # <<>> /\ stdout'[Len(stdout')] = stdout[Len(stdout)]
            BY <1>0, <2>5, <3>1, <3>2, <3>3
        <3>6. Answered'
            BY <2>3, <2>5, <3>3, <3>4, <3>5 DEF Answered, Working, Ended
        <3>7. QED
            BY <1>0, <2>3, <3>3, <3>6 DEF Conversation
    <2>6. QED
        BY <2>2, <2>4, <2>5
<1>3. CASE ReadDone
    <2>1. Answered /\ Len(stdout) = 1
        BY <1>3, FirstLine DEF ReadDone, TokLine, ErrorLine
    <2>2. stdout' = <<>>
        BY <1>0, <1>3, <2>1 DEF ReadDone
    <2>3. kv = call.ids \o call.out
        <3>1. InStep(0)
            BY <2>1 DEF Answered
        <3>2. Len(kv) = Given
            BY <3>1 DEF InStep, Given, TypeOK, Call
        <3>3. QED
            BY <3>1, <3>2, WholePrefix DEF InStep, TypeOK, EngineTypeOK
    <2>4. call'.state = "done"
        BY <1>3 DEF ReadDone, TypeOK, Call
    <2>5. QED
        BY <1>0, <1>3, <2>1, <2>2, <2>3, <2>4
        DEF ReadDone, Answered, Conversation, Busy, Quiet, Working
<1>4. CASE RetryCold
    <2> DEFINE q == RequestLine(nextId + 1, call.ids, call.n, TRUE)
    <2>1. Refused
        BY <1>4, FirstLine DEF RetryCold, ReadError, TokLine, DoneLine
    <2>2. stdin' = <<q>> /\ stdout' = <<>> /\ ~Working'
        BY <1>4, <2>1 DEF RetryCold, Refused, Working
    <2>3. /\ call'.id = nextId + 1 /\ call'.ids = call.ids /\ call'.n = call.n
          /\ call'.out = call.out /\ call'.state = call.state
        BY <1>4 DEF RetryCold, TypeOK, Call
    <2>4. Unread'
        <3>1. Len(stdin') = 1 /\ stdin'[1] = q
            BY <2>2
        <3>2. /\ q.id = nextId + 1 /\ q.n = call.n /\ q.ids = call.ids
              /\ q.reset = TRUE /\ q.stop = FALSE
            BY DEF RequestLine
        <3>3. call.ids \in Seq(Token) /\ call.out = <<>>
            BY <2>1 DEF Refused, TypeOK, Call
        <3> HIDE DEF q
        <3>4. (Base(stdin[1]) \o stdin[1].ids)' = call.ids
            <4>1. (Base(stdin[1]))' = <<>> /\ stdin'[1].ids = call.ids
                BY <3>1, <3>2 DEF Base
            <4>2. <<>> \o call.ids = call.ids
                BY <3>3
            <4>3. QED
                BY <4>1, <4>2
        <3>5. QED
            BY <1>0, <2>2, <2>3, <3>1, <3>2, <3>3, <3>4 DEF Unread
    <2>5. proc' /\ call'.id # 0
        BY <1>0, <1>4, <2>3 DEF RetryCold, TypeOK
    <2>6. QED
        BY <1>0, <2>3, <2>4, <2>5 DEF Conversation, Busy
<1>5. CASE RetryOnDead
    <2>1. call'.state = "failed"
        BY <1>5 DEF RetryOnDead, TypeOK, Call
    <2>2. QED
        BY <1>5, <2>1, ConversationDiscarded DEF RetryOnDead, MarkDown
<1>6. CASE FailOnError
    <2>1. Refused
        BY <1>6, FirstLine DEF FailOnError, ReadError, TokLine, DoneLine
    <2>2. stdout' = <<>> /\ call'.state = "failed"
        BY <1>6, <2>1 DEF FailOnError, Refused, TypeOK, Call
    <2>3. QED
        BY <1>0, <1>6, <2>1, <2>2
        DEF FailOnError, Refused, Conversation, Busy, Quiet, Working
<1>7. CASE ReadEof
    <2>1. call'.state = "failed"
        BY <1>7 DEF ReadEof, TypeOK, Call
    <2>2. QED
        BY <1>7, <2>1, ConversationDiscarded DEF ReadEof, MarkDown
<1>8. QED
    BY <1>1, <1>2, <1>3, <1>4, <1>5, <1>6, <1>7 DEF Read

\* A token printed is a greedy choice after the context and becomes its last;
\* it ends the answer exactly when the loop leaves.
LEMMA TokenPrinted ==
    \A t \in Token :
        TypeOK /\ FeedsLast /\ Decoding /\ Emit(t) /\ call' = call => Decoding'
<1>0. SUFFICES ASSUME NEW t \in Token, TypeOK, FeedsLast, Decoding, Emit(t),
                      call' = call
               PROVE  Decoding'
    BY Zenon
<1>1. /\ kv \in Seq(Token) /\ stdout \in Seq(Line)
      /\ call.ids \in Seq(Token) /\ call.out \in Seq(Token) /\ call.n \in Nat
      /\ job \in Job
    BY <1>0 DEF TypeOK, EngineTypeOK, Call
<1>2. PICK m \in Nat, K \in Nat, L \in Nat, g \in Nat, n \in Nat :
            /\ m = Len(stdout) /\ K = Len(call.ids) /\ L = Len(kv) /\ g = Given
            /\ n = call.n /\ K <= g
    <2>1. Len(stdout) \in Nat /\ Len(kv) \in Nat
        BY <1>1
    <2>2. Len(call.ids) \in Nat /\ Len(call.out) \in Nat
        BY <1>1
    <2>3. \A a, b \in Nat : a + b \in Nat /\ a <= a + b
        OBVIOUS
    <2>4. Given \in Nat /\ Len(call.ids) <= Given
        BY <2>2, <2>3, Zenon DEF Given
    <2>5. QED
        BY <1>1, <2>1, <2>2, <2>4, Zenon
<1>3. /\ stdin = <<>>
      /\ Working /\ job.id = call.id /\ job.n = n /\ job.go
      /\ job.n_out = L - K
      /\ ~Ended /\ InStep(m)
    BY <1>0, <1>2 DEF Decoding, Emit
<1>4. /\ L = g + m /\ L <= K + n
      /\ SubSeq(kv, 1, g) = call.ids \o call.out
      /\ \A i \in 1..m : stdout[i] = TokLine(call.id, kv[g + i])
      /\ \A k \in (K + 1)..L : kv[k] \in Decode(SubSeq(kv, 1, k - 1))
      /\ \A k \in (K + 1)..(L - 1) : kv[k] \notin Eos
    BY <1>2, <1>3, Zenon DEF InStep
<1>5. L # K + n /\ (L > K => kv[L] \notin Eos)
    BY <1>2, <1>3, Zenon DEF Ended
<1>6. t \in Decode(kv)
    BY <1>0 DEF Emit
<1>7. /\ kv' = Append(kv, t)
      /\ stdout' = Append(stdout, TokLine(call.id, t))
      /\ job' = [job EXCEPT !.n_out = @ + 1, !.go = ~Leaves(t)]
      /\ stdin' = stdin
    BY <1>0, <1>3, Zenon DEF Emit
<1>8. /\ Len(kv') = L + 1 /\ kv'[L + 1] = t
      /\ \A k \in 1..L : kv'[k] = kv[k]
    BY <1>1, <1>2, <1>7
<1>9. \A k \in 0..L : SubSeq(kv', 1, k) = SubSeq(kv, 1, k)
    BY <1>1, <1>2, <1>7, PrefixOfAppend
<1>10. /\ Len(stdout') = m + 1 /\ stdout'[m + 1] = TokLine(call.id, t)
       /\ \A i \in 1..m : stdout'[i] = stdout[i]
    <2>1. TokLine(call.id, t) \in Line
        BY <1>0, LineTypes DEF TypeOK, Call
    <2>2. QED
        BY <1>1, <1>2, <1>7, <2>1
<1>11. /\ job'.id = call.id /\ job'.n = call.n /\ job'.n_out = L + 1 - K
       /\ job'.go <=> ~Leaves(t)
    <2>1. job'.id = job.id /\ job'.n = job.n /\ job'.n_out = job.n_out + 1
        BY <1>1, <1>7 DEF Job
    <2>2. job'.go = ~Leaves(t)
        BY <1>1, <1>7 DEF Job
    <2>3. (L - K) + 1 = L + 1 - K
        OBVIOUS
    <2>4. QED
        BY <1>2, <1>3, <2>1, <2>2, <2>3, Zenon
<1>12. Leaves(t) <=> (t \in Eos \/ L + 1 = K + n)
    <2>1. job.n_out + 1 >= job.n <=> L + 1 = K + n
        <3>1. job.n_out = L - K /\ job.n = n /\ L <= K + n /\ L # K + n
            BY <1>3, <1>4, <1>5, Zenon
        <3>2. QED
            BY <3>1
    <2>2. QED
        BY <2>1, Zenon DEF Leaves
<1>13. SubSeq(kv, 1, L) = kv
    BY <1>1, <1>2, WholePrefix
<1>14. L = g + m /\ L + 1 <= K + n /\ g \in 0..L
    <2>1. L = g + m /\ L <= K + n /\ L # K + n
        BY <1>4, <1>5, Zenon
    <2>2. QED
        BY <2>1
<1>15. InStep(m + 1)'
    <2>1. Given' = g /\ call'.ids = call.ids /\ call'.out = call.out
          /\ call'.n = n /\ call'.id = call.id
        BY <1>0, <1>2 DEF Given
    <2>2. L + 1 = g + (m + 1) /\ L + 1 <= K + n
        BY <1>14
    <2>3. SubSeq(kv', 1, g) = call.ids \o call.out
        BY <1>4, <1>9, <1>14, Zenon
    <2>4. \A i \in 1..(m + 1) : stdout'[i] = TokLine(call.id, kv'[g + i])
        <3>1. \A i \in 1..m : stdout'[i] = TokLine(call.id, kv'[g + i])
            <4>1. SUFFICES ASSUME NEW i \in 1..m
                           PROVE  stdout'[i] = TokLine(call.id, kv'[g + i])
                OBVIOUS
            <4>2. g + i \in 1..L
                BY <1>14
            <4>3. stdout'[i] = stdout[i] /\ kv'[g + i] = kv[g + i]
                BY <1>8, <1>10, <4>2, Zenon
            <4>4. QED
                BY <1>4, <4>3, Zenon
        <3>2. g + (m + 1) = L + 1
            BY <1>14
        <3>3. stdout'[m + 1] = TokLine(call.id, kv'[g + (m + 1)])
            BY <1>8, <1>10, <3>2
        <3>4. \A i \in 1..(m + 1) : i \in 1..m \/ i = m + 1
            OBVIOUS
        <3>5. QED
            BY <3>1, <3>3, <3>4, Zenon
    <2>5. \A k \in (K + 1)..(L + 1) : kv'[k] \in Decode(SubSeq(kv', 1, k - 1))
        <3>1. SUFFICES ASSUME NEW k \in (K + 1)..(L + 1)
                       PROVE  kv'[k] \in Decode(SubSeq(kv', 1, k - 1))
            OBVIOUS
        <3>2. k - 1 \in 0..L
            OBVIOUS
        <3>3. SubSeq(kv', 1, k - 1) = SubSeq(kv, 1, k - 1)
            BY <1>9, <3>2
        <3>4. CASE k = L + 1
            <4>1. SubSeq(kv, 1, k - 1) = kv
                BY <1>13, <3>4
            <4>2. QED
                BY <1>6, <1>8, <3>3, <3>4, <4>1, Zenon
        <3>5. CASE k \in (K + 1)..L
            <4>1. kv'[k] = kv[k]
                BY <1>8, <3>5
            <4>2. QED
                BY <1>4, <3>3, <3>5, <4>1, Zenon
        <3>6. QED
            BY <3>4, <3>5
    <2>6. \A k \in (K + 1)..L : kv'[k] \notin Eos
        <3>1. SUFFICES ASSUME NEW k \in (K + 1)..L
                       PROVE  kv'[k] \notin Eos
            OBVIOUS
        <3>2. kv'[k] = kv[k]
            BY <1>8
        <3>3. k = L \/ k \in (K + 1)..(L - 1)
            OBVIOUS
        <3>4. L > K
            OBVIOUS
        <3>5. QED
            BY <1>4, <1>5, <3>2, <3>3, <3>4, Zenon
    <2>7. (L + 1) - 1 = L
        OBVIOUS
    <2>8. QED
        BY <1>2, <1>8, <2>1, <2>2, <2>3, <2>4, <2>5, <2>6, <2>7, Zenon DEF InStep
<1>16. Ended' <=> (t \in Eos \/ L + 1 = K + n)
    <2>1. L + 1 > K
        BY <1>2, <1>14
    <2>2. QED
        BY <1>0, <1>2, <1>8, <2>1 DEF Ended
<1>17. InStep(Len(stdout))'
    BY <1>10, <1>15, Zenon DEF InStep
<1>18. Working'
    BY <1>3, <1>11 DEF Working
<1>19. job'.n_out = Len(kv') - Len(call'.ids)
    BY <1>0, <1>2, <1>8, <1>11
<1>20. QED
    BY <1>0, <1>3, <1>7, <1>11, <1>12, <1>16, <1>17, <1>18, <1>19, Zenon DEF Decoding

\* The engine's own steps keep the conversation.
LEMMA ConversationServes ==
    ASSUME TypeOK, Conversation, FeedsLast, EngineRuns
    PROVE  Conversation'
<1>1. UNCHANGED <<alive, proc, history, nextId, call>> /\ ServeStep
    BY DEF EngineRuns, daemonVars, ServeStep, AnswerStop, Refuse, Accept, Emit, Finish
<1>2. /\ stdin \in Seq(Request) /\ stdout \in Seq(Line) /\ kv \in Seq(Token)
      /\ call.ids \in Seq(Token) /\ call.n \in Nat
    BY DEF TypeOK, EngineTypeOK, Call
<1>3. CASE ~Busy
    <2>1. stdin = <<>> /\ ~Working
        BY <1>3 DEF Conversation, Quiet
    <2>2. QED
        BY <1>1, <2>1 DEF ServeStep, AnswerStop, Refuse, Accept, Emit, Finish
<1>4. CASE Busy
    <2>1. /\ proc /\ call.id # 0 /\ call.ids # <<>>
          /\ Unread \/ Decoding \/ Answered \/ Refused
        BY <1>4, Zenon DEF Conversation
    <2>2. ASSUME Unread' \/ Decoding' \/ Answered' \/ Refused'
          PROVE  Conversation'
        <3>1. proc' = proc /\ call' = call
            BY <1>1
        <3>2. Busy' /\ proc'
            BY <1>4, <2>1, <3>1, Zenon DEF Busy
        <3>3. QED
            BY <2>1, <2>2, <3>1, <3>2, Zenon DEF Conversation
    <2>3. CASE AnswerStop
        <3>1. stdin # <<>> /\ Head(stdin).stop
            BY <2>3 DEF AnswerStop
        <3>2. Unread
            BY <2>1, <3>1 DEF Decoding, Answered, Refused
        <3>3. QED
            BY <1>2, <3>1, <3>2 DEF Unread
    <2>4. CASE Refuse
        <3>1. Unread
            BY <2>1, <2>4 DEF Refuse, Decoding, Answered, Refused
        <3>2. stdin' = <<>> /\ stdout' = <<ErrorLine(call.id)>> /\ ~Working'
            BY <1>2, <2>4, <3>1 DEF Refuse, Unread, Working
        <3>3. Refused'
            BY <1>1, <3>1, <3>2 DEF Refused, Unread
        <3>4. QED
            BY <2>2, <3>3
    <2>5. CASE Accept
        <3> DEFINE q == Head(stdin)
        <3>1. Unread
            BY <2>1, <2>5 DEF Accept, Decoding, Answered, Refused
        <3>2. /\ q = stdin[1] /\ stdin' = <<>>
            BY <1>2, <2>5, <3>1, SMTT(30) DEF Accept, Unread
        <3>3. /\ q.id = call.id /\ q.n = call.n /\ q.ids # <<>> /\ stdout = <<>>
              /\ Base(q) \o q.ids = call.ids /\ call.out = <<>>
            BY <3>1, <3>2, Zenon DEF Unread
        <3>4. /\ kv' = call.ids /\ stdout' = <<>>
              /\ job' = [id |-> q.id, n |-> q.n, n_out |-> 0,
                         go |-> q.n > 0 /\ q.ids # <<>>]
            BY <2>5, <3>3, Zenon DEF Accept
        <3>5. PICK K \in Nat, n \in Nat : K = Len(call.ids) /\ n = call.n
            BY <1>2
        <3>6. Given' = K
            BY <1>1, <3>3, <3>5 DEF Given
        <3>7. InStep(0)'
            <4>1. SubSeq(kv', 1, K) = call.ids \o call.out
                <5>1. call.ids \o <<>> = call.ids
                    BY <1>2
                <5>2. QED
                    BY <1>2, <3>3, <3>4, <3>5, <5>1, WholePrefix
            <4>2. \A k \in (K + 1)..K : FALSE
                OBVIOUS
            <4>3. \A k \in (K + 1)..(K - 1) : FALSE
                OBVIOUS
            <4>4. \A i \in 1..0 : FALSE
                OBVIOUS
            <4>5. K = K + 0 /\ K <= K + n
                OBVIOUS
            <4>6. call' = call /\ Len(kv') = K
                BY <1>1, <3>4, <3>5
            <4>7. QED
                BY <3>5, <3>6, <4>1, <4>2, <4>3, <4>4, <4>5, <4>6, Zenon DEF InStep
        <3>8. Ended' <=> n = 0
            <4>1. call' = call /\ Len(kv') = K
                BY <1>1, <3>4, <3>5
            <4>2. (K = K + n <=> n = 0) /\ ~(K > K)
                OBVIOUS
            <4>3. QED
                BY <3>5, <4>1, <4>2, Zenon DEF Ended
        <3>9. /\ job'.id = call.id /\ job'.n = call.n /\ job'.n_out = 0
              /\ job'.go <=> n # 0
            <4> HIDE DEF q
            <4>1. /\ job'.id = q.id /\ job'.n = q.n /\ job'.n_out = 0
                  /\ job'.go = (q.n > 0 /\ q.ids # <<>>)
                BY <3>4
            <4>2. n > 0 <=> n # 0
                OBVIOUS
            <4>3. QED
                BY <3>3, <3>5, <4>1, <4>2, Zenon
        <3>10. Len(stdout') = 0 /\ 0 = K - K
            BY <3>4
        <3>11. InStep(Len(stdout))'
            BY <3>7, <3>10, Zenon DEF InStep
        <3>12. call' = call /\ Len(kv') = K /\ Working'
            BY <1>1, <2>1, <3>4, <3>5, <3>9 DEF Working
        <3>13. Decoding'
            BY <3>2, <3>5, <3>8, <3>9, <3>10, <3>11, <3>12, Zenon DEF Decoding
        <3>14. QED
            BY <2>2, <3>13
    <2>6. ASSUME NEW t \in Token, Emit(t)
          PROVE  Conversation'
        <3>1. Working
            BY <2>6 DEF Emit
        <3>2. Decoding
            BY <2>1, <3>1 DEF Unread, Answered, Refused
        <3>3. Decoding'
            BY <1>1, <2>6, <3>2, TokenPrinted
        <3>4. QED
            BY <2>2, <3>3
    <2>7. CASE Finish
        <3>1. Decoding
            BY <2>1, <2>7 DEF Finish, Unread, Answered, Refused
        <3>2. PICK m \in Nat : m = Len(stdout)
            BY <1>2
        <3>3. /\ stdin' = <<>> /\ ~Working' /\ kv' = kv /\ call' = call
              /\ stdout' = Append(stdout, DoneLine(call.id, Len(kv) - Len(call.ids)))
            BY <1>1, <2>7, <3>1 DEF Finish, Decoding, Working, NoJob
        <3>4. DoneLine(call.id, Len(kv) - Len(call.ids)) \in Line
            <4>1. job.n_out \in Nat /\ job.n_out = Len(kv) - Len(call.ids)
                BY <3>1 DEF Decoding, TypeOK, EngineTypeOK, Job
            <4>2. call.id \in Nat
                BY DEF TypeOK, Call
            <4>3. QED
                BY <4>1, <4>2, LineTypes
        <3>5. /\ Len(stdout') = m + 1 /\ stdout' # <<>>
              /\ stdout'[Len(stdout')] = DoneLine(call.id, Len(kv) - Len(call.ids))
              /\ \A i \in 1..m : stdout'[i] = stdout[i]
            BY <1>2, <3>2, <3>3, <3>4
        <3>6. Ended'
            BY <2>7, <3>1, <3>3 DEF Finish, Decoding, Ended
        <3>7. InStep(m)'
            BY <3>1, <3>2, <3>3, <3>5 DEF Decoding, InStep, Given
        <3>8. InStep(Len(stdout) - 1)'
            <4>1. Len(stdout') - 1 = m
                BY <3>5
            <4>2. QED
                BY <3>7, <4>1, Zenon DEF InStep
        <3>9. Answered'
            BY <3>3, <3>5, <3>6, <3>8, Zenon DEF Answered
        <3>10. QED
            BY <2>2, <3>9
    <2>8. QED
        BY <1>1, <2>3, <2>4, <2>5, <2>6, <2>7 DEF ServeStep
<1>5. QED
    BY <1>3, <1>4

\* No step breaks the conversation.
LEMMA ConversationStep ==
    ASSUME TypeOK, Conversation, FeedsLast, ~CanDrop, [Next]_vars
    PROVE  Conversation'
<1>1. ASSUME NEW ids \in Prompts, NEW n \in Budgets,
             Begin(ids, n) \/ BeginWithSpawn(ids, n)
      PROVE  Conversation'
    BY <1>1, ConversationBegins
<1>2. ASSUME NEW ids \in Prompts, NEW n \in Budgets, BeginOnDead(ids, n)
      PROVE  Conversation'
    <2>1. call'.state = "failed"
        BY <1>2 DEF BeginOnDead, NewCall
    <2>2. QED
        BY <1>2, <2>1, ConversationDiscarded DEF BeginOnDead, MarkDown
<1>3. ASSUME NEW ids \in Prompts, NEW n \in Budgets, SpawnFails(ids, n)
      PROVE  Conversation'
    <2>1. call'.state = "failed" /\ ~Busy
        BY <1>3 DEF SpawnFails, NewCall
    <2>2. QED
        BY <1>3, <2>1
        DEF SpawnFails, engineVars, Conversation, Busy, Quiet, Working
<1>4. CASE Read
    BY <1>4, ConversationReads
<1>5. CASE DropCall \/ EjectDropped
    BY <1>5 DEF DropCall, EjectDropped
<1>6. CASE Eject
    <2>1. call'.state # "busy"
        BY <1>6 DEF Eject, Busy
    <2>2. QED
        BY <1>6, <2>1, ConversationDiscarded DEF Eject
<1>7. CASE EngineExits
    <2>1. /\ alive' = FALSE
          /\ UNCHANGED <<stdin, stdout, kv, job, proc, history, nextId, call>>
        BY <1>7 DEF EngineExits, Exit, daemonVars
    <2>2. QED
        BY <2>1
        DEF Conversation, Busy, Unread, Decoding, Answered, Refused, InStep, Ended,
            Given, Quiet, Working, Base
<1>8. CASE EngineRuns
    BY <1>8, ConversationServes
<1>9. CASE UNCHANGED vars
    BY <1>9
    DEF vars, engineVars, daemonVars, Conversation, Busy, Unread, Decoding, Answered,
        Refused, InStep, Ended, Given, Quiet, Working, Base
<1>10. QED
    BY <1>1, <1>2, <1>3, <1>4, <1>5, <1>6, <1>7, <1>8, <1>9 DEF Next

\* With an engine that feeds the last token, and calls that are never dropped,
\* the conversation holds for ever.
THEOREM ConversationHolds ==
    ASSUME FeedsLast, ~CanDrop
    PROVE  Spec => []Conversation
<1>1. Init => Conversation
    BY ConversationInit
<1>2. TypeOK /\ Conversation /\ [Next]_vars => Conversation'
    BY ConversationStep
<1>3. QED
    BY <1>1, <1>2, TypeCorrect, PTL DEF Spec

\* Then `history` is the engine's context between calls (engine.rs:100-103), so
\* a warm append continues the conversation it was meant to.
THEOREM HistoryCorrect ==
    ASSUME FeedsLast, ~CanDrop
    PROVE  Spec => []HistoryIsState
<1>1. Conversation => HistoryIsState
    BY DEF Conversation, HistoryIsState
<1>2. QED
    BY <1>1, ConversationHolds, PTL

-----------------------------------------------------------------------------
(***************************************************************************)
(* Refinement: generate() is a stateless greedy decoder.                   *)
(***************************************************************************)
\* What the caller sees of a call.
Seen == [state |-> call.state, ids |-> call.ids, n |-> call.n, out |-> call.out]

\* The first unread token is a greedy choice after the prompt and the tokens
\* delivered, and the answer was not complete before it.
LEMMA TokenDue ==
    \A m \in Nat :
        /\ TypeOK /\ InStep(m) /\ m > 0
        => /\ kv[Given + 1] \in Token
           /\ kv[Given + 1] \in Decode(call.ids \o call.out)
           /\ ~Stateless!Complete(Seen)
<1>0. SUFFICES ASSUME NEW m \in Nat, TypeOK, InStep(m), m > 0
               PROVE  /\ kv[Given + 1] \in Token
                      /\ kv[Given + 1] \in Decode(call.ids \o call.out)
                      /\ ~Stateless!Complete(Seen)
    BY Zenon
<1>1. /\ kv \in Seq(Token) /\ call.n \in Nat
      /\ call.ids \in Seq(Token) /\ call.out \in Seq(Token)
    BY <1>0 DEF TypeOK, EngineTypeOK, Call
<1>2. PICK K \in Nat, O \in Nat, n \in Nat, g \in Nat, L \in Nat :
            /\ K = Len(call.ids) /\ O = Len(call.out) /\ n = call.n /\ L = Len(kv)
            /\ g = K + O /\ g = Given
    <2>1. Len(call.ids) \in Nat /\ Len(call.out) \in Nat /\ Len(kv) \in Nat
        BY <1>1
    <2>2. QED
        BY <1>1, <2>1, LengthSum, Zenon DEF Given
<1>3. /\ SubSeq(kv, 1, g) = call.ids \o call.out
      /\ \A k \in (K + 1)..L : kv[k] \in Decode(SubSeq(kv, 1, k - 1))
      /\ \A k \in (K + 1)..(L - 1) : kv[k] \notin Eos
    BY <1>0, <1>2, Zenon DEF InStep
<1>a. g = K + O /\ L = g + m /\ L <= K + n /\ m > 0
    BY <1>0, <1>2, Zenon DEF InStep
<1>4. kv[g + 1] \in Token
    <2>1. g + 1 \in 1..L
        BY <1>a
    <2>2. \A i \in 1..Len(kv) : kv[i] \in Token
        BY <1>1
    <2>3. QED
        BY <1>2, <2>1, <2>2, Zenon
<1>5. kv[g + 1] \in Decode(call.ids \o call.out)
    <2>1. g + 1 \in (K + 1)..L /\ (g + 1) - 1 = g
        BY <1>a
    <2>2. QED
        BY <1>3, <2>1, Zenon
<1>6. O < n
    BY <1>a
<1>7. call.out # <<>> => call.out[O] \notin Eos
    <2>0. SUFFICES ASSUME call.out # <<>>
                   PROVE  call.out[O] \notin Eos
        OBVIOUS
    <2>1. O > 0 /\ call.out[O] = (call.ids \o call.out)[g]
        <3>1. /\ Len(call.out) > 0
              /\ (call.ids \o call.out)[Len(call.ids) + Len(call.out)]
                    = call.out[Len(call.out)]
            BY <1>1, <2>0, LastOfConcat
        <3>2. QED
            BY <1>2, <3>1, Zenon
    <2>2. g \in 1..L /\ g \in (K + 1)..(L - 1)
        BY <1>a, <2>1
    <2>3. SubSeq(kv, 1, g)[g] = kv[g]
        BY <1>1, <1>2, <2>2
    <2>4. QED
        BY <1>3, <2>1, <2>2, <2>3, Zenon
<1>8. ~Stateless!Complete(Seen)
    <2>1. /\ Seen.out = call.out /\ Seen.n = call.n
        BY DEF Seen
    <2>2. ~(O >= n)
        BY <1>6
    <2>3. QED
        BY <1>2, <1>7, <2>1, <2>2, Zenon DEF Stateless!Complete
<1>9. QED
    BY <1>2, <1>4, <1>5, <1>8, Zenon

\* What the caller sees of a step is a step of the stateless decoder, or none.
LEMMA StatelessStep ==
    ASSUME TypeOK, Conversation, ~CanDrop, [Next]_vars
    PROVE  [Stateless!Next]_Seen
<1>0. call \in Call
    BY DEF TypeOK
<1>1. ASSUME NEW ids \in Prompts, NEW n \in Budgets,
             Begin(ids, n) \/ BeginWithSpawn(ids, n)
      PROVE  Stateless!Begin(ids, n)
    <2>1. ~Busy /\ \E i, w : call' = NewCall("busy", ids, n, i, w)
        BY <1>1, Zenon DEF Begin, BeginWithSpawn
    <2>2. call.state # "busy" /\ Seen.state = call.state
        BY <2>1 DEF Busy, Seen
    <2>3. Seen' = [state |-> "busy", ids |-> ids, n |-> n, out |-> <<>>]
        BY <2>1 DEF NewCall, Seen
    <2>4. QED
        BY <2>2, <2>3 DEF Stateless!Begin, Seen
<1>2. ASSUME NEW ids \in Prompts, NEW n \in Budgets,
             BeginOnDead(ids, n) \/ SpawnFails(ids, n)
      PROVE  Stateless!Reject(ids, n)
    BY <1>2 DEF BeginOnDead, SpawnFails, NewCall, Busy, Stateless!Reject
<1>3. CASE Read
    <2>1. CASE ReadStale
        BY <2>1 DEF ReadStale, daemonVars, Seen
    <2>2. CASE ReadTok
        <3>1. Reading /\ Head(stdout).kind = "tok"
            BY <2>2 DEF ReadTok
        <3>2. PICK m \in Nat : m > 0 /\ InStep(m) /\ Head(stdout) = TokLine(call.id, kv[Given + 1])
            <4>1. stdout \in Seq(Line) /\ stdout # <<>>
                BY <3>1 DEF TypeOK, EngineTypeOK, Reading
            <4>2. Len(stdout) \in Nat /\ Len(stdout) > 0
                BY <4>1
            <4>3. Len(stdout) > 1 => Len(stdout) - 1 \in Nat /\ Len(stdout) - 1 > 0
                BY <4>2
            <4>4. CASE Decoding /\ Head(stdout) = TokLine(call.id, kv[Given + 1])
                BY <4>2, <4>4, Zenon DEF Decoding
            <4>5. CASE Answered /\ Len(stdout) > 1 /\ Head(stdout) = TokLine(call.id, kv[Given + 1])
                BY <4>3, <4>5, Zenon DEF Answered
            <4>6. Head(stdout) # DoneLine(call.id, Len(kv) - Len(call.ids))
                BY <3>1 DEF DoneLine
            <4>7. Head(stdout) # ErrorLine(call.id)
                BY <3>1 DEF ErrorLine
            <4>8. QED
                BY <3>1, <4>4, <4>5, <4>6, <4>7, FirstLine, Zenon
        <3>3. PICK t \in Token : /\ t = kv[Given + 1]
                                 /\ t \in Decode(call.ids \o call.out)
                                 /\ ~Stateless!Complete(Seen)
            BY <3>2, TokenDue, Zenon
        <3>4. Head(stdout).tok = t
            BY <3>2, <3>3 DEF TokLine
        <3>5. Seen' = [Seen EXCEPT !.out = Append(@, t)] /\ Seen.state = "busy"
            <4>1. call' = [call EXCEPT !.out = Append(call.out, t)]
                BY <2>2, <3>4 DEF ReadTok
            <4>2. call.state = "busy"
                BY <3>1 DEF Reading, Busy
            <4>3. /\ call'.state = call.state /\ call'.ids = call.ids
                  /\ call'.n = call.n /\ call'.out = Append(call.out, t)
                BY <1>0, <4>1 DEF Call
            <4>4. /\ Seen' = [state |-> call'.state, ids |-> call'.ids,
                              n |-> call'.n, out |-> call'.out]
                  /\ Seen.state = call.state /\ Seen.out = call.out
                BY DEF Seen
            <4>5. \A o : [Seen EXCEPT !.out = o]
                        = [state |-> call.state, ids |-> call.ids, n |-> call.n, out |-> o]
                BY DEF Seen
            <4>6. QED
                BY <4>2, <4>3, <4>4, <4>5, Zenon
        <3>6. Stateless!Deliver(t)
            BY <3>3, <3>5 DEF Stateless!Deliver, Seen
        <3>7. QED
            BY <3>6 DEF Stateless!Next
    <2>3. CASE ReadDone
        <3>1. Answered /\ Len(stdout) = 1
            BY <2>3, FirstLine DEF ReadDone, TokLine, ErrorLine
        <3>2. Ended /\ InStep(0)
            BY <3>1 DEF Answered
        <3>3. Stateless!Complete(Seen)
            <4>1. /\ kv \in Seq(Token) /\ call.n \in Nat
                  /\ call.ids \in Seq(Token) /\ call.out \in Seq(Token)
                BY DEF TypeOK, EngineTypeOK, Call
            <4>2. kv = call.ids \o call.out
                <5>1. Len(kv) = Given
                    BY <3>2, <4>1 DEF InStep, Given
                <5>2. QED
                    BY <3>2, <4>1, <5>1, WholePrefix DEF InStep
            <4>3. PICK K \in Nat, O \in Nat, L \in Nat, n \in Nat :
                        /\ K = Len(call.ids) /\ O = Len(call.out)
                        /\ L = Len(kv) /\ n = call.n
                <5>1. Len(call.ids) \in Nat /\ Len(call.out) \in Nat /\ Len(kv) \in Nat
                    BY <4>1
                <5>2. QED
                    BY <4>1, <5>1, Zenon
            <4>4. L = K + O
                BY <4>1, <4>2, <4>3
            <4>5. CASE L = K + n
                <5>1. O >= n
                    BY <4>4, <4>5
                <5>2. QED
                    BY <4>3, <5>1 DEF Stateless!Complete, Seen
            <4>6. CASE L > K /\ kv[L] \in Eos
                <5>1. call.out # <<>>
                    <6>1. O > 0
                        BY <4>4, <4>6
                    <6>2. QED
                        BY <4>1, <4>3, <6>1, LongIsNotEmpty, Zenon
                <5>2. (call.ids \o call.out)[Len(call.ids) + Len(call.out)]
                            = call.out[Len(call.out)]
                    BY <4>1, <5>1, LastOfConcat
                <5>3. kv[L] = call.out[O]
                    BY <4>2, <4>3, <4>4, <5>2, Zenon
                <5>4. QED
                    BY <4>3, <4>6, <5>1, <5>3, Zenon DEF Stateless!Complete, Seen
            <4>7. QED
                BY <3>2, <4>3, <4>5, <4>6, Zenon DEF Ended
        <3>4. Stateless!Done
            <4>1. call' = [call EXCEPT !.state = "done"] /\ call.state = "busy"
                BY <2>3 DEF ReadDone, Reading, Busy
            <4>2. /\ call'.state = "done" /\ call'.ids = call.ids
                  /\ call'.n = call.n /\ call'.out = call.out
                BY <1>0, <4>1 DEF Call
            <4>3. Seen' = [Seen EXCEPT !.state = "done"] /\ Seen.state = "busy"
                BY <4>1, <4>2 DEF Seen
            <4>4. QED
                BY <3>3, <4>3 DEF Stateless!Done, Seen
        <3>5. QED
            BY <3>4 DEF Stateless!Next
    <2>4. CASE RetryCold
        BY <1>0, <2>4 DEF RetryCold, Seen, Call
    <2>5. CASE RetryOnDead \/ FailOnError \/ ReadEof
        <3>1. call.state = "busy"
            BY <2>5 DEF RetryOnDead, FailOnError, ReadEof, ReadError, Reading, Busy
        <3>2. /\ call'.state = "failed" /\ call'.ids = call.ids
              /\ call'.n = call.n /\ call'.out = call.out
            BY <1>0, <2>5 DEF RetryOnDead, FailOnError, ReadEof, Call
        <3>3. Seen' = [Seen EXCEPT !.state = "failed"] /\ Seen.state = "busy"
            BY <3>1, <3>2 DEF Seen
        <3>4. QED
            BY <3>3 DEF Seen, Stateless!Fail, Stateless!Next
    <2>6. QED
        BY <1>3, <2>1, <2>2, <2>3, <2>4, <2>5 DEF Read
<1>4. CASE DropCall \/ EjectDropped
    BY <1>4 DEF DropCall, EjectDropped
<1>5. CASE Eject \/ EngineExits \/ EngineRuns \/ UNCHANGED vars
    BY <1>5 DEF Eject, EngineExits, EngineRuns, daemonVars, vars, Seen
<1>6. QED
    BY <1>1, <1>2, <1>3, <1>4, <1>5 DEF Next, Stateless!Next

\* Then the warm appends, the cold retries and the engine's deaths show in
\* nothing but the calls that fail: every answer is the one an engine starting
\* from the whole prompt would have given.
THEOREM Refinement ==
    ASSUME FeedsLast, ~CanDrop
    PROVE  Spec => IsStateless
<1>1. Init => Stateless!Init
    BY DEF Init, NoCall, Stateless!Init, Stateless!NoCall
<1>2. TypeOK /\ Conversation /\ [Next]_vars => [Stateless!Next]_Seen
    BY StatelessStep
<1>3. QED
    BY <1>1, <1>2, TypeCorrect, ConversationHolds, PTL
    DEF Spec, IsStateless, Stateless!Spec, Seen

-----------------------------------------------------------------------------
(***************************************************************************)
(* Abandoned calls: the ids, the answers and the cold requests, for both   *)
(* kinds of engine, with calls dropped anywhere and processes that die.    *)
(*                                                                         *)
(* Ids go up through stdin and, but for the tokens of one answer, through  *)
(* stdout; the job's is between the two. The lemmas are about any two      *)
(* pipes `in` and `out`, job id j (0: none) and last id `top` given out.   *)
(***************************************************************************)
Ascending(in) == \A i, k \in 1..Len(in) : i < k => in[i].id < in[k].id

Told(out) == \A i, k \in 1..Len(out) : i < k =>
    out[i].id <= out[k].id /\ (Terminal(out[i]) => out[i].id < out[k].id)

Before(out, in) == \A i \in 1..Len(out), k \in 1..Len(in) : out[i].id < in[k].id

Between(in, j, out, top) == j # 0 =>
    /\ \A k \in 1..Len(in) : j < in[k].id
    /\ \A i \in 1..Len(out) : out[i].id <= j /\ (Terminal(out[i]) => out[i].id < j)
    /\ j <= top

Below(s, top) == \A i \in 1..Len(s) : s[i].id <= top

InOrder(in, j, out, top) ==
    /\ Ascending(in) /\ Told(out) /\ Before(out, in) /\ Between(in, j, out, top)
    /\ Below(in, top) /\ Below(out, top)

\* The answer to the request with id `top` is still to come: its line is the
\* last of stdin, or it is the job, or its terminal line is the last of stdout.
Pending(in, j, out, top) ==
    \/ in # <<>> /\ in[Len(in)].id = top
    \/ j # 0 /\ j = top
    \/ out # <<>> /\ out[Len(out)].id = top /\ Terminal(out[Len(out)])

\* Tokens chosen one after the other.
Chosen(ids, p) == \A k \in 1..Len(p) : p[k] \in Decode(ids \o SubSeq(p, 1, k - 1))

\* An answer p is complete.
Enough(p, n) == Len(p) = n \/ (p # <<>> /\ p[Len(p)] \in Eos)

\* Of the answer p to the call c, the m last tokens are unread, after s lines
\* that are older.
Behind(c, out, p, s, m) ==
    /\ Len(p) = Len(c.out) + m
    /\ \A i \in 1..Len(c.out) : p[i] = c.out[i]
    /\ \A i \in 1..s : out[i].id # c.id
    /\ \A i \in 1..m : out[s + i] = TokLine(c.id, p[Len(c.out) + i])

\* A cold request not read yet; its answer under way, p printed so far; told to
\* its end; or refused.
ColdAsked(c, in) ==
    /\ in # <<>>
    /\ in[Len(in)].id = c.id /\ in[Len(in)].ids = c.ids /\ in[Len(in)].n = c.n
    /\ in[Len(in)].reset /\ ~in[Len(in)].stop
    /\ c.out = <<>>

ColdUnderWay(c, jb, out, context, p, s, m) ==
    /\ Len(out) = s + m /\ Behind(c, out, p, s, m)
    /\ Chosen(c.ids, p) /\ Len(p) <= c.n
    /\ jb.id = c.id /\ jb.n = c.n /\ jb.n_out = Len(p)
    /\ jb.go => context = c.ids \o p /\ ~Enough(p, c.n)
    /\ ~jb.go => Enough(p, c.n)

ColdTold(c, out, p, s, m) ==
    /\ Len(out) = s + m + 1 /\ Behind(c, out, p, s, m)
    /\ Chosen(c.ids, p) /\ Enough(p, c.n)
    /\ out[s + m + 1].id = c.id /\ out[s + m + 1].kind = "done"

ColdDenied(c, out) ==
    /\ out # <<>> /\ c.out = <<>>
    /\ \A i \in 1..(Len(out) - 1) : out[i].id # c.id
    /\ out[Len(out)].id = c.id /\ out[Len(out)].kind = "error"

Cold(c, in, jb, out, context) ==
    \/ ColdAsked(c, in)
    \/ \E p \in Seq(Token), s, m \in Nat :
            \/ ColdUnderWay(c, jb, out, context, p, s, m)
            \/ ColdTold(c, out, p, s, m)
    \/ ColdDenied(c, out)

Wire ==
    /\ InOrder(stdin, job.id, stdout, nextId)
    /\ Busy => /\ call.id = nextId /\ call.id # 0 /\ call.ids # <<>>
               /\ Pending(stdin, job.id, stdout, nextId)
               /\ ~call.warm => Cold(call, stdin, job, stdout, kv)
    /\ call.state = "done" /\ ~call.warm => Greedy(call) /\ Full(call)

\* What reading and writing do to a pipe.
LEMMA TailOf ==
    ASSUME NEW S, NEW s \in Seq(S), s # <<>>
    PROVE  /\ Tail(s) \in Seq(S) /\ Len(s) \in Nat /\ Len(s) > 0
           /\ Len(Tail(s)) = Len(s) - 1
           /\ Head(s) = s[1] /\ Head(s) \in S /\ 1 \in 1..Len(s)
           /\ \A i \in 1..Len(Tail(s)) : i + 1 \in 2..Len(s) /\ Tail(s)[i] = s[i + 1]
OBVIOUS

LEMMA AppendOf ==
    ASSUME NEW S, NEW s \in Seq(S), NEW e \in S
    PROVE  /\ Append(s, e) \in Seq(S) /\ Len(s) \in Nat
           /\ Len(Append(s, e)) = Len(s) + 1
           /\ \A i \in 1..Len(s) : Append(s, e)[i] = s[i]
           /\ Append(s, e)[Len(s) + 1] = e
           /\ \A i \in 1..Len(Append(s, e)) :
                \/ i \in 1..Len(s) /\ i < Len(s) + 1 /\ Append(s, e)[i] = s[i]
                \/ i = Len(s) + 1 /\ Append(s, e)[i] = e
OBVIOUS

\* The ids of the lines are numbers.
LEMMA WireTypes ==
    /\ \A in \in Seq(Request) :
            Len(in) \in Nat /\ \A i \in 1..Len(in) : in[i].id \in Nat \ {0}
    /\ \A out \in Seq(Line) :
            Len(out) \in Nat /\ \A i \in 1..Len(out) : out[i].id \in Nat
<1>1. \A r \in Request : r.id \in Nat \ {0}
    BY DEF Request
<1>2. \A l \in Line : l.id \in Nat
    BY LineTypes
<1>3. QED
    BY <1>1, <1>2

\* A line read leaves stdout, a request read leaves stdin.
LEMMA OrderTail ==
    /\ \A s \in Seq(Request) : s # <<>> /\ Ascending(s) =>
            /\ Ascending(Tail(s))
            /\ \A k \in 1..Len(Tail(s)) : Head(s).id < Tail(s)[k].id
    /\ \A s \in Seq(Line) : s # <<>> /\ Told(s) => Told(Tail(s))
    /\ \A s \in Seq(Line), t \in Seq(Request) :
            s # <<>> /\ Before(s, t) => Before(Tail(s), t)
    /\ \A s \in Seq(Line), t \in Seq(Request) : t # <<>> /\ Before(s, t) =>
            /\ Before(s, Tail(t))
            /\ \A i \in 1..Len(s) : s[i].id < Head(t).id
    /\ \A s \in Seq(Line), t \in Seq(Request), j, top \in Nat :
            s # <<>> /\ Between(t, j, s, top) => Between(t, j, Tail(s), top)
    /\ \A s \in Seq(Line) \cup Seq(Request), top \in Nat :
            s # <<>> /\ Below(s, top) =>
                Below(Tail(s), top) /\ Head(s).id <= top
<1>1. ASSUME NEW s \in Seq(Request), s # <<>>, Ascending(s)
      PROVE  /\ Ascending(Tail(s))
             /\ \A k \in 1..Len(Tail(s)) : Head(s).id < Tail(s)[k].id
    <2>1. ASSUME NEW i \in 1..Len(Tail(s)), NEW k \in 1..Len(Tail(s)), i < k
          PROVE  Tail(s)[i].id < Tail(s)[k].id
        <3>1. /\ i + 1 \in 1..Len(s) /\ k + 1 \in 1..Len(s) /\ i + 1 < k + 1
              /\ Tail(s)[i] = s[i + 1] /\ Tail(s)[k] = s[k + 1]
            BY <1>1, <2>1
        <3>2. QED
            BY <1>1, <3>1, Zenon DEF Ascending
    <2>2. ASSUME NEW k \in 1..Len(Tail(s))
          PROVE  Head(s).id < Tail(s)[k].id
        <3>1. /\ 1 \in 1..Len(s) /\ k + 1 \in 1..Len(s) /\ 1 < k + 1
              /\ Head(s) = s[1] /\ Tail(s)[k] = s[k + 1]
            BY <1>1
        <3>2. QED
            BY <1>1, <3>1, Zenon DEF Ascending
    <2>3. QED
        BY <2>1, <2>2, Zenon DEF Ascending
<1>2. ASSUME NEW s \in Seq(Line), s # <<>>, Told(s)
      PROVE  Told(Tail(s))
    <2>1. ASSUME NEW i \in 1..Len(Tail(s)), NEW k \in 1..Len(Tail(s)), i < k
          PROVE  /\ Tail(s)[i].id <= Tail(s)[k].id
                 /\ Terminal(Tail(s)[i]) => Tail(s)[i].id < Tail(s)[k].id
        <3>1. /\ i + 1 \in 1..Len(s) /\ k + 1 \in 1..Len(s) /\ i + 1 < k + 1
              /\ Tail(s)[i] = s[i + 1] /\ Tail(s)[k] = s[k + 1]
            BY <1>2, <2>1
        <3>2. QED
            BY <1>2, <3>1, Zenon DEF Told
    <2>2. QED
        BY <2>1, Zenon DEF Told
<1>3. \A s \in Seq(Line) \cup Seq(Request) : s # <<>> =>
            /\ \A i \in 1..Len(Tail(s)) : \E k \in 1..Len(s) : Tail(s)[i] = s[k]
            /\ \E k \in 1..Len(s) : Head(s) = s[k]
    <2>1. ASSUME NEW S, NEW s \in Seq(S), s # <<>>
          PROVE  /\ \A i \in 1..Len(Tail(s)) : \E k \in 1..Len(s) : Tail(s)[i] = s[k]
                 /\ \E k \in 1..Len(s) : Head(s) = s[k]
        <3>1. \A i \in 1..Len(Tail(s)) : i + 1 \in 1..Len(s) /\ Tail(s)[i] = s[i + 1]
            BY <2>1
        <3>2. 1 \in 1..Len(s) /\ Head(s) = s[1]
            BY <2>1
        <3>3. QED
            BY <3>1, <3>2, Zenon
    <2>2. QED
        BY <2>1, Zenon
<1>4. \A s \in Seq(Line), t \in Seq(Request) :
            s # <<>> /\ Before(s, t) => Before(Tail(s), t)
    <2>1. SUFFICES ASSUME NEW s \in Seq(Line), NEW t \in Seq(Request), s # <<>>,
                          Before(s, t), NEW i \in 1..Len(Tail(s)), NEW k \in 1..Len(t)
                   PROVE  Tail(s)[i].id < t[k].id
        BY Zenon DEF Before
    <2>2. PICK l \in 1..Len(s) : Tail(s)[i] = s[l]
        BY <1>3, <2>1
    <2>3. QED
        BY <2>1, <2>2, Zenon DEF Before
<1>5. \A s \in Seq(Line), t \in Seq(Request) : t # <<>> /\ Before(s, t) =>
            Before(s, Tail(t)) /\ \A i \in 1..Len(s) : s[i].id < Head(t).id
    BY <1>3, Zenon DEF Before
<1>6. \A s \in Seq(Line), t \in Seq(Request), j, top \in Nat :
            s # <<>> /\ Between(t, j, s, top) => Between(t, j, Tail(s), top)
    <2>1. SUFFICES ASSUME NEW s \in Seq(Line), NEW t \in Seq(Request), NEW j \in Nat,
                          NEW top \in Nat, s # <<>>, Between(t, j, s, top), j # 0
                   PROVE  \A i \in 1..Len(Tail(s)) :
                            /\ Tail(s)[i].id <= j
                            /\ Terminal(Tail(s)[i]) => Tail(s)[i].id < j
        BY Zenon DEF Between
    <2>2. \A i \in 1..Len(Tail(s)) : \E l \in 1..Len(s) : Tail(s)[i] = s[l]
        BY <1>3, <2>1
    <2>3. QED
        BY <2>1, <2>2, Zenon DEF Between
<1>7. \A s \in Seq(Line) \cup Seq(Request), top \in Nat :
            s # <<>> /\ Below(s, top) => Below(Tail(s), top) /\ Head(s).id <= top
    BY <1>3, Zenon DEF Below
<1>8. QED
    BY <1>1, <1>2, <1>4, <1>5, <1>6, <1>7, Zenon

\* A request written, a line printed.
LEMMA OrderAppend ==
    /\ \A s \in Seq(Request), e \in Request :
            Ascending(s) /\ (\A i \in 1..Len(s) : s[i].id < e.id) => Ascending(Append(s, e))
    /\ \A s \in Seq(Line), e \in Line :
            /\ Told(s)
            /\ \A i \in 1..Len(s) : s[i].id <= e.id /\ (Terminal(s[i]) => s[i].id < e.id)
            => Told(Append(s, e))
    /\ \A s \in Seq(Line), t \in Seq(Request), e \in Line :
            Before(s, t) /\ (\A k \in 1..Len(t) : e.id < t[k].id) => Before(Append(s, e), t)
    /\ \A s \in Seq(Line), t \in Seq(Request), e \in Request :
            Before(s, t) /\ (\A i \in 1..Len(s) : s[i].id < e.id) => Before(s, Append(t, e))
    /\ \A s \in Seq(Line), t \in Seq(Request), e \in Line, j, top \in Nat :
            Between(t, j, s, top) /\ e.id = j /\ ~Terminal(e) => Between(t, j, Append(s, e), top)
    /\ \A s \in Seq(Line), t \in Seq(Request), e \in Request, j, top \in Nat :
            Between(t, j, s, top) /\ e.id = top + 1 => Between(Append(t, e), j, s, e.id)
    /\ \A s \in Seq(Line), e \in Line, top \in Nat :
            Below(s, top) /\ e.id <= top => Below(Append(s, e), top)
    /\ \A s \in Seq(Request), e \in Request, top \in Nat :
            Below(s, top) /\ top <= e.id => Below(Append(s, e), e.id)
<1>1. ASSUME NEW S, NEW s \in Seq(S), NEW e \in S, NEW i \in 1..Len(Append(s, e))
      PROVE  \/ i \in 1..Len(s) /\ i < Len(s) + 1 /\ Append(s, e)[i] = s[i]
             \/ i = Len(s) + 1 /\ Append(s, e)[i] = e
    OBVIOUS
<1>2. ASSUME NEW s \in Seq(Request), NEW e \in Request, Ascending(s),
             \A i \in 1..Len(s) : s[i].id < e.id
      PROVE  Ascending(Append(s, e))
    <2>1. SUFFICES ASSUME NEW i \in 1..Len(Append(s, e)), NEW k \in 1..Len(Append(s, e)), i < k
                   PROVE  Append(s, e)[i].id < Append(s, e)[k].id
        BY Zenon DEF Ascending
    <2>2. i \in 1..Len(s) /\ Append(s, e)[i] = s[i]
        BY <1>1, <2>1
    <2>3. CASE k \in 1..Len(s) /\ Append(s, e)[k] = s[k]
        BY <1>2, <2>1, <2>2, <2>3, Zenon DEF Ascending
    <2>4. CASE Append(s, e)[k] = e
        BY <1>2, <2>2, <2>4, Zenon
    <2>5. QED
        BY <1>1, <2>3, <2>4, Zenon
<1>3. ASSUME NEW s \in Seq(Line), NEW e \in Line, Told(s),
             \A i \in 1..Len(s) : s[i].id <= e.id /\ (Terminal(s[i]) => s[i].id < e.id)
      PROVE  Told(Append(s, e))
    <2>1. SUFFICES ASSUME NEW i \in 1..Len(Append(s, e)), NEW k \in 1..Len(Append(s, e)), i < k
                   PROVE  /\ Append(s, e)[i].id <= Append(s, e)[k].id
                          /\ Terminal(Append(s, e)[i]) =>
                                Append(s, e)[i].id < Append(s, e)[k].id
        BY Zenon DEF Told
    <2>2. i \in 1..Len(s) /\ Append(s, e)[i] = s[i]
        BY <1>1, <2>1
    <2>3. CASE k \in 1..Len(s) /\ Append(s, e)[k] = s[k]
        BY <1>3, <2>1, <2>2, <2>3, Zenon DEF Told
    <2>4. CASE Append(s, e)[k] = e
        BY <1>3, <2>2, <2>4, Zenon
    <2>5. QED
        BY <1>1, <2>3, <2>4, Zenon
<1>4. ASSUME NEW s \in Seq(Line), NEW t \in Seq(Request), Before(s, t)
      PROVE  /\ \A e \in Line : (\A k \in 1..Len(t) : e.id < t[k].id) => Before(Append(s, e), t)
             /\ \A e \in Request :
                    (\A i \in 1..Len(s) : s[i].id < e.id) => Before(s, Append(t, e))
    <2>1. ASSUME NEW e \in Line, \A k \in 1..Len(t) : e.id < t[k].id,
                 NEW i \in 1..Len(Append(s, e)), NEW k \in 1..Len(t)
          PROVE  Append(s, e)[i].id < t[k].id
        BY <1>1, <1>4, <2>1, Zenon DEF Before
    <2>2. ASSUME NEW e \in Request, \A i \in 1..Len(s) : s[i].id < e.id,
                 NEW i \in 1..Len(s), NEW k \in 1..Len(Append(t, e))
          PROVE  s[i].id < Append(t, e)[k].id
        BY <1>1, <1>4, <2>2, Zenon DEF Before
    <2>3. QED
        BY <2>1, <2>2, Zenon DEF Before
<1>5. ASSUME NEW s \in Seq(Line), NEW t \in Seq(Request), NEW e \in Line, NEW j \in Nat,
             NEW top \in Nat, Between(t, j, s, top), e.id = j, ~Terminal(e)
      PROVE  Between(t, j, Append(s, e), top)
    <2>1. SUFFICES ASSUME j # 0, NEW i \in 1..Len(Append(s, e))
                   PROVE  /\ Append(s, e)[i].id <= j
                          /\ Terminal(Append(s, e)[i]) => Append(s, e)[i].id < j
        BY <1>5, Zenon DEF Between
    <2>2. j <= j
        OBVIOUS
    <2>3. QED
        BY <1>1, <1>5, <2>1, <2>2, Zenon DEF Between
<1>6. ASSUME NEW s \in Seq(Line), NEW t \in Seq(Request), NEW e \in Request, NEW j \in Nat,
             NEW top \in Nat, Between(t, j, s, top), e.id = top + 1
      PROVE  Between(Append(t, e), j, s, e.id)
    <2>1. SUFFICES ASSUME j # 0, j <= top
                   PROVE  j <= e.id /\ \A k \in 1..Len(Append(t, e)) : j < Append(t, e)[k].id
        BY <1>6, Zenon DEF Between
    <2>2. j < e.id /\ j <= e.id
        BY <1>6, <2>1
    <2>3. QED
        BY <1>1, <1>6, <2>1, <2>2, Zenon DEF Between
<1>7. ASSUME NEW s \in Seq(Line), NEW e \in Line, NEW top \in Nat, Below(s, top), e.id <= top
      PROVE  Below(Append(s, e), top)
    BY <1>1, <1>7, Zenon DEF Below
<1>8. ASSUME NEW s \in Seq(Request), NEW e \in Request, NEW top \in Nat, Below(s, top),
             top <= e.id
      PROVE  Below(Append(s, e), e.id)
    <2>1. \A i \in 1..Len(s) : s[i].id <= e.id
        <3>1. SUFFICES ASSUME NEW i \in 1..Len(s) PROVE s[i].id <= e.id
            OBVIOUS
        <3>2. s[i].id \in Nat /\ e.id \in Nat /\ s[i].id <= top
            BY <1>8, WireTypes DEF Below, Request
        <3>3. QED
            BY <1>8, <3>2
    <2>2. e.id <= e.id
        BY DEF Request
    <2>3. QED
        BY <1>1, <2>1, <2>2, Zenon DEF Below
<1>9. QED
    BY <1>2, <1>3, <1>4, <1>5, <1>6, <1>7, <1>8, Zenon

\* What the daemon and the engine do to the order.
LEMMA OrderWrite ==
    ASSUME NEW in \in Seq(Request), NEW j \in Nat, NEW out \in Seq(Line), NEW top \in Nat,
           InOrder(in, j, out, top), NEW r \in Request, r.id = top + 1
    PROVE  InOrder(Append(in, r), j, out, top + 1)
<1>1. \A s \in Seq(Request) \cup Seq(Line) : Below(s, top) =>
            \A i \in 1..Len(s) : s[i].id < r.id /\ s[i].id <= r.id
    <2>1. SUFFICES ASSUME NEW s \in Seq(Request) \cup Seq(Line), Below(s, top),
                          NEW i \in 1..Len(s)
                   PROVE  s[i].id < r.id /\ s[i].id <= r.id
        OBVIOUS
    <2>2. s[i].id \in Nat /\ s[i].id <= top
        BY <2>1, WireTypes DEF Below
    <2>3. QED
        BY <2>2
<1>2. Ascending(Append(in, r)) /\ Before(out, Append(in, r))
    BY <1>1, OrderAppend, Zenon DEF InOrder
<1>3. Between(Append(in, r), j, out, r.id)
    BY OrderAppend, Zenon DEF InOrder
<1>4. Below(Append(in, r), r.id)
    <2>1. top <= r.id
        OBVIOUS
    <2>2. QED
        BY <2>1, OrderAppend, Zenon DEF InOrder
<1>5. Below(out, r.id)
    BY <1>1, Zenon DEF InOrder, Below
<1>6. QED
    BY <1>2, <1>3, <1>4, <1>5, Zenon DEF InOrder

\* A line with the id of the first request, which leaves stdin.
LEMMA OrderAnswer ==
    ASSUME NEW in \in Seq(Request), NEW out \in Seq(Line), NEW top \in Nat,
           InOrder(in, 0, out, top), in # <<>>, NEW l \in Line, l.id = Head(in).id
    PROVE  InOrder(Tail(in), 0, Append(out, l), top)
<1>1. /\ Ascending(Tail(in)) /\ \A k \in 1..Len(Tail(in)) : l.id < Tail(in)[k].id
      /\ Before(out, Tail(in)) /\ \A i \in 1..Len(out) : out[i].id < l.id
      /\ Below(Tail(in), top) /\ l.id <= top /\ Tail(in) \in Seq(Request)
    BY OrderTail, TailOf, Zenon DEF InOrder
<1>2. \A i \in 1..Len(out) : out[i].id <= l.id
    <2>1. \A a, b \in Nat : a < b => a <= b
        OBVIOUS
    <2>2. l.id \in Nat
        BY LineTypes
    <2>3. QED
        BY <1>1, <2>1, <2>2, WireTypes, Zenon
<1>3. Told(Append(out, l)) /\ Before(Append(out, l), Tail(in)) /\ Below(Append(out, l), top)
    BY <1>1, <1>2, OrderAppend, Zenon DEF InOrder
<1>4. QED
    BY <1>1, <1>3, Zenon DEF InOrder, Between

\* The first request becomes the job.
LEMMA OrderAccept ==
    ASSUME NEW in \in Seq(Request), NEW out \in Seq(Line), NEW top \in Nat,
           InOrder(in, 0, out, top), in # <<>>
    PROVE  InOrder(Tail(in), Head(in).id, out, top)
<1>1. /\ Ascending(Tail(in)) /\ \A k \in 1..Len(Tail(in)) : Head(in).id < Tail(in)[k].id
      /\ Before(out, Tail(in)) /\ \A i \in 1..Len(out) : out[i].id < Head(in).id
      /\ Below(Tail(in), top) /\ Head(in).id <= top /\ Head(in) \in Request
    BY OrderTail, TailOf, Zenon DEF InOrder
<1>2. \A i \in 1..Len(out) : out[i].id <= Head(in).id
    <2>1. \A a, b \in Nat : a < b => a <= b
        OBVIOUS
    <2>2. Head(in).id \in Nat
        BY <1>1 DEF Request
    <2>3. QED
        BY <1>1, <2>1, <2>2, WireTypes, Zenon
<1>3. QED
    BY <1>1, <1>2, Zenon DEF InOrder, Between

\* A token of the job's.
LEMMA OrderPrint ==
    ASSUME NEW in \in Seq(Request), NEW j \in Nat \ {0}, NEW out \in Seq(Line),
           NEW top \in Nat, InOrder(in, j, out, top), NEW l \in Line, l.id = j,
           ~Terminal(l)
    PROVE  InOrder(in, j, Append(out, l), top)
<1>1. /\ \A k \in 1..Len(in) : l.id < in[k].id
      /\ \A i \in 1..Len(out) : out[i].id <= l.id /\ (Terminal(out[i]) => out[i].id < l.id)
      /\ l.id <= top
    BY Zenon DEF InOrder, Between
<1>2. Told(Append(out, l)) /\ Before(Append(out, l), in) /\ Below(Append(out, l), top)
    BY <1>1, OrderAppend, Zenon DEF InOrder
<1>3. Between(in, j, Append(out, l), top)
    BY OrderAppend, Zenon DEF InOrder
<1>4. QED
    BY <1>2, <1>3, Zenon DEF InOrder

\* The job ends with a line.
LEMMA OrderFinish ==
    ASSUME NEW in \in Seq(Request), NEW j \in Nat \ {0}, NEW out \in Seq(Line),
           NEW top \in Nat, InOrder(in, j, out, top), NEW l \in Line, l.id = j
    PROVE  InOrder(in, 0, Append(out, l), top)
<1>1. /\ \A k \in 1..Len(in) : l.id < in[k].id
      /\ \A i \in 1..Len(out) : out[i].id <= l.id /\ (Terminal(out[i]) => out[i].id < l.id)
      /\ l.id <= top
    BY Zenon DEF InOrder, Between
<1>2. Told(Append(out, l)) /\ Before(Append(out, l), in) /\ Below(Append(out, l), top)
    BY <1>1, OrderAppend, Zenon DEF InOrder
<1>3. QED
    BY <1>2, Zenon DEF InOrder, Between

\* A line read leaves stdout.
LEMMA OrderRead ==
    ASSUME NEW in \in Seq(Request), NEW j \in Nat, NEW out \in Seq(Line), NEW top \in Nat,
           InOrder(in, j, out, top), out # <<>>
    PROVE  InOrder(in, j, Tail(out), top)
<1>1. /\ Told(Tail(out)) /\ Before(Tail(out), in) /\ Between(in, j, Tail(out), top)
      /\ Below(Tail(out), top)
    BY OrderTail, Zenon DEF InOrder
<1>2. QED
    BY <1>1, Zenon DEF InOrder

\* The pipes of a fresh process are in order.
LEMMA OrderFresh ==
    ASSUME NEW top \in Nat
    PROVE  /\ InOrder(<<>>, 0, <<>>, top)
           /\ \A r \in Request : r.id = top => InOrder(<<r>>, 0, <<>>, top)
BY DEF InOrder, Ascending, Told, Before, Between, Below, Request

\* In the pipes of an order: a terminal line with the last id leaves nothing
\* behind it, and the last id in stdin was not printed.
Ends(in, j, out, top) ==
    /\ \A i \in 1..Len(out) : out[i].id = top /\ Terminal(out[i]) =>
            in = <<>> /\ j = 0 /\ i = Len(out)
    /\ \A i \in 1..Len(in) : in[i].id = top =>
            /\ i = Len(in) /\ j # top
            /\ \A k \in 1..Len(out) : out[k].id # top
    /\ j # 0 /\ j = top => in = <<>>

LEMMA OrderEnds ==
    ASSUME NEW in \in Seq(Request), NEW j \in Nat, NEW out \in Seq(Line), NEW top \in Nat,
           InOrder(in, j, out, top)
    PROVE  Ends(in, j, out, top)
<1>1. /\ \A a, b \in Nat : ~(a < b /\ b <= a)
      /\ \A a \in Nat : ~(a < a)
    OBVIOUS
<1>2. /\ Len(in) \in Nat /\ Len(out) \in Nat
      /\ \A i \in 1..Len(in) : in[i].id \in Nat /\ in[i].id <= top
      /\ \A i \in 1..Len(out) : out[i].id \in Nat /\ out[i].id <= top
    BY WireTypes DEF InOrder, Below
<1>3. \/ in = <<>>
      \/ 1 \in 1..Len(in)
    OBVIOUS
<1>4. j # 0 => j <= top
    BY Zenon DEF InOrder, Between
<1>5. ASSUME NEW i \in 1..Len(out), out[i].id = top, Terminal(out[i])
      PROVE  in = <<>> /\ j = 0 /\ i = Len(out)
    <2>1. in = <<>>
        BY <1>1, <1>2, <1>3, <1>5, Zenon DEF InOrder, Before
    <2>2. j = 0
        BY <1>1, <1>2, <1>4, <1>5, Zenon DEF InOrder, Between
    <2>3. CASE i < Len(out)
        <3>1. Len(out) \in 1..Len(out)
            BY <1>2, <2>3
        <3>2. QED
            BY <1>1, <1>2, <1>5, <2>3, <3>1, Zenon DEF InOrder, Told
    <2>4. i = Len(out) \/ i < Len(out)
        BY <1>2
    <2>5. QED
        BY <2>1, <2>2, <2>3, <2>4
<1>6. ASSUME NEW i \in 1..Len(in), in[i].id = top
      PROVE  /\ i = Len(in) /\ j # top /\ \A k \in 1..Len(out) : out[k].id # top
    <2>1. \A k \in 1..Len(out) : out[k].id # top
        BY <1>1, <1>2, <1>6, Zenon DEF InOrder, Before
    <2>2. j # top
        <3>1. CASE j = 0
            <4>1. in[i].id # 0
                BY WireTypes
            <4>2. QED
                BY <1>6, <3>1, <4>1
        <3>2. CASE j # 0
            BY <1>1, <1>6, <3>2, Zenon DEF InOrder, Between
        <3>3. QED
            BY <3>1, <3>2
    <2>3. CASE i < Len(in)
        <3>1. Len(in) \in 1..Len(in)
            BY <1>2, <2>3
        <3>2. QED
            BY <1>1, <1>2, <1>6, <2>3, <3>1, Zenon DEF InOrder, Ascending
    <2>4. i = Len(in) \/ i < Len(in)
        BY <1>2
    <2>5. QED
        BY <2>1, <2>2, <2>3, <2>4
<1>7. j # 0 /\ j = top => in = <<>>
    BY <1>1, <1>2, <1>3, Zenon DEF InOrder, Between
<1>8. QED
    BY <1>5, <1>6, <1>7, Zenon DEF Ends

\* The last of a pipe, when one reads and writes.
LEMMA LastOf ==
    ASSUME NEW S, NEW s \in Seq(S)
    PROVE  /\ s # <<>> => Len(s) \in 1..Len(s)
           /\ s # <<>> => \/ /\ Len(s) = 1 /\ Tail(s) = <<>>
                              /\ s[Len(s)] = Head(s)
                           \/ /\ Len(s) > 1 /\ Tail(s) # <<>>
                              /\ Tail(s)[Len(Tail(s))] = s[Len(s)]
<1>2. s # <<>> => Len(s) \in 1..Len(s)
    OBVIOUS
<1>3. ASSUME s # <<>>, Len(s) = 1
      PROVE  Tail(s) = <<>> /\ s[Len(s)] = Head(s)
    <2>1. Tail(s) \in Seq(S) /\ Len(Tail(s)) = 0 /\ Head(s) = s[1]
        BY <1>3, TailOf
    <2>2. Tail(s) = <<>>
        BY <2>1, EmptySeq
    <2>3. QED
        BY <1>3, <2>1, <2>2
<1>4. ASSUME s # <<>>, Len(s) # 1
      PROVE  Len(s) > 1 /\ Tail(s) # <<>> /\ Tail(s)[Len(Tail(s))] = s[Len(s)]
    <2>1. /\ Tail(s) \in Seq(S) /\ Len(s) \in Nat /\ Len(s) > 0
          /\ Len(Tail(s)) = Len(s) - 1
          /\ \A i \in 1..Len(Tail(s)) : Tail(s)[i] = s[i + 1]
        BY <1>4, TailOf
    <2>2. /\ Len(s) > 1 /\ Len(Tail(s)) > 0 /\ Len(Tail(s)) \in 1..Len(Tail(s))
          /\ Len(Tail(s)) + 1 = Len(s)
        BY <1>4, <2>1
    <2>3. QED
        BY <2>1, <2>2, LongIsNotEmpty
<1>5. QED
    BY <1>2, <1>3, <1>4, Zenon

LEMMA LastAppended ==
    ASSUME NEW S, NEW s \in Seq(S), NEW e \in S
    PROVE  Append(s, e) # <<>> /\ Append(s, e)[Len(Append(s, e))] = e
BY AppendOf, LongIsNotEmpty

\* The answer stays on its way when the engine answers at once, when it takes
\* the request, when it prints a token and when it finishes; and when the daemon
\* reads another line than its terminal one.
LEMMA PendingAnswer ==
    ASSUME NEW in \in Seq(Request), NEW out \in Seq(Line), NEW top \in Nat,
           InOrder(in, 0, out, top), in # <<>>, Pending(in, 0, out, top),
           NEW l \in Line, l.id = Head(in).id, Terminal(l)
    PROVE  Pending(Tail(in), 0, Append(out, l), top)
<1>0. Ends(in, 0, out, top)
    <2>1. 0 \in Nat
        OBVIOUS
    <2>2. QED
        BY <2>1, OrderEnds, Zenon
<1>1. in[Len(in)].id = top
    <2>1. out # <<>> => Len(out) \in 1..Len(out)
        BY LastOf, Zenon
    <2>2. \A i \in 1..Len(out) : out[i].id = top /\ Terminal(out[i]) => in = <<>>
        BY <1>0, Zenon DEF Ends
    <2>3. QED
        BY <2>1, <2>2, Zenon DEF Pending
<1>2. \/ Tail(in) = <<>> /\ Head(in) = in[Len(in)]
      \/ Tail(in) # <<>> /\ Tail(in)[Len(Tail(in))] = in[Len(in)]
    BY LastOf, Zenon
<1>3. Append(out, l) # <<>> /\ Append(out, l)[Len(Append(out, l))] = l
    BY LastAppended, Zenon
<1>4. QED
    BY <1>1, <1>2, <1>3, Zenon DEF Pending

LEMMA PendingAccept ==
    ASSUME NEW in \in Seq(Request), NEW out \in Seq(Line), NEW top \in Nat,
           InOrder(in, 0, out, top), in # <<>>, Pending(in, 0, out, top)
    PROVE  Pending(Tail(in), Head(in).id, out, top)
<1>0. Ends(in, 0, out, top)
    <2>1. 0 \in Nat
        OBVIOUS
    <2>2. QED
        BY <2>1, OrderEnds, Zenon
<1>1. in[Len(in)].id = top
    <2>1. out # <<>> => Len(out) \in 1..Len(out)
        BY LastOf, Zenon
    <2>2. \A i \in 1..Len(out) : out[i].id = top /\ Terminal(out[i]) => in = <<>>
        BY <1>0, Zenon DEF Ends
    <2>3. QED
        BY <2>1, <2>2, Zenon DEF Pending
<1>2. Head(in).id # 0
    <2>1. Head(in) \in Request
        BY TailOf
    <2>2. QED
        BY <2>1 DEF Request
<1>3. \/ Tail(in) = <<>> /\ Head(in) = in[Len(in)]
      \/ Tail(in) # <<>> /\ Tail(in)[Len(Tail(in))] = in[Len(in)]
    BY LastOf, Zenon
<1>4. QED
    BY <1>1, <1>2, <1>3, Zenon DEF Pending

LEMMA PendingPrint ==
    ASSUME NEW in \in Seq(Request), NEW j \in Nat \ {0}, NEW out \in Seq(Line),
           NEW top \in Nat, InOrder(in, j, out, top), Pending(in, j, out, top),
           NEW l \in Line, l.id = j
    PROVE  /\ Pending(in, j, Append(out, l), top)
           /\ Terminal(l) => Pending(in, 0, Append(out, l), top)
<1>0. Ends(in, j, out, top)
    BY OrderEnds
<1>1. (in # <<>> /\ in[Len(in)].id = top) \/ j = top
    <2>1. out # <<>> => Len(out) \in 1..Len(out)
        BY LastOf, Zenon
    <2>2. \A i \in 1..Len(out) : out[i].id = top /\ Terminal(out[i]) => j = 0
        BY <1>0, Zenon DEF Ends
    <2>3. j # 0
        OBVIOUS
    <2>4. QED
        BY <2>1, <2>2, <2>3, Zenon DEF Pending
<1>2. Append(out, l) # <<>> /\ Append(out, l)[Len(Append(out, l))] = l
    BY LastAppended, Zenon
<1>3. j # 0
    OBVIOUS
<1>4. QED
    BY <1>1, <1>2, <1>3, Zenon DEF Pending

LEMMA PendingRead ==
    ASSUME NEW in \in Seq(Request), NEW j \in Nat, NEW out \in Seq(Line), NEW top \in Nat,
           Pending(in, j, out, top), out # <<>>,
           ~(Head(out).id = top /\ Terminal(Head(out)))
    PROVE  Pending(in, j, Tail(out), top)
BY LastOf, Zenon DEF Pending

\* Then the answer is at one place only.
Places(in, j, out, top) ==
    Cardinality({i \in 1..Len(in) : in[i].id = top})
    + (IF j # 0 /\ j = top THEN 1 ELSE 0)
    + Cardinality({i \in 1..Len(out) : out[i].id = top /\ Terminal(out[i])})

LEMMA OnePlace ==
    ASSUME NEW in \in Seq(Request), NEW j \in Nat, NEW out \in Seq(Line), NEW top \in Nat,
           InOrder(in, j, out, top), Pending(in, j, out, top)
    PROVE  Places(in, j, out, top) = 1
<1> USE DEF Places
<1>0. Ends(in, j, out, top)
    BY OrderEnds
<1> DEFINE A == {i \in 1..Len(in) : in[i].id = top}
           B == {i \in 1..Len(out) : out[i].id = top /\ Terminal(out[i])}
<1>1. \A x : Cardinality({x}) = 1
    BY FS_Singleton
<1>2. Cardinality({}) = 0
    BY FS_EmptySet
<1>3. CASE in # <<>> /\ in[Len(in)].id = top
    <2>1. Len(in) \in 1..Len(in)
        BY <1>3, LastOf
    <2>2. A = {Len(in)} /\ j # top /\ B = {}
        <3>1. /\ \A i \in 1..Len(in) : in[i].id = top => i = Len(in)
              /\ j # top /\ \A k \in 1..Len(out) : out[k].id # top
            BY <1>3, <2>1, <1>0, Zenon DEF Ends
        <3>2. QED
            BY <1>3, <2>1, <3>1, Zenon
    <2> HIDE DEF A, B
    <2>3. Cardinality(A) = 1 /\ Cardinality(B) = 0
        BY <1>1, <1>2, <2>2
    <2>4. Cardinality(A) + (IF j # 0 /\ j = top THEN 1 ELSE 0) + Cardinality(B) = 1
        BY <2>2, <2>3
    <2>5. QED
        BY <2>4 DEF A, B
<1>4. CASE j # 0 /\ j = top
    <2>1. in = <<>>
        BY <1>4, <1>0, Zenon DEF Ends
    <2>2. A = {}
        BY <2>1
    <2>3. B = {}
        BY <1>4, <1>0, Zenon DEF Ends
    <2> HIDE DEF A, B
    <2>4. Cardinality(A) + (IF j # 0 /\ j = top THEN 1 ELSE 0) + Cardinality(B) = 1
        BY <1>2, <1>4, <2>2, <2>3
    <2>5. QED
        BY <2>4 DEF A, B
<1>5. CASE out # <<>> /\ out[Len(out)].id = top /\ Terminal(out[Len(out)])
    <2>1. Len(out) \in 1..Len(out)
        BY <1>5, LastOf
    <2>2. in = <<>> /\ j = 0 /\ B = {Len(out)}
        <3>1. \A i \in 1..Len(out) : out[i].id = top /\ Terminal(out[i]) =>
                    in = <<>> /\ j = 0 /\ i = Len(out)
            BY <1>0, Zenon DEF Ends
        <3>2. QED
            BY <1>5, <2>1, <3>1, Zenon
    <2>3. A = {}
        BY <2>2
    <2> HIDE DEF A, B
    <2>4. Cardinality(A) = 0 /\ Cardinality(B) = 1
        BY <1>1, <1>2, <2>2, <2>3
    <2>5. Cardinality(A) + (IF j # 0 /\ j = top THEN 1 ELSE 0) + Cardinality(B) = 1
        BY <2>2, <2>4
    <2>6. QED
        BY <2>5 DEF A, B
<1>6. QED
    BY <1>3, <1>4, <1>5 DEF Pending

(***************************************************************************)
(* A cold request and its answer.                                          *)
(***************************************************************************)
\* While older requests are handled, and until it is taken, a cold request
\* waits at the end of stdin.
LEMMA ColdWaits ==
    ASSUME NEW c \in Call, NEW in \in Seq(Request), in # <<>>, ColdAsked(c, in), Len(in) # 1
    PROVE  ColdAsked(c, Tail(in))
<1>1. Tail(in) # <<>> /\ Tail(in)[Len(Tail(in))] = in[Len(in)]
    BY LastOf
<1>2. QED
    BY <1>1, Zenon DEF ColdAsked

\* With a request in stdin, or a job older than it, a cold request is there.
LEMMA ColdNotAnswered ==
    ASSUME NEW c \in Call, NEW in \in Seq(Request), NEW jb \in Job, NEW out \in Seq(Line),
           NEW context, InOrder(in, jb.id, out, c.id), Cold(c, in, jb, out, context), c.id # 0
    PROVE  /\ in # <<>> /\ jb.id = 0 => ColdAsked(c, in)
           /\ jb.id # 0 => ColdAsked(c, in) \/
                    \E p \in Seq(Token), s, m \in Nat :
                        ColdUnderWay(c, jb, out, context, p, s, m)
           /\ jb.id # 0 /\ jb.id # c.id => ColdAsked(c, in)
<1>1. Ends(in, jb.id, out, c.id)
    BY OrderEnds DEF Job, Call
<1>2. ASSUME NEW p \in Seq(Token), NEW s \in Nat, NEW m \in Nat,
             ColdTold(c, out, p, s, m)
      PROVE  in = <<>> /\ jb.id = 0
    <2>1. s + m + 1 \in 1..Len(out)
        BY <1>2 DEF ColdTold
    <2>2. out[s + m + 1].id = c.id /\ Terminal(out[s + m + 1])
        BY <1>2 DEF ColdTold, Terminal
    <2>3. QED
        BY <1>1, <2>1, <2>2, Zenon DEF Ends
<1>3. ASSUME ColdDenied(c, out)
      PROVE  in = <<>> /\ jb.id = 0
    <2>1. Len(out) \in 1..Len(out)
        BY <1>3, LastOf DEF ColdDenied
    <2>2. out[Len(out)].id = c.id /\ Terminal(out[Len(out)])
        BY <1>3 DEF ColdDenied, Terminal
    <2>3. QED
        BY <1>1, <2>1, <2>2, Zenon DEF Ends
<1>4. ASSUME NEW p \in Seq(Token), NEW s \in Nat, NEW m \in Nat,
             ColdUnderWay(c, jb, out, context, p, s, m)
      PROVE  jb.id = c.id
    BY <1>4, Zenon DEF ColdUnderWay
<1> DEFINE U == \E p \in Seq(Token), s, m \in Nat : ColdUnderWay(c, jb, out, context, p, s, m)
           T == \E p \in Seq(Token), s, m \in Nat : ColdTold(c, out, p, s, m)
<1>5. ColdAsked(c, in) \/ U \/ T \/ ColdDenied(c, out)
    BY Zenon DEF Cold
<1>6. (T => in = <<>> /\ jb.id = 0) /\ (U => jb.id = c.id)
    BY <1>2, <1>4, Zenon
<1> HIDE DEF T, U
<1>7. /\ in # <<>> /\ jb.id = 0 => ColdAsked(c, in)
      /\ jb.id # 0 => ColdAsked(c, in) \/ U
      /\ jb.id # 0 /\ jb.id # c.id => ColdAsked(c, in)
    BY <1>3, <1>5, <1>6
<1>8. QED
    BY <1>7 DEF U

\* The engine answers a request at once: an older one, or it refuses this one.
LEMMA ColdAnswer ==
    ASSUME NEW c \in Call, NEW in \in Seq(Request), NEW jb \in Job, NEW out \in Seq(Line),
           NEW context, InOrder(in, jb.id, out, c.id), Cold(c, in, jb, out, context),
           c.id # 0, in # <<>>, jb.id = 0, NEW l \in Line, l.id = Head(in).id,
           NEW after,
           Head(in).stop \/ l.kind = "error"
    PROVE  Cold(c, Tail(in), jb, Append(out, l), after)
<1>1. ColdAsked(c, in)
    BY ColdNotAnswered, Zenon
<1>2. CASE Len(in) = 1
    <2>1. Head(in) = in[Len(in)]
        BY <1>2, LastOf
    <2>2. l.kind = "error" /\ l.id = c.id /\ c.out = <<>>
        BY <1>1, <2>1, Zenon DEF ColdAsked
    <2>3. /\ Append(out, l) # <<>> /\ Append(out, l)[Len(Append(out, l))] = l
          /\ \A i \in 1..(Len(Append(out, l)) - 1) : Append(out, l)[i] = out[i] /\ i \in 1..Len(out)
        BY AppendOf, LastAppended
    <2>4. \A i \in 1..Len(out) : out[i].id # c.id
        <3>1. Ends(in, jb.id, out, c.id)
            BY OrderEnds DEF Job, Call
        <3>2. Len(in) \in 1..Len(in) /\ in[Len(in)].id = c.id
            BY <1>1, LastOf DEF ColdAsked
        <3>3. QED
            BY <3>1, <3>2, Zenon DEF Ends
    <2>5. ColdDenied(c, Append(out, l))
        BY <2>2, <2>3, <2>4, Zenon DEF ColdDenied
    <2>6. QED
        BY <2>5 DEF Cold
<1>3. CASE Len(in) # 1
    BY <1>1, <1>3, ColdWaits DEF Cold
<1>4. QED
    BY <1>2, <1>3

\* The engine takes a request: an older one, or this one, whose ids alone it
\* then holds.
LEMMA ColdAccept ==
    ASSUME NEW c \in Call, NEW in \in Seq(Request), NEW jb \in Job, NEW out \in Seq(Line),
           NEW context \in Seq(Token), InOrder(in, jb.id, out, c.id),
           Cold(c, in, jb, out, context), c.id # 0, c.ids # <<>>, in # <<>>, jb.id = 0,
           NEW r \in Request, r = Head(in),
           NEW job2 \in Job, job2 = [id |-> r.id, n |-> r.n, n_out |-> 0,
                                     go |-> r.n > 0 /\ r.ids # <<>>],
           NEW after, after = (IF r.reset THEN <<>> ELSE context) \o r.ids
    PROVE  Cold(c, Tail(in), job2, out, after)
<1>1. ColdAsked(c, in)
    BY ColdNotAnswered, Zenon
<1>2. CASE Len(in) = 1
    <2>1. r = in[Len(in)]
        BY <1>2, LastOf
    <2>2. r.id = c.id /\ r.ids = c.ids /\ r.n = c.n /\ r.reset /\ c.out = <<>>
        BY <1>1, <2>1, Zenon DEF ColdAsked
    <2>3. \A i \in 1..Len(out) : out[i].id # c.id
        <3>1. Ends(in, jb.id, out, c.id)
            BY OrderEnds DEF Job, Call
        <3>2. Len(in) \in 1..Len(in) /\ in[Len(in)].id = c.id
            BY <1>1, LastOf DEF ColdAsked
        <3>3. QED
            BY <3>1, <3>2, Zenon DEF Ends
    <2>4. /\ <<>> \in Seq(Token) /\ Len(<<>>) = 0 /\ c.n \in Nat /\ Len(out) \in Nat
          /\ c.ids \in Seq(Token) /\ c.ids \o <<>> = c.ids /\ <<>> \o c.ids = c.ids
        BY EmptySeq, ConcatEmptySeq DEF Call
    <2>5. Behind(c, out, <<>>, Len(out), 0)
        BY <2>2, <2>3, <2>4 DEF Behind
    <2>6. /\ job2.id = c.id /\ job2.n = c.n /\ job2.n_out = 0
          /\ job2.go = (c.n > 0 /\ c.ids # <<>>)
          /\ after = c.ids
        BY <2>2, <2>4
    <2>7. Enough(<<>>, c.n) <=> c.n = 0
        BY <2>4 DEF Enough
    <2>8. job2.go <=> ~Enough(<<>>, c.n)
        <3>1. c.n > 0 <=> c.n # 0
            BY <2>4
        <3>2. QED
            BY <2>6, <2>7, <3>1, Zenon
    <2>9. Chosen(c.ids, <<>>)
        BY <2>4 DEF Chosen
    <2>10. ColdUnderWay(c, job2, out, after, <<>>, Len(out), 0)
        <3>1. Len(out) = Len(out) + 0 /\ Len(<<>>) <= c.n
            BY <2>4
        <3>2. QED
            BY <2>4, <2>5, <2>6, <2>8, <2>9, <3>1, Zenon DEF ColdUnderWay
    <2>11. 0 \in Nat
        OBVIOUS
    <2>12. QED
        BY <2>4, <2>10, <2>11, Zenon DEF Cold
<1>3. CASE Len(in) # 1
    BY <1>1, <1>3, ColdWaits DEF Cold
<1>4. QED
    BY <1>2, <1>3

\* Places among the lines and among the tokens.
LEMMA Positions ==
    ASSUME NEW s \in Nat, NEW m \in Nat
    PROVE  /\ \A i \in 1..m : s + i \in 1..(s + m)
           /\ s + (m + 1) = (s + m) + 1
OBVIOUS

\* A token printed by an older job, or by this one: then it is a choice more, and
\* one more unread.
LEMMA ColdPrint ==
    ASSUME NEW c \in Call, NEW in \in Seq(Request), NEW jb \in Job, NEW out \in Seq(Line),
           NEW context \in Seq(Token), InOrder(in, jb.id, out, c.id),
           Cold(c, in, jb, out, context), c.id # 0, jb.id # 0, jb.go,
           NEW t \in Token, t \in Decode(context),
           NEW leaves \in BOOLEAN, leaves <=> (t \in Eos \/ jb.n_out + 1 >= jb.n),
           NEW job2 \in Job, job2 = [jb EXCEPT !.n_out = @ + 1, !.go = ~leaves],
           NEW after, ~leaves => after = Append(context, t)
    PROVE  Cold(c, in, job2, Append(out, TokLine(jb.id, t)), after)
<1>1. CASE ColdAsked(c, in)
    BY <1>1 DEF Cold
<1>2. CASE ~ColdAsked(c, in)
    <2>1. PICK p \in Seq(Token), s \in Nat, m \in Nat :
                ColdUnderWay(c, jb, out, context, p, s, m)
        BY <1>2, ColdNotAnswered, Zenon
    <2> DEFINE p2 == Append(p, t)
               l == TokLine(jb.id, t)
               out2 == Append(out, l)
    <2>2. /\ Len(out) = s + m /\ Behind(c, out, p, s, m)
          /\ Chosen(c.ids, p) /\ Len(p) <= c.n
          /\ jb.id = c.id /\ jb.n = c.n /\ jb.n_out = Len(p)
          /\ context = c.ids \o p /\ ~Enough(p, c.n)
        BY <2>1, Zenon DEF ColdUnderWay
    <2>3. l \in Line /\ l = TokLine(c.id, t)
        BY <2>2, LineTypes DEF Job
    <2> HIDE DEF l
    <2>4. /\ c.ids \in Seq(Token) /\ c.n \in Nat /\ Len(p) \in Nat /\ Len(c.out) \in Nat
        BY DEF Call
    <2>5. /\ p2 \in Seq(Token) /\ Len(p2) = Len(p) + 1 /\ p2[Len(p) + 1] = t
          /\ \A i \in 1..Len(p) : p2[i] = p[i]
          /\ p2 # <<>>
        BY AppendOf, LastAppended
    <2>6. /\ Len(out2) = Len(out) + 1 /\ out2[Len(out) + 1] = l
          /\ \A i \in 1..Len(out) : out2[i] = out[i]
        BY <2>3, AppendOf
    <2>7. Chosen(c.ids, p2)
        <3>1. SUFFICES ASSUME NEW k \in 1..Len(p2)
                       PROVE  p2[k] \in Decode(c.ids \o SubSeq(p2, 1, k - 1))
            BY DEF Chosen
        <3>2. CASE k \in 1..Len(p)
            <4>1. SubSeq(p2, 1, k - 1) = SubSeq(p, 1, k - 1)
                BY <3>2, PrefixOfAppend
            <4>2. QED
                BY <2>2, <2>5, <3>2, <4>1 DEF Chosen
        <3>3. CASE k = Len(p) + 1
            <4>1. SubSeq(p2, 1, k - 1) = p
                BY <3>3
            <4>2. QED
                BY <2>2, <2>5, <3>3, <4>1
        <3>4. QED
            BY <2>4, <2>5, <3>1, <3>2, <3>3
    <2> HIDE DEF p2, out2
    <2>8. Behind(c, out2, p2, s, m + 1)
        <3>0. Len(out) = s + m
            BY <2>2
        <3>1. Len(p) = Len(c.out) + m
            BY <2>2 DEF Behind
        <3>2. Len(p2) = Len(c.out) + (m + 1)
            <4>1. Len(c.out) + (m + 1) = (Len(c.out) + m) + 1
                BY <2>4, Positions, Zenon
            <4>2. QED
                BY <2>5, <3>1, <4>1, Zenon
        <3>3. \A i \in 1..Len(c.out) : p2[i] = c.out[i]
            <4>1. \A i \in 1..Len(c.out) : i \in 1..Len(p)
                BY <2>4, <3>1
            <4>2. QED
                BY <2>2, <2>5, <4>1, Zenon DEF Behind
        <3>4. \A i \in 1..s : out2[i].id # c.id
            <4>1. \A i \in 1..s : i \in 1..Len(out)
                BY <2>2
            <4>2. QED
                BY <2>2, <2>6, <4>1, Zenon DEF Behind
        <3>5. ASSUME NEW i \in 1..(m + 1)
              PROVE  out2[s + i] = TokLine(c.id, p2[Len(c.out) + i])
            <4>1. CASE i \in 1..m
                <5>1. s + i \in 1..Len(out) /\ Len(c.out) + i \in 1..Len(p)
                    BY <2>4, <3>0, <3>1, <4>1, Positions, Zenon
                <5>2. QED
                    BY <2>2, <2>5, <2>6, <4>1, <5>1, Zenon DEF Behind
            <4>2. CASE i = m + 1
                <5>1. s + i = Len(out) + 1 /\ Len(c.out) + i = Len(p) + 1
                    <6>1. /\ s + (m + 1) = (s + m) + 1
                          /\ Len(c.out) + (m + 1) = (Len(c.out) + m) + 1
                        BY <2>4, Positions, Zenon
                    <6>2. QED
                        BY <3>0, <3>1, <4>2, <6>1, Zenon
                <5>2. QED
                    BY <2>3, <2>5, <2>6, <5>1, Zenon
            <4>3. QED
                BY <4>1, <4>2
        <3>6. QED
            BY <3>2, <3>3, <3>4, <3>5, Zenon DEF Behind
    <2>9. /\ job2.id = jb.id /\ job2.n = jb.n /\ job2.n_out = Len(p) + 1 /\ job2.go = ~leaves
        <3>1. \A k, b : LET e == [jb EXCEPT !.n_out = k, !.go = b]
                        IN  e.id = jb.id /\ e.n = jb.n /\ e.n_out = k /\ e.go = b
            BY DEF Job
        <3>2. QED
            BY <2>2, <3>1, Zenon
    <2>10. Len(p) < c.n
        BY <2>2, <2>4 DEF Enough
    <2>11. leaves <=> Enough(p2, c.n)
        <3>1. leaves <=> (t \in Eos \/ Len(p) + 1 >= c.n)
            BY <2>2, Zenon
        <3>2. Len(p) + 1 >= c.n <=> Len(p2) = c.n
            BY <2>4, <2>5, <2>10
        <3>3. p2[Len(p2)] = t
            BY <2>5, Zenon
        <3>4. QED
            BY <2>5, <3>1, <3>2, <3>3, Zenon DEF Enough
    <2>12. ~leaves => after = c.ids \o p2
        <3>1. c.ids \o p2 = Append(c.ids \o p, t)
            <4>1. \A q \in Seq(Token) : q \o Append(p, t) = Append(q \o p, t)
                BY ConcatAppend
            <4>2. QED
                BY <2>4, <4>1, Zenon DEF p2
        <3>2. QED
            BY <2>2, <3>1, Zenon
    <2>13. Len(p2) <= c.n /\ Len(out2) = s + (m + 1) /\ m + 1 \in Nat
        <3>1. /\ \A a, b \in Nat : a < b => a + 1 <= b
              /\ \A a \in Nat : a + 1 \in Nat
            OBVIOUS
        <3>2. s + (m + 1) = (s + m) + 1
            BY Positions, Zenon
        <3>3. QED
            BY <2>2, <2>4, <2>5, <2>6, <2>10, <3>1, <3>2, Zenon
    <2>14. ColdUnderWay(c, job2, out2, after, p2, s, m + 1)
        BY <2>2, <2>5, <2>7, <2>8, <2>9, <2>11, <2>12, <2>13, Zenon DEF ColdUnderWay
    <2>15. QED
        BY <2>5, <2>13, <2>14, Zenon DEF Cold, out2, l
<1>3. QED
    BY <1>1, <1>2

\* A job ends: an older one, or this one, which has printed all its answer.
LEMMA ColdFinish ==
    ASSUME NEW c \in Call, NEW in \in Seq(Request), NEW jb \in Job, NEW out \in Seq(Line),
           NEW context, InOrder(in, jb.id, out, c.id),
           Cold(c, in, jb, out, context), c.id # 0, jb.id # 0, ~jb.go,
           NEW job2 \in Job
    PROVE  Cold(c, in, job2, Append(out, DoneLine(jb.id, jb.n_out)), context)
<1>1. CASE ColdAsked(c, in)
    BY <1>1 DEF Cold
<1>2. CASE ~ColdAsked(c, in)
    <2>1. PICK p \in Seq(Token), s \in Nat, m \in Nat :
                ColdUnderWay(c, jb, out, context, p, s, m)
        BY <1>2, ColdNotAnswered, Zenon
    <2> DEFINE l == DoneLine(jb.id, jb.n_out)
               out2 == Append(out, l)
    <2>2. /\ Len(out) = s + m /\ Behind(c, out, p, s, m)
          /\ Chosen(c.ids, p) /\ jb.id = c.id /\ Enough(p, c.n)
        BY <2>1, Zenon DEF ColdUnderWay
    <2>3. l \in Line /\ l.id = c.id /\ l.kind = "done"
        BY <2>2, LineTypes DEF Job, DoneLine
    <2> HIDE DEF l
    <2>4. /\ Len(out2) = Len(out) + 1 /\ out2[Len(out) + 1] = l
          /\ \A i \in 1..Len(out) : out2[i] = out[i]
        BY <2>3, AppendOf
    <2> HIDE DEF out2
    <2>5. Behind(c, out2, p, s, m)
        <3>1. \A i \in 1..s : i \in 1..Len(out)
            BY <2>2
        <3>2. \A i \in 1..m : s + i \in 1..Len(out)
            BY <2>2
        <3>3. QED
            BY <2>2, <2>4, <3>1, <3>2, Zenon DEF Behind
    <2>6. ColdTold(c, out2, p, s, m)
        BY <2>2, <2>3, <2>4, <2>5, Zenon DEF ColdTold
    <2>7. QED
        BY <2>6, Zenon DEF Cold, out2, l
<1>3. QED
    BY <1>1, <1>2

\* An older line is read.
LEMMA ColdReadStale ==
    ASSUME NEW c \in Call, NEW in \in Seq(Request), NEW jb \in Job, NEW out \in Seq(Line),
           NEW context, Cold(c, in, jb, out, context), out # <<>>, Head(out).id # c.id
    PROVE  Cold(c, in, jb, Tail(out), context)
<1> DEFINE b == Tail(out)
<1>1. /\ Len(b) = Len(out) - 1 /\ Len(out) \in Nat /\ Len(out) > 0 /\ Head(out) = out[1]
      /\ \A i \in 1..Len(b) : b[i] = out[i + 1]
    BY TailOf
<1>2. CASE ColdAsked(c, in)
    BY <1>2 DEF Cold
<1>3. CASE ColdDenied(c, out)
    <2>1. Len(out) # 1
        BY <1>1, <1>3 DEF ColdDenied
    <2>2. b # <<>> /\ b[Len(b)] = out[Len(out)]
        BY <2>1, LastOf
    <2> HIDE DEF b
    <2>3. \A i \in 1..(Len(b) - 1) : b[i].id # c.id
        <3>1. \A i \in 1..(Len(b) - 1) : i \in 1..Len(b) /\ i + 1 \in 1..(Len(out) - 1)
            BY <1>1
        <3>2. QED
            BY <1>1, <1>3, <3>1, Zenon DEF ColdDenied
    <2>4. ColdDenied(c, b)
        BY <1>3, <2>2, <2>3, Zenon DEF ColdDenied
    <2>5. QED
        BY <2>4 DEF Cold, b
<1> HIDE DEF b
<1>4. ASSUME NEW p \in Seq(Token), NEW s \in Nat, NEW m \in Nat, Behind(c, out, p, s, m),
             s + m <= Len(out), m = 0 => s > 0
      PROVE  s - 1 \in Nat /\ Behind(c, b, p, s - 1, m)
    <2>1. CASE s = 0
        <3>1. m > 0 /\ s + 1 = 1 /\ 1 \in 1..m
            BY <1>4, <2>1
        <3>2. out[s + 1] = TokLine(c.id, p[Len(c.out) + 1])
            BY <1>4, <3>1, Zenon DEF Behind
        <3>3. out[1].id = c.id
            BY <3>1, <3>2 DEF TokLine
        <3>4. QED
            BY <1>1, <3>3
    <2>2. CASE s > 0
        <3>1. s - 1 \in Nat
            BY <2>2
        <3>2. \A i \in 1..(s - 1) : i \in 1..Len(b) /\ i + 1 \in 1..s
            BY <1>1, <1>4
        <3>3. \A i \in 1..m : (s - 1) + i \in 1..Len(b) /\ ((s - 1) + i) + 1 = s + i
            BY <1>1, <1>4, <2>2
        <3>4. QED
            BY <1>1, <1>4, <3>1, <3>2, <3>3, Zenon DEF Behind
    <2>3. QED
        BY <2>1, <2>2
<1>5. ASSUME NEW p \in Seq(Token), NEW s \in Nat, NEW m \in Nat,
             ColdUnderWay(c, jb, out, context, p, s, m)
      PROVE  Cold(c, in, jb, b, context)
    <2>1. Len(out) = s + m /\ Behind(c, out, p, s, m)
        BY <1>5, Zenon DEF ColdUnderWay
    <2>2. s + m <= Len(out) /\ (m = 0 => s > 0)
        BY <1>1, <2>1
    <2>3. s - 1 \in Nat /\ Behind(c, b, p, s - 1, m)
        BY <1>4, <2>1, <2>2
    <2>4. Len(b) = (s - 1) + m
        BY <1>1, <2>1
    <2>5. ColdUnderWay(c, jb, b, context, p, s - 1, m)
        BY <1>5, <2>3, <2>4, Zenon DEF ColdUnderWay
    <2>6. QED
        BY <2>3, <2>5, Zenon DEF Cold
<1>6. ASSUME NEW p \in Seq(Token), NEW s \in Nat, NEW m \in Nat, ColdTold(c, out, p, s, m)
      PROVE  Cold(c, in, jb, b, context)
    <2>1. /\ Len(out) = s + m + 1 /\ Behind(c, out, p, s, m)
          /\ out[s + m + 1].id = c.id
        BY <1>6, Zenon DEF ColdTold
    <2>2. s + m <= Len(out) /\ (m = 0 => s > 0)
        <3>1. m = 0 /\ s = 0 => s + m + 1 = 1
            OBVIOUS
        <3>2. QED
            BY <1>1, <2>1, <3>1
    <2>3. s - 1 \in Nat /\ Behind(c, b, p, s - 1, m)
        BY <1>4, <2>1, <2>2
    <2>4. /\ Len(b) = (s - 1) + m + 1 /\ (s - 1) + m + 1 \in 1..Len(b)
          /\ ((s - 1) + m + 1) + 1 = s + m + 1
        BY <1>1, <2>1, <2>3
    <2>5. ColdTold(c, b, p, s - 1, m)
        BY <1>1, <1>6, <2>3, <2>4, Zenon DEF ColdTold
    <2>6. QED
        BY <2>3, <2>5, Zenon DEF Cold
<1>7. QED
    BY <1>2, <1>3, <1>5, <1>6, Zenon DEF Cold, b

\* A line of the call's own is its first unread one: a token, the next of the
\* answer, or the end of an answer that was delivered whole.
LEMMA ColdFirst ==
    ASSUME NEW c \in Call, NEW in \in Seq(Request), NEW jb \in Job, NEW out \in Seq(Line),
           NEW context, InOrder(in, jb.id, out, c.id), Cold(c, in, jb, out, context),
           out # <<>>, Head(out).id = c.id
    PROVE  /\ Head(out).kind = "tok" =>
                \E p \in Seq(Token), m \in Nat \ {0} :
                    /\ Head(out).tok = p[Len(c.out) + 1]
                    /\ Behind(c, out, p, 0, m)
                    /\ \/ ColdUnderWay(c, jb, out, context, p, 0, m)
                       \/ ColdTold(c, out, p, 0, m)
           /\ Head(out).kind = "done" =>
                \E p \in Seq(Token) : ColdTold(c, out, p, 0, 0)
<1>1. /\ Len(out) \in Nat /\ Len(out) > 0 /\ Head(out) = out[1] /\ 1 \in 1..Len(out)
    BY TailOf
<1>2. ~ColdAsked(c, in)
    <2>1. Ends(in, jb.id, out, c.id)
        BY OrderEnds DEF Job, Call
    <2>2. in # <<>> => Len(in) \in 1..Len(in)
        BY LastOf
    <2>3. QED
        BY <1>1, <2>1, <2>2, Zenon DEF ColdAsked, Ends
<1>3. ASSUME ColdDenied(c, out)
      PROVE  Head(out).kind = "error"
    <2>1. CASE Len(out) = 1
        BY <1>1, <1>3, <2>1 DEF ColdDenied
    <2>2. CASE Len(out) # 1
        <3>1. 1 \in 1..(Len(out) - 1)
            <4>1. \A k \in Nat : k > 0 /\ k # 1 => 1 \in 1..(k - 1)
                OBVIOUS
            <4>2. QED
                BY <1>1, <2>2, <4>1, Zenon
        <3>2. QED
            BY <1>1, <1>3, <3>1, Zenon DEF ColdDenied
    <2>3. QED
        BY <2>1, <2>2
<1>4. ASSUME NEW p, NEW s \in Nat, NEW m \in Nat, Behind(c, out, p, s, m)
      PROVE  s = 0 /\ (m # 0 => out[1] = TokLine(c.id, p[Len(c.out) + 1]))
    <2>1. s = 0
        <3>1. s > 0 => 1 \in 1..s
            OBVIOUS
        <3>2. s > 0 \/ s = 0
            OBVIOUS
        <3>3. QED
            BY <1>1, <1>4, <3>1, <3>2, Zenon DEF Behind
    <2>2. m # 0 => 1 \in 1..m /\ s + 1 = 1
        BY <2>1
    <2>3. QED
        BY <1>4, <2>1, <2>2 DEF Behind
<1>5. ASSUME NEW p \in Seq(Token), NEW s \in Nat, NEW m \in Nat,
             ColdUnderWay(c, jb, out, context, p, s, m)
      PROVE  /\ s = 0 /\ m # 0 /\ Behind(c, out, p, 0, m)
             /\ out[1] = TokLine(c.id, p[Len(c.out) + 1])
             /\ ColdUnderWay(c, jb, out, context, p, 0, m)
    <2>1. Len(out) = s + m /\ Behind(c, out, p, s, m)
        BY <1>5, Zenon DEF ColdUnderWay
    <2>2. s = 0
        BY <1>4, <2>1, Zenon
    <2>3. m # 0
        BY <1>1, <2>1, <2>2
    <2>4. QED
        BY <1>4, <1>5, <2>1, <2>2, <2>3, Zenon
<1>6. ASSUME NEW p \in Seq(Token), NEW s \in Nat, NEW m \in Nat, ColdTold(c, out, p, s, m)
      PROVE  /\ s = 0 /\ Behind(c, out, p, 0, m) /\ ColdTold(c, out, p, 0, m)
             /\ m # 0 => out[1] = TokLine(c.id, p[Len(c.out) + 1])
             /\ m = 0 => out[1].kind = "done"
    <2>1. Len(out) = s + m + 1 /\ Behind(c, out, p, s, m) /\ out[s + m + 1].kind = "done"
        BY <1>6, Zenon DEF ColdTold
    <2>2. s = 0
        BY <1>4, <2>1, Zenon
    <2>3. m = 0 => s + m + 1 = 1
        BY <2>2
    <2>4. m # 0 => out[1] = TokLine(c.id, p[Len(c.out) + 1])
        BY <1>4, <2>1, Zenon
    <2>5. QED
        BY <1>6, <2>1, <2>2, <2>3, <2>4, Zenon
<1>7. "tok" # "done" /\ "tok" # "error" /\ "done" # "error"
    OBVIOUS
<1>8. CASE Head(out).kind = "tok"
    <2>1. PICK p \in Seq(Token), s \in Nat, m \in Nat :
                ColdUnderWay(c, jb, out, context, p, s, m) \/ ColdTold(c, out, p, s, m)
        BY <1>2, <1>3, <1>7, <1>8, Zenon DEF Cold
    <2>2. /\ m # 0 /\ Behind(c, out, p, 0, m)
          /\ out[1] = TokLine(c.id, p[Len(c.out) + 1])
          /\ ColdUnderWay(c, jb, out, context, p, 0, m) \/ ColdTold(c, out, p, 0, m)
        BY <1>1, <1>5, <1>6, <1>7, <1>8, <2>1, Zenon
    <2>3. m \in Nat \ {0}
        BY <2>2
    <2>4. Head(out).tok = p[Len(c.out) + 1]
        <3>1. Head(out) = TokLine(c.id, p[Len(c.out) + 1])
            BY <1>1, <2>2, Zenon
        <3>2. QED
            BY <3>1 DEF TokLine
    <2>5. QED
        BY <1>7, <1>8, <2>2, <2>3, <2>4, Zenon
<1>9. CASE Head(out).kind = "done"
    <2>1. PICK p \in Seq(Token), s \in Nat, m \in Nat :
                ColdUnderWay(c, jb, out, context, p, s, m) \/ ColdTold(c, out, p, s, m)
        BY <1>2, <1>3, <1>7, <1>9, Zenon DEF Cold
    <2>2. ColdTold(c, out, p, s, m)
        <3>1. ASSUME out[1] = TokLine(c.id, p[Len(c.out) + 1])
              PROVE  FALSE
            BY <1>1, <1>9, <3>1 DEF TokLine
        <3>2. QED
            BY <1>5, <2>1, <3>1, Zenon
    <2>3. m = 0 /\ ColdTold(c, out, p, 0, m)
        <3>1. ASSUME out[1] = TokLine(c.id, p[Len(c.out) + 1])
              PROVE  FALSE
            BY <1>1, <1>9, <3>1 DEF TokLine
        <3>2. QED
            BY <1>6, <2>2, <3>1, Zenon
    <2>4. QED
        BY <1>7, <1>9, <2>3, Zenon
<1>10. QED
    BY <1>8, <1>9, Zenon

\* The next token of the answer is delivered.
LEMMA ColdReadTok ==
    ASSUME NEW c \in Call, NEW in \in Seq(Request), NEW jb \in Job, NEW out \in Seq(Line),
           NEW context, InOrder(in, jb.id, out, c.id), Cold(c, in, jb, out, context),
           out # <<>>, Head(out).id = c.id, Head(out).kind = "tok",
           NEW c2 \in Call, c2.ids = c.ids, c2.n = c.n, c2.id = c.id,
           c2.out = Append(c.out, Head(out).tok)
    PROVE  Cold(c2, in, jb, Tail(out), context)
<1> DEFINE b == Tail(out)
<1>1. PICK p \in Seq(Token), m \in Nat \ {0} :
            /\ Head(out).tok = p[Len(c.out) + 1]
            /\ Behind(c, out, p, 0, m)
            /\ ColdUnderWay(c, jb, out, context, p, 0, m) \/ ColdTold(c, out, p, 0, m)
    BY ColdFirst, Zenon
<1>2. /\ Len(b) = Len(out) - 1 /\ Len(out) \in Nat /\ Len(out) > 0
      /\ \A i \in 1..Len(b) : b[i] = out[i + 1]
    BY TailOf
<1>3. /\ c.out \in Seq(Token) /\ Len(c.out) \in Nat /\ Len(c2.out) = Len(c.out) + 1
      /\ \A i \in 1..Len(c.out) : c2.out[i] = c.out[i]
      /\ c2.out[Len(c.out) + 1] = p[Len(c.out) + 1]
    <2>1. Head(out) \in Line
        BY TailOf
    <2>2. Head(out).tok \in Token /\ c.out \in Seq(Token)
        BY <2>1, LineTypes DEF Call
    <2>3. QED
        BY <1>1, <2>2, AppendOf
<1> HIDE DEF b
<1>4. /\ Len(p) = Len(c.out) + m /\ m - 1 \in Nat /\ m \in Nat
      /\ Len(out) = m \/ Len(out) = m + 1
    <2>1. Len(out) = 0 + m \/ Len(out) = 0 + m + 1
        BY <1>1, Zenon DEF ColdUnderWay, ColdTold
    <2>2. QED
        BY <1>1, <2>1 DEF Behind
<1>5. Behind(c2, b, p, 0, m - 1)
    <2>1. Len(p) = Len(c2.out) + (m - 1)
        BY <1>3, <1>4
    <2>2. \A i \in 1..Len(c2.out) : p[i] = c2.out[i]
        <3>1. \A i \in 1..Len(c2.out) : i \in 1..Len(c.out) \/ i = Len(c.out) + 1
            BY <1>3
        <3>2. QED
            BY <1>1, <1>3, <3>1, Zenon DEF Behind
    <2>3. \A i \in 1..0 : b[i].id # c2.id
        OBVIOUS
    <2>4. ASSUME NEW i \in 1..(m - 1)
          PROVE  b[0 + i] = TokLine(c2.id, p[Len(c2.out) + i])
        <3>1. /\ i \in 1..Len(b) /\ i + 1 \in 1..m /\ 0 + i = i /\ 0 + (i + 1) = i + 1
              /\ Len(c2.out) + i = Len(c.out) + (i + 1)
            <4>1. i \in Nat /\ i + 1 \in 1..m /\ 0 + i = i /\ 0 + (i + 1) = i + 1
                BY <1>4
            <4>2. i \in 1..Len(b)
                BY <1>2, <1>4
            <4>3. \A a \in Nat : (a + 1) + i = a + (i + 1)
                BY <4>1
            <4>4. QED
                BY <1>3, <4>1, <4>2, <4>3, Zenon
        <3>2. out[0 + (i + 1)] = TokLine(c.id, p[Len(c.out) + (i + 1)])
            BY <1>1, <3>1, Zenon DEF Behind
        <3>3. QED
            BY <1>2, <3>1, <3>2, Zenon
    <2>5. QED
        BY <2>1, <2>2, <2>3, <2>4, Zenon DEF Behind
<1>6. CASE ColdUnderWay(c, jb, out, context, p, 0, m)
    <2>1. Len(b) = 0 + (m - 1)
        BY <1>2, <1>4, <1>6 DEF ColdUnderWay
    <2>2. ColdUnderWay(c2, jb, b, context, p, 0, m - 1)
        BY <1>5, <1>6, <2>1, Zenon DEF ColdUnderWay
    <2>3. 0 \in Nat
        OBVIOUS
    <2>4. QED
        BY <1>4, <2>2, <2>3, Zenon DEF Cold, b
<1>7. CASE ColdTold(c, out, p, 0, m)
    <2>1. /\ Len(b) = 0 + (m - 1) + 1 /\ 0 + (m - 1) + 1 \in 1..Len(b)
          /\ (0 + (m - 1) + 1) + 1 = 0 + m + 1
        <3>1. Len(out) = 0 + m + 1
            BY <1>7, Zenon DEF ColdTold
        <3>2. QED
            BY <1>2, <1>4, <3>1
    <2>2. ColdTold(c2, b, p, 0, m - 1)
        BY <1>2, <1>5, <1>7, <2>1, Zenon DEF ColdTold
    <2>3. 0 \in Nat
        OBVIOUS
    <2>4. QED
        BY <1>4, <2>2, <2>3, Zenon DEF Cold, b
<1>8. QED
    BY <1>1, <1>6, <1>7

\* What is delivered of a cold call is chosen after its own prompt.
LEMMA ColdDelivered ==
    ASSUME NEW c \in Call, NEW in, NEW jb, NEW out, NEW context,
           Cold(c, in, jb, out, context)
    PROVE  Greedy(c)
<1>1. c.out \in Seq(Token) /\ Len(c.out) \in Nat
    BY DEF Call
<1>2. CASE c.out = <<>>
    BY <1>2 DEF Greedy
<1>3. ASSUME NEW p \in Seq(Token), NEW s \in Nat, NEW m \in Nat, Chosen(c.ids, p),
             Behind(c, out, p, s, m)
      PROVE  Greedy(c)
    <2>1. SUFFICES ASSUME NEW k \in 1..Len(c.out)
                   PROVE  c.out[k] \in Decode(c.ids \o SubSeq(c.out, 1, k - 1))
        BY Zenon DEF Greedy
    <2>2. Len(p) = Len(c.out) + m /\ \A i \in 1..Len(c.out) : p[i] = c.out[i]
        BY <1>3, Zenon DEF Behind
    <2>3. k \in 1..Len(p) /\ p[k] = c.out[k]
        BY <1>1, <2>2
    <2>4. SubSeq(p, 1, k - 1) = SubSeq(c.out, 1, k - 1)
        BY <1>1, <2>2
    <2>5. QED
        BY <1>3, <2>3, <2>4, Zenon DEF Chosen
<1>4. QED
    BY <1>2, <1>3, Zenon DEF Cold, ColdAsked, ColdDenied, ColdUnderWay, ColdTold

\* And when its end is read, it is the whole answer.
LEMMA ColdReadDone ==
    ASSUME NEW c \in Call, NEW in \in Seq(Request), NEW jb \in Job, NEW out \in Seq(Line),
           NEW context, InOrder(in, jb.id, out, c.id), Cold(c, in, jb, out, context),
           out # <<>>, Head(out).id = c.id, Head(out).kind = "done"
    PROVE  Greedy(c) /\ Full(c)
<1>1. PICK p \in Seq(Token) : ColdTold(c, out, p, 0, 0)
    BY ColdFirst, Zenon
<1>2. c.out \in Seq(Token) /\ Len(c.out) \in Nat
    BY DEF Call
<1>3. Len(p) = Len(c.out) + 0 /\ \A i \in 1..Len(c.out) : p[i] = c.out[i]
    BY <1>1, Zenon DEF ColdTold, Behind
<1>4. p = c.out
    BY <1>2, <1>3
<1>5. Enough(c.out, c.n)
    BY <1>1, <1>4, Zenon DEF ColdTold
<1>6. Full(c)
    BY <1>5 DEF Enough, Full, Last
<1>7. QED
    BY <1>6, ColdDelivered, Zenon

(***************************************************************************)
(* The invariant and its steps.                                            *)
(***************************************************************************)
\* The types the lemmas ask for.
LEMMA WireState ==
    ASSUME TypeOK
    PROVE  /\ stdin \in Seq(Request) /\ stdout \in Seq(Line) /\ kv \in Seq(Token)
           /\ job \in Job /\ job.id \in Nat /\ call \in Call /\ nextId \in Nat
           /\ stdin # <<>> => Head(stdin) \in Request
BY TailOf DEF TypeOK, EngineTypeOK, Job

\* The engine's steps: the daemon's variables stay.
LEMMA WireServes ==
    ASSUME TypeOK, Wire, ServeStep, UNCHANGED daemonVars
    PROVE  Wire'
<1>1. /\ stdin \in Seq(Request) /\ stdout \in Seq(Line) /\ kv \in Seq(Token)
      /\ job \in Job /\ job.id \in Nat /\ call \in Call /\ nextId \in Nat
      /\ stdin # <<>> => Head(stdin) \in Request
    BY WireState
<1>2. /\ proc' = proc /\ history' = history /\ nextId' = nextId /\ call' = call
      /\ Busy' <=> Busy
    BY DEF daemonVars, Busy
<1>3. /\ InOrder(stdin, job.id, stdout, nextId)
      /\ Busy => /\ call.id = nextId /\ call.id # 0 /\ call.ids # <<>>
                 /\ Pending(stdin, job.id, stdout, nextId)
                 /\ InOrder(stdin, job.id, stdout, call.id)
                 /\ ~call.warm => Cold(call, stdin, job, stdout, kv)
    BY Zenon DEF Wire
<1>4. ASSUME /\ InOrder(stdin', job'.id, stdout', nextId)
             /\ Busy => Pending(stdin', job'.id, stdout', nextId)
             /\ Busy /\ ~call.warm => Cold(call, stdin', job', stdout', kv')
      PROVE  Wire'
    <2>1. Greedy(call)' = Greedy(call) /\ Full(call)' = Full(call)
        BY <1>2 DEF Greedy, Full
    <2>2. QED
        BY <1>2, <1>3, <1>4, <2>1, Zenon DEF Wire
<1>5. ASSUME NEW l \in Line, stdin # <<>>, ~Working, l.id = Head(stdin).id, Terminal(l),
             Head(stdin).stop \/ l.kind = "error",
             stdout' = Append(stdout, l), stdin' = Tail(stdin), job' = job
      PROVE  Wire'
    <2>1. job.id = 0
        BY <1>5 DEF Working
    <2>2. InOrder(stdin', job'.id, stdout', nextId)
        BY <1>1, <1>3, <1>5, <2>1, OrderAnswer, Zenon
    <2>3. Busy => Pending(stdin', job'.id, stdout', nextId)
        BY <1>1, <1>3, <1>5, <2>1, PendingAnswer, Zenon
    <2>4. Busy /\ ~call.warm => Cold(call, stdin', job', stdout', kv')
        BY <1>1, <1>3, <1>5, <2>1, ColdAnswer, Zenon
    <2>5. QED
        BY <1>4, <2>2, <2>3, <2>4
<1>6. CASE AnswerStop
    <2>1. /\ DoneLine(Head(stdin).id, 0) \in Line
          /\ DoneLine(Head(stdin).id, 0).id = Head(stdin).id
          /\ Terminal(DoneLine(Head(stdin).id, 0))
        BY <1>1, <1>6, LineTypes DEF AnswerStop, Request, DoneLine, Terminal
    <2>2. QED
        BY <1>5, <1>6, <2>1, Zenon DEF AnswerStop
<1>7. CASE Refuse
    <2>1. /\ ErrorLine(Head(stdin).id) \in Line
          /\ ErrorLine(Head(stdin).id).id = Head(stdin).id
          /\ ErrorLine(Head(stdin).id).kind = "error"
          /\ Terminal(ErrorLine(Head(stdin).id))
        BY <1>1, <1>7, LineTypes DEF Refuse, Request, ErrorLine, Terminal
    <2>2. QED
        BY <1>5, <1>7, <2>1, Zenon DEF Refuse
<1>8. CASE Accept
    <2>1. PICK r \in Request :
            /\ r = Head(stdin) /\ stdin # <<>> /\ ~Working
            /\ kv' = (IF r.reset THEN <<>> ELSE kv) \o r.ids
            /\ job' = [id |-> r.id, n |-> r.n, n_out |-> 0, go |-> r.n > 0 /\ r.ids # <<>>]
            /\ stdin' = Tail(stdin) /\ stdout' = stdout
        BY <1>1, <1>8, Zenon DEF Accept, Base
    <2>2. job.id = 0 /\ job'.id = r.id /\ job' \in Job
        BY <2>1 DEF Working, Request, Job
    <2>3. InOrder(stdin', job'.id, stdout', nextId)
        BY <1>1, <1>3, <2>1, <2>2, OrderAccept, Zenon
    <2>4. Busy => Pending(stdin', job'.id, stdout', nextId)
        BY <1>1, <1>3, <2>1, <2>2, PendingAccept, Zenon
    <2>5. Busy /\ ~call.warm => Cold(call, stdin', job', stdout', kv')
        BY <1>1, <1>3, <2>1, <2>2, ColdAccept, Zenon
    <2>6. QED
        BY <1>4, <2>3, <2>4, <2>5
<1>9. ASSUME NEW t \in Token, Emit(t)
      PROVE  Wire'
    <2> DEFINE l == TokLine(job.id, t)
    <2>1. /\ job.id # 0 /\ job.go /\ t \in Decode(kv)
          /\ stdout' = Append(stdout, l) /\ stdin' = stdin
          /\ job' = [job EXCEPT !.n_out = @ + 1, !.go = ~Leaves(t)]
          /\ ~Leaves(t) => kv' = Append(kv, t)
        BY <1>9 DEF Emit, Working
    <2>2. l \in Line /\ l.id = job.id /\ ~Terminal(l)
        BY <1>1, LineTypes DEF TokLine, Terminal
    <2>3. job' \in Job /\ job'.id = job.id
        <3>1. job' \in Job
            BY ServeTypes DEF TypeOK, EngineTypeOK
        <3>2. job'.id = job.id
            BY <1>1, <2>1 DEF Job
        <3>3. QED
            BY <3>1, <3>2
    <2>4. job.id \in Nat \ {0}
        BY <1>1, <2>1
    <2>5. InOrder(stdin', job'.id, stdout', nextId)
        BY <1>1, <1>3, <2>1, <2>2, <2>3, <2>4, OrderPrint, Zenon
    <2>6. Busy => Pending(stdin', job'.id, stdout', nextId)
        BY <1>1, <1>3, <2>1, <2>2, <2>3, <2>4, PendingPrint, Zenon
    <2>7. Busy /\ ~call.warm => Cold(call, stdin', job', stdout', kv')
        <3>1. Leaves(t) \in BOOLEAN /\ (Leaves(t) <=> t \in Eos \/ job.n_out + 1 >= job.n)
            BY DEF Leaves
        <3>2. QED
            BY <1>1, <1>3, <2>1, <2>3, <3>1, ColdPrint, Zenon
    <2>8. QED
        BY <1>4, <2>5, <2>6, <2>7
<1>10. CASE Finish
    <2> DEFINE l == DoneLine(job.id, job.n_out)
    <2>1. /\ job.id # 0 /\ ~job.go
          /\ stdout' = Append(stdout, l) /\ stdin' = stdin /\ job' = NoJob /\ kv' = kv
        BY <1>10 DEF Finish, Working
    <2>2. l \in Line /\ l.id = job.id /\ Terminal(l)
        BY <1>1, LineTypes DEF Job, DoneLine, Terminal
    <2>3. job' \in Job /\ job'.id = 0
        BY <2>1 DEF NoJob, Job
    <2>4. job.id \in Nat \ {0}
        BY <1>1, <2>1
    <2>5. InOrder(stdin', job'.id, stdout', nextId)
        BY <1>1, <1>3, <2>1, <2>2, <2>3, <2>4, OrderFinish, Zenon
    <2>6. Busy => Pending(stdin', job'.id, stdout', nextId)
        BY <1>1, <1>3, <2>1, <2>2, <2>3, <2>4, PendingPrint, Zenon
    <2>7. Busy /\ ~call.warm => Cold(call, stdin', job', stdout', kv')
        BY <1>1, <1>3, <2>1, <2>3, ColdFinish, Zenon
    <2>8. QED
        BY <1>4, <2>5, <2>6, <2>7
<1>11. QED
    BY <1>6, <1>7, <1>8, <1>9, <1>10 DEF ServeStep

\* The pipes of a process that was thrown away.
LEMMA WireDiscarded ==
    ASSUME TypeOK', Discard, call'.state \notin {"busy", "done"}
    PROVE  Wire'
<1>1. stdin' = <<>> /\ stdout' = <<>> /\ job'.id = 0 /\ nextId' \in Nat
    BY DEF Discard, NoJob, TypeOK
<1>2. InOrder(stdin', job'.id, stdout', nextId')
    BY <1>1, OrderFresh, Zenon
<1>3. QED
    BY <1>2, Zenon DEF Wire, Busy

\* A call begins.
LEMMA WireBegins ==
    ASSUME TypeOK, TypeOK', Wire, NEW ids \in Prompts, NEW n \in Budgets,
           \/ Begin(ids, n) \/ BeginOnDead(ids, n)
           \/ BeginWithSpawn(ids, n) \/ SpawnFails(ids, n)
    PROVE  Wire'
<1>1. /\ stdin \in Seq(Request) /\ stdout \in Seq(Line) /\ kv \in Seq(Token)
      /\ job \in Job /\ job.id \in Nat /\ call \in Call /\ nextId \in Nat
      /\ ids \in Seq(Token) /\ ids # <<>>
    BY WireState
<1>2. \A st, i, w : /\ NewCall(st, ids, n, i, w).state = st
                    /\ NewCall(st, ids, n, i, w).ids = ids
                    /\ NewCall(st, ids, n, i, w).n = n
                    /\ NewCall(st, ids, n, i, w).id = i
                    /\ NewCall(st, ids, n, i, w).warm = w
                    /\ NewCall(st, ids, n, i, w).out = <<>>
    BY DEF NewCall
<1>4. "failed" # "busy" /\ "failed" # "done" /\ "busy" # "done"
    OBVIOUS
<1>5. nextId + 1 \in Nat \ {0} /\ nextId + 1 # 0
    BY <1>1
<1>6. ASSUME NEW r \in Request, NEW w \in BOOLEAN, r.id = nextId + 1, nextId' = nextId + 1,
             call' = NewCall("busy", ids, n, nextId + 1, w),
             ~w => r.ids = ids /\ r.n = n /\ r.reset /\ ~r.stop,
             InOrder(stdin', job'.id, stdout', nextId + 1),
             stdin' # <<>>, stdin'[Len(stdin')] = r
      PROVE  Wire'
    <2>1. Pending(stdin', job'.id, stdout', nextId')
        BY <1>6, Zenon DEF Pending
    <2>6. /\ call'.state = "busy" /\ call'.id = nextId + 1 /\ call'.ids = ids
          /\ call'.n = n /\ call'.warm = w /\ call'.out = <<>>
        BY <1>6 DEF NewCall
    <2>2. ~w => ColdAsked(call', stdin')
        BY <1>6, <2>6, Zenon DEF ColdAsked
    <2>3. ~w => Cold(call', stdin', job', stdout', kv')
        BY <2>2, Zenon DEF Cold
    <2>4. /\ call'.state = "busy" /\ call'.id = nextId' /\ call'.id # 0
          /\ call'.ids # <<>> /\ call'.warm = w
        BY <1>1, <1>5, <1>6, <2>6, Zenon
    <2>5. QED
        BY <1>4, <1>6, <2>1, <2>3, <2>4, Zenon DEF Wire, Busy
<1>7. CASE Begin(ids, n)
    <2> DEFINE w == Extends(ids)
               r == RequestLine(nextId + 1, ToSend(ids, w), n, ~w)
    <2>1. /\ stdin' = Append(stdin, r) /\ call' = NewCall("busy", ids, n, nextId + 1, w)
          /\ nextId' = nextId + 1 /\ stdout' = stdout /\ job' = job
        BY <1>7 DEF Begin
    <2>2. w \in BOOLEAN /\ r \in Request
        <3>1. w \in BOOLEAN
            BY DEF Extends, IsStrictPrefix, IsPrefix
        <3>2. QED
            BY <1>5, <3>1, BeginTypes
    <2>3. /\ r.id = nextId + 1
          /\ ~w => r.ids = ids /\ r.n = n /\ r.reset /\ ~r.stop
        BY DEF RequestLine, ToSend
    <2> HIDE DEF r, w
    <2>4. InOrder(stdin', job'.id, stdout', nextId + 1)
        BY <1>1, <2>1, <2>2, <2>3, OrderWrite, Zenon DEF Wire
    <2>5. stdin' # <<>> /\ stdin'[Len(stdin')] = r
        <3>1. Append(stdin, r) # <<>> /\ Append(stdin, r)[Len(Append(stdin, r))] = r
            BY <1>1, <2>2, LastAppended
        <3>2. QED
            BY <2>1, <3>1, Zenon
    <2>6. QED
        BY <1>6, <2>1, <2>2, <2>3, <2>4, <2>5, Zenon
<1>8. CASE BeginWithSpawn(ids, n)
    <2> DEFINE r == RequestLine(nextId + 1, ids, n, TRUE)
    <2>1. /\ stdin' = <<r>> /\ call' = NewCall("busy", ids, n, nextId + 1, FALSE)
          /\ nextId' = nextId + 1 /\ stdout' = <<>> /\ job' = NoJob
        BY <1>8 DEF BeginWithSpawn
    <2>2. r \in Request
        BY <1>1, <1>5 DEF RequestLine, Request
    <2>3. r.id = nextId + 1 /\ r.ids = ids /\ r.n = n /\ r.reset /\ ~r.stop
        BY DEF RequestLine
    <2> HIDE DEF r
    <2>4. InOrder(stdin', job'.id, stdout', nextId + 1)
        <3>1. job'.id = 0
            BY <2>1 DEF NoJob
        <3>2. nextId + 1 \in Nat
            BY <1>1
        <3>3. QED
            BY <2>1, <2>2, <2>3, <3>1, <3>2, OrderFresh, Zenon
    <2>5. stdin' # <<>> /\ stdin'[Len(stdin')] = r
        BY <2>1
    <2>6. FALSE \in BOOLEAN
        OBVIOUS
    <2>7. QED
        BY <1>6, <2>1, <2>2, <2>3, <2>4, <2>5, <2>6, Zenon
<1>9. CASE BeginOnDead(ids, n)
    <2>1. call'.state = "failed" /\ Discard
        BY <1>2, <1>9 DEF BeginOnDead, MarkDown
    <2>2. QED
        BY <2>1, WireDiscarded
<1>10. CASE SpawnFails(ids, n)
    <2>1. /\ call'.state = "failed" /\ stdin' = stdin /\ stdout' = stdout /\ job' = job
          /\ nextId' = nextId
        BY <1>2, <1>10 DEF SpawnFails, engineVars
    <2>2. QED
        BY <1>4, <2>1, Zenon DEF Wire, Busy
<1>11. QED
    BY <1>7, <1>8, <1>9, <1>10

\* The daemon reads a line, or the end of file.
LEMMA WireReads ==
    ASSUME TypeOK, TypeOK', Wire, Read
    PROVE  Wire'
<1>1. /\ stdin \in Seq(Request) /\ stdout \in Seq(Line) /\ kv \in Seq(Token)
      /\ job \in Job /\ job.id \in Nat /\ call \in Call /\ nextId \in Nat
      /\ call' \in Call
    BY WireState DEF TypeOK
<1>2. Busy
    BY DEF Read, ReadStale, ReadTok, ReadDone, RetryCold, RetryOnDead, FailOnError,
           ReadError, ReadEof, Reading
<1>3. /\ InOrder(stdin, job.id, stdout, nextId)
      /\ call.id = nextId /\ call.id # 0 /\ call.ids # <<>>
      /\ Pending(stdin, job.id, stdout, nextId)
      /\ InOrder(stdin, job.id, stdout, call.id)
      /\ ~call.warm => Cold(call, stdin, job, stdout, kv)
    BY <1>2, Zenon DEF Wire
<1>4. stdout # <<>> => InOrder(stdin, job.id, Tail(stdout), nextId)
    BY <1>1, <1>3, OrderRead, Zenon
<1>5. CASE ReadStale
    <2>1. /\ stdout # <<>> /\ Head(stdout).id # call.id /\ stdout' = Tail(stdout)
          /\ stdin' = stdin /\ kv' = kv /\ job' = job /\ call' = call /\ nextId' = nextId
        BY <1>5 DEF ReadStale, Reading, Mine, daemonVars
    <2>2. Pending(stdin, job.id, Tail(stdout), nextId)
        BY <1>1, <1>3, <2>1, PendingRead, Zenon
    <2>3. ~call.warm => Cold(call, stdin, job, Tail(stdout), kv)
        BY <1>1, <1>3, <2>1, ColdReadStale, Zenon
    <2>4. Busy' /\ call'.state # "done"
        BY <1>2, <2>1 DEF Busy
    <2>5. QED
        BY <1>3, <1>4, <2>1, <2>2, <2>3, <2>4, Zenon DEF Wire
<1>6. CASE ReadTok
    <2>1. /\ stdout # <<>> /\ Head(stdout).id = call.id /\ Head(stdout).kind = "tok"
          /\ stdout' = Tail(stdout)
          /\ stdin' = stdin /\ kv' = kv /\ job' = job /\ nextId' = nextId
          /\ call' = [call EXCEPT !.out = Append(@, Head(stdout).tok)]
        BY <1>6 DEF ReadTok, Reading, Mine
    <2>2. /\ call'.ids = call.ids /\ call'.n = call.n /\ call'.id = call.id
          /\ call'.warm = call.warm /\ call'.state = "busy"
          /\ call'.out = Append(call.out, Head(stdout).tok)
        BY <1>1, <1>2, <2>1 DEF Call, Busy
    <2>3. ~Terminal(Head(stdout))
        BY <2>1 DEF Terminal
    <2>4. Pending(stdin, job.id, Tail(stdout), nextId)
        BY <1>1, <1>3, <2>1, <2>3, PendingRead, Zenon
    <2>5. ~call.warm => Cold(call', stdin, job, Tail(stdout), kv)
        BY <1>1, <1>3, <2>1, <2>2, ColdReadTok, Zenon
    <2>6. Busy' /\ call'.state # "done"
        BY <2>2 DEF Busy
    <2>7. QED
        BY <1>3, <1>4, <2>1, <2>2, <2>4, <2>5, <2>6, Zenon DEF Wire
<1>7. CASE ReadDone
    <2>1. /\ stdout # <<>> /\ Head(stdout).id = call.id /\ Head(stdout).kind = "done"
          /\ stdout' = Tail(stdout)
          /\ stdin' = stdin /\ job' = job /\ nextId' = nextId
          /\ call' = [call EXCEPT !.state = "done"]
        BY <1>7 DEF ReadDone, Reading, Mine
    <2>2. /\ call'.ids = call.ids /\ call'.n = call.n /\ call'.out = call.out
          /\ call'.warm = call.warm /\ call'.state = "done"
        BY <1>1, <2>1 DEF Call
    <2>3. ~call.warm => Greedy(call) /\ Full(call)
        BY <1>1, <1>3, <2>1, ColdReadDone, Zenon
    <2>4. ~call.warm => Greedy(call') /\ Full(call')
        BY <2>2, <2>3 DEF Greedy, Full
    <2>5. ~Busy'
        BY <2>2 DEF Busy
    <2>6. QED
        BY <1>4, <2>1, <2>2, <2>4, <2>5, Zenon DEF Wire
<1>8. CASE RetryCold
    <2> DEFINE r == RequestLine(nextId + 1, call.ids, call.n, TRUE)
    <2>1. /\ stdout # <<>> /\ stdout' = Tail(stdout) /\ stdin' = Append(stdin, r)
          /\ job' = job /\ nextId' = nextId + 1 /\ call.out = <<>>
          /\ call' = [call EXCEPT !.id = nextId + 1, !.warm = FALSE]
        BY <1>8 DEF RetryCold, ReadError, Reading, Retries
    <2>2. /\ call'.ids = call.ids /\ call'.n = call.n /\ call'.out = <<>>
          /\ call'.id = nextId + 1 /\ call'.state = "busy"
        BY <1>1, <1>2, <2>1 DEF Call, Busy
    <2>3. /\ r \in Request /\ r.id = nextId + 1 /\ r.ids = call.ids /\ r.n = call.n
          /\ r.reset /\ ~r.stop
        BY <1>1 DEF RequestLine, Request, Call
    <2> HIDE DEF r
    <2>4. Tail(stdout) \in Seq(Line)
        BY <1>1, <2>1, TailOf
    <2>5. InOrder(stdin', job'.id, stdout', nextId')
        BY <1>1, <1>4, <2>1, <2>3, <2>4, OrderWrite, Zenon
    <2>6. stdin' # <<>> /\ stdin'[Len(stdin')] = r
        <3>1. Append(stdin, r) # <<>> /\ Append(stdin, r)[Len(Append(stdin, r))] = r
            BY <1>1, <2>3, LastAppended
        <3>2. QED
            BY <2>1, <3>1, Zenon
    <2>7. Pending(stdin', job'.id, stdout', nextId')
        BY <2>1, <2>3, <2>6, Zenon DEF Pending
    <2>8. ColdAsked(call', stdin')
        BY <2>2, <2>3, <2>6, Zenon DEF ColdAsked
    <2>9. Busy' /\ call'.state # "done" /\ call'.id = nextId' /\ call'.id # 0
        BY <1>1, <2>1, <2>2 DEF Busy
    <2>10. QED
        BY <1>3, <2>2, <2>5, <2>7, <2>8, <2>9, Zenon DEF Wire, Cold
<1>9. CASE RetryOnDead \/ ReadEof
    <2>1. call'.state = "failed" /\ Discard
        BY <1>1, <1>9 DEF RetryOnDead, ReadEof, MarkDown, Call
    <2>2. QED
        BY <2>1, WireDiscarded
<1>10. CASE FailOnError
    <2>1. /\ stdout # <<>> /\ stdout' = Tail(stdout)
          /\ stdin' = stdin /\ job' = job /\ nextId' = nextId /\ call'.state = "failed"
        BY <1>1, <1>10 DEF FailOnError, ReadError, Reading, Call
    <2>2. ~Busy' /\ call'.state # "done"
        BY <2>1 DEF Busy
    <2>3. QED
        BY <1>4, <2>1, <2>2, Zenon DEF Wire
<1>11. QED
    BY <1>5, <1>6, <1>7, <1>8, <1>9, <1>10 DEF Read

LEMMA WireStep ==
    ASSUME TypeOK, Wire, [Next]_vars
    PROVE  Wire'
<1>1. TypeOK'
    BY TypeStep
<1>2. ASSUME NEW ids \in Prompts, NEW n \in Budgets,
             \/ Begin(ids, n) \/ BeginOnDead(ids, n)
             \/ BeginWithSpawn(ids, n) \/ SpawnFails(ids, n)
      PROVE  Wire'
    BY <1>1, <1>2, WireBegins
<1>3. CASE Read
    BY <1>1, <1>3, WireReads
<1>4. CASE DropCall
    <2>1. /\ call'.state = "failed" /\ stdin' = stdin /\ stdout' = stdout /\ job' = job
          /\ nextId' = nextId
        BY <1>4 DEF DropCall, engineVars, TypeOK, Call
    <2>2. ~Busy' /\ call'.state # "done"
        BY <2>1 DEF Busy
    <2>3. QED
        BY <2>1, <2>2, Zenon DEF Wire
<1>5. CASE Eject \/ EjectDropped
    <2>1. /\ ~Busy /\ stdin' = <<>> /\ stdout' = <<>> /\ job'.id = 0
          /\ nextId' = nextId /\ call' = call /\ nextId' \in Nat
        BY <1>1, <1>5 DEF Eject, EjectDropped, Discard, NoJob, TypeOK
    <2>2. InOrder(stdin', job'.id, stdout', nextId')
        BY <2>1, OrderFresh, Zenon
    <2>3. ~Busy'
        BY <2>1 DEF Busy
    <2>4. QED
        BY <2>1, <2>2, <2>3, Zenon DEF Wire
<1>6. CASE EngineExits \/ UNCHANGED vars
    <2>1. /\ stdin' = stdin /\ stdout' = stdout /\ job' = job /\ kv' = kv
          /\ nextId' = nextId /\ call' = call
        BY <1>6 DEF EngineExits, Exit, vars, engineVars, daemonVars
    <2>2. QED
        BY <2>1, Zenon DEF Wire, Busy
<1>7. CASE EngineRuns
    BY <1>7, WireServes DEF EngineRuns
<1>8. QED
    BY <1>2, <1>3, <1>4, <1>5, <1>6, <1>7 DEF Next

\* What the pipes hold, at any time and for any engine, dropped calls and deaths
\* of the process included: the invariant behind the three theorems below.
THEOREM WireHolds == Spec => []Wire
<1>1. Init => Wire
    <2> SUFFICES ASSUME Init
                 PROVE  Wire
        OBVIOUS
    <2>1. /\ stdin = <<>> /\ stdout = <<>> /\ job.id = 0 /\ nextId = 0
          /\ ~Busy /\ call.state # "done"
        BY DEF Init, FreshEngine, NoJob, NoCall, Busy
    <2>2. 0 \in Nat
        OBVIOUS
    <2>3. InOrder(stdin, job.id, stdout, nextId)
        BY <2>1, <2>2, OrderFresh, Zenon
    <2>4. QED
        BY <2>1, <2>3, Zenon DEF Wire
<1>2. TypeOK /\ Wire /\ [Next]_vars => Wire'
    BY WireStep
<1>3. QED
    BY <1>1, <1>2, TypeCorrect, PTL DEF Spec

\* A request that was sent with reset:true is answered from its own prompt, to
\* its end, even when answers to calls that were dropped before it are still
\* being made or printed (generate_once skips the lines with another id, and
\* the engine serves its stdin in order).
THEOREM ColdIsExact == Spec => []ColdExact
<1>1. TypeOK /\ Wire => ColdExact
    <2> SUFFICES ASSUME TypeOK, Wire, ~call.warm, Busy \/ call.state = "done"
                 PROVE  Greedy(call) /\ (call.state = "done" => Full(call))
        BY DEF ColdExact
    <2>1. CASE Busy
        <3>1. call.state # "done" /\ call \in Call
            BY <2>1 DEF Busy, TypeOK
        <3>2. Cold(call, stdin, job, stdout, kv)
            BY <2>1, Zenon DEF Wire
        <3>3. Greedy(call)
            BY <3>1, <3>2, ColdDelivered, Zenon
        <3>4. QED
            BY <3>1, <3>3
    <2>2. CASE call.state = "done"
        BY <2>2, Zenon DEF Wire
    <2>3. QED
        BY <2>1, <2>2
<1>2. QED
    BY <1>1, WireHolds, TypeCorrect, PTL

\* While a call waits on a live engine exactly one answer to it is on its way:
\* its line is unread, or its job is running, or its terminal line is printed.
\* So the read loop of generate_once never waits for a line that cannot come,
\* and leaves no terminal line of its own behind.
THEOREM OneAnswer == Spec => []OneAnswerPending
<1>1. TypeOK /\ Wire => OneAnswerPending
    <2> SUFFICES ASSUME TypeOK, Wire, Busy
                 PROVE  Answers = 1
        BY DEF OneAnswerPending
    <2>1. /\ stdin \in Seq(Request) /\ stdout \in Seq(Line) /\ job.id \in Nat
          /\ nextId \in Nat
        BY WireState
    <2>2. /\ InOrder(stdin, job.id, stdout, nextId)
          /\ Pending(stdin, job.id, stdout, nextId) /\ call.id = nextId
        BY Zenon DEF Wire
    <2>3. Places(stdin, job.id, stdout, nextId) = 1
        BY <2>1, <2>2, OnePlace, Zenon
    <2>4. DOMAIN stdin = 1..Len(stdin) /\ DOMAIN stdout = 1..Len(stdout)
        BY <2>1
    <2>5. QED
        BY <2>2, <2>3, <2>4, Zenon DEF Answers, Places, Mine, Working
<1>2. QED
    BY <1>1, WireHolds, TypeCorrect, PTL

\* The ids of a pipe, of the job, and of a pipe again, one after the other.
Rising(s)    == \A i, k \in 1..Len(s) : i < k => s[i] <= s[k]
AtMost(s, b) == \A i \in 1..Len(s) : s[i] <= b
Under(s, t)  == \A i \in 1..Len(s), k \in 1..Len(t) : s[i] <= t[k]

LEMMA RisingConcat ==
    ASSUME NEW s \in Seq(Nat), NEW t \in Seq(Nat), Rising(s), Rising(t), Under(s, t)
    PROVE  /\ s \o t \in Seq(Nat) /\ Rising(s \o t)
           /\ \A b : AtMost(s, b) /\ AtMost(t, b) => AtMost(s \o t, b)
           /\ \A u : Under(s, u) /\ Under(t, u) => Under(s \o t, u)
<1>1. /\ s \o t \in Seq(Nat) /\ Len(s) \in Nat /\ Len(t) \in Nat
      /\ Len(s \o t) = Len(s) + Len(t)
    OBVIOUS
<1>2. \A i \in 1..Len(s \o t) :
        \/ i \in 1..Len(s) /\ (s \o t)[i] = s[i]
        \/ i > Len(s) /\ i - Len(s) \in 1..Len(t) /\ (s \o t)[i] = t[i - Len(s)]
    OBVIOUS
<1>3. ASSUME NEW i \in 1..Len(s \o t), NEW k \in 1..Len(s \o t), i < k
      PROVE  (s \o t)[i] <= (s \o t)[k]
    <2>1. CASE i \in 1..Len(s) /\ (s \o t)[i] = s[i]
        <3>1. CASE k \in 1..Len(s) /\ (s \o t)[k] = s[k]
            BY <1>3, <2>1, <3>1, Zenon DEF Rising
        <3>2. CASE k - Len(s) \in 1..Len(t) /\ (s \o t)[k] = t[k - Len(s)]
            BY <2>1, <3>2, Zenon DEF Under
        <3>3. QED
            BY <1>2, <3>1, <3>2, Zenon
    <2>2. CASE /\ i > Len(s) /\ i - Len(s) \in 1..Len(t)
               /\ (s \o t)[i] = t[i - Len(s)]
        <3>1. k \notin 1..Len(s) /\ i - Len(s) < k - Len(s)
            BY <1>1, <1>3, <2>2
        <3>2. k - Len(s) \in 1..Len(t) /\ (s \o t)[k] = t[k - Len(s)]
            BY <1>2, <3>1, Zenon
        <3>3. QED
            BY <2>2, <3>1, <3>2, Zenon DEF Rising
    <2>3. QED
        BY <1>2, <2>1, <2>2, Zenon
<1>4. ASSUME NEW b, AtMost(s, b), AtMost(t, b)
      PROVE  AtMost(s \o t, b)
    BY <1>2, <1>4, Zenon DEF AtMost
<1>5. ASSUME NEW u, Under(s, u), Under(t, u)
      PROVE  Under(s \o t, u)
    BY <1>2, <1>5, Zenon DEF Under
<1>6. Rising(s \o t)
    BY <1>3, Zenon DEF Rising
<1>7. QED
    BY <1>1, <1>4, <1>5, <1>6, Zenon

LEMMA IdsOf ==
    /\ \A s \in Seq(Request) :
        /\ [i \in DOMAIN s |-> s[i].id] \in Seq(Nat)
        /\ Len([i \in DOMAIN s |-> s[i].id]) = Len(s)
        /\ \A i \in 1..Len(s) : [l \in DOMAIN s |-> s[l].id][i] = s[i].id
    /\ \A s \in Seq(Line) :
        /\ [i \in DOMAIN s |-> s[i].id] \in Seq(Nat)
        /\ Len([i \in DOMAIN s |-> s[i].id]) = Len(s)
        /\ \A i \in 1..Len(s) : [l \in DOMAIN s |-> s[l].id][i] = s[i].id
<1>1. \A s \in Seq(Request) : DOMAIN s = 1..Len(s) /\ Len(s) \in Nat
    OBVIOUS
<1>2. \A s \in Seq(Line) : DOMAIN s = 1..Len(s) /\ Len(s) \in Nat
    OBVIOUS
<1>3. ASSUME NEW n \in Nat, NEW f \in [1..n -> Nat]
      PROVE  f \in Seq(Nat) /\ Len(f) = n
    OBVIOUS
<1>4. ASSUME NEW s \in Seq(Request)
      PROVE  [i \in DOMAIN s |-> s[i].id] \in [1..Len(s) -> Nat]
    BY <1>1, WireTypes
<1>5. ASSUME NEW s \in Seq(Line)
      PROVE  [i \in DOMAIN s |-> s[i].id] \in [1..Len(s) -> Nat]
    BY <1>2, WireTypes
<1>6. QED
    BY <1>1, <1>2, <1>3, <1>4, <1>5

\* Ids go through the pipes in the order next_id hands them out, none is ahead
\* of it, and the current call's is the last: what makes "a line with another
\* id is an older one" (the comment in generate_once) true.
THEOREM IdsOrdered == Spec => []IdsInOrder
<1>1. TypeOK /\ Wire => IdsInOrder
    <2> SUFFICES ASSUME TypeOK, Wire
                 PROVE  IdsInOrder
        OBVIOUS
    <2> DEFINE A == [i \in DOMAIN stdout |-> stdout[i].id]
               J == IF Working THEN <<job.id>> ELSE <<>>
               B == [i \in DOMAIN stdin |-> stdin[i].id]
    <2>1. /\ stdin \in Seq(Request) /\ stdout \in Seq(Line) /\ job.id \in Nat
          /\ nextId \in Nat
        BY WireState
    <2>2. /\ Ascending(stdin) /\ Told(stdout) /\ Before(stdout, stdin)
          /\ Between(stdin, job.id, stdout, nextId)
          /\ Below(stdin, nextId) /\ Below(stdout, nextId)
        BY Zenon DEF Wire, InOrder
    <2>3. /\ A \in Seq(Nat) /\ Len(A) = Len(stdout)
          /\ \A i \in 1..Len(stdout) : A[i] = stdout[i].id
        BY <2>1, IdsOf, Zenon
    <2>4. /\ B \in Seq(Nat) /\ Len(B) = Len(stdin)
          /\ \A i \in 1..Len(stdin) : B[i] = stdin[i].id
        BY <2>1, IdsOf, Zenon
    <2>5. J \in Seq(Nat) /\ \A i \in 1..Len(J) : J[i] = job.id /\ job.id # 0
        BY <2>1 DEF Working
    <2>6. WireIds = (A \o J) \o B
        BY DEF WireIds
    <2> HIDE DEF A, J, B
    <2>7. Rising(A)
        BY <2>2, <2>3, Zenon DEF Rising, Told
    <2>8. Rising(J)
        BY <2>1, <2>5 DEF Rising
    <2>9. Rising(B)
        <3>1. \A i, k \in 1..Len(stdin) : stdin[i].id \in Nat /\ stdin[k].id \in Nat
            BY <2>1, WireTypes
        <3>2. \A i, k \in 1..Len(stdin) : i < k => stdin[i].id <= stdin[k].id
            BY <2>2, <3>1 DEF Ascending
        <3>3. QED
            BY <2>4, <3>2, Zenon DEF Rising
    <2>10. Under(A, J)
        BY <2>2, <2>3, <2>5, Zenon DEF Between, Under
    <2>11. Under(A, B) /\ Under(J, B)
        <3>1. \A k \in 1..Len(stdin), i \in 1..Len(stdout) :
                stdin[k].id \in Nat /\ stdout[i].id \in Nat
            BY <2>1, WireTypes
        <3>2. \A a, b \in Nat : a < b => a <= b
            OBVIOUS
        <3>3. \A i \in 1..Len(stdout), k \in 1..Len(stdin) : stdout[i].id <= stdin[k].id
            BY <2>2, <3>1, <3>2, Zenon DEF Before
        <3>4. job.id # 0 => \A k \in 1..Len(stdin) : job.id <= stdin[k].id
            BY <2>1, <2>2, <3>2, WireTypes, Zenon DEF Between
        <3>5. QED
            BY <2>3, <2>4, <2>5, <3>3, <3>4, Zenon DEF Under
    <2>12. AtMost(A, nextId) /\ AtMost(J, nextId) /\ AtMost(B, nextId)
        BY <2>2, <2>3, <2>4, <2>5, Zenon DEF Below, Between, AtMost
    <2>13. /\ A \o J \in Seq(Nat) /\ Rising(A \o J)
           /\ AtMost(A \o J, nextId) /\ Under(A \o J, B)
        BY <2>3, <2>5, <2>7, <2>8, <2>10, <2>11, <2>12, RisingConcat, Zenon
    <2>14. /\ (A \o J) \o B \in Seq(Nat) /\ Rising((A \o J) \o B)
           /\ AtMost((A \o J) \o B, nextId)
        BY <2>4, <2>9, <2>12, <2>13, RisingConcat, Zenon
    <2>15. DOMAIN WireIds = 1..Len(WireIds)
        BY <2>6, <2>14
    <2>16. Busy => call.id = nextId
        BY Zenon DEF Wire
    <2>17. QED
        BY <2>6, <2>14, <2>15, <2>16, Zenon DEF IdsInOrder, Rising, AtMost
<1>2. QED
    BY <1>1, WireHolds, TypeCorrect, PTL
=============================================================================
