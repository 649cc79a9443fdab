----------------------------- MODULE SpecDecode ------------------------------
(***************************************************************************)
(* gemma's decode loop, with speculation when GEMMA_SPEC=1 (Speculates):   *)
(* a draft copied from the history after an earlier occurrence of its last *)
(* two tokens, verified in one batched step, the rejected part rolled back *)
(* by setting the position. Requests are read one after the other, warm or *)
(* cold, as in EngineServe; an iteration of the decode loop is one action. *)
(*                                                                         *)
(* kv holds the tokens whose keys and values are stored, the ones beyond   *)
(* pos being left over from a rejected draft: attention at a position      *)
(* reads the positions up to it. The logits kept between two iterations    *)
(* are abstracted to the context they were computed after, `row`.          *)
(***************************************************************************)
EXTENDS Integers, Sequences, SequencesExt

CONSTANTS
    Token,        \* the vocabulary
    Eos,          \* its end-of-sequence ids
    Decode(_),    \* Decode(ctx): the tokens that may be the arg max after ctx
    MaxT,         \* positions allocated (max_t)
    SpecK,        \* tokens of a draft at most (SPEC_K)
    Speculates,   \* GEMMA_SPEC=1
    Inputs,       \* the ids a request may carry
    Counts        \* the n a request may carry

ASSUME SpecAssumption ==
    /\ Eos \subseteq Token
    /\ MaxT \in Nat /\ SpecK \in Nat \ {0} /\ Speculates \in BOOLEAN
    /\ Inputs \subseteq Seq(Token)
    /\ Counts \subseteq Nat

VARIABLES
    kv,           \* tokens whose keys and values are stored
    pos,          \* m.pos: how many of them count
    hist,         \* hist[0..hlen): what drafts are copied from
    row,          \* the context behind the logits
    go,           \* the loop holds logits and goes on
    start,        \* for the properties: the context after the prefill,
    n,            \*     the tokens asked for
    out           \*     and the tokens printed since

vars == <<kv, pos, hist, row, go, start, n, out>>

Context == SubSeq(kv, 1, pos)

TypeOK ==
    /\ kv \in Seq(Token) /\ pos \in 0..Len(kv)
    /\ hist \in Seq(Token)
    /\ row \in Seq(Token) /\ go \in BOOLEAN
    /\ start \in Seq(Token) /\ out \in Seq(Token) /\ n \in Nat

Init ==
    /\ kv = <<>> /\ pos = 0 /\ hist = <<>>
    /\ row = <<>> /\ go = FALSE
    /\ start = <<>> /\ n = 0 /\ out = <<>>

-----------------------------------------------------------------------------
(***************************************************************************)
(* A request, between two jobs.                                            *)
(***************************************************************************)
Base(reset) == IF reset THEN 0 ELSE pos
Recalled(reset) == IF reset THEN <<>> ELSE hist

\* Mutant: the ids are left out of the sum.
FitsWithoutIds(ids, m, reset) == Base(reset) + m + SpecK < MaxT

Fits(ids, m, reset) == Base(reset) + Len(ids) + m + SpecK < MaxT

Refuse(ids, m, reset) ==
    /\ ~go
    /\ ~Fits(ids, m, reset)
    /\ pos' = Base(reset)
    /\ hist' = Recalled(reset)
    /\ start' = SubSeq(kv, 1, Base(reset)) /\ n' = 0 /\ out' = <<>>
    /\ UNCHANGED <<kv, row, go>>

\* Prefill in one batch; without ids there are no logits and no token follows.
Prefill(ids, m, reset) ==
    /\ ~go
    /\ Fits(ids, m, reset)
    /\ kv' = SubSeq(kv, 1, Base(reset)) \o ids
    /\ pos' = Base(reset) + Len(ids)
    /\ hist' = Recalled(reset) \o ids
    /\ row' = kv'
    /\ go' = (m > 0 /\ ids # <<>>)
    /\ start' = kv' /\ n' = (IF ids = <<>> THEN 0 ELSE m) /\ out' = <<>>

(***************************************************************************)
(* ngram_draft(): what followed the last earlier occurrence of the last    *)
(* two tokens of h.                                                        *)
(***************************************************************************)
Matches(h) ==
    {j \in 2..(Len(h) - 2) : h[j - 1] = h[Len(h) - 1] /\ h[j] = h[Len(h)]}

Draft(h) ==
    IF Matches(h) = {} THEN <<>>
    ELSE LET j == Max(Matches(h))
         IN  SubSeq(h, j + 1, Min({j + SpecK, Len(h)}))

\* The draft after best, cut so that one token of the answer is left for the
\* iteration that follows.
CutDraft(best) ==
    LET d == IF Speculates THEN Draft(Append(hist, best)) ELSE <<>>
    IN  SubSeq(d, 1, Min({Len(d), n - Len(out) - 2}))

(***************************************************************************)
(* An iteration: print the arg max, then leave, or step, or verify a draft. *)
(***************************************************************************)
Leaves(t) == t \in Eos \/ Len(out) + 1 >= n

Leave(best) ==
    /\ go /\ best \in Decode(row)
    /\ Leaves(best)
    /\ out' = Append(out, best) /\ hist' = Append(hist, best)
    /\ go' = FALSE
    /\ UNCHANGED <<kv, pos, row, start, n>>

Step(best) ==
    /\ go /\ best \in Decode(row)
    /\ ~Leaves(best)
    /\ CutDraft(best) = <<>>
    /\ out' = Append(out, best) /\ hist' = Append(hist, best)
    /\ kv' = Append(Context, best) /\ pos' = pos + 1
    /\ row' = kv'
    /\ UNCHANGED <<go, start, n>>

\* Mutant: a draft is checked against the arg max of the first row only.
AcceptsBlindly(best, d, acc) ==
    LET first == Decode(Context \o <<best>>)
    IN  /\ acc > 0 => d[1] \in first
        /\ \A i \in 1..(acc - 1) : d[i] \notin Eos
        /\ \/ acc = Len(d)
           \/ acc > 0 /\ d[acc] \in Eos
           \/ acc = 0 /\ first # {d[1]}

\* The first acc tokens of the draft d agree with the arg max of their rows,
\* and the next one does not, unless the draft or the answer ends before it.
\* (Where arg max ties, either outcome may be the build's.)
Accepts(best, d, acc) ==
    LET after(i) == Context \o <<best>> \o SubSeq(d, 1, i)
    IN  /\ \A i \in 1..acc : d[i] \in Decode(after(i - 1))
        /\ \A i \in 1..(acc - 1) : d[i] \notin Eos
        /\ \/ acc = Len(d)
           \/ acc > 0 /\ d[acc] \in Eos
           \/ acc < Len(d) /\ Decode(after(acc)) # {d[acc + 1]}

\* A verification of which `kept` of the batch's positions count afterwards.
VerifyKeeping(best, acc, kept) ==
    LET d == CutDraft(best) IN
    /\ go /\ best \in Decode(row)
    /\ ~Leaves(best)
    /\ d # <<>> /\ acc \in 0..Len(d)
    /\ Accepts(best, d, acc)
    /\ out' = out \o <<best>> \o SubSeq(d, 1, acc)
    /\ hist' = hist \o <<best>> \o SubSeq(d, 1, acc)
    /\ kv' = Context \o <<best>> \o d
    /\ pos' = pos + kept
    /\ row' = SubSeq(kv', 1, pos + 1 + acc)
    /\ go' = ~(acc > 0 /\ d[acc] \in Eos)
    /\ UNCHANGED <<start, n>>

\* Mutants: no rollback; best counted twice.
VerifyWithoutRollback(best, acc) ==
    VerifyKeeping(best, acc, 1 + Len(CutDraft(best)))
VerifyOffByOne(best, acc) == VerifyKeeping(best, acc, 2 + acc)

Verify(best, acc) == VerifyKeeping(best, acc, 1 + acc)

Next ==
    \/ \E ids \in Inputs, m \in Counts, reset \in BOOLEAN :
            Refuse(ids, m, reset) \/ Prefill(ids, m, reset)
    \/ \E best \in Token :
            \/ Leave(best)
            \/ Step(best)
            \/ \E acc \in 0..SpecK : Verify(best, acc)

Spec == Init /\ [][Next]_vars

-----------------------------------------------------------------------------
(***************************************************************************)
(* Properties.                                                             *)
(***************************************************************************)
\* "Greedy-equivalent" (gemma.c:825-826): with drafts accepted or not, every
\* token printed is the greedy choice after all before it, none follows an
\* end-of-sequence, there are never more than n, and fewer only after one.
GreedyEquivalent ==
    /\ \A k \in DOMAIN out : out[k] \in Decode(start \o SubSeq(out, 1, k - 1))
    /\ \A k \in DOMAIN out : out[k] \in Eos => k = Len(out) /\ ~go
    /\ Len(out) <= n
    /\ ~go => Len(out) = n \/ (out # <<>> /\ Last(out) \in Eos)

\* After a rollback the positions that count are exactly the conversation so
\* far, and the logits kept are the ones after it (gemma.c:843-848). Between two
\* requests the last token printed may be missing (it is when it was the arg
\* max of the loop, and is not when it was an accepted draft), nothing else.
ContextIsConversation ==
    /\ go => Context = start \o out /\ row = Context
    /\ Context = start \o out \/ (out # <<>> /\ Context = start \o Front(out))

\* Batches write their keys and values inside the allocation, rejected drafts
\* included.
KvFits == Len(kv) <= MaxT

=============================================================================
