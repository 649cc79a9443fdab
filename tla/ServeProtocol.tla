---------------------------- MODULE ServeProtocol ----------------------------
(***************************************************************************)
(* The serve loop of EngineServe against a client that writes any request  *)
(* lines at any time, pipelined, warm or cold, with `stop` lines among     *)
(* them (src/PROTOCOL.md): more than the daemon of WarmAppend ever sends.  *)
(* Nobody reads stdout here, so that it keeps every line printed.          *)
(***************************************************************************)
EXTENDS EngineServe, SequencesExt

CONSTANTS
    Inputs,       \* the ids a request may carry, the empty list included
    Counts,       \* the n a request may carry
    MaxSent       \* bound: lines the client writes

ASSUME ClientAssumption ==
    /\ Inputs \subseteq Seq(Token)
    /\ Counts \subseteq Nat
    /\ MaxSent \in Nat

VARIABLE sent     \* the lines written to stdin so far, for the properties
vars == <<engineVars, sent>>

Init ==
    /\ alive = TRUE
    /\ FreshEngine
    /\ sent = <<>>

Write(r) ==
    /\ Len(sent) < MaxSent
    /\ stdin' = Append(stdin, r)
    /\ sent' = Append(sent, r)
    /\ UNCHANGED <<alive, stdout, kv, job>>

\* A request under an id of its own.
Ask(ids, n, reset) ==
    Write([id |-> Len(sent) + 1, ids |-> ids, n |-> n, reset |-> reset, stop |-> FALSE])

\* {"id":i,"stop":true}, for a request sent before.
AskToStop(i) ==
    /\ i \in DOMAIN sent /\ ~sent[i].stop
    /\ Write([id |-> i, ids |-> <<>>, n |-> 0, reset |-> FALSE, stop |-> TRUE])

Serves == ServeStep /\ UNCHANGED sent
Dies   == Exit /\ UNCHANGED sent

Next ==
    \/ \E ids \in Inputs, n \in Counts, reset \in BOOLEAN : Ask(ids, n, reset)
    \/ \E i \in 1..MaxSent : AskToStop(i)
    \/ Serves
    \/ Dies

Spec == Init /\ [][Next]_vars
FairSpec == Spec /\ WF_vars(Serves)

-----------------------------------------------------------------------------
(***************************************************************************)
(* Reference: the lines a series of requests is answered with, one request *)
(* after the other, each as a whole. (Needs a network without ties.)       *)
(***************************************************************************)
\* The greedy answer of at most n tokens after ctx.
Answer(ctx, n) ==
    CHOOSE a \in BoundedSeq(Token, n) :
        /\ \A k \in DOMAIN a : a[k] \in Decode(ctx \o SubSeq(a, 1, k - 1))
        /\ \A k \in 1..(Len(a) - 1) : a[k] \notin Eos
        /\ Len(a) = n \/ (a # <<>> /\ Last(a) \in Eos)

Reply(s, r) ==
    LET base == IF r.reset THEN <<>> ELSE s.ctx
        full == base \o r.ids
        a    == IF r.ids = <<>> THEN <<>> ELSE Answer(full, r.n)
        fed  == IF FeedsLast \/ a = <<>> THEN a ELSE Front(a)
    IN  IF r.stop THEN [s EXCEPT !.lines = Append(@, DoneLine(r.id, 0))]
        ELSE IF Len(full) + r.n + Slack >= MaxT
        THEN [ctx |-> base, lines |-> Append(s.lines, ErrorLine(r.id))]
        ELSE [ctx |-> full \o fed,
              lines |-> s.lines \o [k \in DOMAIN a |-> TokLine(r.id, a[k])]
                            \o <<DoneLine(r.id, Len(a))>>]

Replies == FoldLeft(Reply, [ctx |-> <<>>, lines |-> <<>>], sent).lines

(***************************************************************************)
(* Properties.                                                             *)
(***************************************************************************)
\* Whatever is pipelined and wherever the process dies, it has printed a prefix
\* of the serial answer: each request from the context its predecessors left,
\* tokens before their terminal line, nothing out of turn, a stop line answered
\* by a done line of its own in its turn.
AnswersAreSerial == IsPrefix(stdout, Replies)

\* A live engine gets through everything it was sent, refused and empty requests
\* included: no request makes it wait for another.
AllAnswered == [](alive /\ Len(sent) = MaxSent => <>(~alive \/ stdout = Replies))

=============================================================================
