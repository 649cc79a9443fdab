----------------------------- MODULE EngineServe -----------------------------
(***************************************************************************)
(* The serve loop every inference engine runs as a child process: read one *)
(* request line from stdin, prefill, decode greedily printing one line per *)
(* token, print the `done` line, read the next request (src/PROTOCOL.md).  *)
(* The loop is the same in engines/qwen.c, engines/olmoe.c and             *)
(* engines/gemma.c, except in two points that are constants here:          *)
(*   Slack      - gemma keeps SPEC_K extra positions free;                 *)
(*   FeedsLast  - qwen and olmoe step the network on the last token of an  *)
(*                answer too, gemma leaves the loop before that step.      *)
(*                                                                         *)
(* A forward pass is abstracted to the context it has consumed: kv is the  *)
(* sequence of token ids the KV cache and the recurrent state stand for,   *)
(* and Decode(kv) the set of tokens the argmax of its logits may be.       *)
(***************************************************************************)
EXTENDS Naturals, Sequences

CONSTANTS
    Token,        \* the vocabulary
    Eos,          \* the end-of-sequence ids of generation_config.json
    MaxT,         \* positions allocated for the context (max_t)
    Slack,        \* positions a request must leave free: SPEC_K in gemma, else 0
    FeedsLast,    \* does the answer's last token enter the context?
    Decode(_)     \* Decode(ctx): the tokens greedy decoding may pick after ctx

ASSUME EngineAssumption ==
    /\ Eos \subseteq Token
    /\ MaxT \in Nat
    /\ Slack \in Nat
    /\ FeedsLast \in BOOLEAN

VARIABLES
    alive,        \* the engine process runs
    stdin,        \* request lines written to it and not read yet
    stdout,       \* response lines it flushed and nobody read yet
    kv,           \* the context its caches hold
    job           \* the request it is working on, or NoJob

engineVars == <<alive, stdin, stdout, kv, job>>

(***************************************************************************)
(* Lines and jobs.                                                         *)
(***************************************************************************)
Request == [id : Nat \ {0}, ids : Seq(Token), n : Nat, reset : BOOLEAN, stop : BOOLEAN]

TokLine(i, t)  == [id |-> i, kind |-> "tok", tok |-> t]
DoneLine(i, k) == [id |-> i, kind |-> "done", n_out |-> k]
ErrorLine(i)   == [id |-> i, kind |-> "error"]

Line == [id : Nat, kind : {"tok"}, tok : Token]
            \cup [id : Nat, kind : {"done"}, n_out : Nat]
            \cup [id : Nat, kind : {"error"}]

\* A line after which the engine prints nothing more for that request.
Terminal(l) == l.kind \in {"done", "error"}

\* go: the loop holds logits and has not met a reason to leave. Requests carry
\* ids from 1 on, so 0 marks the absence of a job.
Job   == [id : Nat, n : Nat, n_out : Nat, go : BOOLEAN]
NoJob == [id |-> 0, n |-> 0, n_out |-> 0, go |-> FALSE]

Working == job.id # 0

EngineTypeOK ==
    /\ alive \in BOOLEAN
    /\ stdin \in Seq(Request)
    /\ stdout \in Seq(Line)
    /\ kv \in Seq(Token)
    /\ job \in Job

(***************************************************************************)
(* A fresh process: nothing in its pipes, nothing in its caches.           *)
(***************************************************************************)
FreshEngine ==
    /\ stdin = <<>>
    /\ stdout = <<>>
    /\ kv = <<>>
    /\ job = NoJob

-----------------------------------------------------------------------------
(***************************************************************************)
(* Reading the next request, between two jobs only.                        *)
(***************************************************************************)
\* The context a request starts from: reset empties it first.
Base(r) == IF r.reset THEN <<>> ELSE kv

\* Mutant: the room is reckoned without the ids of the request.
FitsWithoutIds(r) == Len(Base(r)) + r.n + Slack < MaxT

Fits(r) == Len(Base(r)) + Len(r.ids) + r.n + Slack < MaxT

\* {"stop":true} is answered at once: whatever it wanted stopped has ended.
AnswerStop ==
    /\ alive /\ ~Working /\ stdin # <<>>
    /\ Head(stdin).stop
    /\ stdout' = Append(stdout, DoneLine(Head(stdin).id, 0))
    /\ stdin' = Tail(stdin)
    /\ UNCHANGED <<alive, kv, job>>

\* Mutants: a refusal undoes the reset; a refusal prints nothing.
RefuseKeepsContext ==
    /\ alive /\ ~Working /\ stdin # <<>>
    /\ ~Head(stdin).stop
    /\ ~Fits(Head(stdin))
    /\ stdout' = Append(stdout, ErrorLine(Head(stdin).id))
    /\ stdin' = Tail(stdin)
    /\ UNCHANGED <<alive, kv, job>>

RefuseSilently ==
    /\ alive /\ ~Working /\ stdin # <<>>
    /\ ~Head(stdin).stop
    /\ ~Fits(Head(stdin))
    /\ kv' = Base(Head(stdin))
    /\ stdin' = Tail(stdin)
    /\ UNCHANGED <<alive, stdout, job>>

\* "context full": the reset, if asked for, has already happened.
Refuse ==
    /\ alive /\ ~Working /\ stdin # <<>>
    /\ ~Head(stdin).stop
    /\ ~Fits(Head(stdin))
    /\ kv' = Base(Head(stdin))
    /\ stdout' = Append(stdout, ErrorLine(Head(stdin).id))
    /\ stdin' = Tail(stdin)
    /\ UNCHANGED <<alive, job>>

\* Prefill the ids; with no ids there are no logits and no token follows.
Accept ==
    /\ alive /\ ~Working /\ stdin # <<>>
    /\ LET r == Head(stdin) IN
        /\ ~r.stop
        /\ Fits(r)
        /\ kv' = Base(r) \o r.ids
        /\ job' = [id |-> r.id, n |-> r.n, n_out |-> 0,
                   go |-> r.n > 0 /\ r.ids # <<>>]
    /\ stdin' = Tail(stdin)
    /\ UNCHANGED <<alive, stdout>>

(***************************************************************************)
(* One turn of the decode loop: print the argmax, leave on EOS or after n  *)
(* tokens, and run the token through the network (unless leaving, in an    *)
(* engine that does not feed the last one).                                *)
(***************************************************************************)
Leaves(t) == t \in Eos \/ job.n_out + 1 >= job.n

Emit(t) ==
    /\ alive /\ Working /\ job.go
    /\ t \in Decode(kv)
    /\ stdout' = Append(stdout, TokLine(job.id, t))
    /\ job' = [job EXCEPT !.n_out = @ + 1, !.go = ~Leaves(t)]
    /\ kv' = IF FeedsLast \/ ~Leaves(t) THEN Append(kv, t) ELSE kv
    /\ UNCHANGED <<alive, stdin>>

\* Mutant: no `done` line for an answer without tokens.
FinishIfAny ==
    /\ alive /\ Working /\ ~job.go
    /\ job.n_out > 0
    /\ stdout' = Append(stdout, DoneLine(job.id, job.n_out))
    /\ job' = NoJob
    /\ UNCHANGED <<alive, stdin, kv>>

Finish ==
    /\ alive /\ Working /\ ~job.go
    /\ stdout' = Append(stdout, DoneLine(job.id, job.n_out))
    /\ job' = NoJob
    /\ UNCHANGED <<alive, stdin, kv>>

\* The process exits (OOM, a failed read, a signal). What it flushed stays
\* readable; its unread input and its state are out of anyone's reach, every
\* other action of the engine needs it alive.
Exit ==
    /\ alive
    /\ alive' = FALSE
    /\ UNCHANGED <<stdin, stdout, kv, job>>

ServeStep == AnswerStop \/ Refuse \/ Accept \/ (\E t \in Token : Emit(t)) \/ Finish

=============================================================================
