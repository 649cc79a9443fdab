--------------------------- MODULE StatelessDecode ---------------------------
(***************************************************************************)
(* What Engine::generate (daemon/src/engine.rs) promises its caller, with  *)
(* no engine state in sight: an answer is the greedy continuation of the   *)
(* WHOLE prompt, token by token, as if every request started from an empty *)
(* context; it counts as done only when it is complete, and a call may     *)
(* fail at any moment. Warm-append is an optimisation the caller must not  *)
(* be able to notice.                                                      *)
(***************************************************************************)
EXTENDS Naturals, Sequences

CONSTANTS
    Token,        \* the vocabulary
    Eos,          \* tokens that end an answer
    Decode(_),    \* Decode(ctx): the tokens greedy decoding may pick after ctx
    Prompts,      \* the prompts callers send
    Budgets       \* the max_tokens values callers send

VARIABLE call     \* the latest call: [state, ids, n, out]

NoCall == [state |-> "idle", ids |-> <<>>, n |-> 0, out |-> <<>>]

Complete(c) ==
    \/ Len(c.out) >= c.n
    \/ c.out # <<>> /\ c.out[Len(c.out)] \in Eos

Init == call = NoCall

Begin(ids, n) ==
    /\ call.state # "busy"
    /\ call' = [state |-> "busy", ids |-> ids, n |-> n, out |-> <<>>]

\* A call that fails before it is under way (no engine can be started).
Reject(ids, n) ==
    /\ call.state # "busy"
    /\ call' = [state |-> "failed", ids |-> ids, n |-> n, out |-> <<>>]

Deliver(t) ==
    /\ call.state = "busy"
    /\ ~Complete(call)
    /\ t \in Decode(call.ids \o call.out)
    /\ call' = [call EXCEPT !.out = Append(@, t)]

Done ==
    /\ call.state = "busy"
    /\ Complete(call)
    /\ call' = [call EXCEPT !.state = "done"]

Fail ==
    /\ call.state = "busy"
    /\ call' = [call EXCEPT !.state = "failed"]

Next ==
    \/ \E ids \in Prompts, n \in Budgets : Begin(ids, n) \/ Reject(ids, n)
    \/ \E t \in Token : Deliver(t)
    \/ Done
    \/ Fail

Spec == Init /\ [][Next]_call

=============================================================================
