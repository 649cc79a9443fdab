---------------------------- MODULE MCWarmAppend -----------------------------
(* WarmAppend on a vocabulary of two tokens, one of them end-of-sequence.    *)
EXTENDS WarmAppend

MCToken == 1..2
MCEos == {2}

\* A "network" whose choice depends on every position of its context, with a
\* tie now and then, so that a wrong context shows in the tokens.
MCDecode(ctx) ==
    LET h == FoldLeft(LAMBDA acc, t : (2 * acc + t) % 5, Len(ctx), ctx)
    IN  IF h = 4 THEN MCToken ELSE {(h % 2) + 1}

\* Short prompts, and prompts long enough to extend an earlier prompt and its
\* answer once or twice (all conversations but one begin with token 1).
MCPrompts ==
    {s \in BoundedSeq(MCToken, 4) : Len(s) \in {1, 3, 4} /\ (Len(s) > 1 => s[1] = 1)}

MCBudgets == 0..2

\* Fewer inputs where abandoned jobs multiply the states.
MCFewPrompts == {<<1>>, <<2>>, <<1, 1, 2>>, <<1, 2, 1>>, <<1, 2, 2, 1>>}
MCFewBudgets == {0, 2}

=============================================================================
