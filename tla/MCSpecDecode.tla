---------------------------- MODULE MCSpecDecode -----------------------------
(* SpecDecode on three tokens, of which the last ends an answer.             *)
EXTENDS SpecDecode

MCToken == 1..3
MCEos == {3}

\* The choice depends on the last three tokens and on whether the length is
\* even, so that a bigram's continuation is sometimes right and sometimes not,
\* and ties now and then.
MCDecode(ctx) ==
    LET l == Len(ctx)
        back(i) == IF i < l THEN ctx[l - i] ELSE 0
        h == (back(0) + 2 * back(1) + back(2) + (l % 2)) % 7
    IN  IF h \in {0, 1, 2} THEN {1} ELSE IF h \in {3, 4} THEN {2}
        ELSE IF h = 5 THEN {3} ELSE {1, 3}

MCInputs == {<<>>, <<1>>, <<1, 3, 1, 3>>, <<1, 2, 1, 1, 2>>}
MCCounts == {0, 1, 6}

=============================================================================
