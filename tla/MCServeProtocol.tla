--------------------------- MODULE MCServeProtocol ---------------------------
(* ServeProtocol on two tokens, with a network that never ties.              *)
EXTENDS ServeProtocol

MCToken == 1..2
MCEos == {2}
MCDecode(ctx) ==
    LET h == FoldLeft(LAMBDA acc, t : (2 * acc + t) % 5, Len(ctx), ctx)
    IN  {(h % 2) + 1}

MCInputs == {<<>>, <<1>>, <<2, 1>>}
MCCounts == 0..2

=============================================================================
