------------------------------ MODULE MCAppViews -----------------------------
(***************************************************************************)
(* AppViews with two containers of two shards: the configured one, which   *)
(* is whole (Init), and another one. In MCArriving that one may be half    *)
(* copied, with its index but as yet without its config.json and with a    *)
(* shard missing; in MCHalfCopied a shard may end inside its data.         *)
(***************************************************************************)
EXTENDS AppViews

CONSTANTS s1, s2

Whole == Complete("whole")

MCArriving ==
    {Whole, [Whole EXCEPT !.config = FALSE, !.shard[s2] = "absent"]}

MCHalfCopied == {Whole, [Whole EXCEPT !.shard[s2] = "cut in data"]}

=============================================================================
