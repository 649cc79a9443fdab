---------------------------- MODULE MCChatStream -----------------------------
(* ChatStream with a vocabulary that has whole characters, both halves of a  *)
(* wide one, a tail with a character after it, a stop string as one token    *)
(* and the same stop string in two.                                          *)
EXTENDS ChatStream

MCNarrow == {"a", "<", ">"}
MCWide == {"u", "?"}
MCToken == {"a", "<", ">", "<>", "u", "u1", "u2", "u2a"}
MCBytes ==
    [t \in MCToken |->
        CASE t = "<>"  -> <<<<"<", 0>>, <<">", 0>>>>
          [] t = "u"   -> <<<<"u", 1>>, <<"u", 2>>>>
          [] t = "u1"  -> <<<<"u", 1>>>>
          [] t = "u2"  -> <<<<"u", 2>>>>
          [] t = "u2a" -> <<<<"u", 2>>, <<"a", 0>>>>
          [] OTHER     -> <<<<t, 0>>>>]
MCStops == {<<"<", ">">>, <<"a", "a">>}

=============================================================================
