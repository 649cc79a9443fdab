------------------------------ MODULE Containers -----------------------------
(***************************************************************************)
(* Model containers on disk: what /status and /engine/load see of one      *)
(* (daemon/src/models.rs), and what the engine needs of it                 *)
(* (include/st.h). A container is a directory that may be half copied:     *)
(* any of its files may be missing, and a shard may end inside its header  *)
(* or inside its data.                                                     *)
(***************************************************************************)
EXTENDS Naturals, FiniteSets

CONSTANT Shard      \* the weight files of a container

File == {"absent", "cut in header", "cut in data", "whole"}

\* index: model.safetensors.index.json, which names every shard. tokenizer:
\* can tokenizer.json, or the configured one, be loaded?
Directory ==
    [config    : BOOLEAN,
     index     : {"absent", "cut", "whole"},
     tokenizer : BOOLEAN,
     shard     : [Shard -> File]]

NoDirectory ==
    [config |-> FALSE, index |-> "absent", tokenizer |-> FALSE,
     shard |-> [s \in Shard |-> "absent"]]

Complete(index) ==
    [config |-> TRUE, index |-> index, tokenizer |-> TRUE,
     shard |-> [s \in Shard |-> "whole"]]

\* One more piece of a container arrives; files come in any order.
Grown(f) ==
    CASE f = "absent"        -> "cut in header"
      [] f = "cut in header" -> "cut in data"
      [] OTHER               -> "whole"

Copied(d) ==
    {[d EXCEPT !.config = TRUE], [d EXCEPT !.tokenizer = TRUE]}
        \cup {[d EXCEPT !.shard[s] = Grown(@)] : s \in Shard}
        \cup {[d EXCEPT !.index = i] : i \in CASE d.index = "cut" -> {"whole"}
                                               [] OTHER -> {d.index}}

-----------------------------------------------------------------------------
\* read_st_header: the header is read, the data behind it is not looked at.
ReadsHeader(f) == f \in {"cut in data", "whole"}

Readable(d) == {s \in Shard : ReadsHeader(d.shard[s])}

\* scan: a directory with a config.json is a container.
Listed(d) == d.config

\* Mutant: any readable shard will do, index or not.
VerifyAny(d) == d.index # "cut" /\ Readable(d) # {}

\* verify_container
Verified(d) ==
    CASE d.index = "whole"  -> Readable(d) = Shard
      [] d.index = "cut"    -> FALSE
      [] d.index = "absent" -> Readable(d) # {}

\* inspect, and the fit of /status: what the readable shards add up to.
Fits(d, budget) == Cardinality(Readable(d)) <= budget

\* st_init reads the header of every shard there is and exits at a bad one; a
\* shard that is not there is missed when one of its tensors is looked up.
Opens(d) == d.config /\ Readable(d) = Shard

\* Does an engine come up? A shard cut in its data is noticed by the read of a
\* tensor behind the cut: at once, or, if that is an expert, at its first use.
Boots(d) ==
    IF \A s \in Shard : d.shard[s] = "whole" THEN {d.config}
    ELSE IF Opens(d) THEN BOOLEAN ELSE {FALSE}

=============================================================================
