----------------------------- MODULE ExpertCache -----------------------------
(***************************************************************************)
(* One layer's cache of streamed experts: expert_get() of the engines      *)
(* (qwen.c, olmoe.c and gemma.c share it), and the two ways a layer uses   *)
(* what it returns. A decode step uses each slot before it asks for the    *)
(* next one; a batch (gemma.c always, olmoe.c for a prefill on the GPU)    *)
(* first collects the slots of every expert its tokens chose, in the order *)
(* of their numbers, and computes with the slots afterwards.               *)
(*                                                                         *)
(* A slot's weights are abstracted to the expert they are of.              *)
(***************************************************************************)
EXTENDS Naturals, FiniteSets

CONSTANTS
    Cap,          \* slots of the layer (QCACHE)
    Expert,       \* the experts' numbers
    MaxUnion,     \* distinct experts the tokens of one batch choose at most
    MaxClock      \* bound: accesses the model makes

ASSUME CacheAssumption ==
    /\ Cap \in Nat \ {0}
    /\ Expert \subseteq Nat /\ IsFiniteSet(Expert)
    /\ MaxUnion \in Nat
    /\ MaxClock \in Nat

VARIABLES
    n,            \* slots allocated so far
    eid,          \* the expert whose weights each slot holds
    used,         \* the clock of each slot's last use
    clock,        \* the model's access counter
    wanted,       \* experts of the batch whose slots are not collected yet
    jobs,         \* the slots collected: <<expert, slot>>
    recent        \* for the properties: each expert's last access, 0 for none

vars == <<n, eid, used, clock, wanted, jobs, recent>>

Slots == 1..Cap
Live  == 1..n

TypeOK ==
    /\ n \in 0..Cap
    /\ eid \in [Slots -> Nat]
    /\ used \in [Slots -> Nat]
    /\ clock \in Nat
    /\ wanted \subseteq Expert
    /\ jobs \subseteq Expert \X Slots
    /\ recent \in [Expert -> Nat]

Init ==
    /\ n = 0
    /\ eid = [i \in Slots |-> 0]
    /\ used = [i \in Slots |-> 0]
    /\ clock = 0
    /\ wanted = {} /\ jobs = {}
    /\ recent = [e \in Expert |-> 0]

-----------------------------------------------------------------------------
(***************************************************************************)
(* expert_get(e), with i the slot it returns.                              *)
(***************************************************************************)
Cached(e) == \E i \in Live : eid[i] = e

\* Mutant: the comparison is the wrong way round.
MostRecent(i) ==
    /\ i \in Live
    /\ \A j \in Live : used[i] > used[j] \/ (used[i] = used[j] /\ i <= j)

\* The first of the slots used longest ago.
LeastRecent(i) ==
    /\ i \in Live
    /\ \A j \in Live : used[i] < used[j] \/ (used[i] = used[j] /\ i <= j)

Hit(e, i)  == i \in Live /\ eid[i] = e /\ UNCHANGED <<n, eid>>

\* Mutant: the count of slots is advanced twice.
FillTwice(e, i) ==
    /\ ~Cached(e) /\ n < Cap
    /\ i = n + 1
    /\ n' = n + 2
    /\ eid' = [eid EXCEPT ![i] = e]

Fill(e, i) ==
    /\ ~Cached(e) /\ n < Cap
    /\ i = n + 1
    /\ n' = n + 1
    /\ eid' = [eid EXCEPT ![i] = e]

Replace(e, i) ==
    /\ ~Cached(e) /\ n >= Cap
    /\ LeastRecent(i)
    /\ eid' = [eid EXCEPT ![i] = e]
    /\ UNCHANGED n

\* Mutant: a hit does not count as a use.
GetForgetsHits(e, i) ==
    /\ clock < MaxClock
    /\ Hit(e, i) \/ Fill(e, i) \/ Replace(e, i)
    /\ used' = [used EXCEPT ![i] = IF Cached(e) THEN @ ELSE clock + 1]
    /\ clock' = clock + 1
    /\ recent' = [recent EXCEPT ![e] = clock + 1]

Get(e, i) ==
    /\ clock < MaxClock
    /\ Hit(e, i) \/ Fill(e, i) \/ Replace(e, i)
    /\ used' = [used EXCEPT ![i] = clock + 1]
    /\ clock' = clock + 1
    /\ recent' = [recent EXCEPT ![e] = clock + 1]

(***************************************************************************)
(* Its callers.                                                            *)
(***************************************************************************)
Idle == wanted = {} /\ jobs = {}

\* A token's turn with one of its experts: fetched and used at once.
Step(e, i) ==
    /\ Idle
    /\ Get(e, i)
    /\ UNCHANGED <<wanted, jobs>>

\* The routing of a batch is known.
BeginBatch(union) ==
    /\ Idle
    /\ wanted' = union
    /\ UNCHANGED <<n, eid, used, clock, jobs, recent>>

Collect(e, i) ==
    /\ e \in wanted
    /\ \A f \in wanted : e <= f
    /\ Get(e, i)
    /\ wanted' = wanted \ {e}
    /\ jobs' = jobs \cup {<<e, i>>}

\* The layer computes with the slots collected, and forgets them.
Compute ==
    /\ wanted = {} /\ jobs # {}
    /\ jobs' = {}
    /\ UNCHANGED <<n, eid, used, clock, wanted, recent>>

Unions == {u \in SUBSET Expert : u # {} /\ Cardinality(u) <= MaxUnion}

Next ==
    \/ \E e \in Expert, i \in Slots : Step(e, i) \/ Collect(e, i)
    \/ \E u \in Unions : BeginBatch(u)
    \/ Compute

Spec == Init /\ [][Next]_vars

-----------------------------------------------------------------------------
(***************************************************************************)
(* Properties.                                                             *)
(***************************************************************************)
\* What a batch computes with is what it collected: no later load of the same
\* batch went into the slot of an earlier one (gemma.c:633-636, "the ones
\* loaded for this layer are not evicted").
BatchIntact == \A job \in jobs : eid[job[2]] = job[1]

\* The cache holds the experts accessed last, each once, over any series of
\* hits, fills and replacements: it is LRU by expert, not only by slot.
HoldsTheRecent ==
    /\ \A i, j \in Live : eid[i] = eid[j] => i = j
    /\ \A e, f \in Expert :
          Cached(e) /\ ~Cached(f) => recent[e] > recent[f]
    /\ Cardinality({e \in Expert : recent[e] > 0}) <= Cap
          => \A e \in Expert : recent[e] > 0 => Cached(e)

=============================================================================
