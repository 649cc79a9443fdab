-------------------------- MODULE ExpertCache_proofs --------------------------
(***************************************************************************)
(* A batch keeps the experts it collected whenever their union fits the    *)
(* cache, for any cache, experts and history of accesses.                  *)
(***************************************************************************)
EXTENDS ExpertCache, FiniteSetTheorems, TLAPS

USE CacheAssumption

\* The slots a batch has collected.
Held == {job[2] : job \in jobs}

(***************************************************************************)
(* The inductive invariant. Held slots were used after all others, so LRU  *)
(* takes another one as long as there is one; and there is one as long as  *)
(* the slots held and the experts still wanted are no more than the cache. *)
(***************************************************************************)
Kept ==
    /\ BatchIntact
    /\ Held \subseteq Live
    /\ \A h \in Held, j \in Live \ Held : used[j] < used[h]
    /\ \A i \in Slots : used[i] <= clock
    /\ Cardinality(Held) + Cardinality(wanted) <= MaxUnion

\* The sets counted are finite.
LEMMA Finite ==
    ASSUME TypeOK
    PROVE  /\ IsFiniteSet(Held) /\ IsFiniteSet(wanted) /\ IsFiniteSet(Live)
           /\ Cardinality(Held) \in Nat /\ Cardinality(wanted) \in Nat
           /\ Cardinality(Live) = n
<1>1. IsFiniteSet(Slots)
    BY FS_Interval DEF Slots
<1>2. IsFiniteSet(Held)
    <2>1. Held \subseteq Slots
        BY DEF TypeOK, Held
    <2>2. QED
        BY <1>1, <2>1, FS_Subset
<1>3. IsFiniteSet(wanted)
    BY FS_Subset DEF TypeOK
<1>4. n \in Nat /\ IsFiniteSet(Live) /\ Cardinality(Live) = n
    <2>1. n \in Int /\ 1 \in Int /\ n \in Nat
        BY DEF TypeOK
    <2>2. QED
        BY <2>1, FS_Interval DEF Live
<1>5. QED
    BY <1>2, <1>3, <1>4, FS_CardinalityType

\* The slot expert_get returns was not held when it had to be emptied.
LEMMA NotHeld ==
    ASSUME MaxUnion <= Cap, TypeOK, Kept,
           NEW e \in wanted, NEW i \in Slots, Replace(e, i)
    PROVE  i \notin Held
<1>1. Cardinality(wanted) > 0
    BY Finite, FS_EmptySet
<1>2. n = Cap
    BY DEF Replace, TypeOK
<1>3. Cardinality(Held) < Cardinality(Live)
    BY <1>1, <1>2, Finite DEF Kept
<1>4. Held # Live
    BY <1>3, Finite
<1>5. PICK j \in Live : j \notin Held
    BY <1>4 DEF Kept
<1>6. used[i] <= used[j]
    <2>1. j \in Slots
        BY <1>5 DEF Live, Slots, TypeOK
    <2>2. used[i] \in Nat /\ used[j] \in Nat
        BY <2>1 DEF TypeOK
    <2>3. QED
        BY <1>5, <2>2 DEF Replace, LeastRecent
<1>7. SUFFICES ASSUME i \in Held PROVE FALSE
    OBVIOUS
<1>8. used[j] < used[i]
    BY <1>5, <1>7 DEF Kept
<1>9. QED
    <2>1. used[i] \in Nat /\ used[j] \in Nat
        BY <1>5 DEF TypeOK, Live, Slots
    <2>2. QED
        BY <1>6, <1>8, <2>1

\* expert_get keeps the types.
LEMMA GetTypes ==
    ASSUME TypeOK, NEW e \in Expert, NEW i \in Slots, Get(e, i)
    PROVE  /\ n' \in 0..Cap /\ eid' \in [Slots -> Nat] /\ used' \in [Slots -> Nat]
           /\ clock' \in Nat /\ recent' \in [Expert -> Nat]
           /\ i \in Live' /\ eid'[i] = e /\ used'[i] = clock + 1 /\ clock' = clock + 1
           /\ \A j \in Slots \ {i} : used'[j] = used[j]
           /\ Live \subseteq Live' /\ Live' \subseteq Live \cup {i}
<1>1. /\ used' = [used EXCEPT ![i] = clock + 1] /\ clock' = clock + 1
      /\ recent' = [recent EXCEPT ![e] = clock + 1]
      /\ Hit(e, i) \/ Fill(e, i) \/ Replace(e, i)
    BY DEF Get
<1>2. /\ used' \in [Slots -> Nat] /\ clock' \in Nat /\ recent' \in [Expert -> Nat]
      /\ used'[i] = clock + 1 /\ \A j \in Slots \ {i} : used'[j] = used[j]
    BY <1>1 DEF TypeOK
<1>3. /\ eid' \in [Slots -> Nat] /\ eid'[i] = e
    BY <1>1 DEF TypeOK, Hit, Fill, Replace
<1>4. \/ i \in Live /\ n' = n
      \/ i = n + 1 /\ n' = n + 1 /\ n < Cap
    BY <1>1 DEF Hit, Fill, Replace, LeastRecent
<1>5. /\ n' \in 0..Cap /\ i \in Live'
      /\ Live \subseteq Live' /\ Live' \subseteq Live \cup {i}
    BY <1>4 DEF TypeOK, Live
<1>6. QED
    BY <1>1, <1>2, <1>3, <1>5

\* The type invariant is inductive.
LEMMA TypeStep ==
    ASSUME TypeOK, [Next]_vars
    PROVE  TypeOK'
<1>1. ASSUME NEW e \in Expert, NEW i \in Slots, Step(e, i)
      PROVE  TypeOK'
    BY <1>1, GetTypes DEF Step, TypeOK
<1>2. ASSUME NEW e \in Expert, NEW i \in Slots, Collect(e, i)
      PROVE  TypeOK'
    BY <1>2, GetTypes DEF Collect, TypeOK
<1>3. ASSUME NEW u \in Unions, BeginBatch(u)
      PROVE  TypeOK'
    BY <1>3 DEF BeginBatch, Unions, TypeOK
<1>4. CASE Compute
    BY <1>4 DEF Compute, TypeOK
<1>5. CASE UNCHANGED vars
    BY <1>5 DEF vars, TypeOK
<1>6. QED
    BY <1>1, <1>2, <1>3, <1>4, <1>5 DEF Next

\* A batch keeps what it collected.
LEMMA KeptStep ==
    ASSUME MaxUnion <= Cap, TypeOK, Kept, [Next]_vars
    PROVE  Kept'
<1>1. ASSUME NEW e \in Expert, NEW i \in Slots, Step(e, i)
      PROVE  Kept'
    <2>1. jobs = {} /\ jobs' = {} /\ wanted' = wanted
        BY <1>1 DEF Step, Idle
    <2>2. Held = {} /\ Held' = {}
        BY <2>1 DEF Held
    <2>3. \A j \in Slots : used'[j] <= clock'
        BY <1>1, GetTypes DEF Step, Kept, TypeOK
    <2>4. QED
        BY <2>1, <2>2, <2>3 DEF Kept, BatchIntact
<1>2. ASSUME NEW e \in Expert, NEW i \in Slots, Collect(e, i)
      PROVE  Kept'
    <2>1. /\ e \in wanted /\ wanted' = wanted \ {e} /\ Get(e, i)
          /\ jobs' = jobs \cup {<<e, i>>}
        BY <1>2 DEF Collect
    <2>2. Held' = Held \cup {i}
        <3>1. \A h : h \in Held' <=> \E job \in jobs \cup {<<e, i>>} : h = job[2]
            BY <2>1 DEF Held
        <3>2. \A h : h \in Held <=> \E job \in jobs : h = job[2]
            BY DEF Held
        <3>3. <<e, i>>[2] = i
            OBVIOUS
        <3>4. \A h : h \in Held' <=> h \in Held \/ h = i
            BY <3>1, <3>2, <3>3, Zenon
        <3>5. QED
            BY <3>4
    <2>3. \A j \in Slots \ {i} : eid'[j] = eid[j]
        BY <2>1 DEF Get, Hit, Fill, Replace, TypeOK
    <2>4. eid'[i] = e /\ (i \in Held => eid'[i] = eid[i])
        <3>1. CASE Hit(e, i)
            BY <2>1, <3>1, GetTypes DEF Hit
        <3>2. CASE Fill(e, i)
            BY <2>1, <3>2, GetTypes DEF Fill, Kept, Live, TypeOK
        <3>3. CASE Replace(e, i)
            BY <2>1, <3>3, GetTypes, NotHeld
        <3>4. QED
            BY <2>1, <3>1, <3>2, <3>3 DEF Get
    <2>5. BatchIntact'
        <3>1. \A job \in jobs : eid'[job[2]] = job[1]
            <4>1. SUFFICES ASSUME NEW job \in jobs
                           PROVE  eid'[job[2]] = job[1]
                OBVIOUS
            <4>2. job[2] \in Held /\ job[2] \in Slots /\ eid[job[2]] = job[1]
                BY DEF Held, Kept, BatchIntact, TypeOK
            <4>3. QED
                BY <2>3, <2>4, <4>2
        <3>2. QED
            BY <2>1, <2>4, <3>1 DEF BatchIntact
    <2>6. Held' \subseteq Live'
        BY <2>1, <2>2, GetTypes DEF Kept
    <2>7. \A j \in Slots : used'[j] <= clock'
        BY <2>1, GetTypes DEF Kept, TypeOK
    <2>8. \A h \in Held', j \in Live' \ Held' : used'[j] < used'[h]
        <3>1. SUFFICES ASSUME NEW h \in Held', NEW j \in Live' \ Held'
                       PROVE  used'[j] < used'[h]
            OBVIOUS
        <3>2. j # i /\ j \in Live \ Held /\ j \in Slots
            <4>1. j # i /\ j \notin Held
                BY <2>2
            <4>2. Live' \subseteq Live \cup {i}
                BY <2>1, GetTypes
            <4>3. j \in Live
                BY <4>1, <4>2
            <4>4. QED
                BY <4>1, <4>3 DEF Live, Slots, TypeOK
        <3>3. used'[j] = used[j] /\ used[j] \in Nat /\ used[j] <= clock
            BY <2>1, <3>2, GetTypes DEF Kept, TypeOK
        <3>4. CASE h = i
            BY <2>1, <3>3, <3>4, GetTypes DEF TypeOK
        <3>5. CASE h \in Held /\ h # i
            <4>1. h \in Slots /\ used'[h] = used[h]
                BY <2>1, <3>5, GetTypes DEF Held, TypeOK
            <4>2. QED
                BY <3>2, <3>3, <3>5, <4>1 DEF Kept
        <3>6. QED
            BY <2>2, <3>4, <3>5
    <2>9. Cardinality(Held') + Cardinality(wanted') <= MaxUnion
        <3>1. Cardinality(wanted') = Cardinality(wanted) - 1
            BY <2>1, Finite, FS_RemoveElement
        <3>2. Cardinality(Held') <= Cardinality(Held) + 1 /\ Cardinality(Held') \in Nat
            <4>1. IsFiniteSet(Held) /\ Cardinality(Held) \in Nat
                BY Finite
            <4>2. CASE i \in Held
                <5>1. Held' = Held
                    BY <2>2, <4>2
                <5>2. QED
                    BY <4>1, <5>1
            <4>3. CASE i \notin Held
                <5>1. Cardinality(Held \cup {i}) = Cardinality(Held) + 1
                    BY <4>1, <4>3, FS_AddElement
                <5>2. QED
                    BY <2>2, <4>1, <5>1
            <4>4. QED
                BY <4>2, <4>3
        <3>3. QED
            BY <3>1, <3>2, Finite DEF Kept
    <2>10. QED
        BY <2>5, <2>6, <2>7, <2>8, <2>9 DEF Kept
<1>3. ASSUME NEW u \in Unions, BeginBatch(u)
      PROVE  Kept'
    <2>1. jobs = {} /\ jobs' = {} /\ wanted' = u /\ UNCHANGED <<n, eid, used, clock>>
        BY <1>3 DEF BeginBatch, Idle
    <2>2. Held' = {} /\ Cardinality({}) = 0
        BY <2>1, FS_EmptySet DEF Held
    <2>3. Cardinality(u) <= MaxUnion /\ Cardinality(u) \in Nat
        <3>1. IsFiniteSet(u)
            BY FS_Subset DEF Unions
        <3>2. QED
            BY <3>1, FS_CardinalityType DEF Unions
    <2>4. QED
        BY <2>1, <2>2, <2>3 DEF Kept, BatchIntact
<1>4. CASE Compute
    <2>1. jobs' = {} /\ wanted = {} /\ UNCHANGED <<n, eid, used, clock, wanted>>
        BY <1>4 DEF Compute
    <2>2. Held' = {} /\ Cardinality({}) = 0
        BY <2>1, FS_EmptySet DEF Held
    <2>3. QED
        BY <2>1, <2>2 DEF Kept, BatchIntact
<1>5. CASE UNCHANGED vars
    BY <1>5 DEF vars, Kept, BatchIntact, Held, Live
<1>6. QED
    BY <1>1, <1>2, <1>3, <1>4, <1>5 DEF Next

\* Every variable keeps its type.
THEOREM TypeCorrect == Spec => []TypeOK
<1>1. Init => TypeOK
    BY DEF Init, TypeOK, Slots
<1>2. TypeOK /\ [Next]_vars => TypeOK'
    BY TypeStep
<1>3. QED
    BY <1>1, <1>2, PTL DEF Spec

\* A batch whose experts fit the cache computes with the experts it chose
\* (gemma.c:633-636 and the GPU batch above it, olmoe.c:366-379).
THEOREM BatchKept ==
    ASSUME MaxUnion <= Cap
    PROVE  Spec => []BatchIntact
<1>1. Init => Kept
    <2> SUFFICES ASSUME Init
                 PROVE  Kept
        OBVIOUS
    <2>1. Held = {} /\ wanted = {} /\ jobs = {}
        BY DEF Init, Held
    <2>2. Cardinality(Held) + Cardinality(wanted) <= MaxUnion
        <3>1. Cardinality({}) = 0
            BY FS_EmptySet
        <3>2. QED
            BY <2>1, <3>1
    <2>3. \A i \in Slots : used[i] <= clock
        BY DEF Init
    <2>4. QED
        BY <2>1, <2>2, <2>3 DEF Kept, BatchIntact
<1>2. TypeOK /\ Kept /\ [Next]_vars => Kept'
    BY KeptStep
<1>3. Kept => BatchIntact
    BY DEF Kept
<1>4. QED
    BY <1>1, <1>2, <1>3, TypeCorrect, PTL DEF Spec

(***************************************************************************)
(* LRU by expert.                                                          *)
(***************************************************************************)
\* The inductive invariant: a slot's age is its expert's, no two experts have
\* the same, whatever is cached is younger than whatever is not, and as long as
\* there are free slots nothing has been evicted.
Ages ==
    /\ \A i \in Live : eid[i] \in Expert /\ used[i] = recent[eid[i]] /\ used[i] > 0
    /\ \A i, j \in Live : eid[i] = eid[j] => i = j
    /\ \A e, f \in Expert : recent[e] = recent[f] /\ recent[e] > 0 => e = f
    /\ \A e \in Expert : recent[e] <= clock
    /\ \A e, f \in Expert : Cached(e) /\ ~Cached(f) => recent[e] > recent[f]
    /\ n < Cap => \A e \in Expert : recent[e] > 0 => Cached(e)

\* An access keeps the ages.
LEMMA GetAges ==
    ASSUME TypeOK, Ages, NEW e \in Expert, NEW i \in Slots, Get(e, i)
    PROVE  Ages'
<1>0. /\ Live \subseteq Slots /\ n \in Nat /\ clock \in Nat
      /\ \A j \in Slots : used[j] \in Nat
      /\ \A f \in Expert : recent[f] \in Nat
    BY DEF TypeOK, Live, Slots
<1>1. /\ i \in Live' /\ eid'[i] = e /\ used'[i] = clock + 1 /\ clock' = clock + 1
      /\ Live \subseteq Live' /\ Live' \subseteq Live \cup {i}
      /\ \A j \in Slots \ {i} : used'[j] = used[j] /\ eid'[j] = eid[j]
      /\ recent'[e] = clock + 1
      /\ \A f \in Expert \ {e} : recent'[f] = recent[f]
    <2>1. \A j \in Slots \ {i} : eid'[j] = eid[j]
        BY DEF Get, Hit, Fill, Replace, TypeOK
    <2>2. recent'[e] = clock + 1 /\ \A f \in Expert \ {e} : recent'[f] = recent[f]
        BY DEF Get, TypeOK
    <2>3. QED
        BY <2>1, <2>2, GetTypes
<1>2. i \in Live => Hit(e, i) \/ Replace(e, i)
    BY <1>0 DEF Get, Fill, Live
<1>3. \A j \in Live \ {i} : eid[j] # e
    BY DEF Get, Hit, Fill, Replace, Cached, Ages
<1>4. \A j \in Live' : j = i \/ (j # i /\ j \in Live /\ j \in Slots)
    BY <1>0, <1>1
<1>5. ASSUME NEW f \in Expert, f # e
      PROVE  Cached(f)' <=> \E j \in Live \ {i} : eid[j] = f
    BY <1>0, <1>1, <1>4, <1>5 DEF Cached
<1>6. \A j \in Live' : eid'[j] \in Expert /\ used'[j] = recent'[eid'[j]] /\ used'[j] > 0
    <2> SUFFICES ASSUME NEW j \in Live'
                 PROVE  eid'[j] \in Expert /\ used'[j] = recent'[eid'[j]] /\ used'[j] > 0
        OBVIOUS
    <2>1. CASE j = i
        BY <1>0, <1>1, <2>1
    <2>2. CASE j # i
        <3>1. eid'[j] = eid[j] /\ used'[j] = used[j] /\ eid[j] # e /\ j \in Live
            BY <1>1, <1>3, <1>4, <2>2
        <3>2. eid[j] \in Expert /\ used[j] = recent[eid[j]] /\ used[j] > 0
            BY <3>1 DEF Ages
        <3>3. recent'[eid[j]] = recent[eid[j]]
            BY <1>1, <3>1, <3>2
        <3>4. QED
            BY <3>1, <3>2, <3>3
    <2>3. QED
        BY <2>1, <2>2
<1>7. \A j, k \in Live' : eid'[j] = eid'[k] => j = k
    BY <1>1, <1>3, <1>4 DEF Ages
<1>8. /\ \A f, g \in Expert : recent'[f] = recent'[g] /\ recent'[f] > 0 => f = g
      /\ \A f \in Expert : recent'[f] <= clock'
    BY <1>0, <1>1 DEF Ages
<1>9. \A f, g \in Expert : Cached(f)' /\ ~Cached(g)' => recent'[f] > recent'[g]
    <2> SUFFICES ASSUME NEW f \in Expert, NEW g \in Expert, Cached(f)', ~Cached(g)'
                 PROVE  recent'[f] > recent'[g]
        OBVIOUS
    <2>1. g # e
        BY <1>1 DEF Cached
    <2>2. recent'[g] = recent[g] /\ recent[g] <= clock
        BY <1>1, <2>1 DEF Ages
    <2>3. CASE f = e
        BY <1>0, <1>1, <2>2, <2>3
    <2>4. CASE f # e
        <3>1. PICK j \in Live \ {i} : eid[j] = f
            BY <1>5, <2>4
        <3>2. Cached(f) /\ used[j] = recent[f] /\ recent'[f] = recent[f]
            BY <1>1, <2>4, <3>1 DEF Cached, Ages
        <3>3. CASE ~Cached(g)
            BY <2>2, <3>2, <3>3 DEF Ages
        <3>4. CASE Cached(g)
            <4>1. PICK k \in Live : eid[k] = g
                BY <3>4 DEF Cached
            <4>2. k = i
                BY <1>5, <2>1, <4>1
            <4>3. Replace(e, i)
                BY <1>2, <2>1, <4>1, <4>2 DEF Hit
            <4>4. used[i] <= used[j] /\ used[i] = recent[g]
                BY <1>0, <3>1, <4>1, <4>2, <4>3 DEF Replace, LeastRecent, Ages
            <4>5. recent[g] # recent[f]
                BY <3>1, <3>2, <4>1, <4>2, <4>4 DEF Ages
            <4>6. QED
                BY <1>0, <2>2, <3>1, <3>2, <4>4, <4>5
        <3>5. QED
            BY <3>3, <3>4
    <2>5. QED
        BY <2>3, <2>4
<1>10. n' < Cap => \A f \in Expert : recent'[f] > 0 => Cached(f)'
    <2> SUFFICES ASSUME n' < Cap, NEW f \in Expert, recent'[f] > 0
                 PROVE  Cached(f)'
        OBVIOUS
    <2>1. n < Cap /\ ~Replace(e, i)
        BY <1>0 DEF Get, Hit, Fill, Replace
    <2>2. CASE f = e
        BY <1>1, <2>2 DEF Cached
    <2>3. CASE f # e
        <3>1. PICK j \in Live : eid[j] = f
            BY <1>1, <2>1, <2>3 DEF Ages, Cached
        <3>2. j # i
            BY <1>2, <2>1, <2>3, <3>1 DEF Hit
        <3>3. QED
            BY <1>5, <2>3, <3>1, <3>2
    <2>4. QED
        BY <2>2, <2>3
<1>11. QED
    BY <1>6, <1>7, <1>8, <1>9, <1>10 DEF Ages

\* Nothing but an access touches the cache.
LEMMA AgesStep ==
    ASSUME TypeOK, Ages, [Next]_vars
    PROVE  Ages'
<1>1. ASSUME NEW e \in Expert, NEW i \in Slots, Step(e, i) \/ Collect(e, i)
      PROVE  Ages'
    BY <1>1, GetAges DEF Step, Collect
<1>2. CASE UNCHANGED <<n, eid, used, clock, recent>>
    BY <1>2 DEF Ages, Cached, Live
<1>3. QED
    BY <1>1, <1>2 DEF Next, BeginBatch, Compute, vars

\* If no more experts were ever accessed than there are slots, none was evicted:
\* a full cache holds as many experts as it has slots.
LEMMA NoneEvicted ==
    ASSUME TypeOK, Ages,
           Cardinality({e \in Expert : recent[e] > 0}) <= Cap,
           NEW f \in Expert, recent[f] > 0
    PROVE  Cached(f)
<1> DEFINE Accessed == {e \in Expert : recent[e] > 0}
           slot == [i \in Live |-> eid[i]]
<1>1. SUFFICES ASSUME ~Cached(f)
               PROVE  FALSE
    OBVIOUS
<1>2. n = Cap /\ n \in Nat
    BY <1>1 DEF Ages, TypeOK
<1>3. IsFiniteSet(Live) /\ Cardinality(Live) = n
    BY Finite
<1>4. IsFiniteSet(Accessed) /\ IsFiniteSet(Accessed \ {f})
      /\ Cardinality(Accessed \ {f}) = Cardinality(Accessed) - 1
      /\ Cardinality(Accessed) \in Nat
    <2>1. IsFiniteSet(Accessed)
        BY FS_Subset
    <2>2. f \in Accessed
        OBVIOUS
    <2>3. QED
        BY <2>1, <2>2, FS_RemoveElement, FS_CardinalityType
<1>5. slot \in [Live -> Accessed \ {f}]
    <2>1. \A i \in Live : eid[i] \in Accessed \ {f}
        BY <1>1 DEF Ages, Cached
    <2>2. QED
        BY <2>1
<1>6. Cardinality(Accessed \ {f}) < Cardinality(Live)
    BY <1>2, <1>3, <1>4
<1>7. \E i, j \in Live : i # j /\ slot[i] = slot[j]
    <2> HIDE DEF slot, Accessed
    <2>1. QED
        BY <1>3, <1>4, <1>5, <1>6, FS_PigeonHole
<1>8. QED
    BY <1>7 DEF Ages

\* The cache holds the experts accessed last, for any number of slots and any
\* series of accesses.
THEOREM RecentKept == Spec => []HoldsTheRecent
<1>1. Init => Ages
    BY DEF Init, Ages, Live, Cached
<1>2. TypeOK /\ Ages /\ [Next]_vars => Ages'
    BY AgesStep
<1>3. TypeOK /\ Ages => HoldsTheRecent
    BY NoneEvicted DEF Ages, HoldsTheRecent
<1>4. QED
    BY <1>1, <1>2, <1>3, TypeCorrect, PTL DEF Spec

=============================================================================
