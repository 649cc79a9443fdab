----------------------- MODULE EngineLifecycle_proofs ------------------------
(***************************************************************************)
(* Proofs about EngineLifecycle, for any number of requests, containers    *)
(* and processes.                                                          *)
(***************************************************************************)
EXTENDS EngineLifecycle, SequenceTheorems, TLAPS

USE LifecycleAssumption DEF Held, Op

(***************************************************************************)
(* Type correctness.                                                       *)
(***************************************************************************)
\* Taking a waiter out of the queue leaves a queue.
LEMMA RemoveAtType ==
    ASSUME NEW S, NEW s \in Seq(S), NEW i \in DOMAIN s
    PROVE  RemoveAt(s, i) \in Seq(S)
<1>1. /\ i \in 1..Len(s) /\ Len(s) \in Nat
      /\ \A j \in 1..Len(s) : s[j] \in S
    OBVIOUS
<1>2. SubSeq(s, 1, i - 1) \in Seq(S)
    <2>1. \A j \in 1..(i - 1) : s[j] \in S
        BY <1>1
    <2>2. QED
        BY <1>1, <2>1, SubSeqProperties
<1>3. SubSeq(s, i + 1, Len(s)) \in Seq(S)
    <2>1. \A j \in (i + 1)..Len(s) : s[j] \in S
        BY <1>1
    <2>2. QED
        BY <1>1, <2>1, SubSeqProperties
<1>4. QED
    BY <1>2, <1>3, ConcatProperties DEF RemoveAt

\* The type invariant needs one fact of Ownership: a spawning task has a child.
LEMMA TypeStep ==
    ASSUME TypeOK, Ownership, [Next]_vars
    PROVE  TypeOK'
<1> USE DEF TypeOK, Release, Killed, lockVars, engineVars, sharedVars, osVars
<1>1. ASSUME NEW t \in Task, NEW o \in Op, Arrive(t, o)
      PROVE  TypeOK'
    BY <1>1 DEF Arrive
<1>2. ASSUME NEW t \in Task, Acquire(t)
      PROVE  waiters' \in Seq(Task)
    BY <1>2 DEF Acquire
<1>3. ASSUME NEW t \in Task, ChatWithProc(t)
      PROVE  TypeOK'
    BY <1>2, <1>3 DEF ChatWithProc
<1>4. ASSUME NEW t \in Task, ChatBoots(t)
      PROVE  TypeOK'
    BY <1>2, <1>4 DEF ChatBoots, Boot
<1>5. ASSUME NEW t \in Task, ChatCannotBoot(t)
      PROVE  TypeOK'
    BY <1>2, <1>5 DEF ChatCannotBoot
<1>6. ASSUME NEW t \in Task, GenerationEnds(t)
      PROVE  TypeOK'
    BY <1>6 DEF GenerationEnds
<1>7. ASSUME NEW t \in Task, MarkDown(t)
      PROVE  TypeOK'
    BY <1>7 DEF MarkDown
<1>8. ASSUME NEW t \in Task, StartEject(t)
      PROVE  TypeOK'
    BY <1>2, <1>8 DEF StartEject
<1>9. ASSUME NEW t \in Task, FinishEject(t)
      PROVE  TypeOK'
    BY <1>9 DEF FinishEject, Reaped
<1>10. ASSUME NEW t \in Task, LoadBoots(t)
      PROVE  TypeOK'
    <2>1. op[t].model \in Container
        BY <1>10 DEF Op, LoadBoots
    <2>2. PICK c \in Child :
            /\ child' = [child EXCEPT ![c] = "running"]
            /\ image' = [image EXCEPT ![c] = op[t].model]
            /\ booting' = c
        BY <1>10, Zenon DEF LoadBoots, Boot
    <2>3. /\ selected' = op[t].model /\ saved' = selected
          /\ pc' = [pc EXCEPT ![t] = "spawning"]
          /\ reaping' = None /\ up' = FALSE /\ model' = None
          /\ UNCHANGED <<op, ctx, lockVars, proc, tok, abandoned>>
        BY <1>10, Zenon DEF LoadBoots, Reaped
    <2>4. /\ child' \in [Child -> {"gone", "running", "dying"}]
          /\ image' \in [Child -> Container]
        BY <2>1, <2>2
    <2>5. pc' \in [Task -> {"idle", "queued"} \cup Held]
        BY <2>3 DEF Held
    <2>6. QED
        BY <2>1, <2>2, <2>3, <2>4, <2>5
<1>11. ASSUME NEW t \in Task, LoadCannotBoot(t)
      PROVE  TypeOK'
    BY <1>11 DEF LoadCannotBoot, Reaped
<1>12. ASSUME NEW t \in Task, ChatReady(t)
      PROVE  TypeOK'
    BY <1>12 DEF ChatReady, Ready, Ownership
<1>13. ASSUME NEW t \in Task, LoadReady(t)
      PROVE  TypeOK'
    BY <1>13 DEF LoadReady, Ready, Ownership
<1>14. ASSUME NEW t \in Task, SpawnFails(t)
      PROVE  TypeOK'
    BY <1>14 DEF SpawnFails
<1>15. ASSUME NEW t \in Task, DroppedInQueue(t)
      PROVE  TypeOK'
    BY <1>15, RemoveAtType DEF DroppedInQueue
<1>16. ASSUME NEW t \in Task, DroppedInEject(t), abandoned' \in BOOLEAN
      PROVE  TypeOK'
    BY <1>16 DEF DroppedInEject
<1>17. ASSUME NEW t \in Task, DroppedInSpawn(t), abandoned' \in BOOLEAN
      PROVE  TypeOK'
    BY <1>17 DEF DroppedInSpawn
<1>18. ASSUME NEW t \in Task, DroppedInGeneration(t)
      PROVE  TypeOK'
    BY <1>18 DEF DroppedInGeneration
<1>19. ASSUME NEW c \in Child, Exits(c) \/ TornDown(c)
      PROVE  TypeOK'
    BY <1>19 DEF Exits, TornDown
<1>20. CASE UNCHANGED vars
    BY <1>20 DEF vars
<1>21. QED
    BY <1>1, <1>3, <1>4, <1>5, <1>6, <1>7, <1>8, <1>9, <1>10, <1>11, <1>12,
       <1>13, <1>14, <1>15, <1>16, <1>17, <1>18, <1>19, <1>20
    DEF Next, Proceed, ChatTimeout, Disconnect

\* Who holds the mutex and what the process fields may then be.
LEMMA OwnershipStep ==
    ASSUME TypeOK, Ownership, [Next]_vars
    PROVE  Ownership'
<1> USE DEF TypeOK, Ownership, Owned, Release, Killed, lockVars, engineVars, sharedVars, osVars
<1>1. ASSUME NEW t \in Task, NEW o \in Op, Arrive(t, o)
      PROVE  Ownership'
    BY <1>1 DEF Arrive
<1>3. ASSUME NEW t \in Task, ChatWithProc(t)
      PROVE  Ownership'
    BY <1>3 DEF ChatWithProc, Acquire
<1>4. ASSUME NEW t \in Task, ChatBoots(t)
      PROVE  Ownership'
    BY <1>4 DEF ChatBoots, Acquire, Boot
<1>5. ASSUME NEW t \in Task, ChatCannotBoot(t)
      PROVE  Ownership'
    BY <1>5 DEF ChatCannotBoot, Acquire
<1>6. ASSUME NEW t \in Task, GenerationEnds(t)
      PROVE  Ownership'
    BY <1>6 DEF GenerationEnds
<1>7. ASSUME NEW t \in Task, MarkDown(t)
      PROVE  Ownership'
    BY <1>7 DEF MarkDown
<1>8. ASSUME NEW t \in Task, StartEject(t)
      PROVE  Ownership'
    BY <1>8 DEF StartEject, Acquire
<1>9. ASSUME NEW t \in Task, FinishEject(t)
      PROVE  Ownership'
    BY <1>9 DEF FinishEject, Reaped
<1>10. ASSUME NEW t \in Task, LoadBoots(t)
      PROVE  Ownership'
    BY <1>10 DEF LoadBoots, Reaped, Boot
<1>11. ASSUME NEW t \in Task, LoadCannotBoot(t)
      PROVE  Ownership'
    BY <1>11 DEF LoadCannotBoot, Reaped
<1>12. ASSUME NEW t \in Task, ChatReady(t)
      PROVE  Ownership'
    BY <1>12 DEF ChatReady, Ready
<1>13. ASSUME NEW t \in Task, LoadReady(t)
      PROVE  Ownership'
    BY <1>13 DEF LoadReady, Ready
<1>14. ASSUME NEW t \in Task, SpawnFails(t)
      PROVE  Ownership'
    BY <1>14 DEF SpawnFails
<1>15. ASSUME NEW t \in Task, DroppedInQueue(t)
      PROVE  Ownership'
    BY <1>15 DEF DroppedInQueue
<1>16. ASSUME NEW t \in Task, DroppedInEject(t)
      PROVE  Ownership'
    BY <1>16 DEF DroppedInEject
<1>17. ASSUME NEW t \in Task, DroppedInSpawn(t)
      PROVE  Ownership'
    BY <1>17 DEF DroppedInSpawn
<1>18. ASSUME NEW t \in Task, DroppedInGeneration(t)
      PROVE  Ownership'
    BY <1>18 DEF DroppedInGeneration
<1>19. ASSUME NEW c \in Child, Exits(c) \/ TornDown(c)
      PROVE  Ownership'
    BY <1>19 DEF Exits, TornDown
<1>20. CASE UNCHANGED vars
    BY <1>20 DEF vars
<1>21. QED
    BY <1>1, <1>3, <1>4, <1>5, <1>6, <1>7, <1>8, <1>9, <1>10, <1>11, <1>12,
       <1>13, <1>14, <1>15, <1>16, <1>17, <1>18, <1>19, <1>20
    DEF Next, Proceed, ChatTimeout, Disconnect

\* Type correctness and Ownership hold in every reachable state.
THEOREM TypeCorrect == Spec => [](TypeOK /\ Ownership)
<1>1. Init => TypeOK /\ Ownership
    <2> SUFFICES ASSUME Init
                 PROVE  TypeOK /\ Ownership
        OBVIOUS
    <2>1. [kind |-> "chat", model |-> Default] \in Op
        OBVIOUS
    <2>2. TypeOK
        <3> HIDE DEF Op
        <3>1. op \in [Task -> Op]
            BY <2>1 DEF Init
        <3>2. /\ pc \in [Task -> {"idle", "queued"} \cup Held]
              /\ ctx \in [Task -> Container]
              /\ child \in [Child -> {"gone", "running", "dying"}]
              /\ image \in [Child -> Container]
            BY DEF Init
        <3>3. waiters \in Seq(Task)
            BY EmptySeq DEF Init
        <3>4. QED
            BY <3>1, <3>2, <3>3 DEF Init, TypeOK
    <2>3. Ownership
        BY DEF Init, Ownership, Owned
    <2>4. QED
        BY <2>2, <2>3
<1>2. TypeOK /\ Ownership /\ [Next]_vars => (TypeOK /\ Ownership)'
    BY TypeStep, OwnershipStep
<1>3. QED
    BY <1>1, <1>2, PTL DEF Spec

\* No engine process outlives its owner, whatever the clients do.
THEOREM NoOrphans == Spec => []NoOrphan
<1>1. TypeOK /\ Ownership => NoOrphan
    BY DEF TypeOK, Ownership, NoOrphan
<1>2. QED
    BY <1>1, TypeCorrect, PTL

(***************************************************************************)
(* Coherence: what an abandoned load or eject leaves open, and no more.    *)
(***************************************************************************)
\* Selection, tokenizer, status and process move together.
LEMMA CoherenceStep ==
    ASSUME TypeOK, Ownership, Coherence, [Next]_vars
    PROVE  Coherence'
<1> USE DEF TypeOK, Ownership, Owned, Coherence, Switching, Release, Killed,
        lockVars, engineVars, sharedVars, osVars
<1>1. ASSUME NEW t \in Task, NEW o \in Op, Arrive(t, o)
      PROVE  Coherence'
    BY <1>1 DEF Arrive
<1>2. ASSUME NEW t \in Task, ChatWithProc(t)
      PROVE  Coherence'
    BY <1>2 DEF ChatWithProc, Acquire
<1>3. ASSUME NEW t \in Task, ChatBoots(t)
      PROVE  Coherence'
    BY <1>3 DEF ChatBoots, Acquire, Boot
<1>4. ASSUME NEW t \in Task, ChatCannotBoot(t)
      PROVE  Coherence'
    BY <1>4 DEF ChatCannotBoot, Acquire
<1>5. ASSUME NEW t \in Task, GenerationEnds(t)
      PROVE  Coherence'
    BY <1>5 DEF GenerationEnds
<1>6. ASSUME NEW t \in Task, MarkDown(t)
      PROVE  Coherence'
    BY <1>6 DEF MarkDown
<1>7. ASSUME NEW t \in Task, StartEject(t)
      PROVE  Coherence'
    BY <1>7 DEF StartEject, Acquire
<1>8. ASSUME NEW t \in Task, FinishEject(t)
      PROVE  Coherence'
    BY <1>8 DEF FinishEject, Reaped
<1>9. ASSUME NEW t \in Task, LoadBoots(t)
      PROVE  Coherence'
    BY <1>9 DEF LoadBoots, Reaped, Boot
<1>10. ASSUME NEW t \in Task, LoadCannotBoot(t)
      PROVE  Coherence'
    BY <1>10 DEF LoadCannotBoot, Reaped
<1>11. ASSUME NEW t \in Task, ChatReady(t)
      PROVE  Coherence'
    BY <1>11 DEF ChatReady, Ready
<1>12. ASSUME NEW t \in Task, LoadReady(t)
      PROVE  Coherence'
    BY <1>12 DEF LoadReady, Ready
<1>13. ASSUME NEW t \in Task, SpawnFails(t)
      PROVE  Coherence'
    BY <1>13 DEF SpawnFails
<1>14. ASSUME NEW t \in Task, ChatTimeout(t)
      PROVE  Coherence'
    BY <1>14 DEF ChatTimeout, DroppedInQueue, DroppedInSpawn, DroppedInGeneration
<1>15. ASSUME NEW t \in Task, Disconnect(t)
      PROVE  Coherence'
    BY <1>15 DEF Disconnect, DroppedInQueue, DroppedInEject, DroppedInSpawn
<1>16. ASSUME NEW c \in Child, Exits(c) \/ TornDown(c)
      PROVE  Coherence'
    BY <1>16 DEF Exits, TornDown
<1>17. CASE UNCHANGED vars
    BY <1>17 DEF vars
<1>18. QED
    BY <1>1, <1>2, <1>3, <1>4, <1>5, <1>6, <1>7, <1>8, <1>9, <1>10, <1>11, <1>12, <1>13, <1>14, <1>15, <1>16, <1>17
    DEF Next, Proceed

\* The inductive invariant holds in every reachable state.
THEOREM Coherent == Spec => []IInv
<1>1. Init => Coherence
    BY DEF Init, Coherence, Switching
<1>2. TypeOK /\ Ownership /\ Coherence /\ [Next]_vars => Coherence'
    BY CoherenceStep
<1>3. QED
    BY <1>1, <1>2, TypeCorrect, PTL DEF Spec, IInv

\* No chat is encoded or decoded with another container's tokenizer, unless a
\* load has been abandoned half way and none has succeeded since.
THEOREM TokenizerCoherent == Spec => []TokMatchesEngine
<1>1. TypeOK /\ IInv => TokMatchesEngine
    <2> SUFFICES ASSUME TypeOK, IInv, ~abandoned, NEW t \in Task, pc[t] = "generating"
                 PROVE  proc # None /\ ctx[t] = image[proc]
        BY DEF TokMatchesEngine
    <2>1. holder = t /\ proc # None /\ ctx[t] = tok /\ image[proc] = selected
        BY DEF TypeOK, IInv, Ownership, Coherence
    <2>2. \A u \in Task : ~Switching(u)
        BY <2>1 DEF IInv, Ownership, Switching
    <2>3. QED
        BY <2>1, <2>2 DEF IInv, Coherence
<1>2. QED
    BY <1>1, Coherent, TypeCorrect, PTL

\* Between operations the process is on the selection, and the tokenizer is its
\* own, whatever loads have failed before.
THEOREM SelectionCoherent == Spec => []OneSelection
<1>1. TypeOK /\ IInv => OneSelection
    BY DEF TypeOK, IInv, Ownership, Coherence, Switching, OneSelection
<1>2. QED
    BY <1>1, Coherent, TypeCorrect, PTL

\* Between operations the status tells of the process there is.
THEOREM StatusCoherent == Spec => []StatusAgrees
<1>1. TypeOK /\ IInv => StatusAgrees
    BY DEF TypeOK, IInv, Ownership, Coherence, StatusAgrees
<1>2. QED
    BY <1>1, Coherent, TypeCorrect, PTL

=============================================================================
