--------------------------- MODULE EngineLifecycle ---------------------------
(***************************************************************************)
(* Who holds the engine, and which engine it is: the HTTP handlers of      *)
(* daemon/src/server.rs (chat, /engine/load, /engine/eject) around the one *)
(* engine mutex, and the process management of daemon/src/engine.rs (load, *)
(* spawn, eject, mark_down) under it. What a generation computes is in     *)
(* WarmAppend; here it only occupies the mutex and ends in some way.       *)
(*                                                                         *)
(* A handler is a task. One action runs it from one await to the next: no  *)
(* other code observes the states in between, since all but the status     *)
(* fields is behind the mutex. A handler whose future is dropped stops at  *)
(* its await: chat handlers by REQUEST_TIMEOUT, the others only when the   *)
(* client goes away (external: axum drops a handler's future then).        *)
(***************************************************************************)
EXTENDS Naturals, Sequences, SequencesExt

CONSTANTS
    Task,           \* HTTP requests in flight at once
    Container,      \* model containers under the model root
    Default,        \* the container and tokenizer of the configuration
    Child,          \* names for the engine processes that exist at once
    None

ASSUME LifecycleAssumption ==
    /\ Default \in Container
    /\ None \notin Container \cup Child \cup Task

VARIABLES
    pc,             \* where each task waits
    op,             \* its operation: [kind, model]
    ctx,            \* the ChatCtx (tokenizer and template) a chat captured
    waiters,        \* the mutex's queue (tokio's Mutex is first in, first out)
    holder,         \* the task that holds the mutex
    selected,       \* Engine.model_dir and Engine.engine_bin
    saved,          \* load()'s `prev`
    proc,           \* Engine.proc: the process requests are sent to
    booting,        \* spawn()'s child, until its ready line
    reaping,        \* eject()'s child, until wait() returns
    up,             \* SharedStatus.up
    model,          \* SharedStatus.model
    tok,            \* AppState.tok: whose tokenizer and template are installed
    child,          \* the state of each engine process
    image,          \* the container each process was started on
    abandoned       \* for the properties: has a client left a load or an eject
                    \* half way, and no load succeeded since?

lockVars   == <<waiters, holder>>
engineVars == <<selected, saved, proc, booting, reaping>>
sharedVars == <<up, model, tok>>
osVars     == <<child, image>>
vars == <<pc, op, ctx, lockVars, engineVars, sharedVars, osVars, abandoned>>

Op == [kind : {"chat", "eject"}, model : {Default}]
          \cup [kind : {"load"}, model : Container]

Held == {"ejecting", "spawning", "generating"}

TypeOK ==
    /\ pc \in [Task -> {"idle", "queued"} \cup Held]
    /\ op \in [Task -> Op]
    /\ ctx \in [Task -> Container]
    /\ waiters \in Seq(Task)
    /\ holder \in Task \cup {None}
    /\ selected \in Container /\ saved \in Container
    /\ proc \in Child \cup {None}
    /\ booting \in Child \cup {None}
    /\ reaping \in Child \cup {None}
    /\ up \in BOOLEAN
    /\ model \in Container \cup {None}
    /\ tok \in Container
    /\ child \in [Child -> {"gone", "running", "dying"}]
    /\ image \in [Child -> Container]
    /\ abandoned \in BOOLEAN

Init ==
    /\ pc = [t \in Task |-> "idle"]
    /\ op = [t \in Task |-> [kind |-> "chat", model |-> Default]]
    /\ ctx = [t \in Task |-> Default]
    /\ waiters = <<>> /\ holder = None
    /\ selected = Default /\ saved = Default
    /\ proc = None /\ booting = None /\ reaping = None
    /\ up = FALSE /\ model = None
    /\ tok = Default
    /\ child = [c \in Child |-> "gone"]
    /\ image = [c \in Child |-> Default]
    /\ abandoned = FALSE

-----------------------------------------------------------------------------
(***************************************************************************)
(* Helpers.                                                                *)
(***************************************************************************)
\* SIGKILL, sent by start_kill() or by dropping a kill_on_drop child: the
\* process dies, but its memory is released only when it is gone.
Killed(c) == [child EXCEPT ![c] = IF @ = "running" THEN "dying" ELSE @]

\* Mutant: the task stays where it was.
ReleaseOnly(t) ==
    /\ pc' = [pc EXCEPT ![t] = "answered"]
    /\ holder' = None

Release(t) ==
    /\ pc' = [pc EXCEPT ![t] = "idle"]
    /\ holder' = None

\* cmd.spawn(): a process on container m, as yet without its ready line.
Boot(m) ==
    \E c \in Child :
        /\ child[c] = "gone"
        /\ child' = [child EXCEPT ![c] = "running"]
        /\ image' = [image EXCEPT ![c] = m]
        /\ booting' = c

(***************************************************************************)
(* Requests arrive and queue for the mutex. (A load that fails one of its  *)
(* checks before the lock answers 400, 404, 422 or 500 and changes nothing.)*)
(***************************************************************************)
Arrive(t, o) ==
    /\ pc[t] = "idle"
    /\ pc' = [pc EXCEPT ![t] = "queued"]
    /\ op' = [op EXCEPT ![t] = o]
    /\ waiters' = Append(waiters, t)
    /\ UNCHANGED <<ctx, holder, engineVars, sharedVars, osVars, abandoned>>

\* Mutant: the mutex does not exclude.
AcquireBarging(t) ==
    /\ pc[t] = "queued"
    /\ waiters # <<>> /\ Head(waiters) = t
    /\ waiters' = Tail(waiters)

\* The mutex is handed to the first waiter.
Acquire(t) ==
    /\ pc[t] = "queued"
    /\ holder = None
    /\ waiters # <<>> /\ Head(waiters) = t
    /\ waiters' = Tail(waiters)

(***************************************************************************)
(* Chat: capture the tokenizer and template, spawn if there is no process, *)
(* generate.                                                               *)
(***************************************************************************)
ChatWithProc(t) ==
    /\ Acquire(t) /\ op[t].kind = "chat"
    /\ proc # None
    /\ holder' = t
    /\ ctx' = [ctx EXCEPT ![t] = tok]
    /\ pc' = [pc EXCEPT ![t] = "generating"]
    /\ UNCHANGED <<op, engineVars, sharedVars, osVars, abandoned>>

ChatBoots(t) ==
    /\ Acquire(t) /\ op[t].kind = "chat"
    /\ proc = None
    /\ holder' = t
    /\ ctx' = [ctx EXCEPT ![t] = tok]
    /\ pc' = [pc EXCEPT ![t] = "spawning"]
    /\ Boot(selected)
    /\ UNCHANGED <<op, selected, saved, proc, reaping, sharedVars, abandoned>>

\* cmd.spawn() itself fails (no such binary): the chat answers 500.
ChatCannotBoot(t) ==
    /\ Acquire(t) /\ op[t].kind = "chat"
    /\ proc = None
    /\ ctx' = [ctx EXCEPT ![t] = tok]
    /\ pc' = [pc EXCEPT ![t] = "idle"]
    /\ UNCHANGED <<op, holder, engineVars, sharedVars, osVars, abandoned>>

\* The generation ends with the process intact: an answer, a request error,
\* or a prompt that does not encode.
GenerationEnds(t) ==
    /\ pc[t] = "generating"
    /\ Release(t)
    /\ UNCHANGED <<op, ctx, waiters, engineVars, sharedVars, osVars, abandoned>>

\* Mutant: the status is not told.
MarkDownSilently(t) ==
    /\ pc[t] = "generating"
    /\ proc' = None
    /\ child' = Killed(proc)
    /\ Release(t)
    /\ UNCHANGED <<op, ctx, waiters, selected, saved, booting, reaping,
                   sharedVars, image, abandoned>>

\* End of file, a write error or a line that does not parse: mark_down().
\* The status keeps the model's name.
MarkDown(t) ==
    /\ pc[t] = "generating"
    /\ proc' = None
    /\ child' = Killed(proc)
    /\ up' = FALSE
    /\ Release(t)
    /\ UNCHANGED <<op, ctx, waiters, selected, saved, booting, reaping,
                   model, tok, image, abandoned>>

(***************************************************************************)
(* Eject and load: take the process, kill it, wait for it without a limit. *)
(***************************************************************************)
StartEject(t) ==
    /\ Acquire(t) /\ op[t].kind \in {"eject", "load"}
    /\ holder' = t
    /\ pc' = [pc EXCEPT ![t] = "ejecting"]
    /\ reaping' = proc
    /\ proc' = None
    /\ child' = IF proc = None THEN child ELSE Killed(proc)
    /\ UNCHANGED <<op, ctx, selected, saved, booting, sharedVars, image,
                   abandoned>>

\* Mutant: the status stays up after an eject.
ReapedStillUp(t) ==
    /\ pc[t] = "ejecting"
    /\ reaping # None => child[reaping] = "gone"
    /\ reaping' = None
    /\ model' = None
    /\ UNCHANGED up

\* wait() has returned, or there was nothing to wait for.
Reaped(t) ==
    /\ pc[t] = "ejecting"
    /\ reaping # None => child[reaping] = "gone"
    /\ reaping' = None
    /\ up' = FALSE
    /\ model' = None

FinishEject(t) ==
    /\ Reaped(t) /\ op[t].kind = "eject"
    /\ Release(t)
    /\ UNCHANGED <<op, ctx, waiters, selected, saved, proc, booting, tok, osVars,
                   abandoned>>

LoadBoots(t) ==
    /\ Reaped(t) /\ op[t].kind = "load"
    /\ saved' = selected
    /\ selected' = op[t].model
    /\ Boot(op[t].model)
    /\ pc' = [pc EXCEPT ![t] = "spawning"]
    /\ UNCHANGED <<op, ctx, lockVars, proc, tok, abandoned>>

\* The same failure under load(), which puts the selection back.
LoadCannotBoot(t) ==
    /\ Reaped(t) /\ op[t].kind = "load"
    /\ saved' = selected
    /\ Release(t)
    /\ UNCHANGED <<op, ctx, waiters, selected, proc, booting, tok, osVars,
                   abandoned>>

(***************************************************************************)
(* spawn()'s wait for the ready line, at most 300 seconds.                 *)
(***************************************************************************)
Ready(t) ==
    /\ pc[t] = "spawning"
    /\ child[booting] = "running"
    /\ proc' = booting /\ booting' = None
    /\ up' = TRUE
    /\ model' = image[booting]

ChatReady(t) ==
    /\ Ready(t) /\ op[t].kind = "chat"
    /\ pc' = [pc EXCEPT ![t] = "generating"]
    /\ UNCHANGED <<op, ctx, lockVars, selected, saved, reaping, tok, osVars,
                   abandoned>>

\* Mutant: the tokenizer of the previous container stays.
LoadKeepsTok(t) ==
    /\ Ready(t) /\ op[t].kind = "load"
    /\ abandoned' = FALSE
    /\ Release(t)
    /\ UNCHANGED <<op, ctx, waiters, selected, saved, reaping, tok, osVars>>

\* load succeeds: the tokenizer is swapped before the mutex is released.
LoadReady(t) ==
    /\ Ready(t) /\ op[t].kind = "load"
    /\ tok' = op[t].model /\ abandoned' = FALSE
    /\ Release(t)
    /\ UNCHANGED <<op, ctx, waiters, selected, saved, reaping, osVars>>

\* Mutant: a failed load leaves its selection.
SpawnFailsForGood(t) ==
    /\ pc[t] = "spawning"
    /\ child' = Killed(booting)
    /\ booting' = None
    /\ Release(t)
    /\ UNCHANGED <<op, ctx, waiters, selected, saved, proc, reaping,
                   sharedVars, image, abandoned>>

\* No ready line (the process exited, hangs, or printed something else): the
\* child is dropped, not waited for, and load() puts the selection back.
SpawnFails(t) ==
    /\ pc[t] = "spawning"
    /\ child' = Killed(booting)
    /\ booting' = None
    /\ selected' = IF op[t].kind = "load" THEN saved ELSE selected
    /\ Release(t)
    /\ UNCHANGED <<op, ctx, waiters, saved, proc, reaping, sharedVars, image,
                   abandoned>>

(***************************************************************************)
(* Dropped futures: nothing after the await runs, what it owned is dropped. *)
(***************************************************************************)
DroppedInQueue(t) ==
    /\ pc[t] = "queued"
    /\ \E i \in DOMAIN waiters :
            waiters[i] = t /\ waiters' = RemoveAt(waiters, i)
    /\ pc' = [pc EXCEPT ![t] = "idle"]
    /\ UNCHANGED <<op, ctx, holder, engineVars, sharedVars, osVars, abandoned>>

DroppedInEject(t) ==
    /\ pc[t] = "ejecting"
    /\ reaping # None
    /\ reaping' = None
    /\ Release(t)
    /\ UNCHANGED <<op, ctx, waiters, selected, saved, proc, booting,
                   sharedVars, osVars>>

\* Mutant: without kill_on_drop the child runs on.
DroppedInSpawnLeaks(t) ==
    /\ pc[t] = "spawning"
    /\ booting' = None
    /\ Release(t)
    /\ UNCHANGED <<op, ctx, waiters, selected, saved, proc, reaping,
                   sharedVars, osVars>>

DroppedInSpawn(t) ==
    /\ pc[t] = "spawning"
    /\ child' = Killed(booting)
    /\ booting' = None
    /\ Release(t)
    /\ UNCHANGED <<op, ctx, waiters, selected, saved, proc, reaping,
                   sharedVars, image>>

DroppedInGeneration(t) ==
    /\ pc[t] = "generating"
    /\ Release(t)
    /\ UNCHANGED <<op, ctx, waiters, engineVars, sharedVars, osVars, abandoned>>

\* Mutant: the timeout ends with the spawn.
ChatTimeoutUntilReady(t) ==
    /\ op[t].kind = "chat"
    /\ \/ DroppedInQueue(t)
       \/ DroppedInSpawn(t) /\ UNCHANGED abandoned

\* REQUEST_TIMEOUT covers a chat from before the mutex to the last token.
ChatTimeout(t) ==
    /\ op[t].kind = "chat"
    /\ \/ DroppedInQueue(t) \/ DroppedInGeneration(t)
       \/ DroppedInSpawn(t) /\ UNCHANGED abandoned

Disconnect(t) ==
    /\ op[t].kind \in {"eject", "load"}
    /\ \/ DroppedInQueue(t)
       \/ (DroppedInEject(t) \/ DroppedInSpawn(t)) /\ abandoned' = TRUE

(***************************************************************************)
(* The operating system: a process exits by itself, or is torn down.       *)
(***************************************************************************)
Exits(c) ==
    /\ child[c] = "running"
    /\ child' = [child EXCEPT ![c] = "gone"]
    /\ UNCHANGED <<pc, op, ctx, lockVars, engineVars, sharedVars, image,
                   abandoned>>

TornDown(c) ==
    /\ child[c] = "dying"
    /\ child' = [child EXCEPT ![c] = "gone"]
    /\ UNCHANGED <<pc, op, ctx, lockVars, engineVars, sharedVars, image,
                   abandoned>>

-----------------------------------------------------------------------------
\* What a task does once it is its turn.
Proceed(t) ==
    \/ ChatWithProc(t) \/ ChatBoots(t) \/ ChatCannotBoot(t) \/ StartEject(t)
    \/ FinishEject(t) \/ LoadBoots(t) \/ LoadCannotBoot(t)
    \/ ChatReady(t) \/ LoadReady(t) \/ SpawnFails(t)

Next ==
    \/ \E t \in Task :
            \/ \E o \in Op : Arrive(t, o)
            \/ Proceed(t)
            \/ GenerationEnds(t)
            \/ MarkDown(t)
            \/ ChatTimeout(t)
            \/ Disconnect(t)
    \/ \E c \in Child : Exits(c) \/ TornDown(c)

Spec == Init /\ [][Next]_vars

(***************************************************************************)
(* Fairness: tasks are polled when they can go on (spawn's 300 s timer     *)
(* makes a spawning task one of them), REQUEST_TIMEOUT fires, and the      *)
(* kernel tears a killed process down. Nothing is assumed of an engine: it *)
(* may hang for ever, in a spawn or in a generation.                       *)
(***************************************************************************)
FairSpec ==
    /\ Spec
    /\ \A t \in Task : WF_vars(Proceed(t)) /\ WF_vars(ChatTimeout(t))
    /\ \A c \in Child : WF_vars(TornDown(c))

-----------------------------------------------------------------------------
(***************************************************************************)
(* Properties.                                                             *)
(***************************************************************************)
\* A chat is rendered, encoded and decoded with the tokenizer and template of
\* the container whose engine generates for it (server.rs:304-306: "they can
\* never be observed mismatched with the engine"), unless a client has left a
\* load half way: the selection then keeps its container, the tokenizer not.
TokMatchesEngine ==
    ~abandoned => \A t \in Task :
        pc[t] = "generating" => (proc # None /\ ctx[t] = image[proc])

\* When nobody is switching, the running process is on the selection the next
\* spawn uses, and the installed tokenizer is its tokenizer; so after a failed
\* load the previous container serves the next request (engine.rs:120-126), and
\* a load that succeeds mends what an abandoned one has left.
OneSelection ==
    holder = None => /\ ~abandoned => tok = selected
                     /\ proc # None => image[proc] = selected

\* /status, read when nobody holds the engine, tells whether there is a process
\* and on which container; after an abandoned eject it may tell of one that is
\* no more, but it never passes over one that is there.
StatusAgrees ==
    holder = None => /\ proc # None => up /\ model = image[proc]
                     /\ up /\ ~abandoned => proc # None

\* No engine process outlives its owner: every running one is the engine's, or
\* the one being booted, and at most one process runs at a time, however the
\* handlers are dropped (kill_on_drop).
Owned == {proc, booting} \ {None}

NoOrphan ==
    /\ \A c \in Child : child[c] = "running" => c \in Owned
    /\ proc = None \/ booting = None

(***************************************************************************)
(* The inductive invariants behind these. Ownership: the mutex has one     *)
(* holder, which says what the process fields may be. Coherence: where the *)
(* selection, the tokenizer and the status may differ, step by step.       *)
(***************************************************************************)
Ownership ==
    /\ \A t \in Task : pc[t] \in Held <=> holder = t
    /\ holder = None => booting = None
    /\ \A t \in Task : pc[t] = "ejecting" => proc = None /\ booting = None
    /\ \A t \in Task : pc[t] = "spawning" => proc = None /\ booting # None
    /\ \A t \in Task : pc[t] = "generating" => proc # None /\ booting = None
    /\ \A c \in Child : child[c] = "running" => c \in Owned

Switching(t) == pc[t] = "spawning" /\ op[t].kind = "load"

Coherence ==
    /\ \A t \in Task : Switching(t) => /\ selected = op[t].model
                                       /\ ~abandoned => saved = tok
    /\ ~abandoned /\ (\A t \in Task : ~Switching(t)) => selected = tok
    /\ booting # None => image[booting] = selected
    /\ proc # None => image[proc] = selected /\ up /\ model = image[proc]
    /\ ~abandoned /\ (\A t \in Task : pc[t] # "ejecting") => (up => proc # None)
    /\ \A t \in Task :
          pc[t] = "generating" \/ (pc[t] = "spawning" /\ op[t].kind = "chat")
              => ctx[t] = tok

IInv == Ownership /\ Coherence

\* Every request is answered, even when an engine hangs for ever.
RequestsEnd == \A t \in Task : pc[t] # "idle" ~> pc[t] = "idle"

=============================================================================
