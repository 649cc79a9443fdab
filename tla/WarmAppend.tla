----------------------------- MODULE WarmAppend ------------------------------
(***************************************************************************)
(* The daemon's side of the serve protocol, composed with the engine's:    *)
(* Engine::generate, generate_once, eject and mark_down of                 *)
(* daemon/src/engine.rs talking to the serve loop of EngineServe through   *)
(* the child's pipes.                                                      *)
(*                                                                         *)
(* The daemon keeps `history`, its idea of the token ids the engine's      *)
(* caches hold. When a new prompt extends it, only the suffix is sent with *)
(* reset:false (warm-append). Calls are serial, the callers hold the       *)
(* engine mutex; what is concurrent is the engine process, its death, and  *)
(* the handlers of daemon/src/server.rs, whose REQUEST_TIMEOUT drops the   *)
(* future of a generation wherever it waits while the engine goes on.      *)
(***************************************************************************)
EXTENDS EngineServe, FiniteSets, SequencesExt

CONSTANTS
    Prompts,      \* encoded prompts the callers send (never empty: a rendered
                  \* chat template has at least its assistant header)
    Budgets,      \* their max_tokens
    CanDrop,      \* may a handler's future be dropped at an await, by
                  \* REQUEST_TIMEOUT or because its client disconnected?
    CanExit,      \* may the engine process die by itself?
    MaxId         \* bound: request ids the model hands out

ASSUME DaemonAssumption ==
    /\ Prompts \subseteq Seq(Token) \ {<<>>}
    /\ Budgets \subseteq Nat
    /\ CanDrop \in BOOLEAN
    /\ CanExit \in BOOLEAN
    /\ MaxId \in Nat

VARIABLES
    proc,         \* Engine.proc.is_some()
    history,      \* Engine.history
    nextId,       \* Engine.next_id
    call          \* the call of generate() under way, or the last one

daemonVars == <<proc, history, nextId, call>>
vars == <<engineVars, daemonVars>>

States == {"idle", "busy", "done", "failed"}

Call == [state : States, ids : Seq(Token), n : Nat, out : Seq(Token),
         id : Nat, warm : BOOLEAN]

NoCall == [state |-> "idle", ids |-> <<>>, n |-> 0, out |-> <<>>,
           id |-> 0, warm |-> FALSE]

Busy == call.state = "busy"

TypeOK ==
    /\ EngineTypeOK
    /\ proc \in BOOLEAN
    /\ history \in Seq(Token)
    /\ nextId \in Nat
    /\ call \in Call

Init ==
    /\ alive = FALSE
    /\ FreshEngine
    /\ proc = FALSE
    /\ history = <<>>
    /\ nextId = 0
    /\ call = NoCall

-----------------------------------------------------------------------------
(***************************************************************************)
(* Starting a call.                                                        *)
(***************************************************************************)
\* The new ids strictly extend the ids already in the engine's state.
Extends(ids) ==
    /\ history # <<>>
    /\ IsStrictPrefix(history, ids)

\* Mutant: the suffix begins one id too early.
ToSendOverlap(ids, warm) ==
    IF warm THEN SubSeq(ids, Len(history), Len(ids)) ELSE ids

\* The ids that go on the wire: the suffix on a warm append, else all of them.
ToSend(ids, warm) ==
    IF warm THEN SubSeq(ids, Len(history) + 1, Len(ids)) ELSE ids

RequestLine(i, ids, n, reset) ==
    [id |-> i, ids |-> ids, n |-> n, reset |-> reset, stop |-> FALSE]

NewCall(state, ids, n, i, warm) ==
    [state |-> state, ids |-> ids, n |-> n, out |-> <<>>, id |-> i, warm |-> warm]

\* The process is dropped (kill_on_drop) with both ends of its pipes.
Discard ==
    /\ proc' = FALSE
    /\ alive' = FALSE
    /\ stdin' = <<>> /\ stdout' = <<>> /\ kv' = <<>> /\ job' = NoJob

MarkDown ==
    /\ Discard
    /\ history' = <<>>

\* Mutant: next_id is not advanced.
BeginReusesId(ids, n) ==
    /\ ~Busy /\ nextId < MaxId
    /\ proc /\ alive
    /\ LET warm == Extends(ids) IN
        /\ stdin' = Append(stdin,
                RequestLine(nextId + 1, ToSend(ids, warm), n, ~warm))
        /\ call' = NewCall("busy", ids, n, nextId + 1, warm)
    /\ UNCHANGED <<alive, stdout, kv, job, proc, history, nextId>>

\* generate() with a process: decide warm or cold, write one request line.
Begin(ids, n) ==
    /\ ~Busy /\ nextId < MaxId
    /\ proc /\ alive
    /\ LET warm == Extends(ids) IN
        /\ stdin' = Append(stdin,
                RequestLine(nextId + 1, ToSend(ids, warm), n, ~warm))
        /\ call' = NewCall("busy", ids, n, nextId + 1, warm)
    /\ nextId' = nextId + 1
    /\ UNCHANGED <<alive, stdout, kv, job, proc, history>>

\* generate() on a process that has died since: the write fails (EPIPE).
BeginOnDead(ids, n) ==
    /\ ~Busy /\ nextId < MaxId
    /\ proc /\ ~alive
    /\ nextId' = nextId + 1
    /\ call' = NewCall("failed", ids, n, nextId + 1, Extends(ids))
    /\ MarkDown

\* generate() without a process: spawn() succeeds and clears the history.
BeginWithSpawn(ids, n) ==
    /\ ~Busy /\ nextId < MaxId
    /\ ~proc
    /\ proc' = TRUE /\ alive' = TRUE
    /\ stdin' = <<RequestLine(nextId + 1, ids, n, TRUE)>>
    /\ stdout' = <<>> /\ kv' = <<>> /\ job' = NoJob
    /\ history' = <<>>
    /\ nextId' = nextId + 1
    /\ call' = NewCall("busy", ids, n, nextId + 1, FALSE)

\* Mutant: the failed call is given the id before the next one.
SpawnFailsWithId(ids, n) ==
    /\ ~Busy
    /\ ~proc
    /\ call' = NewCall("failed", ids, n, nextId - 1, FALSE)
    /\ UNCHANGED <<engineVars, proc, history, nextId>>

\* spawn() fails: the call ends with its error and nothing else changes.
SpawnFails(ids, n) ==
    /\ ~Busy
    /\ ~proc
    /\ call' = NewCall("failed", ids, n, 0, FALSE)
    /\ UNCHANGED <<engineVars, proc, history, nextId>>

(***************************************************************************)
(* The read loop of generate_once.                                         *)
(***************************************************************************)
Reading == Busy /\ stdout # <<>>

\* Mutant: the read loop takes every line for its own.
AnyLine(l) == l.id \in Nat

Mine(l) == l.id = call.id

\* A line with another id belongs to a job some earlier call gave up on.
ReadStale ==
    /\ Reading /\ ~Mine(Head(stdout))
    /\ stdout' = Tail(stdout)
    /\ UNCHANGED <<alive, stdin, kv, job, daemonVars>>

ReadTok ==
    /\ Reading /\ Mine(Head(stdout)) /\ Head(stdout).kind = "tok"
    /\ call' = [call EXCEPT !.out = Append(@, Head(stdout).tok)]
    /\ stdout' = Tail(stdout)
    /\ UNCHANGED <<alive, stdin, kv, job, proc, history, nextId>>

\* Mutant: history forgets the tokens of the answer.
ReadDoneWithoutOut ==
    /\ Reading /\ Mine(Head(stdout)) /\ Head(stdout).kind = "done"
    /\ history' = call.ids
    /\ call' = [call EXCEPT !.state = "done"]
    /\ stdout' = Tail(stdout)
    /\ UNCHANGED <<alive, stdin, kv, job, proc, nextId>>

ReadDone ==
    /\ Reading /\ Mine(Head(stdout)) /\ Head(stdout).kind = "done"
    /\ history' = call.ids \o call.out
    /\ call' = [call EXCEPT !.state = "done"]
    /\ stdout' = Tail(stdout)
    /\ UNCHANGED <<alive, stdin, kv, job, proc, nextId>>

\* An error line: the process stays, the state is taken to be unknown.
ReadError == Reading /\ Mine(Head(stdout)) /\ Head(stdout).kind = "error"

\* A warm continuation refused before any token gets one cold retry.
Retries == call.warm /\ call.out = <<>>

RetryCold ==
    /\ ReadError /\ Retries
    /\ alive
    /\ history' = <<>>
    /\ nextId' = nextId + 1
    /\ stdin' = Append(stdin, RequestLine(nextId + 1, call.ids, call.n, TRUE))
    /\ call' = [call EXCEPT !.id = nextId + 1, !.warm = FALSE]
    /\ stdout' = Tail(stdout)
    /\ UNCHANGED <<alive, kv, job, proc>>

RetryOnDead ==
    /\ ReadError /\ Retries
    /\ ~alive
    /\ nextId' = nextId + 1
    /\ call' = [call EXCEPT !.state = "failed", !.id = nextId + 1, !.warm = FALSE]
    /\ MarkDown

\* Mutant: an error leaves history as it was.
FailKeepsHistory ==
    /\ ReadError /\ ~Retries
    /\ call' = [call EXCEPT !.state = "failed"]
    /\ stdout' = Tail(stdout)
    /\ UNCHANGED <<alive, stdin, kv, job, proc, history, nextId>>

FailOnError ==
    /\ ReadError /\ ~Retries
    /\ history' = <<>>
    /\ call' = [call EXCEPT !.state = "failed"]
    /\ stdout' = Tail(stdout)
    /\ UNCHANGED <<alive, stdin, kv, job, proc, nextId>>

\* Mutant: the end of file marks the engine down and the loop reads on.
ReadPastEof ==
    /\ Busy /\ ~alive /\ stdout = <<>>
    /\ MarkDown
    /\ UNCHANGED <<nextId, call>>

\* End of file on stdout: "engine closed stdout (process died)".
ReadEof ==
    /\ Busy /\ ~alive /\ stdout = <<>>
    /\ call' = [call EXCEPT !.state = "failed"]
    /\ MarkDown
    /\ UNCHANGED nextId

Read == ReadStale \/ ReadTok \/ ReadDone \/ RetryCold \/ RetryOnDead
            \/ FailOnError \/ ReadEof

(***************************************************************************)
(* What happens around a call.                                             *)
(***************************************************************************)
\* Mutant: the timeout is looked at only when a line has come.
DropCallOnLine ==
    /\ CanDrop
    /\ Busy /\ stdout # <<>>
    /\ call' = [call EXCEPT !.state = "failed"]
    /\ UNCHANGED <<engineVars, proc, history, nextId>>

\* The future of the call is dropped at its await: no code of it runs any more.
DropCall ==
    /\ CanDrop
    /\ Busy
    /\ call' = [call EXCEPT !.state = "failed"]
    /\ UNCHANGED <<engineVars, proc, history, nextId>>

\* eject(): take the process, kill it, wait for it, forget its state.
Eject ==
    /\ ~Busy /\ proc
    /\ Discard
    /\ history' = <<>>
    /\ UNCHANGED <<nextId, call>>

\* The client of /engine/eject goes away during the wait: the process has been
\* taken and killed, the lines after the await never run.
EjectDropped ==
    /\ CanDrop
    /\ ~Busy /\ proc
    /\ Discard
    /\ UNCHANGED <<history, nextId, call>>

EngineExits ==
    /\ CanExit
    /\ Exit
    /\ UNCHANGED daemonVars

EngineRuns == ServeStep /\ UNCHANGED daemonVars

Next ==
    \/ \E ids \in Prompts, n \in Budgets :
            \/ Begin(ids, n)
            \/ BeginOnDead(ids, n)
            \/ BeginWithSpawn(ids, n)
            \/ SpawnFails(ids, n)
    \/ Read
    \/ DropCall
    \/ Eject
    \/ EjectDropped
    \/ EngineExits
    \/ EngineRuns

Spec == Init /\ [][Next]_vars
(***************************************************************************)
(* Fairness. The daemon's task is polled whenever a line or the end of     *)
(* file is there to read. FairSpec also lets a live engine work on;        *)
(* HungSpec does not, and relies on the timer alone.                       *)
(***************************************************************************)
FairSpec == Spec /\ WF_vars(Read) /\ WF_vars(EngineRuns)
HungSpec == Spec /\ WF_vars(Read) /\ WF_vars(DropCall)

-----------------------------------------------------------------------------
(***************************************************************************)
(* Properties.                                                             *)
(***************************************************************************)
\* The engine works on nothing and its pipes are empty.
Quiet == stdin = <<>> /\ stdout = <<>> /\ ~Working

\* Between calls, `history` is what engine.rs:100-103 says it is: the token ids
\* in the engine's state, so that the next warm append continues from there.
HistoryIsState ==
    (~Busy /\ alive /\ history # <<>>) => (Quiet /\ kv = history)

\* Every token the daemon delivers is the greedy choice after the whole prompt.
Greedy(c) ==
    \A k \in 1..Len(c.out) : c.out[k] \in Decode(c.ids \o SubSeq(c.out, 1, k - 1))

Full(c) ==
    \/ Len(c.out) = c.n
    \/ c.out # <<>> /\ Last(c.out) \in Eos

\* A request sent cold (reset:true) is answered from its own prompt alone, to
\* its end, whatever abandoned jobs were still in the engine before it: stale
\* lines never reach its caller (generate_once's id test).
ColdExact ==
    (Busy \/ call.state = "done") /\ ~call.warm
        => Greedy(call) /\ (call.state = "done" => Full(call))

\* While a call waits on a live engine, exactly one answer to it is on its way:
\* its line unread, its job running, or its terminal line printed. The read
\* loop of generate_once therefore never waits for a line that cannot come,
\* and never leaves a second terminal line behind for the next call.
Answers ==
    Cardinality({i \in DOMAIN stdin : Mine(stdin[i])})
    + (IF Working /\ job.id = call.id THEN 1 ELSE 0)
    + Cardinality({i \in DOMAIN stdout : Mine(stdout[i]) /\ Terminal(stdout[i])})

OneAnswerPending == Busy /\ alive => Answers = 1

\* Ids go through the pipes in the order they were handed out, and none is
\* ahead of next_id: a line that is not the current call's is older than it.
WireIds ==
    [i \in DOMAIN stdout |-> stdout[i].id]
    \o (IF Working THEN <<job.id>> ELSE <<>>)
    \o [i \in DOMAIN stdin |-> stdin[i].id]

IdsInOrder ==
    /\ \A i, j \in DOMAIN WireIds : i < j => WireIds[i] <= WireIds[j]
    /\ \A i \in DOMAIN WireIds : WireIds[i] <= nextId
    /\ Busy => call.id = nextId

\* The context never outgrows its allocation (qwen.c:583, olmoe.c:507,
\* gemma.c:804), over any series of warm appends on one process.
ContextBound ==
    Working => Len(kv) + (IF job.go THEN job.n - job.n_out ELSE 0) + Slack < MaxT

\* generate() as its caller sees it is a stateless greedy decoder: warm-append,
\* the cold retry and the process's deaths are invisible but for failures.
Stateless == INSTANCE StatelessDecode
    WITH call <- [state |-> call.state, ids |-> call.ids,
                  n |-> call.n, out |-> call.out]

IsStateless == Stateless!Spec

(***************************************************************************)
(* The inductive invariant behind HistoryIsState and IsStateless, for an   *)
(* engine that feeds the last token and handlers that are never dropped.   *)
(* Between calls the engine is quiet and its context is the history. In a  *)
(* call it has not read the request, or it decodes, or it has answered, or *)
(* it has refused; and what the daemon has not read yet are the last       *)
(* tokens of its context.                                                  *)
(***************************************************************************)
Given == Len(call.ids) + Len(call.out)

\* The last m tokens of the context are printed and unread, the ones before are
\* the prompt and the tokens delivered, and each was a greedy choice.
InStep(m) ==
    /\ Len(kv) = Given + m
    /\ SubSeq(kv, 1, Given) = call.ids \o call.out
    /\ \A i \in 1..m : stdout[i] = TokLine(call.id, kv[Given + i])
    /\ \A k \in (Len(call.ids) + 1)..Len(kv) : kv[k] \in Decode(SubSeq(kv, 1, k - 1))
    /\ \A k \in (Len(call.ids) + 1)..(Len(kv) - 1) : kv[k] \notin Eos
    /\ Len(kv) <= Len(call.ids) + call.n

Ended ==
    \/ Len(kv) = Len(call.ids) + call.n
    \/ Len(kv) > Len(call.ids) /\ kv[Len(kv)] \in Eos

Unread ==
    /\ Len(stdin) = 1 /\ stdout = <<>> /\ ~Working
    /\ stdin[1].id = call.id /\ stdin[1].n = call.n /\ ~stdin[1].stop
    /\ stdin[1].ids # <<>>
    /\ Base(stdin[1]) \o stdin[1].ids = call.ids
    /\ call.out = <<>>

Decoding ==
    /\ stdin = <<>>
    /\ Working /\ job.id = call.id /\ job.n = call.n
    /\ job.n_out = Len(kv) - Len(call.ids)
    /\ job.go <=> ~Ended
    /\ InStep(Len(stdout))

Answered ==
    /\ stdin = <<>> /\ ~Working
    /\ stdout # <<>>
    /\ stdout[Len(stdout)] = DoneLine(call.id, Len(kv) - Len(call.ids))
    /\ Ended
    /\ InStep(Len(stdout) - 1)

Refused ==
    /\ stdin = <<>> /\ ~Working
    /\ stdout = <<ErrorLine(call.id)>>
    /\ call.out = <<>>

Conversation ==
    /\ alive => proc
    /\ Busy => /\ proc /\ call.id # 0 /\ call.ids # <<>>
               /\ Unread \/ Decoding \/ Answered \/ Refused
    /\ ~Busy => Quiet /\ (history # <<>> => kv = history)

\* Every call ends, by an answer, an error or the end of the process.
CallEnds == Busy ~> ~Busy

=============================================================================
