--------------------------------- MODULE App ---------------------------------
(***************************************************************************)
(* The backend of the desktop app (app/src/api.rs): one thread that takes  *)
(* the views' commands one after the other, asks the daemon over HTTP and  *)
(* keeps what it knows in Shared; and the events task beside it. The       *)
(* daemon is here what its HTTP API shows (daemon/src/server.rs: /status,  *)
(* /engine/load, /engine/eject, chat); EngineLifecycle has its inside,     *)
(* ChatStream the text of an answer. The views are in AppViews.            *)
(*                                                                         *)
(* A request is a step of the backend that sends it, a step of the daemon  *)
(* that serves it, and a step of the backend that takes the reply in: the  *)
(* world may change in between. Time is left out: polls and timeouts       *)
(* happen whenever they are possible.                                      *)
(***************************************************************************)
EXTENDS Containers, Sequences, SequencesExt

CONSTANTS
    Container,
    Default,        \* the container of the daemon's configuration
    None,
    Budget,         \* how many shards' worth of weights the machine's RAM takes
    Arriving,       \* the states a container may be found in
    MaxEvents       \* bound: what happens to the daemon from outside the app

ASSUME AppAssumption ==
    /\ Default \in Container /\ None \notin Container
    /\ Budget \in Nat /\ MaxEvents \in Nat
    /\ Arriving \subseteq Directory

VARIABLES
    \* the daemon
    daemon,         \* its process: "up", "hung" or "down"
    older,          \* does it lack /engine/load, /engine/eject and /system?
    engine,         \* SharedStatus: [up, model]
    selected,       \* the container the next spawn uses
    disk,           \* the model root
    gone,           \* containers removed from it, for the properties
    events,         \* how many of MaxEvents have happened
    \* the app
    shared,         \* Shared
    queue,          \* commands sent and not yet taken
    at,             \* what the backend waits for
    arg,            \* the model of the load it waits for
    reply           \* what the daemon answered to its request

daemonVars  == <<daemon, older, engine, selected, disk, gone, events>>
backendVars == <<shared, queue, at, arg, reply>>
appVars     == <<daemonVars, backendVars>>

Cmd == [kind : {"SendChat", "RefreshStatus", "Eject"}, model : {None}]
           \cup [kind : {"Load"}, model : Container]

Chatting == {"chat", "stream"}
Waiting  == {"status", "status+system", "system", "eject", "load", "chat"}

NoReply == [code |-> "none"]
Failed  == [code |-> "error"]
Code(c) == [code |-> c]

Reports == [model : Container \cup {None}, up : BOOLEAN,
            rows : SUBSET Container, fits : SUBSET Container]

\* A message, and all that matters of its content.
Message   == [role : {"user", "assistant"}, content : {"text", "empty", "error"}]
User      == [role |-> "user", content |-> "text"]
Assistant == [role |-> "assistant", content |-> "empty"]

\* Shared, without figures, and without what is in one of its fields only
\* because it is in another (last_error, the system report).
SharedState ==
    [daemon_up : BOOLEAN, capacity : Reports \cup {None}, messages : Seq(Message),
     generating : BOOLEAN, eject_unsupported : BOOLEAN, load_unsupported : BOOLEAN,
     system_unsupported : BOOLEAN, loading_model : Container \cup {None},
     load_error : Container \cup {None}]

Replies ==
    [code : {"none", "error", "200", "404", "422", "500"}]
        \cup [code : {"reading"}, model : Container \cup {None}]
        \cup [code : {"200"}, capacity : Reports]

Init ==
    /\ daemon \in {"up", "down"}
    /\ older \in BOOLEAN
    /\ engine = [up |-> FALSE, model |-> None]
    /\ selected = Default
    /\ disk \in [Container -> Arriving]
    /\ Opens(disk[Default])
    /\ gone = {}
    /\ events = 0
    /\ shared = [daemon_up |-> FALSE, capacity |-> None, messages |-> <<>>,
                 generating |-> FALSE,
                 eject_unsupported |-> FALSE, load_unsupported |-> FALSE,
                 system_unsupported |-> FALSE, loading_model |-> None,
                 load_error |-> None]
    /\ queue = <<>>
    /\ at = "status+system"         \* the initial status probe
    /\ arg = None
    /\ reply = NoReply

-----------------------------------------------------------------------------
(***************************************************************************)
(* The daemon serves the backend's request.                                *)
(***************************************************************************)
Serving(step) ==
    /\ daemon = "up"
    /\ at = step
    /\ reply = NoReply

\* Mutant: a directory without a config.json is listed too.
CapacityOfAny(model, up) ==
    [model |-> model, up |-> up,
     rows  |-> Container,
     fits  |-> {c \in Container : Fits(disk[c], Budget)}]

Capacity(model, up) ==
    [model |-> model, up |-> up,
     rows  |-> {c \in Container : Listed(disk[c])},
     fits  |-> {c \in Container : Listed(disk[c]) /\ Fits(disk[c], Budget)}]

\* GET /status reads the model, then whether the engine is up, then the disk;
\* it does not take the engine mutex.
StatusReadsModel ==
    /\ Serving("status") \/ Serving("status+system")
    /\ reply' = [code |-> "reading", model |-> engine.model]
    /\ UNCHANGED <<daemonVars, shared, queue, at, arg>>

StatusReadsUp ==
    /\ daemon = "up" /\ reply.code = "reading"
    /\ reply' = [code |-> "200", capacity |-> Capacity(reply.model, engine.up)]
    /\ UNCHANGED <<daemonVars, shared, queue, at, arg>>

ServesSystem ==
    /\ Serving("system")
    /\ reply' = Code(IF older THEN "404" ELSE "200")
    /\ UNCHANGED <<daemonVars, shared, queue, at, arg>>

Ejected == [up |-> FALSE, model |-> None]

ServesEject ==
    /\ Serving("eject")
    /\ IF older THEN reply' = Code("404") /\ UNCHANGED engine
       ELSE reply' = Code("200") /\ engine' = Ejected
    /\ UNCHANGED <<daemon, older, selected, disk, gone, events, shared, queue, at, arg>>

\* Engine::load: eject, then spawn; a spawn that fails leaves no engine, and
\* the selection as it was.
Swap(c, up) ==
    /\ engine' = IF up THEN [up |-> TRUE, model |-> c] ELSE Ejected
    /\ selected' = IF up THEN c ELSE selected

\* The checks of /engine/load before it takes the engine mutex.
Loadable(d) == Listed(d) /\ Verified(d) /\ d.tokenizer

Refusal(d) == IF ~Listed(d) THEN "404" ELSE IF ~Verified(d) THEN "422" ELSE "500"

\* POST /engine/load: no route, no such container, an incomplete one, a bad
\* tokenizer; only then the engine is touched.
ServesLoad ==
    /\ Serving("load")
    /\ IF older \/ ~Loadable(disk[arg])
       THEN /\ reply' = Code(IF older THEN "404" ELSE Refusal(disk[arg]))
            /\ UNCHANGED <<engine, selected>>
       ELSE \E up \in Boots(disk[arg]) :
                Swap(arg, up) /\ reply' = Code(IF up THEN "200" ELSE "500")
    /\ UNCHANGED <<daemon, older, disk, gone, events, shared, queue, at, arg>>

\* A streamed chat is answered with its headers at once.
ServesChat ==
    /\ Serving("chat")
    /\ reply' = Code("200")
    /\ UNCHANGED <<daemonVars, shared, queue, at, arg>>

\* Mutant: a client without a timeout of its own.
FailsWithoutTimeout ==
    /\ at \in Waiting /\ reply.code \in {"none", "reading"}
    /\ daemon = "down"
    /\ reply' = Failed
    /\ UNCHANGED <<daemonVars, shared, queue, at, arg>>

\* No daemon, or no answer within the client's 300 s: for want of a live
\* daemon, or because the engine is busy that long. The daemon may have ejected
\* by then, or drop the load half way, with the new container selected.
RequestFails ==
    /\ at \in Waiting /\ reply.code \in {"none", "reading"}
    /\ daemon # "up" \/ at \in {"eject", "load", "chat"}
    /\ reply' = Failed
    /\ \/ UNCHANGED <<engine, selected>>
       \/ /\ daemon = "up" /\ at \in {"eject", "load"} /\ ~older
          /\ (at = "load" => Loadable(disk[arg]))
          /\ engine' = Ejected
          /\ selected' = IF at = "load" THEN arg ELSE selected
    /\ UNCHANGED <<daemon, older, disk, gone, events, shared, queue, at, arg>>

-----------------------------------------------------------------------------
(***************************************************************************)
(* The backend. Each step holds Shared's mutex once.                       *)
(***************************************************************************)
Goes(step) == at' = step /\ reply' = NoReply

TakesCommand(kind) ==
    /\ at = "recv" /\ queue # <<>> /\ Head(queue).kind = kind
    /\ queue' = Tail(queue)
    /\ UNCHANGED daemonVars

\* An explicit refresh probes again what the daemon may have gained.
TakesRefresh ==
    /\ TakesCommand("RefreshStatus")
    /\ Goes("status+system")
    /\ shared' = [shared EXCEPT !.eject_unsupported = FALSE, !.load_unsupported = FALSE,
                                !.system_unsupported = FALSE, !.load_error = None]
    /\ UNCHANGED arg

TakesChat ==
    /\ TakesCommand("SendChat")
    /\ Goes("chat")
    /\ shared' = [shared EXCEPT !.messages = @ \o <<User, Assistant>>,
                                !.generating = TRUE]
    /\ UNCHANGED arg

TakesEject ==
    /\ TakesCommand("Eject")
    /\ Goes("eject")
    /\ UNCHANGED <<shared, arg>>

TakesLoad ==
    /\ TakesCommand("Load")
    /\ Goes("load")
    /\ arg' = Head(queue).model
    /\ shared' = [shared EXCEPT !.loading_model = Head(queue).model]

\* Mutant: status is not polled.
NeverPolls == FALSE /\ UNCHANGED appVars

\* recv_timeout, with STATUS_POLL elapsed.
Polls ==
    /\ at = "recv" /\ queue = <<>>
    /\ Goes("status")
    /\ UNCHANGED <<daemonVars, shared, queue, arg>>

Takes(step) ==
    /\ at = step /\ reply.code \notin {"none", "reading"}
    /\ UNCHANGED <<daemonVars, queue>>

\* fetch_status; after a refresh and at the start, fetch_system follows.
WithStatus(s) ==
    IF reply = Failed THEN [s EXCEPT !.daemon_up = FALSE]
    ELSE [s EXCEPT !.daemon_up = TRUE, !.capacity = reply.capacity]

TakesStatus ==
    \/ /\ Takes("status") /\ Goes("recv")
       /\ shared' = WithStatus(shared)
       /\ UNCHANGED arg
    \/ /\ Takes("status+system")
       /\ Goes(IF shared.system_unsupported THEN "recv" ELSE "system")
       /\ shared' = WithStatus(shared)
       /\ UNCHANGED arg

TakesSystem ==
    /\ Takes("system") /\ Goes("recv")
    /\ shared' = [shared EXCEPT !.system_unsupported = @ \/ reply.code = "404"]
    /\ UNCHANGED arg

\* An eject or a load that fails for want of a daemon marks it down.
Reached(s) == IF reply = Failed THEN [s EXCEPT !.daemon_up = FALSE] ELSE s

TakesEjected ==
    /\ Takes("eject") /\ Goes("status")
    /\ shared' = Reached([shared EXCEPT
                    !.eject_unsupported = @ \/ reply.code = "404"])
    /\ UNCHANGED arg

\* Mutant: a load that fails leaves loading_model set.
TakesLoadedLatching ==
    /\ Takes("load") /\ Goes("status")
    /\ arg' = None
    /\ shared' = Reached([shared EXCEPT
                    !.load_unsupported = @ \/ reply.code = "404",
                    !.load_error = IF reply.code \in {"422", "500"} THEN arg ELSE None,
                    !.loading_model = IF reply.code = "200" THEN None ELSE @])

\* Any 404 is taken for a daemon without the endpoint.
TakesLoaded ==
    /\ Takes("load") /\ Goes("status")
    /\ arg' = None
    /\ shared' = Reached([shared EXCEPT
                    !.load_unsupported = @ \/ reply.code = "404",
                    !.load_error = IF reply.code \in {"422", "500"} THEN arg ELSE None,
                    !.loading_model = None])

\* run_chat writes into the last message of the transcript.
Answer(s, text) ==
    IF s.messages = <<>> THEN s
    ELSE [s EXCEPT !.messages[Len(s.messages)].content = text]

\* fail: the message takes the place of the answer.
WithFailure(s) == Answer([s EXCEPT !.generating = FALSE], "error")

TakesChatting ==
    /\ Takes("chat")
    /\ IF reply = Failed
       THEN Goes("recv") /\ shared' = WithFailure([shared EXCEPT !.daemon_up = FALSE])
       ELSE Goes("stream") /\ UNCHANGED shared
    /\ UNCHANGED arg

\* The generation behind the stream spawns an engine if there is none.
StreamSpawns ==
    /\ at = "stream" /\ daemon = "up" /\ ~engine.up
    /\ TRUE \in Boots(disk[selected])
    /\ engine' = [up |-> TRUE, model |-> selected]
    /\ UNCHANGED <<daemon, older, selected, disk, gone, events, backendVars>>

StreamGrows ==
    /\ at = "stream" /\ daemon = "up" /\ engine.up
    /\ shared' = Answer(shared, "text")
    /\ UNCHANGED <<daemonVars, queue, at, arg, reply>>

\* [DONE], after the answer or after an error event, which is passed over: the
\* engine failed, and mark_down has kept its name.
StreamEnds ==
    /\ at = "stream" /\ daemon = "up"
    /\ \/ UNCHANGED engine
       \/ engine' = [engine EXCEPT !.up = FALSE]
    /\ Goes("recv")
    /\ shared' = [shared EXCEPT !.generating = FALSE]
    /\ UNCHANGED <<daemon, older, selected, disk, gone, events, queue, arg>>

\* The connection breaks, or the client's 300 s are over.
StreamFails ==
    /\ at = "stream"
    /\ Goes("recv")
    /\ shared' = WithFailure(shared)
    /\ UNCHANGED <<daemonVars, queue, arg>>

(***************************************************************************)
(* The events task connects again and again, and when it does, the daemon  *)
(* is up. events_connected, the light of the System tab, is left out: a    *)
(* task that is connected already may do this once more.                   *)
(***************************************************************************)
Connects ==
    /\ daemon = "up" /\ ~shared.daemon_up
    /\ shared' = [shared EXCEPT !.daemon_up = TRUE]
    /\ UNCHANGED <<daemonVars, queue, at, arg, reply>>

-----------------------------------------------------------------------------
(***************************************************************************)
(* What happens to the daemon from outside: it stops, hangs, is started    *)
(* (perhaps a newer one), other clients load, eject and chat, containers   *)
(* are copied and removed.                                                 *)
(***************************************************************************)
Happens ==
    /\ events < MaxEvents
    /\ events' = events + 1
    /\ UNCHANGED backendVars

DaemonStops ==
    /\ Happens
    /\ daemon # "down" /\ daemon' = "down"
    /\ engine' = Ejected
    /\ UNCHANGED <<older, selected, disk, gone>>

DaemonHangs ==
    /\ Happens
    /\ daemon = "up" /\ daemon' = "hung"
    /\ UNCHANGED <<older, engine, selected, disk, gone>>

DaemonStarts ==
    /\ Happens
    /\ daemon = "down" /\ daemon' = "up"
    /\ older' \in {older, FALSE}
    /\ selected' = Default
    /\ UNCHANGED <<engine, disk, gone>>

\* Another client's request, served when the app has no chat in the engine.
OthersAct ==
    /\ Happens
    /\ daemon = "up" /\ at # "stream"
    /\ \/ engine' = Ejected /\ UNCHANGED selected
       \/ engine' = [engine EXCEPT !.up = FALSE] /\ UNCHANGED selected
       \/ \E c \in Container : Loadable(disk[c]) /\ \E up \in Boots(disk[c]) : Swap(c, up)
    /\ UNCHANGED <<daemon, older, disk, gone>>

Copies(c) ==
    /\ Happens
    /\ \E d \in Copied(disk[c]) \ {disk[c]} : disk' = [disk EXCEPT ![c] = d]
    /\ UNCHANGED <<daemon, older, engine, selected, gone>>

Removes(c) ==
    /\ Happens
    /\ disk[c] # NoDirectory
    /\ disk' = [disk EXCEPT ![c] = NoDirectory]
    /\ gone' = gone \cup {c}
    /\ UNCHANGED <<daemon, older, engine, selected>>

World ==
    \/ DaemonStops \/ DaemonHangs \/ DaemonStarts \/ OthersAct
    \/ \E c \in Container : Copies(c) \/ Removes(c)

Serves ==
    \/ StatusReadsModel \/ StatusReadsUp \/ ServesSystem \/ ServesEject
    \/ ServesLoad \/ ServesChat

\* What the backend does next; StreamFails because of its own timeout.
BackendSteps ==
    \/ TakesRefresh \/ TakesChat \/ TakesEject \/ TakesLoad \/ Polls
    \/ TakesStatus \/ TakesSystem \/ TakesEjected \/ TakesLoaded \/ TakesChatting

Streams == StreamSpawns \/ StreamGrows \/ StreamEnds \/ StreamFails

=============================================================================
