------------------------------- MODULE AppViews -------------------------------
(***************************************************************************)
(* The app's window (app/src/views): what it paints of Shared, the         *)
(* fingerprint that decides when it paints again, and what a user can do   *)
(* with the controls that are on the screen; composed with the backend and *)
(* the daemon of App. A control's handler runs on the state of the moment, *)
(* but whether the control is there was decided when it was painted.       *)
(***************************************************************************)
EXTENDS App

CONSTANT MaxClicks      \* bound: what the user does

ASSUME ViewsAssumption == MaxClicks \in Nat

VARIABLES
    tab,            \* Root.tab
    painted,        \* the controls on the screen
    clicks

viewVars == <<tab, painted, clicks>>
vars     == <<appVars, viewVars>>

Tab == {"chat", "library", "system"}

-----------------------------------------------------------------------------
(***************************************************************************)
(* What is painted of s, a value of Shared, but for figures and texts.     *)
(***************************************************************************)
Known(s)     == s.capacity # None
EngineUp(s)  == Known(s) /\ s.capacity.up
ModelName(s) == IF Known(s) THEN s.capacity.model ELSE None
Rows(s)      == IF Known(s) THEN s.capacity.rows ELSE {}
Fitting(s)   == IF Known(s) THEN s.capacity.fits ELSE {}
Loading(s)   == s.loading_model # None
Busy(s)      == s.generating \/ Loading(s)

\* The footer: the disc in the slot, and the eject control.
InSlot(s) == IF Loading(s) THEN s.loading_model ELSE ModelName(s)
Loaded(s) == s.daemon_up /\ EngineUp(s) /\ InSlot(s) # None

Slot(s) ==
    CASE ~s.daemon_up -> [state |-> "down", name |-> None]
      [] s.daemon_up /\ Loading(s) -> [state |-> "loading", name |-> InSlot(s)]
      [] Loaded(s) /\ ~Loading(s) -> [state |-> "loaded", name |-> InSlot(s)]
      [] OTHER -> [state |-> "empty", name |-> None]

EjectControl(s) ==
    IF s.eject_unsupported THEN "unavailable"
    ELSE IF Loaded(s) /\ ~Busy(s) THEN "on" ELSE "off"

\* A row of the library. parse_capacity calls a row active when it bears the
\* engine's name, running or not.
Row(s, c) ==
    IF ModelName(s) = c THEN "in the slot"
    ELSE IF s.loading_model = c THEN "loading"
    ELSE IF s.load_error = c THEN "failed"
    ELSE IF c \notin Fitting(s) THEN "too big"
    ELSE IF s.load_unsupported THEN "unavailable"
    ELSE IF Busy(s) THEN "busy" ELSE "load"

LastContent(s) == IF s.messages = <<>> THEN "none" ELSE s.messages[Len(s.messages)].content

ChatPane(s) ==
    [n |-> Len(s.messages), answer |-> LastContent(s), generating |-> s.generating,
     banner |-> ~s.daemon_up]

LibraryPane(s) == [known |-> Known(s), rows |-> [c \in Rows(s) |-> Row(s, c)]]

SystemPane(s) ==
    [unsupported |-> s.system_unsupported,
     engine |-> IF EngineUp(s) THEN ModelName(s) ELSE None]

Pane(s, t) ==
    IF t = "chat" THEN ChatPane(s)
    ELSE IF ~s.daemon_up THEN None
    ELSE IF t = "library" THEN LibraryPane(s) ELSE SystemPane(s)

Screen(s, t) ==
    [slot |-> Slot(s), eject |-> EjectControl(s), tab |-> t, pane |-> Pane(s, t)]

\* The controls it offers; Send and refresh are always there.
Controls(s, t) ==
    [eject |-> EjectControl(s) = "on",
     clear |-> t = "chat" /\ s.messages # <<>>,
     load  |-> IF t = "library" /\ s.daemon_up
               THEN {c \in Rows(s) : Row(s, c) = "load"} ELSE {}]

(***************************************************************************)
(* When it is painted.                                                     *)
(***************************************************************************)
\* Mutant: the load in flight is left out.
FingerprintWithoutLoading(s, t) ==
    [tab |-> t, daemon_up |-> s.daemon_up, generating |-> s.generating, eject |-> s.eject_unsupported,
     model |-> ModelName(s), engine |-> EngineUp(s)]

\* Of a message its length is taken, and of a chat only the last message.
Fingerprint(s, t) ==
    [tab |-> t, daemon_up |-> s.daemon_up, generating |-> s.generating, eject |-> s.eject_unsupported,
     load |-> s.load_unsupported, loading |-> s.loading_model,
     error |-> s.load_error, known |-> Known(s), model |-> ModelName(s),
     engine |-> EngineUp(s),
     pane |-> CASE t = "chat"    -> [n |-> Len(s.messages), answer |-> LastContent(s)]
                [] t = "library" -> [rows |-> Rows(s), fits |-> Fitting(s)]
                [] OTHER         -> [unsupported |-> s.system_unsupported]]

ViewInit ==
    /\ tab = "chat"
    /\ painted = Controls(shared, tab)
    /\ clicks = 0

\* A frame shows the Shared of its moment.
Paints == painted' = Controls(shared', tab')

\* maybe_notify, after a wake or at the 250 ms tick. last_fp is not kept: the
\* window may be painted again whenever it differs, and FingerprintCovers says
\* that the comparison of fingerprints passes nothing over.
MaybeNotify ==
    /\ painted # Controls(shared, tab)
    /\ UNCHANGED <<appVars, tab, clicks>>
    /\ Paints

-----------------------------------------------------------------------------
(***************************************************************************)
(* What the user does.                                                     *)
(***************************************************************************)
Click ==
    /\ clicks < MaxClicks
    /\ clicks' = clicks + 1
    /\ UNCHANGED <<daemonVars, at, arg, reply>>

\* Mutant: a command names the container in the slot.
SendsShown(kind, model) ==
    queue' = Append(queue, [kind |-> kind, model |-> IF model = None THEN InSlot(shared) ELSE model])

Sends(kind, model) == queue' = Append(queue, [kind |-> kind, model |-> model])

\* Enter, or the Send button: refused while the backend generates or loads.
ClickSend ==
    /\ Click /\ tab = "chat"
    /\ ~Busy(shared) /\ Sends("SendChat", None)
    /\ UNCHANGED <<shared, tab>>
    /\ Paints

\* Mutant: the transcript can be cleared at any time.
ClearsAnyTime ==
    /\ Click /\ painted.clear
    /\ shared' = [shared EXCEPT !.messages = <<>>]
    /\ UNCHANGED <<queue, tab>>
    /\ Paints

\* "Not while streaming: the backend writes into the last message by position."
ClickClear ==
    /\ Click /\ painted.clear
    /\ shared' = IF shared.generating THEN shared ELSE [shared EXCEPT !.messages = <<>>]
    /\ UNCHANGED <<queue, tab>>
    /\ Paints

\* The slot empties now, /status reconciles after.
ClickEject ==
    /\ Click /\ painted.eject
    /\ shared' = IF Known(shared) THEN [shared EXCEPT !.capacity.up = FALSE] ELSE shared
    /\ Sends("Eject", None)
    /\ UNCHANGED <<tab>>
    /\ Paints

\* The busy check is made again by the handler.
ClickLoad(c) ==
    /\ Click /\ c \in painted.load
    /\ IF Busy(shared) THEN UNCHANGED queue ELSE Sends("Load", c)
    /\ UNCHANGED <<shared, tab>>
    /\ Paints

\* Refresh, rescan, retry.
ClickRefresh ==
    /\ Click
    /\ Sends("RefreshStatus", None)
    /\ UNCHANGED <<shared, tab, painted>>

ClickTab(t) ==
    /\ tab' = t
    /\ UNCHANGED <<appVars, clicks>>
    /\ Paints

-----------------------------------------------------------------------------
AppInit == Init /\ ViewInit

UserActs ==
    \/ ClickSend \/ ClickClear \/ ClickEject \/ ClickRefresh
    \/ \E c \in Container : ClickLoad(c)
    \/ \E t \in Tab : ClickTab(t)

Next ==
    \/ (Serves \/ RequestFails \/ BackendSteps \/ Streams \/ Connects \/ World)
       /\ UNCHANGED viewVars
    \/ MaybeNotify
    \/ UserActs

Spec == AppInit /\ [][Next]_vars

(***************************************************************************)
(* Fairness: a live daemon serves (or the client's timeout ends the        *)
(* request), the backend's task runs, a stream ends by itself or by the    *)
(* timeout. Nothing is assumed of the user or the world.                   *)
(***************************************************************************)
FairSpec ==
    /\ Spec
    /\ WF_vars(Serves /\ UNCHANGED viewVars)
    /\ WF_vars((BackendSteps \/ RequestFails \/ StreamFails) /\ UNCHANGED viewVars)

-----------------------------------------------------------------------------
(***************************************************************************)
(* Properties.                                                             *)
(***************************************************************************)
TypeOK ==
    /\ daemon \in {"up", "hung", "down"} /\ older \in BOOLEAN
    /\ engine \in [up : BOOLEAN, model : Container \cup {None}]
    /\ selected \in Container
    /\ disk \in [Container -> Directory] /\ gone \subseteq Container
    /\ shared \in SharedState
    /\ queue \in Seq(Cmd)
    /\ at \in Waiting \cup {"recv", "stream"}
    /\ arg \in Container \cup {None}
    /\ reply \in Replies
    /\ tab \in Tab
    /\ painted \in [eject : BOOLEAN, clear : BOOLEAN, load : SUBSET Container]
    /\ events \in 0..MaxEvents /\ clicks \in 0..MaxClicks

\* What a status request has been answered is a status; and a load in flight
\* is of a container.
RepliesFit ==
    /\ at \in {"status", "status+system"} =>
          \/ reply \in {NoReply, Failed}
          \/ reply \in [code : {"reading"}, model : Container \cup {None}]
          \/ reply \in [code : {"200"}, capacity : Reports]
    /\ reply.code = "reading" => at \in {"status", "status+system"}
    /\ at = "load" => arg \in Container

\* run_chat writes deltas and errors into the last message by position: while
\* it runs, that is the assistant's message it has pushed itself, whatever the
\* user clicks; and questions and answers alternate, none without the other.
OwnAnswer ==
    /\ Len(shared.messages) % 2 = 0
    /\ \A i \in DOMAIN shared.messages :
          shared.messages[i].role = IF i % 2 = 1 THEN "user" ELSE "assistant"
    /\ at \in Chatting => shared.messages # <<>>

\* The flags that the views' gates go by tell what the backend is doing: they
\* are set while it does it and on no path out of it left behind.
FlagsTell ==
    /\ shared.generating <=> at \in Chatting
    /\ shared.loading_model = IF at = "load" THEN arg ELSE None

\* The fingerprint is a "hash of everything the current tab renders from shared
\* state" (mod.rs:100): whatever the backend and the user do, a step that changes
\* the states and the controls that would be painted changes the fingerprint, so
\* that it is not passed over. (Figures and error texts are not in Screen, and
\* some of them are not in the code's hash either: the README lists them.)
FingerprintCovers ==
    [][Fingerprint(shared, tab)' = Fingerprint(shared, tab)
           => Screen(shared, tab)' = Screen(shared, tab)]_vars

\* A load offered on the screen is answered 404 only by a daemon without the
\* route, or because the container has gone since: what /status lists is what
\* /engine/load finds.
LoadsFound ==
    [][at = "load" /\ reply.code = "none" /\ reply'.code = "404"
           => older \/ arg \in gone]_vars

\* "Refuse half-copied containers before ejecting anything" (server.rs:274-276).
Costs ==
    /\ at = "load" /\ reply.code = "none" /\ reply'.code # "none"
    /\ engine.up /\ ~engine'.up

RefusesHalfCopied == [][Costs => reply' = Failed]_vars

\* It holds of containers with an index that miss shards or have one cut in its
\* header: a load is refused as long as its engine could not open them.
RefusesMissingShards ==
    [][Costs => \/ reply' = Failed
                \/ Opens(disk[arg])
                \/ disk[arg].index = "absent"]_vars

\* The backend comes back for every command, whatever the daemon does.
BackendReturns == []<>(at = "recv" /\ queue = <<>>)

\* Once the world and the user are quiet, the app knows what the daemon says:
\* stale replies, optimistic updates and failed requests are all made good.
Agrees ==
    IF daemon = "up"
    THEN shared.daemon_up /\ shared.capacity = Capacity(engine.model, engine.up)
    ELSE ~shared.daemon_up

Converges == <>[]Agrees

=============================================================================
