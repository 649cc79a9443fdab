--------------------------- MODULE AppViews_proofs ---------------------------
(***************************************************************************)
(* Proofs about AppViews, for any containers, any number of clicks and any *)
(* events of the world.                                                    *)
(***************************************************************************)
EXTENDS AppViews, SequenceTheorems, TLAPS

USE AppAssumption, ViewsAssumption

(***************************************************************************)
(* Lemmas about the helpers.                                               *)
(***************************************************************************)
\* Copying a piece of a container leaves a directory.
LEMMA CopiedType ==
    ASSUME NEW d \in Directory, NEW e \in Copied(d)
    PROVE  e \in Directory
<1>1. /\ \A f : Grown(f) \in File
      /\ d.shard \in [Shard -> File]
    BY DEF Grown, File, Directory
<1>2. CASE \E s \in Shard : e = [d EXCEPT !.shard[s] = Grown(@)]
    BY <1>1, <1>2 DEF Directory
<1>3. CASE \E i : e = [d EXCEPT !.index = i] /\ i \in {d.index, "whole"}
    BY <1>3 DEF Directory
<1>4. CASE e = [d EXCEPT !.config = TRUE] \/ e = [d EXCEPT !.tokenizer = TRUE]
    BY <1>4 DEF Directory
<1>5. QED
    BY <1>2, <1>3, <1>4 DEF Copied

\* So does removing it all.
LEMMA NoDirectoryType == NoDirectory \in Directory
BY DEF NoDirectory, Directory, File

\* An engine comes up or not.
LEMMA BootsType == ASSUME NEW d \in Directory PROVE Boots(d) \subseteq BOOLEAN
BY DEF Boots, Directory

\* What /status reports.
LEMMA CapacityType ==
    ASSUME NEW m \in Container \cup {None}, NEW u \in BOOLEAN
    PROVE  Capacity(m, u) \in Reports
BY DEF Capacity, Reports

Engines == [up : BOOLEAN, model : Container \cup {None}]

\* The engine after an eject, and after mark_down.
LEMMA EjectedType ==
    /\ Ejected \in Engines
    /\ \A e \in Engines : [e EXCEPT !.up = FALSE] \in Engines
BY DEF Ejected, Engines

\* Engine::load leaves an engine, or none, and a selection.
LEMMA SwapType ==
    ASSUME TypeOK, NEW c \in Container, NEW up \in Boots(disk[c]), Swap(c, up)
    PROVE  engine' \in Engines /\ selected' \in Container
<1>1. up \in BOOLEAN
    BY BootsType DEF TypeOK
<1>2. QED
    BY <1>1, EjectedType DEF Swap, Engines, TypeOK

\* What the views make of Shared has the type of the controls.
LEMMA ControlsType ==
    ASSUME NEW s \in SharedState, NEW t \in Tab
    PROVE  Controls(s, t) \in [eject : BOOLEAN, clear : BOOLEAN, load : SUBSET Container]
BY DEF Controls, Rows, Known, SharedState, Reports

\* Updates of Shared by field.
LEMMA SharedUpdates ==
    ASSUME NEW s \in SharedState, NEW b \in BOOLEAN, NEW c \in Container \cup {None},
           NEW d \in Container \cup {None}
    PROVE  /\ [s EXCEPT !.daemon_up = b] \in SharedState
           /\ [s EXCEPT !.generating = b] \in SharedState
           /\ [s EXCEPT !.system_unsupported = b] \in SharedState
           /\ [s EXCEPT !.eject_unsupported = b] \in SharedState
           /\ [s EXCEPT !.messages = <<>>] \in SharedState
           /\ [s EXCEPT !.loading_model = c] \in SharedState
           /\ [s EXCEPT !.eject_unsupported = b, !.load_unsupported = b,
                        !.system_unsupported = b, !.load_error = c] \in SharedState
           /\ [s EXCEPT !.load_unsupported = b, !.load_error = c,
                        !.loading_model = d] \in SharedState
<1>1. <<>> \in Seq(Message)
    BY EmptySeq
<1>2. /\ [s EXCEPT !.daemon_up = b] \in SharedState
      /\ [s EXCEPT !.generating = b] \in SharedState
      /\ [s EXCEPT !.system_unsupported = b] \in SharedState
      /\ [s EXCEPT !.eject_unsupported = b] \in SharedState
    BY DEF SharedState
<1>3. /\ [s EXCEPT !.messages = <<>>] \in SharedState
      /\ [s EXCEPT !.loading_model = c] \in SharedState
    BY <1>1 DEF SharedState
<1>4. [s EXCEPT !.eject_unsupported = b, !.load_unsupported = b,
               !.system_unsupported = b, !.load_error = c] \in SharedState
    BY DEF SharedState
<1>5. [s EXCEPT !.load_unsupported = b, !.load_error = c,
               !.loading_model = d] \in SharedState
    BY DEF SharedState
<1>6. QED
    BY <1>2, <1>3, <1>4, <1>5

\* run_chat's write keeps the type of Shared, the number of messages and who
\* has said what.
LEMMA AnswerKeeps ==
    ASSUME NEW s \in SharedState, NEW text \in {"text", "empty", "error"}
    PROVE  /\ Answer(s, text) \in SharedState
           /\ Len(Answer(s, text).messages) = Len(s.messages)
           /\ \A i \in DOMAIN s.messages :
                 Answer(s, text).messages[i].role = s.messages[i].role
           /\ \A f \in {"daemon_up", "generating", "loading_model", "capacity"} :
                 Answer(s, text)[f] = s[f]
<1>1. CASE s.messages = <<>>
    BY <1>1 DEF Answer
<1>2. CASE s.messages # <<>>
    <2> DEFINE m == s.messages
               m2 == [m EXCEPT ![Len(m)].content = text]
    <2>1. m \in Seq(Message) /\ Len(m) \in DOMAIN m /\ DOMAIN m = 1..Len(m)
        BY <1>2, EmptySeq DEF SharedState
    <2>2. \A i \in DOMAIN m : m[i] \in Message
        BY <2>1
    <2>3. /\ m2 \in Seq(Message) /\ Len(m2) = Len(m)
          /\ \A i \in DOMAIN m : m2[i].role = m[i].role
        BY <2>1, <2>2 DEF Message
    <2>4. Answer(s, text) = [s EXCEPT !.messages = m2]
        BY <1>2 DEF Answer, SharedState
    <2> HIDE DEF m2
    <2>5. Answer(s, text) \in SharedState /\ Answer(s, text).messages = m2
        BY <2>3, <2>4 DEF SharedState
    <2>6. \A f \in {"daemon_up", "generating", "loading_model", "capacity"} :
             Answer(s, text)[f] = s[f]
        BY <2>4 DEF SharedState
    <2>7. QED
        BY <2>3, <2>5, <2>6
<1>3. QED
    BY <1>1, <1>2

(***************************************************************************)
(* The fingerprint.                                                        *)
(***************************************************************************)
\* What is painted is a function of the fingerprint, whatever happened between
\* the two states it is taken of.
LEMMA FingerprintDecides ==
    ASSUME NEW s, NEW r, NEW t \in Tab, NEW u \in Tab,
           Fingerprint(s, t) = Fingerprint(r, u)
    PROVE  Screen(s, t) = Screen(r, u)
<1>1. /\ t = u
      /\ s.daemon_up = r.daemon_up /\ s.generating = r.generating
      /\ s.eject_unsupported = r.eject_unsupported
      /\ s.load_unsupported = r.load_unsupported
      /\ s.loading_model = r.loading_model /\ s.load_error = r.load_error
      /\ Known(s) = Known(r) /\ ModelName(s) = ModelName(r) /\ EngineUp(s) = EngineUp(r)
      /\ Fingerprint(s, t).pane = Fingerprint(r, t).pane
    BY DEF Fingerprint
<1>2. Busy(s) = Busy(r) /\ Loading(s) = Loading(r) /\ InSlot(s) = InSlot(r)
    BY <1>1 DEF Busy, Loading, InSlot
<1>3. Loaded(s) = Loaded(r)
    BY <1>1, <1>2 DEF Loaded
<1>4. Slot(s) = Slot(r) /\ EjectControl(s) = EjectControl(r)
    BY <1>1, <1>2, <1>3 DEF Slot, EjectControl
<1>5. CASE t = "chat"
    <2>1. Len(s.messages) = Len(r.messages) /\ LastContent(s) = LastContent(r)
        BY <1>1, <1>5 DEF Fingerprint
    <2>2. Pane(s, t) = Pane(r, t)
        BY <1>1, <1>5, <2>1 DEF Pane, ChatPane
    <2>3. QED
        BY <1>1, <1>4, <2>2 DEF Screen
<1>6. CASE t = "library"
    <2>1. Rows(s) = Rows(r) /\ Fitting(s) = Fitting(r)
        BY <1>1, <1>6 DEF Fingerprint
    <2>2. \A c : Row(s, c) = Row(r, c)
        BY <1>1, <1>2, <2>1 DEF Row
    <2>3. Pane(s, t) = Pane(r, t)
        BY <1>1, <1>6, <2>1, <2>2 DEF Pane, LibraryPane
    <2>4. QED
        BY <1>1, <1>4, <2>3 DEF Screen
<1>7. CASE t = "system"
    <2>1. s.system_unsupported = r.system_unsupported
        BY <1>1, <1>7 DEF Fingerprint
    <2>2. Pane(s, t) = Pane(r, t)
        BY <1>1, <1>7, <2>1 DEF Pane, SystemPane
    <2>3. QED
        BY <1>1, <1>4, <2>2 DEF Screen
<1>8. QED
    BY <1>5, <1>6, <1>7 DEF Tab

(***************************************************************************)
(* Type correctness.                                                       *)
(***************************************************************************)
\* The steps of the daemon and of the world.
LEMMA TypeStepDaemon ==
    ASSUME TypeOK, RepliesFit, UNCHANGED viewVars,
           Serves \/ RequestFails \/ StreamSpawns \/ World
    PROVE  (TypeOK /\ RepliesFit)'
<1> USE DEF TypeOK, RepliesFit, viewVars, daemonVars, backendVars, Replies, Code
<1>1. CASE StatusReadsModel
    BY <1>1 DEF StatusReadsModel, Serving, NoReply
<1>2. CASE StatusReadsUp
    <2>1. /\ reply \in [code : {"reading"}, model : Container \cup {None}]
          /\ at \in {"status", "status+system"}
        BY <1>2 DEF StatusReadsUp
    <2>2. reply' \in [code : {"200"}, capacity : Reports]
        BY <1>2, <2>1, CapacityType DEF StatusReadsUp
    <2>3. QED
        BY <1>2, <2>1, <2>2 DEF StatusReadsUp
<1>3. CASE ServesSystem
    BY <1>3 DEF ServesSystem, Serving
<1>4. CASE ServesEject
    <2>1. engine' \in Engines /\ reply' \in [code : {"200", "404"}]
        BY <1>4, EjectedType DEF ServesEject, Engines
    <2>2. QED
        BY <1>4, <2>1 DEF ServesEject, Serving, Engines
<1>5. CASE ServesLoad
    <2>1. at = "load" /\ arg \in Container
        BY <1>5 DEF ServesLoad, Serving
    <2>2. engine' \in Engines /\ selected' \in Container
        BY <1>5, <2>1, SwapType DEF ServesLoad, Engines
    <2>3. reply' \in [code : {"200", "404", "422", "500"}]
        BY <1>5 DEF ServesLoad, Refusal
    <2>4. QED
        BY <1>5, <2>1, <2>2, <2>3 DEF ServesLoad, Engines
<1>6. CASE ServesChat
    BY <1>6 DEF ServesChat, Serving
<1>7. CASE RequestFails
    <2>1. at = "load" => arg \in Container
        OBVIOUS
    <2>2. engine' \in Engines /\ selected' \in Container
        BY <1>7, <2>1, EjectedType, Zenon DEF RequestFails, Engines
    <2>3. reply' = Failed /\ UNCHANGED <<daemon, older, disk, gone, events, shared, queue, at, arg>>
        BY <1>7 DEF RequestFails
    <2>4. QED
        BY <2>2, <2>3 DEF Failed, Engines
<1>8. CASE StreamSpawns
    BY <1>8 DEF StreamSpawns
<1>9. CASE DaemonStops \/ DaemonHangs \/ DaemonStarts
    <2>1. engine' \in Engines
        BY <1>9, EjectedType DEF DaemonStops, DaemonHangs, DaemonStarts, Engines
    <2>2. /\ daemon' \in {"up", "hung", "down"} /\ older' \in BOOLEAN
          /\ selected' \in Container
          /\ events' = events + 1 /\ events < MaxEvents
          /\ UNCHANGED <<disk, gone, shared, queue, at, arg, reply>>
        BY <1>9 DEF DaemonStops, DaemonHangs, DaemonStarts, Happens
    <2>3. events' \in 0..MaxEvents
        BY <2>2
    <2>4. QED
        BY <2>1, <2>2, <2>3 DEF Engines
<1>10. CASE OthersAct
    <2>1. engine \in Engines /\ selected \in Container
        BY DEF Engines
    <2>2. ASSUME engine' = Ejected \/ engine' = [engine EXCEPT !.up = FALSE],
                 UNCHANGED selected
          PROVE  engine' \in Engines /\ selected' \in Container
        <3>1. CASE engine' = Ejected
            BY <2>1, <2>2, <3>1, EjectedType, Zenon
        <3>2. CASE engine' = [engine EXCEPT !.up = FALSE]
            BY <2>1, <2>2, <3>2, EjectedType, Zenon
        <3>3. QED
            BY <2>2, <3>1, <3>2
    <2>3. ASSUME NEW c \in Container, NEW up \in Boots(disk[c]), Swap(c, up)
          PROVE  engine' \in Engines /\ selected' \in Container
        BY <2>3, SwapType
    <2>4. engine' \in Engines /\ selected' \in Container
        BY <1>10, <2>2, <2>3, Zenon DEF OthersAct
    <2>5. QED
        BY <1>10, <2>4 DEF OthersAct, Happens, Engines
<1>11. ASSUME NEW c \in Container, Copies(c) \/ Removes(c)
       PROVE  (TypeOK /\ RepliesFit)'
    <2>1. \A d \in Copied(disk[c]) : d \in Directory
        BY CopiedType
    <2>2. disk' \in [Container -> Directory] /\ gone' \subseteq Container
        BY <1>11, <2>1, NoDirectoryType DEF Copies, Removes
    <2>3. QED
        BY <1>11, <2>2 DEF Copies, Removes, Happens
<1>12. QED
    BY <1>1, <1>2, <1>3, <1>4, <1>5, <1>6, <1>7, <1>8, <1>9, <1>10, <1>11
    DEF Serves, World

\* The steps of the backend and of its events task.
LEMMA TypeStepBackend ==
    ASSUME TypeOK, RepliesFit, UNCHANGED viewVars,
           BackendSteps \/ StreamGrows \/ StreamEnds \/ StreamFails \/ Connects
    PROVE  (TypeOK /\ RepliesFit)'
<1> USE DEF TypeOK, RepliesFit, viewVars, daemonVars, backendVars, Replies,
            NoReply, Goes, Waiting
<1>1. ASSUME NEW k, TakesCommand(k)
      PROVE  /\ queue' \in Seq(Cmd) /\ Head(queue) \in Cmd /\ Head(queue).kind = k
             /\ UNCHANGED daemonVars
    BY <1>1 DEF TakesCommand
<1>2. CASE TakesRefresh
    <2>1. shared' = [shared EXCEPT !.eject_unsupported = FALSE, !.load_unsupported = FALSE,
                        !.system_unsupported = FALSE, !.load_error = None]
        BY <1>2 DEF TakesRefresh
    <2>2. shared' \in SharedState
        BY <2>1, SharedUpdates, Zenon
    <2>3. QED
        BY <1>1, <1>2, <2>2 DEF TakesRefresh
<1>3. CASE TakesChat
    <2>1. shared.messages \o <<User, Assistant>> \in Seq(Message)
        BY DEF SharedState, Message, User, Assistant
    <2>2. shared' \in SharedState
        BY <1>3, <2>1 DEF TakesChat, SharedState
    <2>3. QED
        BY <1>1, <1>3, <2>2 DEF TakesChat
<1>4. CASE TakesEject
    BY <1>1, <1>4 DEF TakesEject
<1>5. CASE TakesLoad
    <2>1. Head(queue).model \in Container
        <3>1. Head(queue) \in Cmd /\ Head(queue).kind = "Load"
            BY <1>1, <1>5 DEF TakesLoad
        <3>2. QED
            BY <3>1 DEF Cmd
    <2>2. shared' \in SharedState
        BY <1>5, <2>1, SharedUpdates, Zenon DEF TakesLoad
    <2>3. QED
        BY <1>1, <1>5, <2>1, <2>2 DEF TakesLoad
<1>6. CASE Polls
    BY <1>6 DEF Polls
<1>7. CASE TakesStatus
    <2>1. /\ at \in {"status", "status+system"}
          /\ reply = Failed \/ reply \in [code : {"200"}, capacity : Reports]
        BY <1>7 DEF TakesStatus, Takes
    <2>2. WithStatus(shared) \in SharedState
        BY <2>1 DEF WithStatus, SharedState
    <2>3. QED
        BY <1>7, <2>2 DEF TakesStatus, Takes
<1>8. CASE TakesSystem
    <2>1. shared' \in SharedState
        <3> DEFINE b == shared.system_unsupported \/ reply.code = "404"
        <3>1. b \in BOOLEAN
            OBVIOUS
        <3>2. shared' = [shared EXCEPT !.system_unsupported = b]
            BY <1>8 DEF TakesSystem
        <3>3. QED
            BY <3>1, <3>2, SharedUpdates, Zenon
    <2>2. QED
        BY <1>8, <2>1 DEF TakesSystem, Takes
<1>9. CASE TakesEjected
    <2>1. (shared.eject_unsupported \/ reply.code = "404") \in BOOLEAN
        OBVIOUS
    <2>2. shared' \in SharedState
        BY <1>9, <2>1, SharedUpdates, Zenon DEF TakesEjected, Reached
    <2>3. QED
        BY <1>9, <2>2 DEF TakesEjected, Takes
<1>10. CASE TakesLoaded
    <2> DEFINE e == IF reply.code \in {"422", "500"} THEN arg ELSE None
               b == shared.load_unsupported \/ reply.code = "404"
               s == [shared EXCEPT !.load_unsupported = b, !.load_error = e,
                                   !.loading_model = None]
    <2>1. e \in Container \cup {None} /\ b \in BOOLEAN
        OBVIOUS
    <2>2. shared' = Reached(s)
        BY <1>10, Zenon DEF TakesLoaded
    <2>3. s \in SharedState
        <3> HIDE DEF e, b
        <3>1. QED
            BY <2>1, SharedUpdates, Zenon
    <2>4. shared' \in SharedState
        <3> HIDE DEF s
        <3>1. QED
            BY <2>2, <2>3, SharedUpdates, Zenon DEF Reached
    <2>5. QED
        BY <1>10, <2>4 DEF TakesLoaded, Takes
<1>11. ASSUME NEW s \in SharedState
       PROVE  WithFailure(s) \in SharedState
    <2>1. [s EXCEPT !.generating = FALSE] \in SharedState
        BY DEF SharedState
    <2>2. QED
        BY <2>1, AnswerKeeps DEF WithFailure
<1>12. CASE TakesChatting
    <2>1. [shared EXCEPT !.daemon_up = FALSE] \in SharedState
        BY DEF SharedState
    <2>2. shared' \in SharedState
        BY <1>11, <1>12, <2>1 DEF TakesChatting
    <2>3. QED
        BY <1>12, <2>2 DEF TakesChatting, Takes
<1>13. CASE StreamGrows
    BY <1>13, AnswerKeeps DEF StreamGrows
<1>14. CASE StreamEnds
    BY <1>14 DEF StreamEnds, SharedState
<1>15. CASE StreamFails
    BY <1>11, <1>15 DEF StreamFails
<1>16. CASE Connects
    <2>1. shared' \in SharedState
        BY <1>16, SharedUpdates DEF Connects
    <2>2. QED
        BY <1>16, <2>1 DEF Connects
<1>17. QED
    BY <1>2, <1>3, <1>4, <1>5, <1>6, <1>7, <1>8, <1>9, <1>10, <1>12, <1>13,
       <1>14, <1>15, <1>16 DEF BackendSteps

\* The steps of the views and of the user.
LEMMA TypeStepViews ==
    ASSUME TypeOK, RepliesFit, MaybeNotify \/ UserActs
    PROVE  (TypeOK /\ RepliesFit)'
<1> USE DEF TypeOK, RepliesFit, appVars, daemonVars, backendVars
<1>1. ASSUME Paints, shared' \in SharedState, tab' \in Tab
      PROVE  painted' \in [eject : BOOLEAN, clear : BOOLEAN, load : SUBSET Container]
    BY <1>1, ControlsType DEF Paints
<1>2. CASE MaybeNotify
    BY <1>1, <1>2 DEF MaybeNotify
<1>3. ASSUME NEW k \in {"SendChat", "RefreshStatus", "Eject"}, Sends(k, None)
      PROVE  queue' \in Seq(Cmd)
    BY <1>3 DEF Sends, Cmd
<1>4. CASE ClickSend
    BY <1>1, <1>3, <1>4 DEF ClickSend, Click
<1>5. CASE ClickClear
    <2>1. shared' \in SharedState
        BY <1>5, SharedUpdates DEF ClickClear
    <2>2. QED
        BY <1>1, <1>5, <2>1 DEF ClickClear, Click
<1>6. CASE ClickEject
    <2>1. shared' \in SharedState
        BY <1>6 DEF ClickEject, Known, SharedState, Reports
    <2>2. QED
        BY <1>1, <1>3, <1>6, <2>1 DEF ClickEject, Click
<1>7. CASE ClickRefresh
    BY <1>3, <1>7 DEF ClickRefresh, Click
<1>8. ASSUME NEW c \in Container, ClickLoad(c)
      PROVE  (TypeOK /\ RepliesFit)'
    <2>1. queue' \in Seq(Cmd)
        BY <1>8 DEF ClickLoad, Sends, Cmd
    <2>2. QED
        BY <1>1, <1>8, <2>1 DEF ClickLoad, Click
<1>9. ASSUME NEW t \in Tab, ClickTab(t)
      PROVE  (TypeOK /\ RepliesFit)'
    BY <1>1, <1>9 DEF ClickTab
<1>10. QED
    BY <1>2, <1>4, <1>5, <1>6, <1>7, <1>8, <1>9 DEF UserActs

\* Every variable keeps its type; a status request is answered with a status.
THEOREM TypeCorrect == Spec => [](TypeOK /\ RepliesFit)
<1>1. AppInit => TypeOK /\ RepliesFit
    <2> SUFFICES ASSUME AppInit
                 PROVE  TypeOK /\ RepliesFit
        OBVIOUS
    <2>1. shared \in SharedState
        BY EmptySeq DEF AppInit, Init, SharedState
    <2>2. tab \in Tab
        BY DEF AppInit, ViewInit, Tab
    <2>3. painted \in [eject : BOOLEAN, clear : BOOLEAN, load : SUBSET Container]
        BY <2>1, <2>2, ControlsType DEF AppInit, ViewInit
    <2>4. queue \in Seq(Cmd) /\ reply \in Replies
        BY EmptySeq DEF AppInit, Init, NoReply, Replies
    <2>5. disk \in [Container -> Directory]
        BY DEF AppInit, Init
    <2>6. /\ engine \in Engines /\ selected \in Container /\ arg = None
          /\ at = "status+system" /\ reply = NoReply
          /\ daemon \in {"up", "down"} /\ older \in BOOLEAN /\ gone = {}
          /\ events = 0 /\ clicks = 0
        BY DEF AppInit, Init, ViewInit, Engines
    <2>7. TypeOK
        BY <2>1, <2>2, <2>3, <2>4, <2>5, <2>6 DEF TypeOK, Waiting, Engines
    <2>8. RepliesFit
        BY <2>6 DEF RepliesFit, NoReply
    <2>9. QED
        BY <2>7, <2>8
<1>2. TypeOK /\ RepliesFit /\ [Next]_vars => (TypeOK /\ RepliesFit)'
    <2>1. CASE UNCHANGED vars
        BY <2>1 DEF vars, appVars, daemonVars, backendVars, viewVars, TypeOK, RepliesFit
    <2>2. QED
        BY <2>1, TypeStepDaemon, TypeStepBackend, TypeStepViews DEF Next, Streams
<1>3. QED
    BY <1>1, <1>2, PTL DEF Spec

\* A step that changes what would be painted changes the fingerprint.
THEOREM FingerprintFaithful == Spec => FingerprintCovers
<1>1. TypeOK /\ TypeOK' =>
        (Fingerprint(shared, tab)' = Fingerprint(shared, tab)
            => Screen(shared, tab)' = Screen(shared, tab))
    BY FingerprintDecides DEF TypeOK
<1>2. QED
    BY <1>1, TypeCorrect, PTL DEF FingerprintCovers

(***************************************************************************)
(* The flags and the transcript.                                           *)
(***************************************************************************)
\* The daemon and the world do not touch Shared.
LEMMA SharedIsTheApps ==
    ASSUME Serves \/ RequestFails \/ StreamSpawns \/ World
    PROVE  UNCHANGED <<shared, at, arg>>
<1>1. CASE Serves
    BY <1>1 DEF Serves, StatusReadsModel, StatusReadsUp, ServesSystem, ServesEject,
                ServesLoad, ServesChat
<1>2. CASE RequestFails \/ StreamSpawns
    BY <1>2 DEF RequestFails, StreamSpawns, backendVars
<1>3. CASE World
    BY <1>3 DEF World, DaemonStops, DaemonHangs, DaemonStarts, OthersAct, Copies,
                Removes, Happens, backendVars
<1>4. QED
    BY <1>1, <1>2, <1>3

\* The flags change with the step the backend takes.
LEMMA FlagsStep ==
    ASSUME TypeOK, FlagsTell, [Next]_vars
    PROVE  FlagsTell'
<1> USE DEF FlagsTell, Chatting, Goes
<1>0. shared \in SharedState
    BY DEF TypeOK
<1>1. CASE UNCHANGED <<shared, at, arg>>
    BY <1>1
<1>2. CASE TakesRefresh \/ TakesChat \/ TakesEject \/ TakesLoad
    BY <1>0, <1>2 DEF TakesRefresh, TakesChat, TakesEject, TakesLoad, TakesCommand,
                      SharedState
<1>3. CASE Polls
    BY <1>3 DEF Polls
<1>4. CASE TakesStatus
    BY <1>0, <1>4 DEF TakesStatus, Takes, WithStatus, SharedState
<1>5. CASE TakesSystem
    BY <1>0, <1>5 DEF TakesSystem, Takes, SharedState
<1>6. CASE TakesEjected
    BY <1>0, <1>6 DEF TakesEjected, Takes, Reached, SharedState
<1>7. CASE TakesLoaded
    BY <1>0, <1>7 DEF TakesLoaded, Takes, Reached, SharedState
<1>8. ASSUME NEW s \in SharedState
      PROVE  /\ ~WithFailure(s).generating
             /\ WithFailure(s).loading_model = s.loading_model
    <2>1. [s EXCEPT !.generating = FALSE] \in SharedState
        BY DEF SharedState
    <2>2. QED
        BY <2>1, AnswerKeeps DEF WithFailure, SharedState
<1>9. CASE TakesChatting
    <2>1. [shared EXCEPT !.daemon_up = FALSE] \in SharedState
        BY <1>0 DEF SharedState
    <2>2. QED
        BY <1>0, <1>8, <1>9, <2>1 DEF TakesChatting, Takes, SharedState
<1>10. CASE StreamGrows
    BY <1>0, <1>10, AnswerKeeps DEF StreamGrows
<1>11. CASE StreamEnds
    BY <1>0, <1>11 DEF StreamEnds, SharedState
<1>12. CASE StreamFails
    BY <1>0, <1>8, <1>12 DEF StreamFails
<1>13. CASE Connects
    BY <1>0, <1>13 DEF Connects, SharedState
<1>14. CASE UserActs
    <2>1. /\ UNCHANGED <<at, arg>>
          /\ shared'.generating = shared.generating
          /\ shared'.loading_model = shared.loading_model
        BY <1>0, <1>14 DEF UserActs, ClickSend, ClickClear, ClickEject, ClickRefresh,
            ClickLoad, ClickTab, Click, SharedState, appVars, backendVars
    <2>2. QED
        BY <2>1
<1>15. QED
    BY <1>1, <1>2, <1>3, <1>4, <1>5, <1>6, <1>7, <1>9, <1>10, <1>11, <1>12, <1>13,
       <1>14, SharedIsTheApps
    DEF Next, BackendSteps, Streams, MaybeNotify, vars, appVars, backendVars

\* The flags tell what the backend does, for any series of commands, clicks and
\* replies.
THEOREM FlagsHonest == Spec => []FlagsTell
<1>1. AppInit => FlagsTell
    BY DEF AppInit, Init, FlagsTell, Chatting
<1>2. TypeOK /\ FlagsTell /\ [Next]_vars => FlagsTell'
    BY FlagsStep
<1>3. QED
    BY <1>1, <1>2, TypeCorrect, PTL DEF Spec

\* What OwnAnswer says of the transcript m.
Alternates(m) ==
    /\ Len(m) % 2 = 0
    /\ \A i \in DOMAIN m : m[i].role = IF i % 2 = 1 THEN "user" ELSE "assistant"

\* A question with its answer keeps the turns.
LEMMA AlternatesOn ==
    ASSUME NEW m \in Seq(Message), Alternates(m)
    PROVE  Alternates(m \o <<User, Assistant>>)
<1> DEFINE p == m \o <<User, Assistant>>
<1>1. /\ Len(m) \in Nat /\ DOMAIN m = 1..Len(m)
      /\ Len(p) = Len(m) + 2 /\ DOMAIN p = 1..(Len(m) + 2)
      /\ \A i \in 1..Len(m) : p[i] = m[i]
      /\ p[Len(m) + 1] = User /\ p[Len(m) + 2] = Assistant
    OBVIOUS
<1>2. Len(m) % 2 = 0 => (Len(m) + 1) % 2 = 1 /\ (Len(m) + 2) % 2 = 0
    BY <1>1
<1>3. \A i \in DOMAIN p : i \in 1..Len(m) \/ i = Len(m) + 1 \/ i = Len(m) + 2
    BY <1>1
<1> HIDE DEF p
<1>4. \A i \in 1..Len(m) : p[i].role = IF i % 2 = 1 THEN "user" ELSE "assistant"
    BY <1>1 DEF Alternates
<1>5. p[Len(m) + 1].role = "user" /\ p[Len(m) + 2].role = "assistant"
    BY <1>1 DEF User, Assistant
<1>6. Alternates(p)
    BY <1>1, <1>2, <1>3, <1>4, <1>5 DEF Alternates
<1>7. QED
    BY <1>6 DEF p

\* So does a write into the answer.
LEMMA AnswerAlternates ==
    ASSUME NEW s \in SharedState, NEW text \in {"text", "empty", "error"},
           Alternates(s.messages)
    PROVE  /\ Alternates(Answer(s, text).messages)
           /\ s.messages # <<>> => Answer(s, text).messages # <<>>
<1>1. /\ Answer(s, text).messages \in Seq(Message) /\ s.messages \in Seq(Message)
      /\ Len(Answer(s, text).messages) = Len(s.messages)
    BY AnswerKeeps DEF SharedState
<1>2. DOMAIN Answer(s, text).messages = DOMAIN s.messages
    BY <1>1
<1>3. Alternates(Answer(s, text).messages)
    <2>1. \A i \in DOMAIN s.messages :
             Answer(s, text).messages[i].role = s.messages[i].role
        BY AnswerKeeps
    <2>2. QED
        BY <1>1, <1>2, <2>1 DEF Alternates
<1>4. QED
    BY <1>1, <1>3, EmptySeq

\* A step keeps the turns, and the transcript is emptied only while nothing is
\* generated.
LEMMA TranscriptStep ==
    ASSUME TypeOK, FlagsTell, OwnAnswer, [Next]_vars
    PROVE  OwnAnswer'
<1> DEFINE Own(s, a) == Alternates(s.messages) /\ (a \in Chatting => s.messages # <<>>)
<1>0. /\ shared \in SharedState /\ shared.messages \in Seq(Message)
      /\ Own(shared, at)
    BY DEF TypeOK, SharedState, OwnAnswer, Alternates
<1>1. SUFFICES Own(shared', at')
    BY DEF OwnAnswer, Alternates
<1>2. CASE UNCHANGED <<shared, at>>
    BY <1>0, <1>2
<1>3. ASSUME shared'.messages = shared.messages,
             at' = at \/ at' \notin Chatting \/ (at = "chat" /\ at' = "stream")
      PROVE  Own(shared', at')
    BY <1>0, <1>3 DEF Chatting
<1>4. CASE TakesChat
    <2>1. shared'.messages = shared.messages \o <<User, Assistant>>
        BY <1>0, <1>4 DEF TakesChat, SharedState
    <2>2. shared'.messages # <<>>
        BY <1>0, <2>1
    <2>3. QED
        BY <1>0, <2>1, <2>2, AlternatesOn
<1>5. CASE TakesRefresh \/ TakesEject \/ TakesLoad \/ Polls
    BY <1>0, <1>3, <1>5 DEF TakesRefresh, TakesEject, TakesLoad, Polls, Goes, Chatting,
                            SharedState
<1>6. CASE TakesStatus
    BY <1>0, <1>3, <1>6 DEF TakesStatus, Goes, Chatting, WithStatus, SharedState
<1>7. CASE TakesSystem
    BY <1>0, <1>3, <1>7 DEF TakesSystem, Goes, Chatting, SharedState
<1>8. CASE TakesEjected \/ TakesLoaded
    BY <1>0, <1>3, <1>8 DEF TakesEjected, TakesLoaded, Goes, Chatting, Reached,
                            SharedState
<1>9. ASSUME NEW s \in SharedState, Alternates(s.messages)
      PROVE  Alternates(WithFailure(s).messages)
    <2>1. /\ [s EXCEPT !.generating = FALSE] \in SharedState
          /\ [s EXCEPT !.generating = FALSE].messages = s.messages
        BY DEF SharedState
    <2>2. QED
        BY <1>9, <2>1, AnswerAlternates DEF WithFailure
<1>10. CASE TakesChatting
    <2>1. /\ [shared EXCEPT !.daemon_up = FALSE] \in SharedState
          /\ [shared EXCEPT !.daemon_up = FALSE].messages = shared.messages
        BY <1>0 DEF SharedState
    <2>2. CASE reply = Failed
        BY <1>0, <1>9, <1>10, <2>1, <2>2 DEF TakesChatting, Goes, Chatting
    <2>3. CASE reply # Failed
        BY <1>3, <1>10, <2>3 DEF TakesChatting, Takes, Goes
    <2>4. QED
        BY <2>2, <2>3
<1>11. CASE StreamGrows
    BY <1>0, <1>11, AnswerAlternates DEF StreamGrows
<1>12. CASE StreamEnds
    BY <1>0, <1>3, <1>12 DEF StreamEnds, Goes, Chatting, SharedState
<1>13. CASE StreamFails
    BY <1>0, <1>9, <1>13 DEF StreamFails, Goes, Chatting
<1>14. CASE Connects
    BY <1>0, <1>3, <1>14 DEF Connects, SharedState
<1>15. CASE ClickClear
    <2>1. CASE shared.generating
        BY <1>0, <1>15, <2>1 DEF ClickClear, Click
    <2>2. CASE ~shared.generating
        <3>1. shared'.messages = <<>> /\ at' = at /\ at \notin Chatting
            BY <1>0, <1>15, <2>2 DEF ClickClear, Click, FlagsTell, SharedState
        <3>2. Alternates(<<>>)
            BY DEF Alternates
        <3>3. QED
            BY <3>1, <3>2
    <2>3. QED
        BY <2>1, <2>2
<1>16. CASE UserActs /\ ~ClickClear
    <2>1. at' = at /\ shared'.messages = shared.messages
        BY <1>0, <1>16 DEF UserActs, ClickSend, ClickEject, ClickRefresh, ClickLoad,
            ClickTab, Click, SharedState, appVars, backendVars
    <2>2. QED
        BY <1>3, <2>1
<1>17. QED
    BY <1>2, <1>4, <1>5, <1>6, <1>7, <1>8, <1>10, <1>11, <1>12, <1>13, <1>14, <1>15,
       <1>16, SharedIsTheApps
    DEF Next, BackendSteps, Streams, MaybeNotify, vars, appVars, backendVars

\* The backend writes into an answer of its own, whatever is clicked meanwhile.
THEOREM AnswersOwned == Spec => []OwnAnswer
<1>1. AppInit => OwnAnswer
    BY DEF AppInit, Init, OwnAnswer, Chatting
<1>2. TypeOK /\ FlagsTell /\ OwnAnswer /\ [Next]_vars => OwnAnswer'
    BY TranscriptStep
<1>3. QED
    BY <1>1, <1>2, TypeCorrect, FlagsHonest, PTL DEF Spec

(***************************************************************************)
(* Loads.                                                                  *)
(***************************************************************************)
\* Of containers with an index the ones with a missing or unreadable shard do
\* not pass verify_container.
LEMMA VerifiedOpens ==
    ASSUME NEW d \in Directory, Loadable(d), d.index # "absent"
    PROVE  Opens(d)
<1>1. d.index = "whole"
    BY DEF Loadable, Verified, Directory
<1>2. QED
    BY <1>1 DEF Loadable, Verified, Listed, Opens

\* What a load costs: only ServesLoad and RequestFails both answer one and take
\* an engine down.
LEMMA CostlySteps ==
    ASSUME Costs, [Next]_vars
    PROVE  ServesLoad \/ RequestFails
<1>1. ASSUME reply' = reply \/ engine' = engine \/ at # "load"
      PROVE  FALSE
    BY <1>1 DEF Costs
<1>2. CASE Serves /\ ~ServesLoad
    BY <1>1, <1>2 DEF Serves, StatusReadsModel, StatusReadsUp, ServesSystem, ServesEject,
                      ServesChat, Serving, daemonVars
<1>3. CASE BackendSteps
    BY <1>1, <1>3 DEF BackendSteps, TakesRefresh, TakesChat, TakesEject, TakesLoad,
        TakesCommand, Polls, TakesStatus, TakesSystem, TakesEjected, TakesLoaded,
        TakesChatting, Takes, daemonVars
<1>4. CASE Streams \/ Connects
    BY <1>1, <1>4 DEF Streams, StreamSpawns, StreamGrows, StreamEnds, StreamFails, Connects
<1>5. CASE World
    BY <1>1, <1>5 DEF World, DaemonStops, DaemonHangs, DaemonStarts, OthersAct, Copies,
        Removes, Happens, backendVars
<1>6. CASE MaybeNotify \/ UserActs \/ UNCHANGED vars
    BY <1>1, <1>6 DEF MaybeNotify, UserActs, ClickSend, ClickClear, ClickEject,
        ClickRefresh, ClickLoad, ClickTab, Click, vars, appVars, daemonVars, backendVars
<1>7. QED
    BY <1>2, <1>3, <1>4, <1>5, <1>6 DEF Next

\* A running engine is not given up for a container that misses shards, if its
\* index says which it has.
THEOREM MissingShardsRefused == Spec => RefusesMissingShards
<1>1. TypeOK /\ RepliesFit /\ [Next]_vars =>
          (Costs => \/ reply' = Failed \/ Opens(disk[arg]) \/ disk[arg].index = "absent")
    <2> SUFFICES ASSUME TypeOK, RepliesFit, [Next]_vars, Costs, reply' # Failed,
                        disk[arg].index # "absent"
                 PROVE  Opens(disk[arg])
        OBVIOUS
    <2>1. ServesLoad
        BY CostlySteps DEF RequestFails
    <2>2. Loadable(disk[arg])
        BY <2>1 DEF ServesLoad, Costs
    <2>3. disk[arg] \in Directory
        BY DEF TypeOK, RepliesFit, Costs
    <2>4. QED
        BY <2>2, <2>3, VerifiedOpens
<1>2. QED
    BY <1>1, TypeCorrect, PTL DEF Spec, RefusesMissingShards

-----------------------------------------------------------------------------
\* What a load finds, unless it has been removed.
Findable == {c \in Container : Listed(disk[c]) \/ c \in gone}

\* Every container the app may yet ask to be loaded has been listed once: the
\* rows it knows and is about to know, the buttons painted of them, the
\* commands these have sent, and the load in flight.
OffersFindable ==
    /\ Rows(shared) \subseteq Findable
    /\ at \in {"status", "status+system"} /\ reply.code = "200"
          => reply.capacity.rows \subseteq Findable
    /\ painted.load \subseteq Findable
    /\ \A i \in DOMAIN queue : queue[i].kind = "Load" => queue[i].model \in Findable
    /\ at = "load" => arg \in Findable

\* Copying never takes a config.json away.
LEMMA CopiedListed ==
    ASSUME NEW d \in Directory, NEW e \in Copied(d), Listed(d)
    PROVE  Listed(e)
<1>1. CASE \E s \in Shard : e = [d EXCEPT !.shard[s] = Grown(@)]
    BY <1>1 DEF Directory, Listed
<1>2. CASE \E i : e = [d EXCEPT !.index = i]
    BY <1>2 DEF Directory, Listed
<1>3. CASE e = [d EXCEPT !.config = TRUE] \/ e = [d EXCEPT !.tokenizer = TRUE]
    BY <1>3 DEF Directory, Listed
<1>4. QED
    BY <1>1, <1>2, <1>3 DEF Copied

\* The world copies and removes containers, and nothing else touches them.
LEMMA FindableGrows ==
    ASSUME TypeOK, [Next]_vars
    PROVE  Findable \subseteq Findable'
<1>1. CASE UNCHANGED <<disk, gone>>
    BY <1>1 DEF Findable
<1>2. ASSUME NEW c \in Container, Copies(c)
      PROVE  Findable \subseteq Findable'
    <2>1. PICK d \in Copied(disk[c]) : disk' = [disk EXCEPT ![c] = d]
        BY <1>2 DEF Copies
    <2>2. \A e \in Container : Listed(disk[e]) => Listed(disk'[e])
        BY <2>1, CopiedListed DEF TypeOK
    <2>3. gone' = gone
        BY <1>2 DEF Copies
    <2>4. QED
        BY <2>2, <2>3 DEF Findable
<1>3. ASSUME NEW c \in Container, Removes(c)
      PROVE  Findable \subseteq Findable'
    BY <1>3 DEF Removes, Findable, TypeOK
<1>4. CASE World
    BY <1>1, <1>2, <1>3, <1>4 DEF World, DaemonStops, DaemonHangs, DaemonStarts, OthersAct
<1>5. CASE Serves \/ RequestFails \/ Streams \/ Connects
    BY <1>1, <1>5 DEF Serves, StatusReadsModel, StatusReadsUp, ServesSystem, ServesEject,
        ServesLoad, ServesChat, RequestFails, Streams, StreamSpawns, StreamGrows,
        StreamEnds, StreamFails, Connects, daemonVars
<1>6. CASE BackendSteps
    BY <1>1, <1>6 DEF BackendSteps, TakesRefresh, TakesChat, TakesEject, TakesLoad,
        TakesCommand, Polls, TakesStatus, TakesSystem, TakesEjected, TakesLoaded,
        TakesChatting, Takes, daemonVars
<1>7. CASE MaybeNotify \/ UserActs \/ UNCHANGED vars
    BY <1>1, <1>7 DEF MaybeNotify, UserActs, ClickSend, ClickClear, ClickEject,
        ClickRefresh, ClickLoad, ClickTab, Click, vars, appVars, daemonVars
<1>8. QED
    BY <1>4, <1>5, <1>6, <1>7 DEF Next

\* The rows the app knows come from the status it has been answered.
LEMMA RowsStep ==
    ASSUME TypeOK, RepliesFit, OffersFindable, [Next]_vars
    PROVE  Rows(shared') \subseteq Findable
<1>0. shared \in SharedState /\ Rows(shared) \subseteq Findable
    BY DEF TypeOK, OffersFindable
<1>1. ASSUME shared'.capacity = shared.capacity
      PROVE  Rows(shared') \subseteq Findable
    BY <1>0, <1>1 DEF Rows, Known
<1>2. ASSUME NEW s \in SharedState
      PROVE  WithFailure(s).capacity = s.capacity
    <2>1. /\ [s EXCEPT !.generating = FALSE] \in SharedState
          /\ [s EXCEPT !.generating = FALSE].capacity = s.capacity
        BY DEF SharedState
    <2>2. QED
        BY <2>1, AnswerKeeps DEF WithFailure
<1>3. CASE TakesStatus
    <2>1. /\ at \in {"status", "status+system"}
          /\ shared' = WithStatus(shared)
          /\ reply # Failed => reply.code = "200"
        BY <1>3 DEF TakesStatus, Takes, RepliesFit, NoReply
    <2>2. CASE reply = Failed
        BY <1>0, <1>1, <2>1, <2>2 DEF WithStatus, SharedState
    <2>3. CASE reply # Failed
        <3>1. shared'.capacity = reply.capacity /\ reply.capacity.rows \subseteq Findable
            BY <1>0, <2>1, <2>3 DEF WithStatus, SharedState, OffersFindable
        <3>2. QED
            BY <3>1 DEF Rows
    <2>4. QED
        BY <2>2, <2>3
<1>4. CASE TakesRefresh \/ TakesEject \/ TakesLoad \/ Polls \/ TakesChat
    BY <1>0, <1>1, <1>4 DEF TakesRefresh, TakesEject, TakesLoad, Polls, TakesChat, SharedState
<1>5. CASE TakesSystem \/ TakesEjected \/ TakesLoaded
    BY <1>0, <1>1, <1>5 DEF TakesSystem, TakesEjected, TakesLoaded, Reached, SharedState
<1>6. CASE TakesChatting
    <2>1. /\ [shared EXCEPT !.daemon_up = FALSE] \in SharedState
          /\ [shared EXCEPT !.daemon_up = FALSE].capacity = shared.capacity
        BY <1>0 DEF SharedState
    <2>2. shared'.capacity = shared.capacity
        BY <1>2, <1>6, <2>1 DEF TakesChatting
    <2>3. QED
        BY <1>1, <2>2
<1>7. CASE StreamGrows
    BY <1>0, <1>1, <1>7, AnswerKeeps DEF StreamGrows
<1>8. CASE StreamEnds \/ Connects
    BY <1>0, <1>1, <1>8 DEF StreamEnds, Connects, SharedState
<1>9. CASE StreamFails
    BY <1>0, <1>1, <1>2, <1>9 DEF StreamFails
<1>10. CASE UserActs
    <2>1. CASE ClickEject /\ Known(shared)
        <3>1. shared.capacity \in Reports /\ shared' = [shared EXCEPT !.capacity.up = FALSE]
            BY <1>0, <2>1 DEF ClickEject, Known, SharedState
        <3>2. shared'.capacity.rows = shared.capacity.rows
            BY <1>0, <3>1 DEF SharedState, Reports
        <3>3. QED
            BY <1>0, <2>1, <3>2 DEF Rows
    <2>2. CASE ~(ClickEject /\ Known(shared))
        BY <1>0, <1>1, <1>10, <2>2 DEF UserActs, ClickSend, ClickClear, ClickEject,
            ClickRefresh, ClickLoad, ClickTab, SharedState, appVars, backendVars
    <2>3. QED
        BY <2>1, <2>2
<1>11. CASE MaybeNotify \/ UNCHANGED vars
    BY <1>1, <1>11 DEF MaybeNotify, vars, appVars, backendVars
<1>12. QED
    BY <1>1, <1>3, <1>4, <1>5, <1>6, <1>7, <1>8, <1>9, <1>10, <1>11, SharedIsTheApps
    DEF Next, BackendSteps, Streams

\* A status lists what is in the model root as it is put together.
LEMMA ReplyStep ==
    ASSUME TypeOK, RepliesFit, OffersFindable, [Next]_vars,
           at' \in {"status", "status+system"}, reply'.code = "200"
    PROVE  reply'.capacity.rows \subseteq Findable
<1>1. ASSUME at' = at, reply' = reply
      PROVE  reply'.capacity.rows \subseteq Findable
    BY <1>1 DEF OffersFindable
<1>2. ASSUME reply' = NoReply \/ reply' = Failed
      PROVE  FALSE
    BY <1>2 DEF NoReply, Failed
<1>3. CASE StatusReadsUp
    BY <1>3 DEF StatusReadsUp, Capacity, Findable
<1>4. CASE StatusReadsModel \/ ServesSystem \/ ServesEject \/ ServesLoad \/ ServesChat
    BY <1>4 DEF StatusReadsModel, ServesSystem, ServesEject, ServesLoad, ServesChat, Serving
<1>5. CASE RequestFails
    BY <1>2, <1>5 DEF RequestFails
<1>6. CASE BackendSteps
    BY <1>2, <1>6 DEF BackendSteps, TakesRefresh, TakesChat, TakesEject, TakesLoad, Polls,
        TakesStatus, TakesSystem, TakesEjected, TakesLoaded, TakesChatting, Goes
<1>7. CASE Streams \/ Connects
    BY <1>1, <1>2, <1>7 DEF Streams, StreamSpawns, StreamGrows, StreamEnds, StreamFails,
        Connects, Goes, backendVars
<1>8. CASE World
    BY <1>1, <1>8 DEF World, DaemonStops, DaemonHangs, DaemonStarts, OthersAct, Copies,
        Removes, Happens, backendVars
<1>9. CASE MaybeNotify \/ UserActs \/ UNCHANGED vars
    BY <1>1, <1>9 DEF MaybeNotify, UserActs, ClickSend, ClickClear, ClickEject,
        ClickRefresh, ClickLoad, ClickTab, Click, vars, appVars, backendVars
<1>10. QED
    BY <1>3, <1>4, <1>5, <1>6, <1>7, <1>8, <1>9 DEF Next, Serves

\* A button is painted of a row, and sends a command for it; the backend takes
\* the commands one by one.
LEMMA CommandsStep ==
    ASSUME TypeOK, RepliesFit, OffersFindable, [Next]_vars
    PROVE  /\ painted'.load \subseteq Findable
           /\ \A i \in DOMAIN queue' : queue'[i].kind = "Load" => queue'[i].model \in Findable
           /\ at' = "load" => arg' \in Findable
<1> DEFINE Buttons(p) == p.load \subseteq Findable
           Commands(q) == \A i \in DOMAIN q : q[i].kind = "Load" => q[i].model \in Findable
           Asked(a, c) == a = "load" => c \in Findable
<1>0. /\ queue \in Seq(Cmd)
      /\ Buttons(painted) /\ Commands(queue) /\ Asked(at, arg)
    BY DEF TypeOK, OffersFindable
<1>1. Paints => Buttons(painted')
    <2>1. Controls(shared', tab').load \subseteq Rows(shared')
        BY DEF Controls
    <2>2. QED
        BY <2>1, RowsStep DEF Paints
<1>2. ASSUME NEW k, TakesCommand(k)
      PROVE  /\ Commands(queue')
             /\ k = "Load" => Head(queue).model \in Findable
    <2>1. /\ queue # <<>> /\ queue' = Tail(queue) /\ Head(queue).kind = k
          /\ Head(queue) = queue[1] /\ 1 \in DOMAIN queue
        BY <1>0, <1>2 DEF TakesCommand
    <2>2. \A i \in DOMAIN queue' : i + 1 \in DOMAIN queue /\ queue'[i] = queue[i + 1]
        BY <1>0, <2>1
    <2>3. QED
        BY <1>0, <2>1, <2>2
<1>3. ASSUME NEW k, NEW m, Sends(k, m), k = "Load" => m \in Findable
      PROVE  Commands(queue')
    <2> DEFINE c == [kind |-> k, model |-> m]
    <2>1. queue' = Append(queue, c) /\ c.kind = k /\ c.model = m
        BY <1>3 DEF Sends
    <2>2. \A i \in DOMAIN queue' : (i \in DOMAIN queue /\ queue'[i] = queue[i]) \/ queue'[i] = c
        BY <1>0, <2>1
    <2>3. QED
        BY <1>0, <1>3, <2>1, <2>2
<1>4. CASE UNCHANGED <<painted, queue>> /\ (UNCHANGED <<at, arg>> \/ at' # "load")
    BY <1>0, <1>4
<1>5. CASE UNCHANGED viewVars /\ (TakesRefresh \/ TakesChat \/ TakesEject \/ TakesLoad)
    <2>1. Commands(queue')
        BY <1>2, <1>5 DEF TakesRefresh, TakesChat, TakesEject, TakesLoad
    <2>2. Asked(at', arg')
        BY <1>2, <1>5 DEF TakesRefresh, TakesChat, TakesEject, TakesLoad, Goes
    <2>3. QED
        BY <1>0, <1>5, <2>1, <2>2 DEF viewVars
<1>6. CASE UNCHANGED viewVars /\ (Polls \/ TakesStatus \/ TakesSystem \/ TakesEjected
                                        \/ TakesLoaded \/ TakesChatting)
    BY <1>4, <1>6 DEF viewVars, Polls, TakesStatus, TakesSystem, TakesEjected, TakesLoaded,
        TakesChatting, Takes, Goes
<1>7. CASE UNCHANGED viewVars /\ (Streams \/ Connects)
    BY <1>4, <1>7 DEF viewVars, Streams, StreamSpawns, StreamGrows, StreamEnds, StreamFails,
        Connects, Goes, backendVars
<1>8. CASE UNCHANGED viewVars /\ (Serves \/ RequestFails)
    BY <1>4, <1>8 DEF viewVars, Serves, StatusReadsModel, StatusReadsUp, ServesSystem,
        ServesEject, ServesLoad, ServesChat, RequestFails
<1>9. CASE UNCHANGED viewVars /\ World
    BY <1>4, <1>9 DEF viewVars, World, DaemonStops, DaemonHangs, DaemonStarts, OthersAct,
        Copies, Removes, Happens, backendVars
<1>10. CASE UserActs
    <2>1. UNCHANGED <<at, arg>>
        BY <1>10 DEF UserActs, ClickSend, ClickClear, ClickEject, ClickRefresh, ClickLoad,
            ClickTab, Click, appVars, backendVars
    <2>2. Paints \/ painted' = painted
        BY <1>10 DEF UserActs, ClickSend, ClickClear, ClickEject, ClickRefresh, ClickLoad,
            ClickTab
    <2>3. \/ queue' = queue
          \/ \E k \in {"SendChat", "Eject", "RefreshStatus"} : Sends(k, None)
          \/ \E c \in painted.load : Sends("Load", c)
        BY <1>10 DEF UserActs, ClickSend, ClickClear, ClickEject, ClickRefresh, ClickLoad,
            ClickTab, appVars, backendVars
    <2>4. Commands(queue')
        <3>1. CASE queue' = queue
            BY <1>0, <3>1
        <3>2. ASSUME NEW k \in {"SendChat", "Eject", "RefreshStatus"}, Sends(k, None)
              PROVE  Commands(queue')
            BY <1>3, <3>2
        <3>3. ASSUME NEW c \in painted.load, Sends("Load", c)
              PROVE  Commands(queue')
            BY <1>0, <1>3, <3>3
        <3>4. QED
            BY <2>3, <3>1, <3>2, <3>3
    <2>5. QED
        BY <1>0, <1>1, <2>1, <2>2, <2>4
<1>11. CASE MaybeNotify
    BY <1>0, <1>1, <1>11 DEF MaybeNotify, appVars, backendVars
<1>12. CASE UNCHANGED vars
    BY <1>4, <1>12 DEF vars, viewVars, appVars, backendVars
<1>13. QED
    BY <1>5, <1>6, <1>7, <1>8, <1>9, <1>10, <1>11, <1>12 DEF Next, BackendSteps

\* All that the app offers, it has been told of.
LEMMA OffersStep ==
    ASSUME TypeOK, RepliesFit, OffersFindable, [Next]_vars
    PROVE  OffersFindable'
<1>1. Findable \subseteq Findable'
    BY FindableGrows
<1>2. QED
    BY <1>1, RowsStep, ReplyStep, CommandsStep DEF OffersFindable

\* No 404 for a container that is there: the disk may have changed since the
\* row was listed, but never so that a container is no longer one.
THEOREM ListedIsFound == Spec => LoadsFound
<1>1. AppInit => OffersFindable
    <2> SUFFICES ASSUME AppInit
                 PROVE  OffersFindable
        OBVIOUS
    <2>1. shared.capacity = None /\ queue = <<>> /\ at = "status+system" /\ reply = NoReply
        BY DEF AppInit, Init
    <2>2. Rows(shared) = {} /\ painted.load = {}
        <3>1. Rows(shared) = {}
            BY <2>1 DEF Rows, Known
        <3>2. painted = Controls(shared, tab)
            BY DEF AppInit, ViewInit
        <3>3. QED
            BY <3>1, <3>2 DEF Controls
    <2>3. QED
        BY <2>1, <2>2 DEF OffersFindable, NoReply
<1>2. TypeOK /\ RepliesFit /\ OffersFindable /\ [Next]_vars => OffersFindable'
    BY OffersStep
<1>3. TypeOK /\ RepliesFit /\ OffersFindable /\ [Next]_vars =>
          (at = "load" /\ reply.code = "none" /\ reply'.code = "404" => older \/ arg \in gone)
    <2> SUFFICES ASSUME OffersFindable, [Next]_vars, at = "load", reply.code = "none",
                        reply'.code = "404"
                 PROVE  older \/ arg \in gone
        OBVIOUS
    <2>1. CASE ServesLoad
        <3>1. older \/ (~Loadable(disk[arg]) /\ Refusal(disk[arg]) = "404")
            BY <2>1 DEF ServesLoad, Code
        <3>2. older \/ ~Listed(disk[arg])
            BY <3>1 DEF Refusal
        <3>3. QED
            BY <3>2 DEF OffersFindable, Findable
    <2>2. ASSUME reply' = reply \/ reply' = Failed \/ reply' = NoReply \/ at # "load"
          PROVE  FALSE
        BY <2>2 DEF Failed, NoReply
    <2>3. CASE (Serves \/ RequestFails) /\ ~ServesLoad
        BY <2>2, <2>3 DEF Serves, StatusReadsModel, StatusReadsUp, ServesSystem, ServesEject,
            ServesChat, Serving, RequestFails
    <2>4. CASE BackendSteps \/ Streams \/ Connects
        BY <2>2, <2>4 DEF BackendSteps, TakesRefresh, TakesChat, TakesEject, TakesLoad, Polls,
            TakesStatus, TakesSystem, TakesEjected, TakesLoaded, TakesChatting, Takes, Goes,
            Streams, StreamSpawns, StreamGrows, StreamEnds, StreamFails, Connects, backendVars
    <2>5. CASE World
        BY <2>2, <2>5 DEF World, DaemonStops, DaemonHangs, DaemonStarts, OthersAct, Copies,
            Removes, Happens, backendVars
    <2>6. CASE MaybeNotify \/ UserActs \/ UNCHANGED vars
        BY <2>2, <2>6 DEF MaybeNotify, UserActs, ClickSend, ClickClear, ClickEject,
            ClickRefresh, ClickLoad, ClickTab, Click, vars, appVars, backendVars
    <2>7. QED
        BY <2>1, <2>3, <2>4, <2>5, <2>6 DEF Next
<1>4. QED
    BY <1>1, <1>2, <1>3, TypeCorrect, PTL DEF Spec, LoadsFound

=============================================================================
