-------------------------------- MODULE MqttLink --------------------------------
(***************************************************************************)
(* The connection of PahoMQTTConn (mqtt.go): Connect, Close and            *)
(* UpdateCredentials of several goroutines, and the autopaho connection    *)
(* managers whose goroutines call back when the link comes up or goes      *)
(* down.  A manager stands for one Connect: its context, its autopaho      *)
(* manager and the configuration it was started with.                      *)
(***************************************************************************)
EXTENDS FiniteSets

CONSTANTS
  Threads,   \* goroutines that call Connect, Close and UpdateCredentials
  Managers,  \* identities of managers, reused once nothing refers to them
  None

ASSUME MqttLinkConstants == None \notin Managers

VARIABLES
  manager, cancel,  \* whose manager c.manager and whose cancel c.cancel are
  connecting,       \* c.connecting
  connected,        \* c.connected
  told,             \* what the subscribers of SubscribeConnectionState were told last
  loop,             \* [Managers -> step of the manager's goroutine]
  cancelled,        \* managers whose context is done
  current,          \* managers started with the credentials of now
  pc, mine, closing, was, thenConnect,
     \* per goroutine: step, the manager it connects, what Close took, wasConnected,
     \* and whether UpdateCredentials goes on to Connect
  overlapped        \* history: two calls ran at the same time

conn == <<manager, cancel, connecting>>
loops == <<loop, cancelled>>
threads == <<pc, mine, closing, was, thenConnect>>
vars == <<conn, connected, told, loops, current, threads, overlapped>>

Taken(m, c) == [manager |-> m, cancel |-> c]
Nothing == Taken(None, None)

Init ==
  /\ manager = None /\ cancel = None /\ connecting = FALSE
  /\ connected = FALSE /\ told = FALSE
  /\ loop = [m \in Managers |-> "none"] /\ cancelled = {} /\ current = {}
  /\ pc = [t \in Threads |-> "idle"] /\ mine = [t \in Threads |-> None]
  /\ closing = [t \in Threads |-> Nothing] /\ was = [t \in Threads |-> FALSE]
  /\ thenConnect = [t \in Threads |-> FALSE] /\ overlapped = FALSE

Running(m) == loop[m] \notin {"none", "over"}
Quiet == \A t \in Threads : pc[t] = "idle"
CallBegins(t) == pc[t] = "idle" /\ overlapped' = (overlapped \/ ~Quiet)

\* Nothing refers to the identity any more.
Unused(m) ==
  /\ ~Running(m) /\ m \notin {manager, cancel}
  /\ \A t \in Threads : m \notin {mine[t], closing[t].manager, closing[t].cancel}

\* Identities are interchangeable, so any one unused manager will do.
FreshManagers ==
  LET unused == {m \in Managers : Unused(m)}
  IN  IF unused = {} THEN {} ELSE {CHOOSE m \in unused : TRUE}

Goto(t, step) == pc' = [pc EXCEPT ![t] = step]

-----------------------------------------------------------------------------
(* Connect *)

\* The first critical section copies the configuration.
ConnectBegins(t) ==
  IF manager # None \/ connecting
    THEN Goto(t, "idle") /\ UNCHANGED <<conn, mine, current, loop, cancelled>>
    ELSE \E m \in FreshManagers :
           /\ connecting' = TRUE /\ UNCHANGED <<manager, cancel>>
           /\ mine' = [mine EXCEPT ![t] = m]
           /\ loop' = [loop EXCEPT ![m] = "none"] /\ cancelled' = cancelled \ {m}
           /\ current' = current \cup {m}
           /\ Goto(t, "install cancel")

Connect(t) ==
  /\ CallBegins(t) /\ ConnectBegins(t)
  /\ UNCHANGED <<connected, told, closing, was, thenConnect>>

InstallCancel(t) ==
  /\ pc[t] = "install cancel"
  /\ cancel' = mine[t] /\ Goto(t, "new")
  /\ UNCHANGED <<manager, connecting, connected, told, loops, current, mine, closing, was, thenConnect, overlapped>>

\* newAutopahoConnection starts the manager's goroutine.
NewConnection(t) ==
  /\ pc[t] = "new"
  /\ loop' = [loop EXCEPT ![mine[t]] = "down"] /\ Goto(t, "install manager")
  /\ UNCHANGED <<conn, connected, told, cancelled, current, mine, closing, was, thenConnect, overlapped>>

\* It fails: the error path drops whatever cancel is there.
NewConnectionFails(t) ==
  /\ pc[t] = "new"
  /\ cancelled' = cancelled \cup {mine[t]}
  /\ cancel' = None /\ connecting' = FALSE
  /\ Goto(t, "idle") /\ mine' = [mine EXCEPT ![t] = None]
  /\ UNCHANGED <<manager, connected, told, loop, current, closing, was, thenConnect, overlapped>>

\* Mutation of InstallManager: the manager of a closed connection is forgotten.
InstallManagerForgets(t) ==
  /\ pc[t] = "install manager" /\ UNCHANGED cancelled
  /\ Goto(t, "idle") /\ mine' = [mine EXCEPT ![t] = None]
  /\ IF connecting THEN manager' = mine[t] /\ connecting' = FALSE
                   ELSE UNCHANGED <<manager, connecting>>
  /\ UNCHANGED <<cancel, connected, told, loop, current, closing, was, thenConnect, overlapped>>

\* A Close in between cleared connecting: the manager is not installed.
InstallManager(t) ==
  /\ pc[t] = "install manager"
  /\ IF connecting
       THEN /\ manager' = mine[t] /\ connecting' = FALSE
            /\ Goto(t, "idle") /\ mine' = [mine EXCEPT ![t] = None] /\ UNCHANGED cancelled
       ELSE /\ cancelled' = cancelled \cup {mine[t]} /\ Goto(t, "abandon")
            /\ UNCHANGED <<manager, connecting, mine>>
  /\ UNCHANGED <<cancel, connected, told, loop, current, closing, was, thenConnect, overlapped>>

\* Connect waits for the abandoned manager and fails.
ConnectFails(t) ==
  /\ pc[t] = "abandon" /\ ~Running(mine[t])
  /\ Goto(t, "idle") /\ mine' = [mine EXCEPT ![t] = None]
  /\ UNCHANGED <<conn, connected, told, loops, current, closing, was, thenConnect, overlapped>>

-----------------------------------------------------------------------------
(* Close and UpdateCredentials *)

\* Mutation of CloseBegins: only the manager is remembered.
CloseForgetsCancel(t) ==
  /\ closing' = [closing EXCEPT ![t] = [manager |-> manager]]
  /\ was' = [was EXCEPT ![t] = connected]
  /\ manager' = None /\ cancel' = None /\ connecting' = FALSE
  /\ connected' = FALSE
  /\ Goto(t, "disconnect")

\* The critical section of Close.
CloseBegins(t) ==
  /\ closing' = [closing EXCEPT ![t] = Taken(manager, cancel)]
  /\ was' = [was EXCEPT ![t] = connected]
  /\ manager' = None /\ cancel' = None /\ connecting' = FALSE
  /\ connected' = FALSE
  /\ Goto(t, "disconnect")

Close(t) ==
  /\ CallBegins(t) /\ CloseBegins(t)
  /\ thenConnect' = [thenConnect EXCEPT ![t] = FALSE]
  /\ UNCHANGED <<told, loops, current, mine>>

\* Mutation of Disconnect: the context is not cancelled after a failed Disconnect.
DisconnectOnly(t) ==
  /\ pc[t] = "disconnect"
  /\ \/ /\ cancelled' = cancelled \cup ({closing[t].manager} \ {None})
        /\ UNCHANGED thenConnect
     \/ thenConnect' = [thenConnect EXCEPT ![t] = FALSE] /\ UNCHANGED cancelled
  /\ Goto(t, "await")
  /\ UNCHANGED <<conn, connected, told, loop, current, mine, closing, was, overlapped>>

\* manager.Disconnect and then cancel end the manager taken.
Disconnect(t) ==
  /\ pc[t] = "disconnect"
  /\ cancelled' = cancelled \cup ({closing[t].manager, closing[t].cancel} \ {None})
  /\ \/ UNCHANGED thenConnect
     \/ thenConnect' = [thenConnect EXCEPT ![t] = FALSE]   \* Disconnect returned an error
  /\ Goto(t, "await")
  /\ UNCHANGED <<conn, connected, told, loop, current, mine, closing, was, overlapped>>

\* Close waits for done and tells the subscribers if the link was up.
CloseEnds(t) ==
  /\ pc[t] = "await"
  /\ closing[t].manager # None => ~Running(closing[t].manager)
  /\ closing' = [closing EXCEPT ![t] = Nothing] /\ was' = [was EXCEPT ![t] = FALSE]
  /\ told' = (told /\ ~was[t])
  /\ Goto(t, IF thenConnect[t] THEN "connect" ELSE "idle")
  /\ UNCHANGED <<conn, connected, loops, current, mine, thenConnect, overlapped>>

\* Mutation of UpdateCredentials: a running connection is kept.
UpdateCredentialsOnly(t) ==
  /\ CallBegins(t)
  /\ current' = {} /\ Goto(t, "idle")
  /\ UNCHANGED <<conn, connected, told, loops, mine, closing, was, thenConnect>>

\* UpdateCredentials stores them and looks for a manager under one lock.
UpdateCredentials(t) ==
  /\ CallBegins(t)
  /\ current' = {}
  /\ Goto(t, IF manager = None THEN "idle" ELSE "close")
  /\ UNCHANGED <<conn, connected, told, loops, mine, closing, was, thenConnect>>

UpdateCloses(t) ==
  /\ pc[t] = "close" /\ CloseBegins(t)
  /\ thenConnect' = [thenConnect EXCEPT ![t] = TRUE]
  /\ UNCHANGED <<told, loops, current, mine, overlapped>>

UpdateConnects(t) ==
  /\ pc[t] = "connect" /\ ConnectBegins(t)
  /\ thenConnect' = [thenConnect EXCEPT ![t] = FALSE]
  /\ UNCHANGED <<connected, told, closing, was, overlapped>>

-----------------------------------------------------------------------------
(* The goroutine of a manager, and its callbacks *)

ManagerGoes(m, from, to) == loop[m] = from /\ loop' = [loop EXCEPT ![m] = to]

\* The broker accepts the connection, or it is lost.
LinkChanges(m) ==
  /\ m \notin cancelled
  /\ ManagerGoes(m, "down", "call up") \/ ManagerGoes(m, "up", "call down")
  /\ UNCHANGED <<conn, connected, told, cancelled, current, threads, overlapped>>

\* setConnectionState changes c.connected under the lock ...
setConnectionState(m, up) ==
  /\ IF up THEN ManagerGoes(m, "call up", IF connected THEN "up" ELSE "tell up")
           ELSE ManagerGoes(m, "call down", IF connected THEN "tell down" ELSE "down")
  /\ connected' = up
  /\ UNCHANGED <<conn, told, cancelled, current, threads, overlapped>>

\* ... and calls the subscribers after it.
TellSubscribers(m, up) ==
  /\ IF up THEN ManagerGoes(m, "tell up", "up") ELSE ManagerGoes(m, "tell down", "down")
  /\ told' = up
  /\ UNCHANGED <<conn, connected, cancelled, current, threads, overlapped>>

\* A manager whose context is done ends without a callback.
ManagerEnds(m) ==
  /\ m \in cancelled /\ loop[m] \in {"down", "up"}
  /\ loop' = [loop EXCEPT ![m] = "over"]
  /\ UNCHANGED <<conn, connected, told, cancelled, current, threads, overlapped>>

ThreadStep(t) ==
  \/ InstallCancel(t) \/ NewConnection(t) \/ NewConnectionFails(t) \/ InstallManager(t)
  \/ ConnectFails(t) \/ Disconnect(t) \/ CloseEnds(t) \/ UpdateCloses(t) \/ UpdateConnects(t)

CallbackStep(m) ==
  (\E up \in BOOLEAN : setConnectionState(m, up) \/ TellSubscribers(m, up)) \/ ManagerEnds(m)

Next ==
  \/ \E t \in Threads : Connect(t) \/ Close(t) \/ UpdateCredentials(t) \/ ThreadStep(t)
  \/ \E m \in Managers : LinkChanges(m) \/ CallbackStep(m)

Spec == Init /\ [][Next]_vars

\* Goroutines and callbacks run; nobody has to call, the broker need not answer.
FairSpec ==
  Spec /\ (\A t \in Threads : WF_vars(ThreadStep(t))) /\ (\A m \in Managers : WF_vars(CallbackStep(m)))

-----------------------------------------------------------------------------
(* Properties *)

TypeOK ==
  /\ {manager, cancel} \subseteq Managers \cup {None}
  /\ {connecting, connected, told} \subseteq BOOLEAN
  /\ loop \in [Managers -> {"none", "down", "call up", "tell up", "up", "call down",
                            "tell down", "over"}]
  /\ cancelled \subseteq Managers /\ current \subseteq Managers
  /\ pc \in [Threads -> {"idle", "install cancel", "new", "install manager", "abandon",
                         "disconnect", "await", "close", "connect"}]
  /\ mine \in [Threads -> Managers \cup {None}] /\ was \in [Threads -> BOOLEAN]
  /\ closing \in [Threads -> [manager : Managers \cup {None}, cancel : Managers \cup {None}]]
  /\ thenConnect \in [Threads -> BOOLEAN] /\ overlapped \in BOOLEAN

\* A manager that runs uncancelled is the installed one, or one a goroutine is
\* about to install or to cancel: however calls overlap, none is leaked.
NoManagerLeaks ==
  \A m \in Managers : Running(m) /\ m \notin cancelled =>
    \/ m = manager
    \/ \E t \in Threads : m \in {mine[t], closing[t].manager}

Settled == Quiet /\ ~overlapped

\* The comments of Connect and UpdateCredentials: an installed manager is one
\* whose background loop runs, not one whose context is done, and has the last
\* credentials, as long as no two calls overlapped.
InstalledIsCurrent ==
  Settled /\ manager # None => manager \notin cancelled /\ manager \in current

\* Both of them (mqtt.go Connect, Close, UpdateCredentials).
ManagersAreOwned == NoManagerLeaks /\ InstalledIsCurrent

\* Expected of the code but not kept by it (README, "What the code does not keep"):
\* The comment of SubscribeConnectionState: its callbacks report up and down
\* transitions, so when Close has returned the last one was down.
ClosedIsDown == Settled /\ manager = None => ~connected /\ ~told

\* Close and Connect end, whatever the other goroutines do.
CallsReturn == \A t \in Threads : pc[t] # "idle" ~> pc[t] = "idle"
=============================================================================
