----------------------------- MODULE MqttLink_proofs -----------------------------
(***************************************************************************)
(* Proofs about MqttLink: any number of goroutines that connect, close and *)
(* update the credentials of a connection, and of managers that call back. *)
(***************************************************************************)
EXTENDS MqttLink, TLAPS

LoopStates == {"none", "down", "call up", "tell up", "up", "call down", "tell down", "over"}

CallSteps == {"idle", "install cancel", "new", "install manager", "abandon",
              "disconnect", "await", "close", "connect"}

\* The steps of ConnectBegins' caller until its manager is installed or given up.
Connecting == {"install cancel", "new", "install manager", "abandon"}

LinkTypes ==
  /\ manager \in Managers \cup {None} /\ cancel \in Managers \cup {None}
  /\ connecting \in BOOLEAN /\ connected \in BOOLEAN /\ told \in BOOLEAN
  /\ loop \in [Managers -> LoopStates]
  /\ cancelled \subseteq Managers /\ current \subseteq Managers
  /\ pc \in [Threads -> CallSteps]
  /\ mine \in [Threads -> Managers \cup {None}] /\ was \in [Threads -> BOOLEAN]
  /\ closing \in [Threads -> [manager : Managers \cup {None}, cancel : Managers \cup {None}]]
  /\ thenConnect \in [Threads -> BOOLEAN] /\ overlapped \in BOOLEAN

\* A goroutine holds a manager exactly while it connects, and what it closes only while it closes.
HoldsWhatItNeeds ==
  \A t \in Threads :
    /\ pc[t] \in Connecting <=> mine[t] # None
    /\ pc[t] \notin {"disconnect", "await"} => closing[t] = Nothing

\* While a Connect is under way nothing is installed, so InstallManager overwrites nothing.
NothingIsOverwritten == connecting => manager = None

\* As long as no two calls overlapped, one goroutine at a time is in a call.
OneCall ==
  ~overlapped =>
    \A t, u \in Threads : pc[t] # "idle" /\ pc[u] # "idle" => t = u

\* ... and the one that connects has a manager that is fit to be installed.
ConnectIsCurrent ==
  ~overlapped =>
    \A t \in Threads :
      /\ pc[t] \in {"install cancel", "new", "install manager"} =>
           connecting /\ mine[t] \notin cancelled /\ mine[t] \in current
      /\ pc[t] \in {"disconnect", "await", "connect"} => manager = None

\* ... and what is installed is fit, but for an UpdateCredentials that is about to close it.
ManagerIsCurrent ==
  ~overlapped /\ manager # None =>
    /\ manager \notin cancelled
    /\ manager \in current \/ \E t \in Threads : pc[t] = "close"

LinkInv ==
  /\ LinkTypes /\ HoldsWhatItNeeds /\ NothingIsOverwritten /\ NoManagerLeaks
  /\ OneCall /\ ConnectIsCurrent /\ ManagerIsCurrent

-----------------------------------------------------------------------------
LEMMA FreshIsUnused == \A m \in FreshManagers : m \in Managers /\ Unused(m)
  BY DEF FreshManagers

NotConnected(t) ==
  /\ pc' = [pc EXCEPT ![t] = "idle"]
  /\ UNCHANGED <<manager, cancel, connecting, mine, current, loop, cancelled>>

Connects(t, m) ==
  /\ Unused(m) /\ manager = None /\ ~connecting
  /\ connecting' = TRUE /\ UNCHANGED <<manager, cancel>>
  /\ mine' = [mine EXCEPT ![t] = m] /\ loop' = [loop EXCEPT ![m] = "none"]
  /\ cancelled' = cancelled \ {m} /\ current' = current \cup {m}
  /\ pc' = [pc EXCEPT ![t] = "install cancel"]

LEMMA ConnectDoes ==
  \A t \in Threads : LinkTypes /\ ConnectBegins(t) =>
    NotConnected(t) \/ \E m \in Managers : Connects(t, m)
  BY FreshIsUnused DEF ConnectBegins, NotConnected, Connects, Goto, conn, LinkTypes

LEMMA LinkInit == Init => LinkInv
  <1>. SUFFICES ASSUME Init PROVE LinkInv
    OBVIOUS
  <1>1. LinkTypes
    <2>1. Nothing \in [manager : Managers \cup {None}, cancel : Managers \cup {None}]
      BY DEF Nothing, Taken
    <2>. QED
      BY <2>1 DEF Init, LinkTypes, LoopStates, CallSteps
  <1>2. HoldsWhatItNeeds /\ NothingIsOverwritten /\ NoManagerLeaks
    BY DEF Init, HoldsWhatItNeeds, Connecting, NothingIsOverwritten, NoManagerLeaks, Running
  <1>3. OneCall /\ ConnectIsCurrent /\ ManagerIsCurrent
    BY DEF Init, OneCall, ConnectIsCurrent, ManagerIsCurrent
  <1>. QED
    BY <1>1, <1>2, <1>3 DEF LinkInv

LEMMA LinkTypesStep ==
  LinkInv /\ [Next]_vars => LinkTypes'
  <1>. SUFFICES ASSUME LinkInv, [Next]_vars PROVE LinkTypes'
    OBVIOUS
  <1>. USE DEF LinkInv, LinkTypes, LoopStates, CallSteps, HoldsWhatItNeeds, Connecting, Nothing,
               Taken
  <1>1. ASSUME NEW t \in Threads, Connect(t) PROVE LinkTypes'
    <2>1. CASE NotConnected(t)
      BY <1>1, <2>1, MqttLinkConstants DEF NotConnected, Connect, CallBegins
    <2>2. ASSUME NEW m \in Managers, Connects(t, m) PROVE LinkTypes'
      BY <1>1, <2>2, MqttLinkConstants DEF Connects, Unused, Connect, CallBegins
    <2>. QED
      BY <1>1, <2>1, <2>2, ConnectDoes DEF Connect
  <1>2. ASSUME NEW t \in Threads, Close(t) PROVE LinkTypes'
    BY <1>2, MqttLinkConstants
    DEF Close, CallBegins, CloseBegins, Taken, Goto, loops, conn, threads
  <1>3. ASSUME NEW t \in Threads, NewConnection(t) PROVE LinkTypes'
    BY <1>3, MqttLinkConstants
    DEF NewConnection, Goto, conn, loops, threads
  <1>4. ASSUME NEW t \in Threads, NewConnectionFails(t) PROVE LinkTypes'
    BY <1>4, MqttLinkConstants
    DEF NewConnectionFails, Goto, conn, loops, threads
  <1>5. ASSUME NEW t \in Threads, InstallManager(t) PROVE LinkTypes'
    <2>1. CASE connecting
      BY <1>5, <2>1 DEF InstallManager, Goto, conn, loops
    <2>2. CASE ~connecting
      <3>1. mine[t] \in Managers
        BY <1>5 DEF InstallManager
      <3>2. cancelled' = cancelled \cup {mine[t]} /\ pc' = [pc EXCEPT ![t] = "abandon"]
            /\ UNCHANGED <<manager, cancel, connecting, connected, told, loop, current, mine,
                            closing, was, thenConnect, overlapped>>
        BY <1>5, <2>2 DEF InstallManager, Goto
      <3>. QED
        BY <3>1, <3>2
    <2>. QED
      BY <2>1, <2>2
  <1>6. ASSUME NEW t \in Threads, CloseEnds(t) PROVE LinkTypes'
    BY <1>6, MqttLinkConstants
    DEF CloseEnds, Goto, Nothing, Taken, conn, loops, threads
  <1>7. ASSUME NEW t \in Threads, UpdateCloses(t) PROVE LinkTypes'
    BY <1>7, MqttLinkConstants
    DEF UpdateCloses, CallBegins, CloseBegins, Taken, Goto, loops, conn, threads
  <1>8. ASSUME NEW t \in Threads, UpdateConnects(t) PROVE LinkTypes'
    <2>1. CASE NotConnected(t)
      BY <1>8, <2>1, MqttLinkConstants DEF NotConnected, UpdateConnects, CallBegins
    <2>2. ASSUME NEW m \in Managers, Connects(t, m) PROVE LinkTypes'
      BY <1>8, <2>2, MqttLinkConstants DEF Connects, Unused, UpdateConnects, CallBegins
    <2>. QED
      BY <1>8, <2>1, <2>2, ConnectDoes DEF UpdateConnects
  <1>9. ASSUME NEW t \in Threads,
               UpdateCredentials(t) \/ InstallCancel(t) \/ ConnectFails(t) \/ Disconnect(t)
        PROVE  LinkTypes'
    BY <1>9, MqttLinkConstants, ZenonT(60)
    DEF UpdateCredentials, CallBegins, Goto, conn, loops, threads, InstallCancel, ConnectFails,
        Disconnect
  <1>10. ASSUME NEW m \in Managers, NEW up \in BOOLEAN,
               setConnectionState(m, up) \/ TellSubscribers(m, up)
        PROVE  LinkTypes'
    BY <1>10, MqttLinkConstants
    DEF setConnectionState, ManagerGoes, conn, threads, loops, TellSubscribers
  <1>11. ASSUME NEW m \in Managers, ManagerEnds(m) \/ LinkChanges(m) PROVE LinkTypes'
    BY <1>11, MqttLinkConstants
    DEF ManagerEnds, ManagerGoes, conn, threads, loops, LinkChanges
  <1>12. CASE UNCHANGED vars
    BY <1>12
    DEF vars, conn, loops, threads
  <1>. HIDE DEF LinkInv, LinkTypes, LoopStates, CallSteps, HoldsWhatItNeeds, Connecting,
                Nothing, Taken
  <1>. QED
    BY <1>1, <1>2, <1>3, <1>4, <1>5, <1>6, <1>7, <1>8, <1>9, <1>10, <1>11, <1>12
    DEF Next, ThreadStep, CallbackStep

LEMMA HoldsStep ==
  LinkInv /\ [Next]_vars => HoldsWhatItNeeds'
  <1>. SUFFICES ASSUME LinkInv, [Next]_vars PROVE HoldsWhatItNeeds'
    OBVIOUS
  <1>. USE DEF LinkInv, LinkTypes, CallSteps, HoldsWhatItNeeds, Connecting, Nothing, Taken
  <1>1. ASSUME NEW t \in Threads, Connect(t) PROVE HoldsWhatItNeeds'
    <2>1. CASE NotConnected(t)
      BY <1>1, <2>1, MqttLinkConstants DEF NotConnected, Connect, CallBegins
    <2>2. ASSUME NEW m \in Managers, Connects(t, m) PROVE HoldsWhatItNeeds'
      BY <1>1, <2>2, MqttLinkConstants DEF Connects, Unused, Connect, CallBegins
    <2>. QED
      BY <1>1, <2>1, <2>2, ConnectDoes DEF Connect
  <1>2. ASSUME NEW t \in Threads, Close(t) PROVE HoldsWhatItNeeds'
    BY <1>2, MqttLinkConstants
    DEF Close, CallBegins, CloseBegins, Taken, Goto, loops, conn, threads
  <1>3. ASSUME NEW t \in Threads, NewConnectionFails(t) PROVE HoldsWhatItNeeds'
    BY <1>3, MqttLinkConstants
    DEF NewConnectionFails, Goto, conn, loops, threads
  <1>4. ASSUME NEW t \in Threads, InstallManager(t) PROVE HoldsWhatItNeeds'
    BY <1>4, MqttLinkConstants
    DEF InstallManager, Goto, conn, loops, threads
  <1>5. ASSUME NEW t \in Threads, CloseEnds(t) PROVE HoldsWhatItNeeds'
    BY <1>5, MqttLinkConstants
    DEF CloseEnds, Goto, Nothing, Taken, conn, loops, threads
  <1>6. ASSUME NEW t \in Threads, UpdateCloses(t) PROVE HoldsWhatItNeeds'
    BY <1>6, MqttLinkConstants
    DEF UpdateCloses, CallBegins, CloseBegins, Taken, Goto, loops, conn, threads
  <1>7. ASSUME NEW t \in Threads, UpdateConnects(t) PROVE HoldsWhatItNeeds'
    <2>1. CASE NotConnected(t)
      BY <1>7, <2>1, MqttLinkConstants DEF NotConnected, UpdateConnects, CallBegins
    <2>2. ASSUME NEW m \in Managers, Connects(t, m) PROVE HoldsWhatItNeeds'
      BY <1>7, <2>2, MqttLinkConstants DEF Connects, Unused, UpdateConnects, CallBegins
    <2>. QED
      BY <1>7, <2>1, <2>2, ConnectDoes DEF UpdateConnects
  <1>8. ASSUME NEW t \in Threads,
               UpdateCredentials(t) \/ InstallCancel(t) \/ NewConnection(t) \/ ConnectFails(t)
               \/ Disconnect(t)
        PROVE  HoldsWhatItNeeds'
    BY <1>8, MqttLinkConstants, ZenonT(60)
    DEF UpdateCredentials, CallBegins, Goto, conn, loops, threads, InstallCancel, NewConnection,
        ConnectFails, Disconnect
  <1>9. ASSUME NEW m \in Managers, NEW up \in BOOLEAN,
               setConnectionState(m, up) \/ TellSubscribers(m, up)
        PROVE  HoldsWhatItNeeds'
    BY <1>9, MqttLinkConstants
    DEF setConnectionState, ManagerGoes, conn, threads, loops, TellSubscribers
  <1>10. ASSUME NEW m \in Managers, ManagerEnds(m) \/ LinkChanges(m) PROVE HoldsWhatItNeeds'
    BY <1>10, MqttLinkConstants
    DEF ManagerEnds, ManagerGoes, conn, threads, loops, LinkChanges
  <1>11. CASE UNCHANGED vars
    BY <1>11
    DEF vars, conn, loops, threads
  <1>. HIDE DEF LinkInv, LinkTypes, CallSteps, HoldsWhatItNeeds, Connecting, Nothing, Taken
  <1>. QED
    BY <1>1, <1>2, <1>3, <1>4, <1>5, <1>6, <1>7, <1>8, <1>9, <1>10, <1>11
    DEF Next, ThreadStep, CallbackStep

LEMMA NothingIsOverwrittenStep ==
  LinkInv /\ [Next]_vars => NothingIsOverwritten'
  <1>. SUFFICES ASSUME LinkInv, [Next]_vars PROVE NothingIsOverwritten'
    OBVIOUS
  <1>. USE DEF LinkInv, LinkTypes, NothingIsOverwritten
  <1>1. ASSUME NEW t \in Threads, Connect(t) PROVE NothingIsOverwritten'
    <2>1. CASE NotConnected(t)
      BY <1>1, <2>1, MqttLinkConstants DEF NotConnected, Connect, CallBegins
    <2>2. ASSUME NEW m \in Managers, Connects(t, m) PROVE NothingIsOverwritten'
      BY <1>1, <2>2, MqttLinkConstants DEF Connects, Unused, Connect, CallBegins
    <2>. QED
      BY <1>1, <2>1, <2>2, ConnectDoes DEF Connect
  <1>2. ASSUME NEW t \in Threads, UpdateConnects(t) PROVE NothingIsOverwritten'
    <2>1. CASE NotConnected(t)
      BY <1>2, <2>1, MqttLinkConstants DEF NotConnected, UpdateConnects, CallBegins
    <2>2. ASSUME NEW m \in Managers, Connects(t, m) PROVE NothingIsOverwritten'
      BY <1>2, <2>2, MqttLinkConstants DEF Connects, Unused, UpdateConnects, CallBegins
    <2>. QED
      BY <1>2, <2>1, <2>2, ConnectDoes DEF UpdateConnects
  <1>3. ASSUME NEW t \in Threads,
               Close(t) \/ UpdateCredentials(t) \/ InstallCancel(t) \/ NewConnection(t) \/
               NewConnectionFails(t) \/ InstallManager(t) \/ ConnectFails(t) \/ Disconnect(t) \/
               CloseEnds(t) \/ UpdateCloses(t)
        PROVE  NothingIsOverwritten'
    BY <1>3, MqttLinkConstants
    DEF Close, CallBegins, CloseBegins, Taken, Goto, loops, conn, threads, UpdateCredentials,
        InstallCancel, NewConnection, NewConnectionFails, InstallManager, ConnectFails,
        Disconnect, CloseEnds, Nothing, UpdateCloses
  <1>4. ASSUME NEW m \in Managers, NEW up \in BOOLEAN,
               setConnectionState(m, up) \/ TellSubscribers(m, up)
        PROVE  NothingIsOverwritten'
    BY <1>4, MqttLinkConstants
    DEF setConnectionState, ManagerGoes, conn, threads, loops, TellSubscribers
  <1>5. ASSUME NEW m \in Managers, ManagerEnds(m) \/ LinkChanges(m) PROVE NothingIsOverwritten'
    BY <1>5, MqttLinkConstants
    DEF ManagerEnds, ManagerGoes, conn, threads, loops, LinkChanges
  <1>6. CASE UNCHANGED vars
    BY <1>6
    DEF vars, conn, loops, threads
  <1>. HIDE DEF LinkInv, LinkTypes, NothingIsOverwritten
  <1>. QED
    BY <1>1, <1>2, <1>3, <1>4, <1>5, <1>6
    DEF Next, ThreadStep, CallbackStep


\* Another goroutine still holds what it held.
Apart(t) == \A u \in Threads \ {t} : mine'[u] = mine[u] /\ closing'[u] = closing[u]

\* Managers that the goroutine or the connection has.
Keeper(t, m) == m \in {manager, mine[t], closing[t].manager}

\* What runs uncancelled after a step of a goroutine is in its hands or was in another's before.
Keeps(t) ==
  \A m \in Managers : Running(m)' /\ m \notin cancelled' =>
    Keeper(t, m)' \/ (Running(m) /\ m \notin cancelled /\ ~Keeper(t, m))

LEMMA LeaksStep ==
  LinkInv /\ [Next]_vars => NoManagerLeaks'
  <1>. SUFFICES ASSUME LinkInv, [Next]_vars PROVE NoManagerLeaks'
    OBVIOUS
  <1>. USE DEF LinkInv
  <1>a. ASSUME NEW t \in Threads, Apart(t), Keeps(t) PROVE NoManagerLeaks'
    BY <1>a DEF Apart, Keeps, Keeper, NoManagerLeaks
  <1>1. ASSUME NEW t \in Threads, Connect(t) PROVE NoManagerLeaks'
    <2>1. CASE NotConnected(t)
      BY <1>1, <2>1 DEF NotConnected, Connect, NoManagerLeaks, Running
    <2>2. ASSUME NEW m \in Managers, Connects(t, m) PROVE NoManagerLeaks'
      <3>1. Apart(t)
        BY <1>1, <2>2 DEF Connects, Connect, Apart, LinkTypes
      <3>2. Keeps(t)
        BY <1>1, <2>2, MqttLinkConstants
        DEF Connects, Connect, CallBegins, Keeps, Keeper, Running, LinkTypes, HoldsWhatItNeeds,
            Connecting
      <3>. QED
        BY <3>1, <3>2, <1>a
    <2>. QED
      BY <1>1, <2>1, <2>2, ConnectDoes DEF Connect
  <1>2. ASSUME NEW t \in Threads, Close(t) PROVE NoManagerLeaks'
    <2>1. /\ closing' = [closing EXCEPT ![t] = Taken(manager, cancel)]
          /\ manager' = None /\ UNCHANGED <<mine, loop, cancelled>>
      BY <1>2 DEF Close, CloseBegins, loops
    <2>2. Taken(manager, cancel).manager = manager
      BY DEF Taken
    <2>3. Apart(t)
      BY <2>1 DEF Apart, LinkTypes
    <2>4. closing[t] = Nothing /\ closing'[t].manager = manager
      BY <1>2, <2>1, <2>2 DEF Close, CallBegins, HoldsWhatItNeeds, LinkTypes
    <2>5. Nothing.manager = None
      BY DEF Nothing, Taken
    <2>6. Keeps(t)
      BY <2>1, <2>4, <2>5, MqttLinkConstants DEF Keeps, Keeper, Running
    <2>. QED
      BY <2>3, <2>6, <1>a
  <1>3. ASSUME NEW t \in Threads, UpdateCredentials(t) PROVE NoManagerLeaks'
    <2>1. Apart(t)
      BY <1>3 DEF UpdateCredentials, CallBegins, Goto, conn, loops, threads, Apart, LinkTypes
    <2>2. Keeps(t)
      BY <1>3, MqttLinkConstants
      DEF UpdateCredentials, CallBegins, Goto, conn, loops, threads, Keeps, Keeper, Running,
          LinkTypes, HoldsWhatItNeeds, Connecting, Nothing, Taken
    <2>. QED
      BY <2>1, <2>2, <1>a
  <1>4. ASSUME NEW t \in Threads, InstallCancel(t) PROVE NoManagerLeaks'
    <2>1. Apart(t)
      BY <1>4 DEF InstallCancel, Goto, conn, loops, threads, Apart, LinkTypes
    <2>2. Keeps(t)
      BY <1>4, MqttLinkConstants
      DEF InstallCancel, Goto, conn, loops, threads, Keeps, Keeper, Running, LinkTypes,
          HoldsWhatItNeeds, Connecting, Nothing, Taken
    <2>. QED
      BY <2>1, <2>2, <1>a
  <1>5. ASSUME NEW t \in Threads, NewConnection(t) PROVE NoManagerLeaks'
    <2>1. Apart(t)
      BY <1>5 DEF NewConnection, Goto, conn, loops, threads, Apart, LinkTypes
    <2>2. Keeps(t)
      BY <1>5, MqttLinkConstants
      DEF NewConnection, Goto, conn, loops, threads, Keeps, Keeper, Running, LinkTypes,
          HoldsWhatItNeeds, Connecting, Nothing, Taken
    <2>. QED
      BY <2>1, <2>2, <1>a
  <1>6. ASSUME NEW t \in Threads, NewConnectionFails(t) PROVE NoManagerLeaks'
    <2>1. Apart(t)
      BY <1>6 DEF NewConnectionFails, Goto, conn, loops, threads, Apart, LinkTypes
    <2>2. Keeps(t)
      BY <1>6, MqttLinkConstants
      DEF NewConnectionFails, Goto, conn, loops, threads, Keeps, Keeper, Running, LinkTypes,
          HoldsWhatItNeeds, Connecting, Nothing, Taken
    <2>. QED
      BY <2>1, <2>2, <1>a
  <1>7. ASSUME NEW t \in Threads, InstallManager(t) PROVE NoManagerLeaks'
    <2>1. Apart(t)
      BY <1>7 DEF InstallManager, Goto, conn, loops, threads, Apart, LinkTypes
    <2>2. Keeps(t)
      BY <1>7, MqttLinkConstants
      DEF InstallManager, Goto, conn, loops, threads, Keeps, Keeper, Running, LinkTypes,
          HoldsWhatItNeeds, Connecting, Nothing, Taken, NothingIsOverwritten
    <2>. QED
      BY <2>1, <2>2, <1>a
  <1>8. ASSUME NEW t \in Threads, ConnectFails(t) PROVE NoManagerLeaks'
    <2>1. Apart(t)
      BY <1>8 DEF ConnectFails, Goto, conn, loops, threads, Apart, LinkTypes
    <2>2. Keeps(t)
      BY <1>8, MqttLinkConstants
      DEF ConnectFails, Goto, conn, loops, threads, Keeps, Keeper, Running, LinkTypes,
          HoldsWhatItNeeds, Connecting, Nothing, Taken
    <2>. QED
      BY <2>1, <2>2, <1>a
  <1>9. ASSUME NEW t \in Threads, Disconnect(t) PROVE NoManagerLeaks'
    <2>1. Apart(t)
      BY <1>9 DEF Disconnect, Goto, conn, loops, threads, Apart, LinkTypes
    <2>2. Keeps(t)
      BY <1>9, MqttLinkConstants
      DEF Disconnect, Goto, conn, loops, threads, Keeps, Keeper, Running, LinkTypes,
          HoldsWhatItNeeds, Connecting, Nothing, Taken
    <2>. QED
      BY <2>1, <2>2, <1>a
  <1>10. ASSUME NEW t \in Threads, CloseEnds(t) PROVE NoManagerLeaks'
    <2>1. Apart(t)
      BY <1>10 DEF CloseEnds, Goto, Nothing, Taken, conn, loops, threads, Apart, LinkTypes
    <2>2. Keeps(t)
      BY <1>10, MqttLinkConstants
      DEF CloseEnds, Goto, Nothing, Taken, conn, loops, threads, Keeps, Keeper, Running,
          LinkTypes, HoldsWhatItNeeds, Connecting, Nothing, Taken
    <2>. QED
      BY <2>1, <2>2, <1>a
  <1>11. ASSUME NEW t \in Threads, UpdateCloses(t) PROVE NoManagerLeaks'
    <2>1. /\ closing' = [closing EXCEPT ![t] = Taken(manager, cancel)]
          /\ manager' = None /\ UNCHANGED <<mine, loop, cancelled>>
      BY <1>11 DEF UpdateCloses, CloseBegins, loops
    <2>2. Taken(manager, cancel).manager = manager
      BY DEF Taken
    <2>3. Apart(t)
      BY <2>1 DEF Apart, LinkTypes
    <2>4. closing[t] = Nothing /\ closing'[t].manager = manager
      BY <1>11, <2>1, <2>2 DEF UpdateCloses, CallBegins, HoldsWhatItNeeds, LinkTypes
    <2>5. Nothing.manager = None
      BY DEF Nothing, Taken
    <2>6. Keeps(t)
      BY <2>1, <2>4, <2>5, MqttLinkConstants DEF Keeps, Keeper, Running
    <2>. QED
      BY <2>3, <2>6, <1>a
  <1>12. ASSUME NEW t \in Threads, UpdateConnects(t) PROVE NoManagerLeaks'
    <2>1. CASE NotConnected(t)
      BY <1>12, <2>1 DEF NotConnected, UpdateConnects, NoManagerLeaks, Running
    <2>2. ASSUME NEW m \in Managers, Connects(t, m) PROVE NoManagerLeaks'
      <3>1. Apart(t)
        BY <1>12, <2>2 DEF Connects, UpdateConnects, Apart, LinkTypes
      <3>2. Keeps(t)
        BY <1>12, <2>2, MqttLinkConstants
        DEF Connects, UpdateConnects, CallBegins, Keeps, Keeper, Running, LinkTypes,
            HoldsWhatItNeeds, Connecting
      <3>. QED
        BY <3>1, <3>2, <1>a
    <2>. QED
      BY <1>12, <2>1, <2>2, ConnectDoes DEF UpdateConnects
  <1>13. ASSUME NEW m \in Managers, NEW up \in BOOLEAN,
               setConnectionState(m, up) \/ TellSubscribers(m, up)
        PROVE  NoManagerLeaks'
    BY <1>13, MqttLinkConstants
    DEF setConnectionState, ManagerGoes, conn, threads, loops, TellSubscribers, LinkTypes,
        NoManagerLeaks, Running
  <1>14. ASSUME NEW m \in Managers, ManagerEnds(m) \/ LinkChanges(m) PROVE NoManagerLeaks'
    BY <1>14, MqttLinkConstants
    DEF ManagerEnds, ManagerGoes, conn, threads, loops, LinkChanges, LinkTypes, NoManagerLeaks,
        Running
  <1>15. CASE UNCHANGED vars
    BY <1>15
    DEF vars, conn, loops, threads, LinkTypes, NoManagerLeaks, Running
  <1>. HIDE DEF LinkInv
  <1>. QED
    BY <1>1, <1>2, <1>3, <1>4, <1>5, <1>6, <1>7, <1>8, <1>9, <1>10, <1>11, <1>12, <1>13, <1>14,
       <1>15
    DEF Next, ThreadStep, CallbackStep

LEMMA OneCallStep ==
  LinkInv /\ [Next]_vars => OneCall'
  <1>. SUFFICES ASSUME LinkInv, [Next]_vars PROVE OneCall'
    OBVIOUS
  <1>. USE DEF LinkInv, LinkTypes, OneCall, Quiet
  <1>1. ASSUME NEW t \in Threads, Connect(t) PROVE OneCall'
    <2>1. CASE NotConnected(t)
      BY <1>1, <2>1, MqttLinkConstants DEF NotConnected, Connect, CallBegins
    <2>2. ASSUME NEW m \in Managers, Connects(t, m) PROVE OneCall'
      BY <1>1, <2>2, MqttLinkConstants DEF Connects, Unused, Connect, CallBegins
    <2>. QED
      BY <1>1, <2>1, <2>2, ConnectDoes DEF Connect
  <1>2. ASSUME NEW t \in Threads, Close(t) PROVE OneCall'
    BY <1>2, MqttLinkConstants
    DEF Close, CallBegins, CloseBegins, Taken, Goto, loops, conn, threads
  <1>3. ASSUME NEW t \in Threads, UpdateCredentials(t) PROVE OneCall'
    BY <1>3, MqttLinkConstants
    DEF UpdateCredentials, CallBegins, Goto, conn, loops, threads
  <1>4. ASSUME NEW t \in Threads, UpdateCloses(t) PROVE OneCall'
    BY <1>4, MqttLinkConstants
    DEF UpdateCloses, CallBegins, CloseBegins, Taken, Goto, loops, conn, threads
  <1>5. ASSUME NEW t \in Threads, UpdateConnects(t) PROVE OneCall'
    <2>1. CASE NotConnected(t)
      BY <1>5, <2>1, MqttLinkConstants DEF NotConnected, UpdateConnects, CallBegins
    <2>2. ASSUME NEW m \in Managers, Connects(t, m) PROVE OneCall'
      BY <1>5, <2>2, MqttLinkConstants DEF Connects, Unused, UpdateConnects, CallBegins
    <2>. QED
      BY <1>5, <2>1, <2>2, ConnectDoes DEF UpdateConnects
  <1>6. ASSUME NEW t \in Threads,
               InstallCancel(t) \/ NewConnection(t) \/ NewConnectionFails(t) \/
               InstallManager(t)
        PROVE  OneCall'
    BY <1>6, MqttLinkConstants
    DEF InstallCancel, Goto, conn, loops, threads, NewConnection, NewConnectionFails,
        InstallManager
  <1>7. ASSUME NEW t \in Threads,
               ConnectFails(t) \/ Disconnect(t) \/ CloseEnds(t)
        PROVE  OneCall'
    BY <1>7, MqttLinkConstants
    DEF ConnectFails, Goto, conn, loops, threads, Disconnect, CloseEnds, Nothing, Taken
  <1>8. ASSUME NEW m \in Managers, NEW up \in BOOLEAN,
               setConnectionState(m, up) \/ TellSubscribers(m, up)
        PROVE  OneCall'
    BY <1>8, MqttLinkConstants
    DEF setConnectionState, ManagerGoes, conn, threads, loops, TellSubscribers
  <1>9. ASSUME NEW m \in Managers, ManagerEnds(m) \/ LinkChanges(m) PROVE OneCall'
    BY <1>9, MqttLinkConstants
    DEF ManagerEnds, ManagerGoes, conn, threads, loops, LinkChanges
  <1>10. CASE UNCHANGED vars
    BY <1>10
    DEF vars, conn, loops, threads
  <1>. HIDE DEF LinkInv, LinkTypes, OneCall, Quiet
  <1>. QED
    BY <1>1, <1>2, <1>3, <1>4, <1>5, <1>6, <1>7, <1>8, <1>9, <1>10
    DEF Next, ThreadStep, CallbackStep

LEMMA ConnectIsCurrentStep ==
  LinkInv /\ [Next]_vars => ConnectIsCurrent'
  <1>. SUFFICES ASSUME LinkInv, [Next]_vars PROVE ConnectIsCurrent'
    OBVIOUS
  <1>. USE DEF LinkInv, LinkTypes, ConnectIsCurrent, Connecting
  <1>1. ASSUME NEW t \in Threads, Connect(t) PROVE ConnectIsCurrent'
    <2>1. CASE NotConnected(t)
      BY <1>1, <2>1, MqttLinkConstants
      DEF NotConnected, Connect, CallBegins, HoldsWhatItNeeds, OneCall, NothingIsOverwritten,
          Quiet
    <2>2. ASSUME NEW m \in Managers, Connects(t, m) PROVE ConnectIsCurrent'
      BY <1>1, <2>2, MqttLinkConstants, ZenonT(60)
      DEF Connects, Unused, Connect, CallBegins, HoldsWhatItNeeds, OneCall, NothingIsOverwritten,
          Quiet
    <2>. QED
      BY <1>1, <2>1, <2>2, ConnectDoes DEF Connect
  <1>2. ASSUME NEW t \in Threads, Close(t) PROVE ConnectIsCurrent'
    BY <1>2, MqttLinkConstants, ZenonT(60)
    DEF Close, CallBegins, CloseBegins, Taken, Goto, loops, conn, threads, HoldsWhatItNeeds,
        OneCall, NothingIsOverwritten, Quiet
  <1>3. ASSUME NEW t \in Threads, UpdateCredentials(t) PROVE ConnectIsCurrent'
    BY <1>3, MqttLinkConstants
    DEF UpdateCredentials, CallBegins, Goto, conn, loops, threads, HoldsWhatItNeeds, OneCall,
        NothingIsOverwritten, Quiet
  <1>4. ASSUME NEW t \in Threads, NewConnectionFails(t) PROVE ConnectIsCurrent'
    BY <1>4, MqttLinkConstants
    DEF NewConnectionFails, Goto, conn, loops, threads, HoldsWhatItNeeds, OneCall,
        NothingIsOverwritten, Quiet
  <1>5. ASSUME NEW t \in Threads, InstallManager(t) PROVE ConnectIsCurrent'
    BY <1>5, MqttLinkConstants, ZenonT(60)
    DEF InstallManager, Goto, conn, loops, threads, HoldsWhatItNeeds, OneCall,
        NothingIsOverwritten, Quiet
  <1>6. ASSUME NEW t \in Threads, Disconnect(t) PROVE ConnectIsCurrent'
    <2>1. ~overlapped => \A u \in Threads \ {t} : pc'[u] = "idle"
      BY <1>6 DEF Disconnect, Goto, OneCall
    <2>2. pc'[t] = "await" /\ UNCHANGED <<manager, connecting, overlapped>>
      BY <1>6 DEF Disconnect, Goto, conn
    <2>3. ~overlapped => manager = None
      BY <1>6 DEF Disconnect
    <2>. QED
      BY <2>1, <2>2, <2>3
  <1>7. ASSUME NEW t \in Threads, UpdateCloses(t) PROVE ConnectIsCurrent'
    BY <1>7, MqttLinkConstants
    DEF UpdateCloses, CallBegins, CloseBegins, Taken, Goto, loops, conn, threads,
        HoldsWhatItNeeds, OneCall, NothingIsOverwritten, Quiet
  <1>8. ASSUME NEW t \in Threads, UpdateConnects(t) PROVE ConnectIsCurrent'
    <2>1. CASE NotConnected(t)
      BY <1>8, <2>1, MqttLinkConstants
      DEF NotConnected, UpdateConnects, CallBegins, HoldsWhatItNeeds, OneCall,
          NothingIsOverwritten, Quiet
    <2>2. ASSUME NEW m \in Managers, Connects(t, m) PROVE ConnectIsCurrent'
      BY <1>8, <2>2, MqttLinkConstants
      DEF Connects, Unused, UpdateConnects, CallBegins, HoldsWhatItNeeds, OneCall,
          NothingIsOverwritten, Quiet
    <2>. QED
      BY <1>8, <2>1, <2>2, ConnectDoes DEF UpdateConnects
  <1>9. ASSUME NEW t \in Threads,
               InstallCancel(t) \/ NewConnection(t) \/ ConnectFails(t) \/ CloseEnds(t)
        PROVE  ConnectIsCurrent'
    BY <1>9, MqttLinkConstants, ZenonT(60)
    DEF InstallCancel, Goto, conn, loops, threads, NewConnection, ConnectFails, CloseEnds,
        Nothing, Taken
  <1>10. ASSUME NEW m \in Managers, NEW up \in BOOLEAN,
               setConnectionState(m, up) \/ TellSubscribers(m, up)
        PROVE  ConnectIsCurrent'
    BY <1>10, MqttLinkConstants
    DEF setConnectionState, ManagerGoes, conn, threads, loops, TellSubscribers
  <1>11. ASSUME NEW m \in Managers, ManagerEnds(m) \/ LinkChanges(m) PROVE ConnectIsCurrent'
    BY <1>11, MqttLinkConstants
    DEF ManagerEnds, ManagerGoes, conn, threads, loops, LinkChanges
  <1>12. CASE UNCHANGED vars
    BY <1>12
    DEF vars, conn, loops, threads
  <1>. HIDE DEF LinkInv, LinkTypes, ConnectIsCurrent, Connecting
  <1>. QED
    BY <1>1, <1>2, <1>3, <1>4, <1>5, <1>6, <1>7, <1>8, <1>9, <1>10, <1>11, <1>12
    DEF Next, ThreadStep, CallbackStep

LEMMA OverlapStays == LinkTypes /\ [Next]_vars /\ ~overlapped' => ~overlapped
  <1>. SUFFICES ASSUME LinkTypes, [Next]_vars, ~overlapped' PROVE ~overlapped
    OBVIOUS
  <1>. QED BY DEF Next, ThreadStep, CallbackStep, vars, CallBegins, LinkTypes, Connect, Close,
         UpdateCredentials, InstallCancel, NewConnection, NewConnectionFails, InstallManager,
         ConnectFails, Disconnect, CloseEnds, UpdateCloses, UpdateConnects, setConnectionState,
         TellSubscribers, ManagerEnds, LinkChanges

Fit ==
  /\ manager \notin cancelled
  /\ manager \in current \/ \E t \in Threads : pc[t] = "close"

LEMMA ManagerIsCurrentStep ==
  LinkInv /\ [Next]_vars => ManagerIsCurrent'
  <1>. SUFFICES ASSUME LinkInv, [Next]_vars, ~overlapped', manager' # None PROVE Fit'
    BY DEF ManagerIsCurrent, Fit
  <1>. USE DEF LinkInv
  <1>0. ~overlapped /\ (manager # None => Fit)
    BY OverlapStays DEF ManagerIsCurrent, Fit
  <1>1. ASSUME NEW t \in Threads, Connect(t) PROVE Fit'
    <2>1. CASE NotConnected(t)
      BY <1>0, <1>1, <2>1, MqttLinkConstants
      DEF NotConnected, Connect, CallBegins, HoldsWhatItNeeds, ConnectIsCurrent, Fit, LinkTypes
    <2>2. ASSUME NEW m \in Managers, Connects(t, m) PROVE Fit'
      BY <1>0, <1>1, <2>2, MqttLinkConstants
      DEF Connects, Unused, Connect, CallBegins, HoldsWhatItNeeds, ConnectIsCurrent, Fit,
          LinkTypes
    <2>. QED
      BY <1>1, <2>1, <2>2, ConnectDoes DEF Connect
  <1>2. ASSUME NEW t \in Threads, Close(t) PROVE Fit'
    BY <1>0, <1>2, MqttLinkConstants
    DEF Close, CallBegins, CloseBegins, Taken, Goto, loops, conn, threads, Fit, LinkTypes,
        HoldsWhatItNeeds, NothingIsOverwritten, OneCall, ConnectIsCurrent, Quiet, Connecting
  <1>3. ASSUME NEW t \in Threads, UpdateCredentials(t) PROVE Fit'
    BY <1>0, <1>3, MqttLinkConstants
    DEF UpdateCredentials, CallBegins, Goto, conn, loops, threads, Fit, LinkTypes,
        HoldsWhatItNeeds, NothingIsOverwritten, OneCall, ConnectIsCurrent, Quiet, Connecting
  <1>4. ASSUME NEW t \in Threads, NewConnectionFails(t) PROVE Fit'
    BY <1>0, <1>4, MqttLinkConstants
    DEF NewConnectionFails, Goto, conn, loops, threads, Fit, LinkTypes, HoldsWhatItNeeds,
        NothingIsOverwritten, OneCall, ConnectIsCurrent, Quiet, Connecting
  <1>5. ASSUME NEW t \in Threads, InstallManager(t) PROVE Fit'
    <2>1. CASE connecting
      BY <1>0, <1>5, <2>1 DEF InstallManager, ConnectIsCurrent, LinkTypes, Fit
    <2>2. CASE ~connecting
      BY <1>0, <1>5, <2>2 DEF InstallManager, ConnectIsCurrent, Fit
    <2>. QED
      BY <2>1, <2>2
  <1>6. ASSUME NEW t \in Threads, Disconnect(t) PROVE Fit'
    BY <1>0, <1>6, MqttLinkConstants
    DEF Disconnect, Goto, conn, loops, threads, Fit, LinkTypes, HoldsWhatItNeeds,
        NothingIsOverwritten, OneCall, ConnectIsCurrent, Quiet, Connecting
  <1>7. ASSUME NEW t \in Threads, UpdateCloses(t) PROVE Fit'
    BY <1>0, <1>7, MqttLinkConstants
    DEF UpdateCloses, CallBegins, CloseBegins, Taken, Goto, loops, conn, threads, Fit,
        LinkTypes, HoldsWhatItNeeds, NothingIsOverwritten, OneCall, ConnectIsCurrent, Quiet,
        Connecting
  <1>8. ASSUME NEW t \in Threads, UpdateConnects(t) PROVE Fit'
    <2>1. CASE NotConnected(t)
      BY <1>0, <1>8, <2>1, MqttLinkConstants
      DEF NotConnected, UpdateConnects, CallBegins, HoldsWhatItNeeds, ConnectIsCurrent, Fit,
          LinkTypes
    <2>2. ASSUME NEW m \in Managers, Connects(t, m) PROVE Fit'
      BY <1>0, <1>8, <2>2, MqttLinkConstants
      DEF Connects, Unused, UpdateConnects, CallBegins, HoldsWhatItNeeds, ConnectIsCurrent, Fit,
          LinkTypes
    <2>. QED
      BY <1>8, <2>1, <2>2, ConnectDoes DEF UpdateConnects
  <1>9. ASSUME NEW t \in Threads,
               InstallCancel(t) \/ NewConnection(t) \/ ConnectFails(t) \/ CloseEnds(t)
        PROVE  Fit'
    BY <1>0, <1>9, MqttLinkConstants
    DEF InstallCancel, Goto, conn, loops, threads, NewConnection, ConnectFails, CloseEnds,
        Nothing, Taken, Fit, LinkTypes
  <1>10. ASSUME NEW m \in Managers, NEW up \in BOOLEAN,
               setConnectionState(m, up) \/ TellSubscribers(m, up)
        PROVE  Fit'
    BY <1>0, <1>10, MqttLinkConstants
    DEF setConnectionState, ManagerGoes, conn, threads, loops, TellSubscribers, Fit, LinkTypes
  <1>11. ASSUME NEW m \in Managers, ManagerEnds(m) \/ LinkChanges(m) PROVE Fit'
    BY <1>0, <1>11, MqttLinkConstants
    DEF ManagerEnds, ManagerGoes, conn, threads, loops, LinkChanges, Fit, LinkTypes
  <1>12. CASE UNCHANGED vars
    BY <1>0, <1>12
    DEF vars, conn, loops, threads, Fit, LinkTypes
  <1>. HIDE DEF LinkInv
  <1>. QED
    BY <1>1, <1>2, <1>3, <1>4, <1>5, <1>6, <1>7, <1>8, <1>9, <1>10, <1>11, <1>12
    DEF Next, ThreadStep, CallbackStep

LEMMA LinkStep == LinkInv /\ [Next]_vars => LinkInv'
  BY LinkTypesStep, HoldsStep, NothingIsOverwrittenStep, LeaksStep, OneCallStep,
     ConnectIsCurrentStep, ManagerIsCurrentStep
  DEF LinkInv

-----------------------------------------------------------------------------
\* The inductive invariant of the connection.
THEOREM LinkIsSound == Spec => []LinkInv
  BY LinkInit, LinkStep, PTL DEF Spec

\* Connect, Close, UpdateCredentials and the callbacks of the managers keep the types.
THEOREM LinkTypeCorrect == Spec => []TypeOK
  <1>1. LinkInv => TypeOK
    BY DEF LinkInv, LinkTypes, LoopStates, CallSteps, TypeOK
  <1>. QED
    BY <1>1, LinkIsSound, PTL

\* However calls overlap, no manager is left running that nobody will cancel, and if no two calls
\* overlapped the installed manager runs with the last credentials (PahoMQTTConn.Connect, Close,
\* UpdateCredentials).
THEOREM ManagersStayOwned == Spec => []ManagersAreOwned
  <1>1. LinkInv => ManagersAreOwned
    <2>1. LinkInv => InstalledIsCurrent
      BY DEF LinkInv, ManagerIsCurrent, InstalledIsCurrent, Settled, Quiet
    <2>. QED
      BY <2>1 DEF LinkInv, ManagersAreOwned
  <1>. QED
    BY <1>1, LinkIsSound, PTL
=============================================================================
