----------------------------- MODULE LanTransport -----------------------------
(***************************************************************************)
(* The sockets of the default LAN transport (lan.go, udpLANTransport): one *)
(* on the LAN port and one per broadcast interface, each with a read loop, *)
(* opened and closed by startRuntime, stopRuntime and UpdateInterfaces     *)
(* under two mutexes, the client's and the transport's.  A read loop takes *)
(* the client's mutex for every packet.                                    *)
(***************************************************************************)
EXTENDS Naturals, FiniteSets

CONSTANTS
  Interfaces,
  MaxChanges  \* packets, changes of the interfaces and calls (bound)

Main == "main"
Sockets == Interfaces \cup {Main}
Threads == {"starter", "stopper", "updater"}

VARIABLES
  addressed,  \* environment: the interfaces that have an IPv4 address
  changes,
  cMu, tMu,   \* who holds LANClient.mu and udpLANTransport.mu
  clientIfs, transportIfs, \* c.broadcastIfs, t.broadcastIfs
  running, sub, \* c.runtimeCancel and c.listenSub are set
  handler,    \* t.handler is set
  socket,     \* t.conn and t.broadcastConns: none, open, closed
  loop,       \* the read loop: none, reading, handling
  context,    \* the context of the loop: run, background, ended
  pc, took,   \* per thread; what stopRuntime took
  disturbed   \* history: a start failed, or met a stop or an update half-way

mutexes == <<cMu, tMu>>
lists == <<clientIfs, transportIfs>>
flags == <<running, sub, handler>>
sockets == <<socket, loop, context>>
transport == <<addressed, changes, mutexes, lists, flags, sockets, pc, took, disturbed>>

TypeOK ==
  /\ addressed \subseteq Interfaces /\ changes \in 0..MaxChanges
  /\ cMu \in {"free", "starter"} /\ tMu \in {"free"} \cup Threads
  /\ clientIfs \subseteq Interfaces /\ transportIfs \subseteq Interfaces
  /\ running \in BOOLEAN /\ sub \in BOOLEAN /\ handler \in BOOLEAN
  /\ socket \in [Sockets -> {"none", "open", "closed"}]
  /\ loop \in [Sockets -> {"none", "reading", "handling"}]
  /\ context \in [Sockets -> {"run", "background", "ended"}]
  /\ pc \in [Threads -> {"idle", "bind", "listen", "sync", "undo", "cancel", "close", "closing", "transport"}]
  /\ took \in BOOLEAN /\ disturbed \in BOOLEAN

Init ==
  /\ addressed \in SUBSET Interfaces /\ changes = 0
  /\ cMu = "free" /\ tMu = "free"
  /\ clientIfs = Interfaces /\ transportIfs = Interfaces
  /\ running = FALSE /\ sub = FALSE /\ handler = FALSE
  /\ socket = [s \in Sockets |-> "none"] /\ loop = [s \in Sockets |-> "none"]
  /\ context = [s \in Sockets |-> "ended"]
  /\ pc = [t \in Threads |-> "idle"] /\ took = FALSE /\ disturbed = FALSE

Goto(t, step) == pc' = [pc EXCEPT ![t] = step]
Count == changes < MaxChanges /\ changes' = changes + 1
Holds(t) == tMu = t
Open(s, ctx) ==
  /\ socket' = [socket EXCEPT ![s] = "open"]
  /\ loop' = [loop EXCEPT ![s] = "reading"]
  /\ context' = [context EXCEPT ![s] = ctx]
\* cancel of the runtime's context.
Cancelled == [s \in Sockets |-> IF context[s] = "run" THEN "ended" ELSE context[s]]
\* Whether somebody else is half-way through a call.
Overlaps(t) == \E u \in Threads \ {t} : pc[u] # "idle"

-----------------------------------------------------------------------------
\* An interface gets or loses its address.
AddressChanges(i) ==
  /\ Count
  /\ addressed' = (addressed \ {i}) \cup ({i} \ addressed)
  /\ UNCHANGED <<mutexes, lists, flags, sockets, pc, took, disturbed>>

\* A packet is read and handed to handleRuntimePacket.
PacketArrives(s) ==
  /\ Count
  /\ loop[s] = "reading" /\ socket[s] = "open"
  /\ loop' = [loop EXCEPT ![s] = "handling"]
  /\ UNCHANGED <<addressed, mutexes, lists, flags, socket, context, pc, took, disturbed>>

\* handleRuntimePacket takes and gives back the client's mutex.
Handled(s) ==
  /\ loop[s] = "handling" /\ cMu = "free"
  /\ loop' = [loop EXCEPT ![s] = "reading"]
  /\ UNCHANGED <<addressed, changes, mutexes, lists, flags, socket, context, pc, took, disturbed>>

\* startUDPLoopLocked: the loop ends when its socket is closed, or a read times out after its context's end.
LoopEnds(s) ==
  /\ loop[s] = "reading" /\ (socket[s] = "closed" \/ context[s] = "ended")
  /\ loop' = [loop EXCEPT ![s] = "none"]
  /\ UNCHANGED <<addressed, changes, mutexes, lists, flags, socket, context, pc, took, disturbed>>

-----------------------------------------------------------------------------
(* startRuntime holds the client's mutex while the transport listens *)

startRuntime ==
  /\ pc["starter"] = "idle" /\ cMu = "free" /\ ~running /\ Count
  /\ running' = TRUE /\ cMu' = "starter" /\ Goto("starter", "bind")
  /\ disturbed' = (disturbed \/ Overlaps("starter"))
  /\ UNCHANGED <<addressed, tMu, lists, sub, handler, sockets, took>>

NotStarted == running' = FALSE /\ cMu' = "free" /\ Goto("starter", "idle") /\ disturbed' = TRUE

\* ListenUDP: the port may be in use.
Bind ==
  /\ pc["starter"] = "bind"
  /\ \/ socket[Main] # "open" /\ Goto("starter", "listen") /\ UNCHANGED <<running, cMu, disturbed>>
     \/ NotStarted
  /\ UNCHANGED <<addressed, changes, tMu, lists, sub, handler, sockets, took>>

Listen ==
  /\ pc["starter"] = "listen" /\ tMu = "free"
  /\ tMu' = "starter" /\ handler' = TRUE /\ Open(Main, "run") /\ Goto("starter", "sync")
  /\ UNCHANGED <<addressed, changes, cMu, lists, running, sub, took, disturbed>>

-----------------------------------------------------------------------------
(* syncBroadcastConnsLocked, of Listen and of UpdateInterfaces *)

Missing == {i \in transportIfs : socket[i] = "none"}
Surplus == {i \in Interfaces \ transportIfs : socket[i] # "none"}

SyncOpens(t) ==
  /\ pc[t] = "sync" /\ Holds(t)
  /\ \E i \in Missing \cap addressed : Open(i, IF t = "starter" THEN "run" ELSE "background")
  /\ UNCHANGED <<addressed, changes, mutexes, lists, flags, pc, took, disturbed>>

\* An interface without an address fails it half-way.
SyncFails(t) ==
  /\ pc[t] = "sync" /\ Holds(t)
  /\ Missing \ addressed # {}
  /\ tMu' = "free" /\ Goto(t, IF t = "starter" THEN "undo" ELSE "idle") /\ disturbed' = TRUE
  /\ UNCHANGED <<addressed, changes, cMu, lists, flags, sockets, took>>

\* Sockets of other interfaces are closed one by one, waiting for the loop of each.
SyncCloses(t) ==
  /\ pc[t] = "sync" /\ Holds(t)
  /\ Missing = {} /\ \A i \in Interfaces : socket[i] # "closed"
  /\ \E i \in Surplus : socket' = [socket EXCEPT ![i] = "closed"]
  /\ UNCHANGED <<addressed, changes, mutexes, lists, flags, loop, context, pc, took, disturbed>>

\* <-conn.done
Waited(s) == socket[s] = "closed" /\ loop[s] = "none"
SyncWaits(t) ==
  /\ pc[t] = "sync" /\ Holds(t)
  /\ \E i \in Surplus : Waited(i) /\ socket' = [socket EXCEPT ![i] = "none"]
  /\ UNCHANGED <<addressed, changes, mutexes, lists, flags, loop, context, pc, took, disturbed>>

\* Mutation of SyncEnds: the surplus is left open.
SyncEndsEarly(t) ==
  /\ pc[t] = "sync" /\ Holds(t) /\ Missing = {} /\ \A i \in Interfaces : socket[i] # "closed"
  /\ tMu' = "free" /\ Goto(t, "idle")
  /\ IF t = "starter" THEN sub' = TRUE /\ cMu' = "free" ELSE UNCHANGED <<sub, cMu>>
  /\ UNCHANGED <<addressed, changes, lists, running, handler, sockets, took, disturbed>>

SyncEnds(t) ==
  /\ pc[t] = "sync" /\ Holds(t) /\ Missing = {} /\ Surplus = {}
  /\ tMu' = "free" /\ Goto(t, "idle")
  /\ IF t = "starter" THEN sub' = TRUE /\ cMu' = "free" ELSE UNCHANGED <<sub, cMu>>
  /\ UNCHANGED <<addressed, changes, lists, running, handler, sockets, took, disturbed>>

\* Listen failed: its own socket is closed and its loop awaited; the others, and the handler, stay.
UndoCloses ==
  /\ pc["starter"] = "undo" /\ socket[Main] = "open"
  /\ socket' = [socket EXCEPT ![Main] = "closed"]
  /\ UNCHANGED <<addressed, changes, mutexes, lists, flags, loop, context, pc, took, disturbed>>
UndoWaits ==
  /\ pc["starter"] = "undo" /\ Waited(Main)
  /\ NotStarted /\ context' = Cancelled
  /\ UNCHANGED <<addressed, changes, tMu, lists, sub, handler, socket, loop, took>>

-----------------------------------------------------------------------------
(* stopRuntime *)

stopRuntime ==
  /\ pc["stopper"] = "idle" /\ cMu = "free" /\ (running \/ sub) /\ Count
  /\ running' = FALSE /\ sub' = FALSE /\ took' = sub /\ Goto("stopper", "cancel")
  /\ disturbed' = (disturbed \/ Overlaps("stopper"))
  /\ UNCHANGED <<addressed, mutexes, lists, handler, sockets>>

Cancel ==
  /\ pc["stopper"] = "cancel"
  /\ context' = Cancelled /\ Goto("stopper", IF took THEN "close" ELSE "idle")
  /\ UNCHANGED <<addressed, changes, mutexes, lists, flags, socket, loop, took, disturbed>>

CloseListener ==
  /\ pc["stopper"] = "close" /\ tMu = "free"
  /\ tMu' = "stopper" /\ Goto("stopper", "closing")
  /\ UNCHANGED <<addressed, changes, cMu, lists, flags, sockets, took, disturbed>>

\* Mutation of Closable: the socket of the port is closed, the others are not.
ClosableMain == IF socket[Main] = "open" THEN {Main} ELSE {}
\* closeLocked: the broadcast sockets one by one, then the socket of the port.
Closable ==
  LET open == {i \in Interfaces : socket[i] = "open"} IN
  IF open # {} THEN open ELSE IF socket[Main] = "open" THEN {Main} ELSE {}
CloseOne ==
  /\ pc["stopper"] = "closing" /\ \A i \in Interfaces : socket[i] # "closed"
  /\ \E s \in Closable : socket' = [socket EXCEPT ![s] = "closed"]
  /\ UNCHANGED <<addressed, changes, mutexes, lists, flags, loop, context, pc, took, disturbed>>
CloseWaits ==
  /\ pc["stopper"] = "closing"
  /\ \E s \in Interfaces : Waited(s) /\ socket' = [socket EXCEPT ![s] = "none"]
  /\ UNCHANGED <<addressed, changes, mutexes, lists, flags, loop, context, pc, took, disturbed>>
Closed ==
  /\ pc["stopper"] = "closing" /\ Closable = {} /\ \A s \in Sockets : socket[s] = "closed" => s = Main /\ Waited(s)
  /\ handler' = FALSE /\ socket' = [socket EXCEPT ![Main] = "none"]
  /\ tMu' = "free" /\ Goto("stopper", "idle") /\ took' = FALSE
  /\ UNCHANGED <<addressed, changes, cMu, lists, running, sub, loop, context, disturbed>>

-----------------------------------------------------------------------------
\* LANClient.UpdateInterfaces, under the client's mutex, then of the transport, under its own.
UpdateInterfaces(names) ==
  /\ pc["updater"] = "idle" /\ cMu = "free" /\ Count
  /\ clientIfs' = names /\ Goto("updater", "transport")
  /\ disturbed' = (disturbed \/ Overlaps("updater"))
  /\ UNCHANGED <<addressed, mutexes, transportIfs, flags, sockets, took>>

\* Nothing to synchronise while nobody listens.
TransportUpdates ==
  /\ pc["updater"] = "transport" /\ tMu = "free"
  /\ transportIfs' = clientIfs
  /\ IF handler THEN tMu' = "updater" /\ Goto("updater", "sync") ELSE Goto("updater", "idle") /\ tMu' = tMu
  /\ UNCHANGED <<addressed, changes, cMu, clientIfs, flags, sockets, took, disturbed>>

-----------------------------------------------------------------------------
ThreadStep(t) == SyncOpens(t) \/ SyncFails(t) \/ SyncCloses(t) \/ SyncWaits(t) \/ SyncEnds(t)
StartStep == Bind \/ Listen \/ UndoCloses \/ UndoWaits
StopStep == Cancel \/ CloseListener \/ CloseOne \/ CloseWaits \/ Closed
LoopStep(s) == Handled(s) \/ LoopEnds(s)
Progress ==
  \/ StartStep \/ StopStep \/ TransportUpdates
  \/ \E t \in {"starter", "updater"} : ThreadStep(t)
  \/ \E s \in Sockets : LoopStep(s)

Next ==
  \/ Progress
  \/ \E i \in Interfaces : AddressChanges(i)
  \/ \E s \in Sockets : PacketArrives(s)
  \/ startRuntime \/ stopRuntime
  \/ \E names \in SUBSET Interfaces : UpdateInterfaces(names)

\* What is begun goes on; as long as anything can.
Spec == Init /\ [][Next]_transport /\ WF_transport(Progress)

-----------------------------------------------------------------------------
Quiet == \A t \in Threads : pc[t] = "idle"
Undisturbed == Quiet /\ ~disturbed

\* Unless a start failed or calls overlapped, a stopped client has no socket open, and a running
\* one reads a socket of each interface of its list, and no other (lan.go closeLocked,
\* syncBroadcastConnsLocked, UpdateInterfaces).
SocketsFollow ==
  Undisturbed =>
    /\ clientIfs = transportIfs
    /\ {s \in Sockets : socket[s] # "none"} = IF running THEN {Main} \cup clientIfs ELSE {}
    /\ \A s \in Sockets : (loop[s] = "none") <=> (socket[s] = "none")

\* Calls return, unless a start failed or calls overlapped: nobody waits for a loop that waits for
\* the mutex he holds (lan.go startRuntime, Listen, closeLocked).
CallsEnd == \A t \in Threads : pc[t] # "idle" ~> (pc[t] = "idle" \/ disturbed)

-----------------------------------------------------------------------------
\* Expected of the code but not kept by it (README, "What the code does not keep"):
\* calls return.
NobodyDeadlocks == \A t \in Threads : pc[t] # "idle" ~> pc[t] = "idle"

\* Expected of the code but not kept by it (README, "What the code does not keep"):
\* while the client runs and no call is under way, the open sockets are read.
OpenIsRead == Quiet /\ running => \A s \in Sockets : socket[s] = "open" => loop[s] # "none"

\* Expected of the code but not kept by it (README, "What the code does not keep"):
\* a client that is not running has no socket open.
StoppedIsClosed == Quiet /\ ~running => \A s \in Sockets : socket[s] # "open"
=============================================================================
