--------------------------- MODULE ClientLifecycle ---------------------------
(***************************************************************************)
(* Start, rollbackStart and Close of MIoTClient, the network and cloud     *)
(* connection handlers, the cloud refresh timer, and the ownership of the  *)
(* cloud push backend (client.go, with mips_cloud.go and mqtt.go as the    *)
(* backend).                                                               *)
(*                                                                         *)
(* Four kinds of goroutine meet on client.mu: the user, who calls Start    *)
(* and Close one after the other; "net", the network monitor's callbacks;  *)
(* "conn", the MQTT connection's callbacks; and the goroutines of the      *)
(* cloud refresh timers.  Each step below is one critical section or one   *)
(* call of a backend.                                                      *)
(***************************************************************************)
EXTENDS Naturals, FiniteSets

CONSTANTS
  Timers,     \* cloud refresh goroutines that may exist at one time (bound)
  MaxStarts,  \* Start calls (bound)
  None        \* client.cloudTimer = nil

VARIABLES
  started,        \* client.started
  ctx,            \* client.runtimeCtx: 0 is nil, n the context of the n-th Start
  starts,         \* Start calls so far
  networkOnline,  \* client.networkOnline
  pushOn,         \* client.cloudPushOn
  timer,          \* client.cloudTimer and client.cloudStop
  callbacks,      \* client.backgroundSub is installed
  stateSub,       \* client.cloudStateSub holds the device's subscription
  network,        \* the network monitor's status
  routes, lan,    \* the local routes and the LAN client run
  lanVote,        \* this client's vote at the LAN client
  push,           \* the cloud push backend runs: Start, and no Close since
  connected,      \* its MQTT connection is up
  brokerSub,      \* it still has the device's state subscription
  pc,             \* where each goroutine is
  local,          \* Close's local copy of cloudPushOn
  tctx,           \* the context each timer goroutine captured
  panicked,       \* a goroutine called Done on a nil context
  raced           \* history: user and net handlers, or a handler and Close, overlapped

vars == <<started, ctx, starts, networkOnline, pushOn, timer, callbacks, stateSub,
          network, routes, lan, lanVote, push, connected, brokerSub, pc, local,
          tctx, panicked, raced>>

client   == <<started, ctx, starts, networkOnline, pushOn, timer, callbacks, stateSub>>
backends == <<routes, lan, lanVote, push, connected, brokerSub>>

Goroutines == {"user", "net", "conn"} \cup Timers
Handlers == {"user", "net"}
Busy(t)  == pc[t] # "idle"
AllIdle  == \A t \in {"user", "net", "conn"} : ~Busy(t)

HandlerRuns == Busy("net") \/ Busy("conn") \/ \E t \in Timers : pc[t] = "refresh"

\* The goroutine of timer t, if it still waits, sees its stop channel closed.
Stopped(p, t) == IF t \in Timers /\ p[t] = "armed" THEN [p EXCEPT ![t] = "stopped"] ELSE p
Goto(t, l) == pc' = [pc EXCEPT ![t] = l]

Init ==
  /\ started = FALSE /\ ctx = 0 /\ starts = 0 /\ networkOnline = FALSE
  /\ pushOn = FALSE /\ timer = None /\ callbacks = FALSE /\ stateSub = FALSE
  /\ network \in BOOLEAN /\ routes = FALSE /\ lan = FALSE /\ lanVote = FALSE
  /\ push = FALSE /\ connected = FALSE /\ brokerSub = FALSE
  /\ pc = [t \in Goroutines |-> "idle"] /\ local = FALSE
  /\ tctx = [t \in Timers |-> 0] /\ panicked = FALSE /\ raced = FALSE

-----------------------------------------------------------------------------
(* scheduleCloudRefresh: the slot is replaced; the goroutine then waits on  *)
(* the context it read, which is nil when the client is not running.        *)

scheduleCloudRefresh(p) ==
  \E t \in Timers :
    /\ p[t] = "idle"
    /\ timer' = t
    /\ tctx' = [tctx EXCEPT ![t] = ctx]
    /\ pc' = [Stopped(p, timer) EXCEPT ![t] = "armed"]
    /\ panicked' = (panicked \/ ctx = 0)

\* The timer expires; a stopped one may have expired first.
TimerFires(t) ==
  /\ pc[t] \in {"armed", "stopped"}
  /\ timer' = IF timer = t THEN None ELSE timer
  /\ Goto(t, "refresh")
  /\ raced' = (raced \/ tctx[t] # ctx)
  /\ UNCHANGED <<started, ctx, starts, networkOnline, pushOn, callbacks, stateSub,
                 network, backends, local, tctx, panicked>>

\* ctx.Done() or the stop channel is ready: the goroutine returns.
TimerReturns(t) ==
  /\ \/ pc[t] = "stopped"
     \/ pc[t] = "armed" /\ tctx[t] # ctx
  /\ Goto(t, "idle") /\ tctx' = [tctx EXCEPT ![t] = 0]
  /\ UNCHANGED <<client, network, backends, local, panicked, raced>>

\* RefreshCloudDevices succeeds and ensures the device's state subscription.
RefreshSucceeds(t) ==
  /\ pc[t] = "refresh"
  /\ stateSub' = TRUE
  /\ brokerSub' = (brokerSub \/ ~stateSub)
  /\ Goto(t, "idle") /\ tctx' = [tctx EXCEPT ![t] = 0]
  /\ UNCHANGED <<started, ctx, starts, networkOnline, pushOn, timer, callbacks,
                 network, routes, lan, lanVote, push, connected, local, panicked, raced>>

\* It fails: retried while the client believes the network is up.
RefreshFails(t) ==
  /\ pc[t] = "refresh"
  /\ IF networkOnline
       THEN scheduleCloudRefresh([pc EXCEPT ![t] = "idle"])
       ELSE Goto(t, "idle") /\ UNCHANGED <<timer, tctx, panicked>>
  /\ UNCHANGED <<started, ctx, starts, networkOnline, pushOn, callbacks, stateSub,
                 network, backends, local, raced>>

-----------------------------------------------------------------------------
(* handleNetworkStatusChanged, run by "net" and by the user's Start *)

MonitorReports(status) ==
  /\ network # status /\ ~Busy("net")
  /\ network' = status
  /\ pc' = IF callbacks THEN [pc EXCEPT !["net"] = IF status THEN "up" ELSE "down"] ELSE pc
  /\ raced' = (raced \/ (callbacks /\ (Busy("user") \/ Busy("conn"))))
  /\ UNCHANGED <<client, backends, local, tctx, panicked>>

\* networkOnline = true, then RefreshOAuthInfo, which may fail.
NetworkUp(t) ==
  /\ pc[t] = "up"
  /\ networkOnline' = TRUE
  /\ \E authorized \in BOOLEAN : Goto(t, IF authorized THEN "ensure" ELSE "idle")
  /\ UNCHANGED <<started, ctx, starts, pushOn, timer, callbacks, stateSub,
                 network, backends, local, tctx, panicked, raced>>

\* ensureCloudPushStarted: the flag is tested and set first ...
EnsurePush(t) ==
  /\ pc[t] = "ensure"
  /\ pushOn' = TRUE
  /\ Goto(t, IF pushOn THEN "schedule" ELSE "startPush")
  /\ UNCHANGED <<started, ctx, starts, networkOnline, timer, callbacks, stateSub,
                 network, backends, local, tctx, panicked, raced>>

\* Mutation of StartPush: the flag is not reset when the backend does not start.
StartPushKeepingFlag(t) ==
  /\ pc[t] = "startPush"
  /\ \/ push' = TRUE /\ Goto(t, "schedule")
     \/ push' = push /\ Goto(t, "idle")
  /\ UNCHANGED <<started, ctx, starts, networkOnline, pushOn, timer, callbacks, stateSub,
                 network, routes, lan, lanVote, connected, brokerSub, local, tctx, panicked, raced>>

\* ... then the backend is started, and the flag reset if that fails.
StartPush(t) ==
  /\ pc[t] = "startPush"
  /\ \/ push' = TRUE /\ pushOn' = pushOn /\ Goto(t, "schedule")
     \/ push' = push /\ pushOn' = FALSE /\ Goto(t, "idle")
  /\ UNCHANGED <<started, ctx, starts, networkOnline, timer, callbacks, stateSub,
                 network, routes, lan, lanVote, connected, brokerSub, local, tctx, panicked, raced>>

Schedule(t) ==
  /\ pc[t] = "schedule"
  /\ scheduleCloudRefresh([pc EXCEPT ![t] = "idle"])
  /\ UNCHANGED <<started, ctx, starts, networkOnline, pushOn, callbacks, stateSub,
                 network, backends, local, raced>>

\* networkOnline = false and cancelCloudRefresh.
NetworkDown(t) ==
  /\ pc[t] = "down"
  /\ networkOnline' = FALSE /\ timer' = None
  /\ pc' = [Stopped(pc, timer) EXCEPT ![t] = "stopPush"]
  /\ UNCHANGED <<started, ctx, starts, pushOn, callbacks, stateSub,
                 network, backends, local, tctx, panicked, raced>>

\* stopCloudPush does nothing unless the client believes the push is on.
StopPush(t) ==
  /\ pc[t] = "stopPush"
  /\ pushOn' = FALSE
  /\ Goto(t, IF pushOn THEN "closePush" ELSE "lost")
  /\ UNCHANGED <<started, ctx, starts, networkOnline, timer, callbacks, stateSub,
                 network, backends, local, tctx, panicked, raced>>

\* cloudPush.Close: every broadcast subscription goes; the call waits for the
\* connection's own callbacks.
ClosePush(t) ==
  /\ pc[t] = "closePush" /\ ~Busy("conn")
  /\ push' = FALSE /\ connected' = FALSE /\ brokerSub' = FALSE
  /\ Goto(t, "lost")
  /\ UNCHANGED <<client, network, routes, lan, lanVote, local, tctx, panicked, raced>>

\* handleCloudConnectionState(false)
ConnectionLost(t) ==
  /\ pc[t] = "lost"
  /\ pushOn' = FALSE
  /\ Goto(t, "idle")
  /\ UNCHANGED <<started, ctx, starts, networkOnline, timer, callbacks, stateSub,
                 network, backends, local, tctx, panicked, raced>>

-----------------------------------------------------------------------------
(* The MQTT connection of the push backend comes and goes by itself *)

ConnectionReports(l) ==
  /\ pc' = IF callbacks THEN [pc EXCEPT !["conn"] = l] ELSE pc
  /\ raced' = (raced \/ (callbacks /\ (Busy("user") \/ Busy("net"))))

BrokerConnects ==
  /\ push /\ ~connected /\ network /\ ~Busy("conn")
  /\ connected' = TRUE
  /\ ConnectionReports("connected")
  /\ UNCHANGED <<client, network, routes, lan, lanVote, push, brokerSub, local, tctx, panicked>>

BrokerDisconnects ==
  /\ connected /\ ~Busy("conn")
  /\ connected' = FALSE
  /\ ConnectionReports("lost")
  /\ UNCHANGED <<client, network, routes, lan, lanVote, push, brokerSub, local, tctx, panicked>>

\* handleCloudConnectionState(true)
ConnectionMade(t) ==
  /\ pc[t] = "connected"
  /\ pushOn' = TRUE
  /\ Goto(t, "schedule")
  /\ UNCHANGED <<started, ctx, starts, networkOnline, timer, callbacks, stateSub,
                 network, backends, local, tctx, panicked, raced>>

-----------------------------------------------------------------------------
(* The user *)

Start ==
  /\ ~Busy("user") /\ ~started /\ starts < MaxStarts
  /\ started' = TRUE /\ starts' = starts + 1 /\ ctx' = starts + 1
  /\ Goto("user", "subscribe")
  /\ raced' = (raced \/ HandlerRuns)
  /\ UNCHANGED <<networkOnline, pushOn, timer, callbacks, stateSub, network, backends,
                 local, tctx, panicked>>

StartSubscribes ==
  /\ pc["user"] = "subscribe"
  /\ callbacks' = TRUE
  /\ Goto("user", "routes")
  /\ UNCHANGED <<started, ctx, starts, networkOnline, pushOn, timer, stateSub,
                 network, backends, local, tctx, panicked, raced>>

StartRoutes ==
  /\ pc["user"] = "routes"
  /\ \/ routes' = TRUE /\ Goto("user", "lan")
     \/ routes' \in BOOLEAN /\ Goto("user", "rollback")  \* some route fails to start
  /\ UNCHANGED <<client, network, lan, lanVote, push, connected, brokerSub, local, tctx, panicked, raced>>

StartLAN ==
  /\ pc["user"] = "lan"
  /\ lanVote' = TRUE
  /\ \/ lan' = TRUE /\ Goto("user", "status")
     \/ lan' \in BOOLEAN /\ Goto("user", "rollback")  \* it, or RefreshLANDevices after it, fails
  /\ UNCHANGED <<client, network, routes, push, connected, brokerSub, local, tctx, panicked, raced>>

\* The initial handleNetworkStatusChanged(network.Status()).
StartReadsStatus ==
  /\ pc["user"] = "status"
  /\ Goto("user", IF network THEN "up" ELSE "down")
  /\ raced' = (raced \/ Busy("net"))
  /\ UNCHANGED <<client, network, backends, local, tctx, panicked>>

\* Mutation of rollbackStart: started is not reset.
rollbackStartStillStarted ==
  /\ pc["user"] = "rollback"
  /\ ctx' = 0
  /\ Goto("user", "undo")
  /\ raced' = (raced \/ HandlerRuns)
  /\ UNCHANGED <<started, starts, networkOnline, pushOn, timer, callbacks, stateSub, network,
                 backends, local, tctx, panicked>>

\* rollbackStart: the context goes first ...
rollbackStart ==
  /\ pc["user"] = "rollback"
  /\ started' = FALSE /\ ctx' = 0
  /\ Goto("user", "undo")
  /\ raced' = (raced \/ HandlerRuns)
  /\ UNCHANGED <<starts, networkOnline, pushOn, timer, callbacks, stateSub, network,
                 backends, local, tctx, panicked>>

\* Mutation of RollbackReleases: the LAN vote is not withdrawn.
RollbackKeepsVote ==
  /\ pc["user"] = "undo"
  /\ callbacks' = FALSE /\ routes' = FALSE /\ lan' = FALSE
  /\ Goto("user", "idle")
  /\ UNCHANGED <<started, ctx, starts, networkOnline, pushOn, timer, stateSub, network,
                 lanVote, push, connected, brokerSub, local, tctx, panicked, raced>>

\* ... then what Start opened is closed; the cloud push is not among it.
RollbackReleases ==
  /\ pc["user"] = "undo"
  /\ callbacks' = FALSE /\ routes' = FALSE /\ lan' = FALSE /\ lanVote' = FALSE
  /\ Goto("user", "idle")
  /\ UNCHANGED <<started, ctx, starts, networkOnline, pushOn, timer, stateSub, network,
                 push, connected, brokerSub, local, tctx, panicked, raced>>

\* Close: everything the client holds is taken under the lock ...
CloseTakes ==
  /\ ~Busy("user") /\ started
  /\ started' = FALSE /\ ctx' = 0 /\ timer' = None /\ stateSub' = FALSE
  /\ pushOn' = FALSE /\ local' = pushOn
  /\ pc' = [Stopped(pc, timer) EXCEPT !["user"] = "release"]
  /\ brokerSub' = (brokerSub /\ ~stateSub)
  /\ raced' = (raced \/ HandlerRuns)
  /\ UNCHANGED <<starts, networkOnline, callbacks, network, routes, lan, lanVote, push,
                 connected, tctx, panicked>>

\* ... then subscriptions and routes are closed ...
CloseReleases ==
  /\ pc["user"] = "release"
  /\ callbacks' = FALSE /\ routes' = FALSE
  /\ Goto("user", IF local THEN "closeOwned" ELSE "closeLAN")
  /\ UNCHANGED <<started, ctx, starts, networkOnline, pushOn, timer, stateSub,
                 network, lan, lanVote, push, connected, brokerSub, local, tctx, panicked, raced>>

\* ... the cloud push only if it was thought to be on ...
CloseOwnedPush ==
  /\ pc["user"] = "closeOwned" /\ ~Busy("conn")
  /\ push' = FALSE /\ connected' = FALSE /\ brokerSub' = FALSE
  /\ Goto("user", "closeLAN")
  /\ UNCHANGED <<client, network, routes, lan, lanVote, local, tctx, panicked, raced>>

\* ... and the LAN client.
CloseLAN ==
  /\ pc["user"] = "closeLAN"
  /\ lan' = FALSE /\ lanVote' = FALSE /\ local' = FALSE
  /\ Goto("user", "idle")
  /\ UNCHANGED <<client, network, routes, push, connected, brokerSub, tctx, panicked, raced>>

UserStep == StartSubscribes \/ StartRoutes \/ StartLAN \/ StartReadsStatus \/ rollbackStart
            \/ RollbackReleases \/ CloseReleases \/ CloseOwnedPush \/ CloseLAN
HandlerStep(t) == NetworkUp(t) \/ EnsurePush(t) \/ StartPush(t) \/ Schedule(t)
                  \/ NetworkDown(t) \/ StopPush(t) \/ ClosePush(t)
                  \/ ConnectionLost(t) \/ ConnectionMade(t)
TimerStep(t) == TimerFires(t) \/ TimerReturns(t) \/ RefreshSucceeds(t) \/ RefreshFails(t)

\* A panic of a goroutine ends the process.
Next ==
  /\ ~panicked
  /\ \/ Start \/ CloseTakes \/ UserStep
     \/ \E status \in BOOLEAN : MonitorReports(status)
     \/ BrokerConnects \/ BrokerDisconnects
     \/ \E t \in {"user", "net", "conn"} : HandlerStep(t)
     \/ \E t \in Timers : TimerStep(t)

Spec == Init /\ [][Next]_vars

-----------------------------------------------------------------------------
(* Properties *)

TypeOK ==
  /\ {started, networkOnline, pushOn, callbacks, stateSub, network, routes, lan, lanVote,
      push, connected, brokerSub, local, panicked, raced} \subseteq BOOLEAN
  /\ starts \in 0..MaxStarts /\ ctx = IF started THEN starts ELSE 0
  /\ timer \in Timers \cup {None} /\ tctx \in [Timers -> 0..MaxStarts]
  /\ pc \in [Goroutines -> {"idle", "armed", "stopped", "refresh", "up", "ensure", "startPush",
                         "schedule", "down", "stopPush", "closePush", "lost", "connected",
                         "subscribe", "routes", "lan", "status", "rollback", "undo", "release",
                         "closeOwned", "closeLAN"}]

\* Once no handler runs, the client's view of the network is the monitor's and
\* it believes its cloud push is on exactly when the backend runs and has not
\* reported its connection lost, unless handlers overlapped with each other or
\* with Close.  (A backend that Close left running, see CloseClosesOwnedBackends,
\* may be connected unknown to the next Start.)
ViewsSettle ==
  AllIdle /\ ~raced /\ started =>
    /\ networkOnline = network
    /\ pushOn => push
    /\ connected /\ starts = 1 => pushOn

\* Whatever Start got to before it failed, and however often it is retried,
\* a client that is not running leaves no route, LAN client, LAN vote or
\* callback behind. Unless Close or rollbackStart overlapped with a handler or a
\* refresh, no refresh is pending either, and none is given the nil context of a
\* stopped client, which ends the process.
StoppedIsReleased ==
  /\ ~Busy("user") /\ ~started => ~routes /\ ~lan /\ ~lanVote /\ ~callbacks
  /\ ~raced => ~panicked /\ (~Busy("user") /\ ~started => timer = None)

\* Expected of the code but not kept by it (README, "What the code does not keep"):
\* "Close closes active subscriptions and owned backends": after Close, with no
\* handler running, the cloud push backend does not run.
CloseClosesOwnedBackends ==
  AllIdle /\ ~raced /\ ~started => ~push

\* Expected of the code but not kept by it (README, "What the code does not keep"):
\* A device's cloud state subscription survives a network outage: while the
\* push is connected and nothing is in progress, a subscription the client
\* holds exists at the backend.
StateSubscriptionIsLive ==
  AllIdle /\ ~raced /\ started /\ connected /\ stateSub => brokerSub
=============================================================================
