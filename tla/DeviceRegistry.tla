--------------------------- MODULE DeviceRegistry ----------------------------
(***************************************************************************)
(* The device registry of MIoTClient (client.go): one entry per device     *)
(* that merges what the cloud, the local gateways and the LAN client say   *)
(* about it, and the notifications sent when the merged state changes.     *)
(*                                                                         *)
(* Every handler works in the same three steps: it obtains a list from a   *)
(* backend, it updates the entries under client.mu, and after unlocking it *)
(* hands the changes to handleChanges, which calls the subscribers one by  *)
(* one.  Handlers run on different goroutines (MQTT callbacks, timers, the *)
(* LAN runtime, callers), the members of Threads, and interleave between   *)
(* those steps.                                                            *)
(***************************************************************************)
EXTENDS Naturals, Sequences

CONSTANTS
  Dids,      \* device identifiers
  Groups,    \* the home groups, each with a local gateway route
  Threads,   \* goroutines that may run handlers at one time (bound)
  AutoMode   \* cfg.ControlMode = MIoTControlModeAuto

ASSUME RegistryConstants ==
  /\ AutoMode \in BOOLEAN
  /\ "" \notin Groups /\ "cloud" \notin Groups /\ "lan" \notin Groups

VARIABLES
  devices,      \* client.devices
  groupOnline,  \* client.groupOnline
  lanList,      \* the device list LANClient.GetDeviceList returns
  work,         \* what each goroutine is doing
  stateSubs,    \* devices with a state subscriber
  seen,         \* the state each subscriber was last told
  overlapped,   \* history: two handlers ran at the same time
  moved         \* history: devices the cloud moved to another group while a gateway served them

vars == <<devices, groupOnline, lanList, work, stateSubs, seen, overlapped, moved>>

States  == {"online", "offline", "disable"}
Sources == {"", "cloud", "lan"} \cup Groups

Entry == [known : BOOLEAN, group : Groups \cup {""},
          cloudPresent : BOOLEAN, cloudOnline : BOOLEAN,
          gatewayOnline : BOOLEAN, gatewayPush : BOOLEAN,
          lanOnline : BOOLEAN, lanPush : BOOLEAN,
          state : States, source : Sources]

\* One device in a backend's list: listed or not, online, push available.
Summary == [listed : BOOLEAN, online : BOOLEAN, push : BOOLEAN]
NotListed == [listed |-> FALSE, online |-> FALSE, push |-> FALSE]
Lists == [Dids -> {s \in Summary : s.listed \/ s = NotListed}]
EmptyList == [d \in Dids |-> NotListed]

Quiet == [pc |-> "idle", from |-> "", list |-> EmptyList, notices |-> [d \in Dids |-> <<>>]]

-----------------------------------------------------------------------------
(* Merging *)

aggregateDeviceState(e) ==
  IF ~e.cloudPresent /\ ~e.gatewayOnline /\ ~e.lanOnline THEN "disable"
  ELSE IF e.cloudOnline \/ e.gatewayOnline \/ e.lanOnline THEN "online"
  ELSE "offline"

selectPushSource(e) ==
  IF AutoMode /\ e.gatewayOnline /\ e.gatewayPush /\ e.group # "" THEN e.group
  ELSE IF AutoMode /\ e.lanOnline /\ e.lanPush THEN "lan"
  ELSE IF e.cloudPresent /\ e.cloudOnline THEN "cloud"
  ELSE ""

recomputeEntryLocked(e) ==
  [e EXCEPT !.state = aggregateDeviceState(e), !.source = selectPushSource(e)]

\* Mutation of NewEntry: the state keeps Go's zero value.
NewEntryWithoutState == [known |-> FALSE, group |-> "", cloudPresent |-> FALSE,
             cloudOnline |-> FALSE, gatewayOnline |-> FALSE, gatewayPush |-> FALSE,
             lanOnline |-> FALSE, lanPush |-> FALSE, state |-> "", source |-> ""]

\* ensureDeviceEntryLocked creates an entry in state disable.
NewEntry == [known |-> FALSE, group |-> "", cloudPresent |-> FALSE, cloudOnline |-> FALSE,
             gatewayOnline |-> FALSE, gatewayPush |-> FALSE, lanOnline |-> FALSE,
             lanPush |-> FALSE, state |-> "disable", source |-> ""]

\* Mutation of Notice: a change is detected by the push source.
NoticeBySource(e, f) == IF e.source # f.source THEN <<f.state>> ELSE <<>>

\* The change recomputeEntryLocked reports when the entry goes from e to f.
Notice(e, f) == IF e.state # f.state THEN <<f.state>> ELSE <<>>

Init ==
  /\ devices = [d \in Dids |-> NewEntry]
  /\ groupOnline = [g \in Groups |-> FALSE]
  /\ lanList = EmptyList
  /\ work = [t \in Threads |-> Quiet]
  /\ stateSubs = {} /\ seen = [d \in Dids |-> "disable"]
  /\ overlapped = FALSE /\ moved = {}

-----------------------------------------------------------------------------
(* The end of every handler: entries replaced under the lock, changes kept *)

\* Thread t replaces the entries by f and will call handleChanges for notes.
Publish(t, f, notes) ==
  /\ devices' = f
  /\ work' = [work EXCEPT ![t] = [Quiet EXCEPT !.notices = notes,
                !.pc = IF \A d \in Dids : notes[d] = <<>> THEN "idle" ELSE "notify"]]
  /\ overlapped' = (overlapped \/ \E u \in Threads \ {t} : work[u].pc # "idle")

\* handleChanges and notifyDeviceState: the changes of one device are
\* delivered in order; devices come in the arbitrary order of the map.
NotifyDeviceState(t, d) ==
  /\ work[t].pc = "notify" /\ work[t].notices[d] # <<>>
  /\ seen' = IF d \in stateSubs THEN [seen EXCEPT ![d] = Head(work[t].notices[d])] ELSE seen
  /\ LET rest == [work[t].notices EXCEPT ![d] = Tail(@)]
     IN  work' = [work EXCEPT ![t].notices = rest,
                    ![t].pc = IF \A x \in Dids : rest[x] = <<>> THEN "idle" ELSE "notify"]
  /\ UNCHANGED <<devices, groupOnline, lanList, stateSubs, overlapped, moved>>

-----------------------------------------------------------------------------
(* Cloud *)

\* A device in a cloud snapshot: absent, or online or not, in some group.
CloudInfo == [listed : BOOLEAN, online : BOOLEAN, group : Groups]

\* Mutation of CloudAbsent: the absent device is not recomputed.
CloudAbsentUnmerged(e) == [e EXCEPT !.cloudPresent = FALSE]

\* RefreshCloudDevices marks every cloud device absent, then adds the snapshot
\* back; each of the two recomputations reports its own change.
CloudAbsent(e) ==
  IF e.cloudPresent THEN recomputeEntryLocked([e EXCEPT !.cloudPresent = FALSE]) ELSE e

CloudAdded(e, info) ==
  IF info.listed
    THEN recomputeEntryLocked([e EXCEPT !.known = TRUE, !.group = info.group,
                                        !.cloudPresent = TRUE, !.cloudOnline = info.online])
    ELSE e

\* Devices whose group the cloud changes while a gateway reports them online.
GatewayLeftBehind(f) ==
  {d \in Dids : devices[d].gatewayOnline /\ f[d].group # devices[d].group}

RefreshCloudDevices(t, snapshot) ==
  /\ work[t].pc = "idle"
  /\ LET gone == [d \in Dids |-> CloudAbsent(devices[d])]
         back == [d \in Dids |-> CloudAdded(gone[d], snapshot[d])]
     IN  /\ Publish(t, back, [d \in Dids |-> Notice(devices[d], gone[d])
                                             \o Notice(gone[d], back[d])])
         /\ moved' = moved \cup GatewayLeftBehind(back)
  /\ UNCHANGED <<groupOnline, lanList, stateSubs, seen>>

\* RefreshCloudDevicesByDID for one device; mergeDeviceInfo keeps the known group.
RefreshCloudDevicesByDID(t, d, found, online) ==
  /\ work[t].pc = "idle"
  /\ LET e == [devices[d] EXCEPT !.known = TRUE, !.cloudPresent = found,
                                 !.cloudOnline = found /\ online]
         f == [devices EXCEPT ![d] = recomputeEntryLocked(e)]
     IN  Publish(t, f, [x \in Dids |-> Notice(devices[x], f[x])])
  /\ UNCHANGED <<groupOnline, lanList, stateSubs, seen, moved>>

\* A device state pushed by the cloud broker.
handleCloudDeviceState(t, d, online) ==
  /\ work[t].pc = "idle" /\ devices[d].known
  /\ LET e == [devices[d] EXCEPT !.cloudPresent = TRUE, !.cloudOnline = online]
         f == [devices EXCEPT ![d] = recomputeEntryLocked(e)]
     IN  Publish(t, f, [x \in Dids |-> Notice(devices[x], f[x])])
  /\ UNCHANGED <<groupOnline, lanList, stateSubs, seen, moved>>

\* handleCloudConnectionState(false): also the end of a network loss.
CloudDisconnected(t) ==
  /\ work[t].pc = "idle"
  /\ LET f == [d \in Dids |->
                 IF devices[d].cloudPresent /\ devices[d].cloudOnline
                   THEN recomputeEntryLocked([devices[d] EXCEPT !.cloudOnline = FALSE])
                   ELSE devices[d]]
     IN  Publish(t, f, [x \in Dids |-> Notice(devices[x], f[x])])
  /\ UNCHANGED <<groupOnline, lanList, stateSubs, seen, moved>>

-----------------------------------------------------------------------------
(* Gateways *)

GatewayGone(e) ==
  recomputeEntryLocked([e EXCEPT !.gatewayOnline = FALSE, !.gatewayPush = FALSE])

GatewayListed(e, g, s) ==
  recomputeEntryLocked([e EXCEPT !.known = TRUE, !.group = g,
                                 !.gatewayOnline = s.online, !.gatewayPush = s.push])

updateGatewayDevices(g, list) ==
  [d \in Dids |-> IF list[d].listed THEN GatewayListed(devices[d], g, list[d])
                  ELSE IF devices[d].known /\ devices[d].group = g THEN GatewayGone(devices[d])
                  ELSE devices[d]]

\* handleGatewayConnectionState(g, true); the refresh it schedules is FetchGatewayList.
GatewayConnected(g) ==
  /\ ~groupOnline[g]
  /\ groupOnline' = [groupOnline EXCEPT ![g] = TRUE]
  /\ UNCHANGED <<devices, lanList, work, stateSubs, seen, overlapped, moved>>

\* handleGatewayConnectionState(g, false)
GatewayDisconnected(t, g) ==
  /\ work[t].pc = "idle" /\ groupOnline[g]
  /\ groupOnline' = [groupOnline EXCEPT ![g] = FALSE]
  /\ LET f == updateGatewayDevices(g, EmptyList)
     IN  Publish(t, f, [x \in Dids |-> Notice(devices[x], f[x])])
  /\ UNCHANGED <<lanList, stateSubs, seen, moved>>

\* RefreshGatewayDevices: the gateway answers GetDeviceList, which it can only
\* do while its connection is up (the connection callbacks that write
\* groupOnline run on the goroutine that changes the connection) ...
FetchGatewayList(t, g, list) ==
  /\ work[t].pc = "idle" /\ groupOnline[g]
  /\ work' = [work EXCEPT ![t] = [Quiet EXCEPT !.pc = "apply", !.from = g, !.list = list]]
  /\ UNCHANGED <<devices, groupOnline, lanList, stateSubs, seen, overlapped, moved>>

\* ... and its list is applied, whatever happened to the connection meanwhile.
ApplyGatewayList(t) ==
  /\ work[t].pc = "apply" /\ work[t].from \in Groups
  /\ LET f == updateGatewayDevices(work[t].from, work[t].list)
     IN  Publish(t, f, [x \in Dids |-> Notice(devices[x], f[x])])
  /\ UNCHANGED <<groupOnline, lanList, stateSubs, seen, moved>>

-----------------------------------------------------------------------------
(* LAN *)

\* Mutation of updateLANDevices: devices the list does not have are left alone.
updateListedLANDevices(list) ==
  [d \in Dids |->
     IF list[d].listed
       THEN recomputeEntryLocked([devices[d] EXCEPT !.known = TRUE,
                                    !.lanOnline = list[d].online, !.lanPush = list[d].push])
       ELSE devices[d]]

updateLANDevices(list) ==
  [d \in Dids |->
     IF list[d].listed \/ devices[d].known
       THEN recomputeEntryLocked([devices[d] EXCEPT !.known = TRUE,
                                    !.lanOnline = list[d].online, !.lanPush = list[d].push])
       ELSE devices[d]]

OnlineIn(list) == {d \in Dids : list[d].online}

\* A device of the LAN client goes online or offline and the callback calls
\* RefreshLANDevices on the goroutine that made the change.
LANDeviceStateChanged(t, list) ==
  /\ work[t].pc = "idle" /\ OnlineIn(list) # OnlineIn(lanList)
  /\ lanList' = list
  /\ work' = [work EXCEPT ![t].pc = "read"]
  /\ UNCHANGED <<devices, groupOnline, stateSubs, seen, overlapped, moved>>

\* miIO.sub succeeds or a probe invalidates it: pushAvailable changes in the LAN
\* client and no callback says so.
LANPushChanged(list) ==
  /\ OnlineIn(list) = OnlineIn(lanList) /\ list # lanList
  /\ \A d \in Dids : list[d].listed = lanList[d].listed
  /\ lanList' = list
  /\ UNCHANGED <<devices, groupOnline, work, stateSubs, seen, overlapped, moved>>

\* SubscribeLANState(false), after the LAN client marked its devices offline.
LANDisabled(t) ==
  /\ work[t].pc = "idle" /\ OnlineIn(lanList) = {}
  /\ LET f == updateLANDevices(EmptyList)
     IN  Publish(t, f, [x \in Dids |-> Notice(devices[x], f[x])])
  /\ UNCHANGED <<groupOnline, lanList, stateSubs, seen, moved>>

\* RefreshLANDevices: GetDeviceList ...
ReadLANList(t) ==
  /\ work[t].pc = "read"
  /\ work' = [work EXCEPT ![t] = [Quiet EXCEPT !.pc = "apply", !.from = "lan", !.list = lanList]]
  /\ UNCHANGED <<devices, groupOnline, lanList, stateSubs, seen, overlapped, moved>>

\* ... then updateLANDevices.
ApplyLANList(t) ==
  /\ work[t].pc = "apply" /\ work[t].from = "lan"
  /\ LET f == updateLANDevices(work[t].list)
     IN  Publish(t, f, [x \in Dids |-> Notice(devices[x], f[x])])
  /\ UNCHANGED <<groupOnline, lanList, stateSubs, seen, moved>>

-----------------------------------------------------------------------------
(* Subscribers *)

\* SubscribeDeviceState, by a caller that then reads the state with Devices().
SubscribeDeviceState(d) ==
  /\ devices[d].known /\ d \notin stateSubs
  /\ stateSubs' = stateSubs \cup {d}
  /\ seen' = [seen EXCEPT ![d] = devices[d].state]
  /\ UNCHANGED <<devices, groupOnline, lanList, work, overlapped, moved>>

UnsubscribeDeviceState(d) ==
  /\ d \in stateSubs
  /\ stateSubs' = stateSubs \ {d}
  /\ UNCHANGED <<devices, groupOnline, lanList, work, seen, overlapped, moved>>

CloudStep(t) ==
  \/ \E snapshot \in [Dids -> CloudInfo] : RefreshCloudDevices(t, snapshot)
  \/ \E d \in Dids, found \in BOOLEAN, online \in BOOLEAN :
       RefreshCloudDevicesByDID(t, d, found, online)
  \/ \E d \in Dids, online \in BOOLEAN : handleCloudDeviceState(t, d, online)
  \/ CloudDisconnected(t)

LocalStep(t) ==
  \/ \E g \in Groups : GatewayDisconnected(t, g)
  \/ \E g \in Groups, list \in Lists : FetchGatewayList(t, g, list)
  \/ ApplyGatewayList(t)
  \/ \E list \in Lists : LANDeviceStateChanged(t, list)
  \/ ReadLANList(t) \/ ApplyLANList(t) \/ LANDisabled(t)

Next ==
  \/ \E t \in Threads : \/ CloudStep(t) \/ LocalStep(t)
                        \/ \E d \in Dids : NotifyDeviceState(t, d)
  \/ \E g \in Groups : GatewayConnected(g)
  \/ \E list \in Lists : LANPushChanged(list)
  \/ \E d \in Dids : SubscribeDeviceState(d) \/ UnsubscribeDeviceState(d)

Spec == Init /\ [][Next]_vars

-----------------------------------------------------------------------------
(* Properties *)

TypeOK ==
  /\ devices \in [Dids -> Entry]
  /\ groupOnline \in [Groups -> BOOLEAN]
  /\ lanList \in Lists
  /\ work \in [Threads -> [pc : {"idle", "read", "apply", "notify"},
                           from : Groups \cup {"", "lan"}, list : Lists,
                           notices : [Dids -> Seq(States)]]]
  /\ stateSubs \subseteq Dids /\ seen \in [Dids -> States]
  /\ overlapped \in BOOLEAN /\ moved \subseteq Dids

\* What Devices(), DeviceOnline and the push routing see is always what the
\* flags of the three backends say now, after any sequence of handlers: no
\* handler leaves a stale aggregate state or push source behind.
FlagsDetermineState ==
  \A d \in Dids : /\ devices[d].state = aggregateDeviceState(devices[d])
                  /\ devices[d].source = selectPushSource(devices[d])

AllIdle == \A t \in Threads : work[t].pc = "idle"

\* Once all handlers have finished, a state subscriber was last told the
\* device's current state, unless two handlers overlapped.
SubscriberSettles ==
  AllIdle /\ ~overlapped => \A d \in stateSubs : seen[d] = devices[d].state

\* Once all handlers have finished, a device is online through the LAN exactly
\* when the LAN client lists it as online, and online through no gateway that is
\* disconnected, unless two handlers overlapped (or, for the gateway, the cloud
\* moved the device to another group while a gateway served it).
BackendViewsSettle ==
  AllIdle /\ ~overlapped =>
    /\ \A d \in Dids : devices[d].lanOnline = lanList[d].online
    /\ \A d \in Dids \ moved : devices[d].gatewayOnline => groupOnline[devices[d].group]

\* Expected of the code but not kept by it (README, "What the code does not keep"):
\* A state subscriber whose handlers have all finished knows the current state.
SubscriberKnowsState ==
  AllIdle => \A d \in stateSubs : seen[d] = devices[d].state

\* Expected of the code but not kept by it (README, "What the code does not keep"):
\* A gateway's disconnect takes its devices offline for good: once the handlers
\* have finished, no device is online through a disconnected gateway.
GatewayDisconnectDowngrades ==
  AllIdle => \A d \in Dids : devices[d].gatewayOnline => groupOnline[devices[d].group]

\* Expected of the code but not kept by it (README, "What the code does not keep"):
\* A state subscriber is called only when the aggregate state has changed: when
\* one goroutine runs all handlers, the state it is told is the state the
\* device has.
FiresOnlyOnAggregateChange ==
  [][ \A t \in Threads, d \in Dids :
        NotifyDeviceState(t, d) /\ d \in stateSubs =>
          Head(work[t].notices[d]) = devices[d].state ]_vars
=============================================================================
