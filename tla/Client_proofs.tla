------------------------ MODULE Client_proofs ------------------------
(***************************************************************************)
(* Proofs about the client, for any devices, groups and goroutines: what   *)
(* DeviceRegistry keeps of an entry and tells of it, then what the steps   *)
(* of ClientLifecycle and of PushBinding keep, and last the three as       *)
(* MCClient puts them together.                                            *)
(***************************************************************************)
EXTENDS MCClient, TLAPS

-----------------------------------------------------------------------------
(* The merge of one entry *)

LEMMA AggregateType == \A e : aggregateDeviceState(e) \in States
  BY DEF aggregateDeviceState, States

LEMMA SourceType == \A e \in Entry : selectPushSource(e) \in Sources
  BY DEF selectPushSource, Sources, Entry

\* An entry agrees with its flags.
Merged(e) == e.state = aggregateDeviceState(e) /\ e.source = selectPushSource(e)

\* recomputeEntryLocked keeps the flags and makes the entry agree with them.
LEMMA RecomputeMerges ==
  ASSUME NEW e \in Entry
  PROVE  recomputeEntryLocked(e) \in Entry /\ Merged(recomputeEntryLocked(e))
<1> DEFINE f == recomputeEntryLocked(e)
<1>1. aggregateDeviceState(e) \in States /\ selectPushSource(e) \in Sources
  BY AggregateType, SourceType
<1>2. f \in Entry
  BY <1>1 DEF recomputeEntryLocked, Entry
<1>3. f.state = aggregateDeviceState(e) /\ f.source = selectPushSource(e)
  BY <1>1 DEF recomputeEntryLocked, Entry
<1>4. /\ f.group = e.group /\ f.cloudPresent = e.cloudPresent /\ f.cloudOnline = e.cloudOnline
      /\ f.gatewayOnline = e.gatewayOnline /\ f.gatewayPush = e.gatewayPush
      /\ f.lanOnline = e.lanOnline /\ f.lanPush = e.lanPush
  BY DEF recomputeEntryLocked, Entry
<1>5. aggregateDeviceState(f) = aggregateDeviceState(e)
  BY <1>4 DEF aggregateDeviceState
<1>6. selectPushSource(f) = selectPushSource(e)
  BY <1>4 DEF selectPushSource
<1> QED
  BY <1>2, <1>3, <1>5, <1>6 DEF Merged

LEMMA NewEntryMerged == NewEntry \in Entry /\ Merged(NewEntry)
  BY DEF NewEntry, Entry, Merged, aggregateDeviceState, selectPushSource, States, Sources

-----------------------------------------------------------------------------
(* The handlers' updates of one entry and of the whole registry *)

\* A registry whose entries are well typed and agree with their flags.
Consistent(f) == f \in [Dids -> Entry] /\ \A d \in Dids : Merged(f[d])

LEMMA CloudAbsentMerges ==
  ASSUME NEW e \in Entry, Merged(e)
  PROVE  CloudAbsent(e) \in Entry /\ Merged(CloudAbsent(e))
<1> [e EXCEPT !.cloudPresent = FALSE] \in Entry
  BY DEF Entry
<1> QED
  BY RecomputeMerges DEF CloudAbsent

LEMMA CloudAddedMerges ==
  ASSUME NEW e \in Entry, Merged(e), NEW info \in CloudInfo
  PROVE  CloudAdded(e, info) \in Entry /\ Merged(CloudAdded(e, info))
<1> [e EXCEPT !.known = TRUE, !.group = info.group,
              !.cloudPresent = TRUE, !.cloudOnline = info.online] \in Entry
  BY DEF Entry, CloudInfo
<1> QED
  BY RecomputeMerges DEF CloudAdded

LEMMA GatewayUpdateMerges ==
  ASSUME Consistent(devices), NEW g \in Groups, NEW list \in Lists
  PROVE  Consistent(updateGatewayDevices(g, list))
<1> SUFFICES ASSUME NEW d \in Dids
             PROVE  LET f == updateGatewayDevices(g, list)[d] IN f \in Entry /\ Merged(f)
  BY DEF Consistent, updateGatewayDevices
<1> DEFINE e == devices[d]
           s == list[d]
<1>1. e \in Entry /\ Merged(e) /\ s.online \in BOOLEAN /\ s.push \in BOOLEAN
  BY DEF Consistent, Lists, Summary, NotListed
<1>2. [e EXCEPT !.gatewayOnline = FALSE, !.gatewayPush = FALSE] \in Entry
  BY <1>1 DEF Entry
<1>3. [e EXCEPT !.known = TRUE, !.group = g,
                !.gatewayOnline = s.online, !.gatewayPush = s.push] \in Entry
  BY <1>1 DEF Entry
<1> QED
  BY <1>1, <1>2, <1>3, RecomputeMerges DEF updateGatewayDevices, GatewayListed, GatewayGone

LEMMA LANUpdateMerges ==
  ASSUME Consistent(devices), NEW list \in Lists
  PROVE  Consistent(updateLANDevices(list))
<1> SUFFICES ASSUME NEW d \in Dids
             PROVE  LET f == updateLANDevices(list)[d] IN f \in Entry /\ Merged(f)
  BY DEF Consistent, updateLANDevices
<1> DEFINE e == devices[d]
           s == list[d]
<1>1. e \in Entry /\ Merged(e) /\ s.online \in BOOLEAN /\ s.push \in BOOLEAN
  BY DEF Consistent, Lists, Summary, NotListed
<1>2. [e EXCEPT !.known = TRUE, !.lanOnline = s.online, !.lanPush = s.push] \in Entry
  BY <1>1 DEF Entry
<1> QED
  BY <1>1, <1>2, RecomputeMerges DEF updateLANDevices

LEMMA NoticeType ==
  ASSUME NEW e \in Entry, NEW f \in Entry
  PROVE  Notice(e, f) \in Seq(States)
<1>1. f.state \in States
  BY DEF Entry
<1>2. <<f.state>> \in Seq(States) /\ <<>> \in Seq(States)
  BY <1>1
<1> QED
  BY <1>2 DEF Notice

-----------------------------------------------------------------------------
(* The inductive invariant *)

IInv == TypeOK /\ FlagsDetermineState

LEMMA IInvConsistent == IInv => Consistent(devices)
  BY DEF IInv, TypeOK, FlagsDetermineState, Consistent, Merged

LEMMA EmptyListType == EmptyList \in Lists
  BY DEF EmptyList, Lists, NotListed, Summary

\* What every handler has in common: it publishes a consistent registry.
LEMMA PublishKeepsIInv ==
  ASSUME IInv, NEW t \in Threads, NEW f, NEW notes,
         Consistent(f), notes \in [Dids -> Seq(States)],
         Publish(t, f, notes),
         groupOnline' \in [Groups -> BOOLEAN], lanList' \in Lists,
         stateSubs' \subseteq Dids, seen' \in [Dids -> States], moved' \subseteq Dids
  PROVE  IInv'
<1>1. devices' \in [Dids -> Entry] /\ FlagsDetermineState'
  BY DEF Consistent, Publish, FlagsDetermineState, Merged
<1>2. work'[t] \in [pc : {"idle", "read", "apply", "notify"}, from : Groups \cup {"", "lan"},
                    list : Lists, notices : [Dids -> Seq(States)]]
  BY EmptyListType DEF IInv, TypeOK, Publish, Quiet
<1>3. \A u \in Threads : u # t => work'[u] = work[u]
  BY DEF IInv, TypeOK, Publish
<1>4. work' \in [Threads -> [pc : {"idle", "read", "apply", "notify"},
                             from : Groups \cup {"", "lan"}, list : Lists,
                             notices : [Dids -> Seq(States)]]]
  BY <1>2, <1>3 DEF IInv, TypeOK, Publish
<1>5. overlapped' \in BOOLEAN
  BY DEF IInv, TypeOK, Publish
<1> QED
  BY <1>1, <1>4, <1>5 DEF IInv, TypeOK

\* Handlers whose notices compare the old registry with the new one.
LEMMA PublishDiffKeepsIInv ==
  ASSUME IInv, NEW t \in Threads, NEW f, Consistent(f),
         Publish(t, f, [x \in Dids |-> Notice(devices[x], f[x])]),
         groupOnline' \in [Groups -> BOOLEAN], lanList' \in Lists,
         stateSubs' \subseteq Dids, seen' \in [Dids -> States], moved' \subseteq Dids
  PROVE  IInv'
<1> DEFINE notes == [x \in Dids |-> Notice(devices[x], f[x])]
<1>1. notes \in [Dids -> Seq(States)]
  BY NoticeType, IInvConsistent DEF Consistent
<1> HIDE DEF notes
<1> QED
  BY <1>1, PublishKeepsIInv DEF notes

-----------------------------------------------------------------------------
(* The handlers *)

\* Each action of the cloud keeps the invariant.
LEMMA CloudKeepsIInv ==
  ASSUME IInv, NEW t \in Threads, CloudStep(t)
  PROVE  IInv'
<1> USE IInvConsistent
<1>T. /\ groupOnline \in [Groups -> BOOLEAN] /\ lanList \in Lists
      /\ stateSubs \subseteq Dids /\ seen \in [Dids -> States] /\ moved \subseteq Dids
  BY DEF IInv, TypeOK
<1>1. ASSUME NEW snapshot \in [Dids -> CloudInfo], RefreshCloudDevices(t, snapshot)
      PROVE  IInv'
  <2> DEFINE gone  == [d \in Dids |-> CloudAbsent(devices[d])]
             back  == [d \in Dids |-> CloudAdded(gone[d], snapshot[d])]
             notes == [d \in Dids |-> Notice(devices[d], gone[d]) \o Notice(gone[d], back[d])]
  <2>1. Consistent(gone)
    BY CloudAbsentMerges DEF Consistent
  <2>2. Consistent(back)
    BY <2>1, CloudAddedMerges DEF Consistent
  <2>3. notes \in [Dids -> Seq(States)]
    <3> SUFFICES ASSUME NEW d \in Dids PROVE notes[d] \in Seq(States)
      OBVIOUS
    <3>1. devices[d] \in Entry /\ gone[d] \in Entry /\ back[d] \in Entry
      BY <2>1, <2>2 DEF Consistent
    <3> HIDE DEF gone, back
    <3>2. Notice(devices[d], gone[d]) \in Seq(States) /\ Notice(gone[d], back[d]) \in Seq(States)
      BY <3>1, NoticeType
    <3> QED
      BY <3>2
  <2>4. /\ Publish(t, back, notes) /\ moved' = moved \cup GatewayLeftBehind(back)
        /\ UNCHANGED <<groupOnline, lanList, stateSubs, seen>>
    BY <1>1 DEF RefreshCloudDevices
  <2>5. moved' \subseteq Dids
    BY <1>T, <2>4 DEF GatewayLeftBehind
  <2> HIDE DEF gone, back, notes
  <2> QED
    BY <1>T, <2>2, <2>3, <2>4, <2>5, PublishKeepsIInv
<1>2. ASSUME NEW d \in Dids, NEW found \in BOOLEAN, NEW online \in BOOLEAN,
             RefreshCloudDevicesByDID(t, d, found, online)
      PROVE  IInv'
  <2> DEFINE e == [devices[d] EXCEPT !.known = TRUE, !.cloudPresent = found,
                                     !.cloudOnline = found /\ online]
             f == [devices EXCEPT ![d] = recomputeEntryLocked(e)]
  <2>1. e \in Entry
    BY DEF Consistent, Entry
  <2>2. Consistent(f)
    BY <2>1, RecomputeMerges DEF Consistent
  <2>3. /\ Publish(t, f, [x \in Dids |-> Notice(devices[x], f[x])])
        /\ UNCHANGED <<groupOnline, lanList, stateSubs, seen, moved>>
    BY <1>2 DEF RefreshCloudDevicesByDID
  <2> HIDE DEF f
  <2> QED
    BY <1>T, <2>2, <2>3, PublishDiffKeepsIInv
<1>3. ASSUME NEW d \in Dids, NEW online \in BOOLEAN, handleCloudDeviceState(t, d, online)
      PROVE  IInv'
  <2> DEFINE e == [devices[d] EXCEPT !.cloudPresent = TRUE, !.cloudOnline = online]
             f == [devices EXCEPT ![d] = recomputeEntryLocked(e)]
  <2>1. e \in Entry
    BY DEF Consistent, Entry
  <2>2. Consistent(f)
    BY <2>1, RecomputeMerges DEF Consistent
  <2>3. /\ Publish(t, f, [x \in Dids |-> Notice(devices[x], f[x])])
        /\ UNCHANGED <<groupOnline, lanList, stateSubs, seen, moved>>
    BY <1>3 DEF handleCloudDeviceState
  <2> HIDE DEF f
  <2> QED
    BY <1>T, <2>2, <2>3, PublishDiffKeepsIInv
<1>4. ASSUME CloudDisconnected(t)
      PROVE  IInv'
  <2> DEFINE f == [d \in Dids |->
                     IF devices[d].cloudPresent /\ devices[d].cloudOnline
                       THEN recomputeEntryLocked([devices[d] EXCEPT !.cloudOnline = FALSE])
                       ELSE devices[d]]
  <2>1. \A d \in Dids : [devices[d] EXCEPT !.cloudOnline = FALSE] \in Entry
    BY DEF Consistent, Entry
  <2>2. Consistent(f)
    BY <2>1, RecomputeMerges DEF Consistent
  <2>3. /\ Publish(t, f, [x \in Dids |-> Notice(devices[x], f[x])])
        /\ UNCHANGED <<groupOnline, lanList, stateSubs, seen, moved>>
    BY <1>4 DEF CloudDisconnected
  <2> HIDE DEF f
  <2> QED
    BY <1>T, <2>2, <2>3, PublishDiffKeepsIInv
<1> QED
  BY <1>1, <1>2, <1>3, <1>4 DEF CloudStep

\* Each action of the gateways and of the LAN keeps the invariant.
LEMMA LocalKeepsIInv ==
  ASSUME IInv, NEW t \in Threads, LocalStep(t)
  PROVE  IInv'
<1> USE IInvConsistent
<1> DEFINE Working == [pc : {"idle", "read", "apply", "notify"}, from : Groups \cup {"", "lan"},
                       list : Lists, notices : [Dids -> Seq(States)]]
<1>T. /\ groupOnline \in [Groups -> BOOLEAN] /\ lanList \in Lists
      /\ stateSubs \subseteq Dids /\ seen \in [Dids -> States] /\ moved \subseteq Dids
      /\ devices \in [Dids -> Entry] /\ FlagsDetermineState /\ work \in [Threads -> Working]
      /\ overlapped \in BOOLEAN
  BY DEF IInv, TypeOK
<1>E. [d \in Dids |-> <<>>] \in [Dids -> Seq(States)]
  OBVIOUS
<1>1. ASSUME NEW g \in Groups, GatewayDisconnected(t, g)
      PROVE  IInv'
  <2> DEFINE f == updateGatewayDevices(g, EmptyList)
  <2>1. Consistent(f)
    BY EmptyListType, GatewayUpdateMerges
  <2>2. /\ Publish(t, f, [x \in Dids |-> Notice(devices[x], f[x])])
        /\ groupOnline' = [groupOnline EXCEPT ![g] = FALSE]
        /\ UNCHANGED <<lanList, stateSubs, seen, moved>>
    BY <1>1 DEF GatewayDisconnected
  <2> HIDE DEF f
  <2> QED
    BY <1>T, <2>1, <2>2, PublishDiffKeepsIInv
<1>2. ASSUME NEW g \in Groups, NEW list \in Lists, FetchGatewayList(t, g, list)
      PROVE  IInv'
  <2>1. [Quiet EXCEPT !.pc = "apply", !.from = g, !.list = list] \in Working
    BY <1>E DEF Quiet
  <2>2. work' \in [Threads -> Working]
    BY <1>2, <1>T, <2>1 DEF FetchGatewayList
  <2> QED
    BY <1>2, <1>T, <2>2 DEF FetchGatewayList, IInv, TypeOK, FlagsDetermineState
<1>3. ASSUME ApplyGatewayList(t)
      PROVE  IInv'
  <2> DEFINE f == updateGatewayDevices(work[t].from, work[t].list)
  <2>1. work[t].from \in Groups /\ work[t].list \in Lists
    BY <1>3, <1>T DEF ApplyGatewayList
  <2>2. Consistent(f)
    BY <2>1, GatewayUpdateMerges
  <2>3. /\ Publish(t, f, [x \in Dids |-> Notice(devices[x], f[x])])
        /\ UNCHANGED <<groupOnline, lanList, stateSubs, seen, moved>>
    BY <1>3 DEF ApplyGatewayList
  <2> HIDE DEF f
  <2> QED
    BY <1>T, <2>2, <2>3, PublishDiffKeepsIInv
<1>4. ASSUME NEW list \in Lists, LANDeviceStateChanged(t, list)
      PROVE  IInv'
  <2>1. [work[t] EXCEPT !.pc = "read"] \in Working
    BY <1>T
  <2>2. work' \in [Threads -> Working]
    BY <1>4, <1>T, <2>1 DEF LANDeviceStateChanged
  <2> QED
    BY <1>4, <1>T, <2>2 DEF LANDeviceStateChanged, IInv, TypeOK, FlagsDetermineState
<1>5. ASSUME ReadLANList(t)
      PROVE  IInv'
  <2>1. [Quiet EXCEPT !.pc = "apply", !.from = "lan", !.list = lanList] \in Working
    BY <1>E, <1>T DEF Quiet
  <2>2. work' \in [Threads -> Working]
    BY <1>5, <1>T, <2>1 DEF ReadLANList
  <2> QED
    BY <1>5, <1>T, <2>2 DEF ReadLANList, IInv, TypeOK, FlagsDetermineState
<1>6. ASSUME ApplyLANList(t)
      PROVE  IInv'
  <2> DEFINE f == updateLANDevices(work[t].list)
  <2>1. work[t].list \in Lists
    BY <1>T
  <2>2. Consistent(f)
    BY <2>1, LANUpdateMerges
  <2>3. /\ Publish(t, f, [x \in Dids |-> Notice(devices[x], f[x])])
        /\ UNCHANGED <<groupOnline, lanList, stateSubs, seen, moved>>
    BY <1>6 DEF ApplyLANList
  <2> HIDE DEF f
  <2> QED
    BY <1>T, <2>2, <2>3, PublishDiffKeepsIInv
<1>7. ASSUME LANDisabled(t)
      PROVE  IInv'
  <2> DEFINE f == updateLANDevices(EmptyList)
  <2>1. Consistent(f)
    BY EmptyListType, LANUpdateMerges
  <2>2. /\ Publish(t, f, [x \in Dids |-> Notice(devices[x], f[x])])
        /\ UNCHANGED <<groupOnline, lanList, stateSubs, seen, moved>>
    BY <1>7 DEF LANDisabled
  <2> HIDE DEF f
  <2> QED
    BY <1>T, <2>1, <2>2, PublishDiffKeepsIInv
<1> QED
  BY <1>1, <1>2, <1>3, <1>4, <1>5, <1>6, <1>7 DEF LocalStep

\* Delivering a change keeps the invariant.
LEMMA NotifyKeepsIInv ==
  ASSUME IInv, NEW t \in Threads, NEW d \in Dids, NotifyDeviceState(t, d)
  PROVE  IInv'
<1> DEFINE Working == [pc : {"idle", "read", "apply", "notify"}, from : Groups \cup {"", "lan"},
                       list : Lists, notices : [Dids -> Seq(States)]]
           rest == [work[t].notices EXCEPT ![d] = Tail(@)]
<1>1. work \in [Threads -> Working] /\ seen \in [Dids -> States]
  BY DEF IInv, TypeOK
<1>2. work[t].notices \in [Dids -> Seq(States)] /\ work[t].notices[d] \in Seq(States)
  BY <1>1
<1>3. work[t].notices[d] # <<>>
  BY DEF NotifyDeviceState
<1>4. Head(work[t].notices[d]) \in States /\ Tail(work[t].notices[d]) \in Seq(States)
  BY <1>2, <1>3
<1>5. seen' \in [Dids -> States]
  BY <1>1, <1>4 DEF NotifyDeviceState
<1>6. rest \in [Dids -> Seq(States)]
  BY <1>2, <1>4
<1>7. work' \in [Threads -> Working]
  <2> DEFINE step == IF \A x \in Dids : rest[x] = <<>> THEN "idle" ELSE "notify"
             after == [work[t] EXCEPT !.notices = rest, !.pc = step]
  <2>1. work' = [work EXCEPT ![t] = after]
    BY <1>1 DEF NotifyDeviceState
  <2>2. after \in Working
    BY <1>1, <1>6
  <2> HIDE DEF after
  <2> QED
    BY <1>1, <2>1, <2>2
<1> QED
  BY <1>5, <1>7 DEF NotifyDeviceState, IInv, TypeOK, FlagsDetermineState

-----------------------------------------------------------------------------
(* The theorems *)

LEMMA InitIInv == Init => IInv
<1> SUFFICES ASSUME Init PROVE IInv
  OBVIOUS
<1>1. devices \in [Dids -> Entry] /\ FlagsDetermineState
  BY NewEntryMerged DEF Init, FlagsDetermineState, Merged
<1>2. Quiet \in [pc : {"idle", "read", "apply", "notify"}, from : Groups \cup {"", "lan"},
                 list : Lists, notices : [Dids -> Seq(States)]]
  BY EmptyListType DEF Quiet
<1>3. "disable" \in States
  BY DEF States
<1> QED
  BY <1>1, <1>2, <1>3, EmptyListType DEF Init, IInv, TypeOK

\* Every behaviour of the registry keeps the inductive invariant.
THEOREM InductiveInvariant == Spec => []IInv
<1>1. Init => IInv
  BY InitIInv
<1>2. IInv /\ [Next]_vars => IInv'
  <2> SUFFICES ASSUME IInv, [Next]_vars PROVE IInv'
    OBVIOUS
  <2>1. ASSUME NEW t \in Threads, CloudStep(t) PROVE IInv'
    BY <2>1, CloudKeepsIInv
  <2>2. ASSUME NEW t \in Threads, LocalStep(t) PROVE IInv'
    BY <2>2, LocalKeepsIInv
  <2>3. ASSUME NEW t \in Threads, NEW d \in Dids, NotifyDeviceState(t, d) PROVE IInv'
    BY <2>3, NotifyKeepsIInv
  <2>4. ASSUME NEW g \in Groups, GatewayConnected(g) PROVE IInv'
    BY <2>4 DEF GatewayConnected, IInv, TypeOK, FlagsDetermineState
  <2>5. ASSUME NEW list \in Lists, LANPushChanged(list) PROVE IInv'
    BY <2>5 DEF LANPushChanged, IInv, TypeOK, FlagsDetermineState
  <2>6. ASSUME NEW d \in Dids, SubscribeDeviceState(d) PROVE IInv'
    <3>1. devices[d].state \in States
      BY DEF IInv, TypeOK, Entry
    <3> QED
      BY <2>6, <3>1 DEF SubscribeDeviceState, IInv, TypeOK, FlagsDetermineState
  <2>7. ASSUME NEW d \in Dids, UnsubscribeDeviceState(d) PROVE IInv'
    BY <2>7 DEF UnsubscribeDeviceState, IInv, TypeOK, FlagsDetermineState
  <2>8. CASE UNCHANGED vars
    BY <2>8 DEF vars, IInv, TypeOK, FlagsDetermineState
  <2> QED
    BY <2>1, <2>2, <2>3, <2>4, <2>5, <2>6, <2>7, <2>8 DEF Next
<1> QED
  BY <1>1, <1>2, PTL DEF Spec

\* The registry is always well typed.
THEOREM TypeCorrect == Spec => []TypeOK
<1>1. IInv => TypeOK
  BY DEF IInv
<1> QED
  BY <1>1, InductiveInvariant, PTL

\* The aggregate state and the push source of every device are always those of
\* its flags: no handler, in any interleaving, forgets recomputeEntryLocked.
THEOREM AlwaysMerged == Spec => []FlagsDetermineState
<1>1. IInv => FlagsDetermineState
  BY DEF IInv
<1> QED
  BY <1>1, InductiveInvariant, PTL

-----------------------------------------------------------------------------
(* Subscribers and backends settle *)

LastOf(s) == s[Len(s)]

\* A goroutine that does not notify owes nobody a notice.
NoticesAreDelivered ==
  \A t \in Threads : work[t].pc # "notify" => \A d \in Dids : work[t].notices[d] = <<>>

\* No backend but the cloud says anything about a device the registry does not know.
UnknownIsOffline ==
  \A d \in Dids : ~devices[d].known => ~devices[d].lanOnline /\ ~devices[d].gatewayOnline

OneNotifies ==
  \A t, u \in Threads : work[t].pc = "notify" /\ work[u].pc = "notify" => t = u

\* The last notice under way says what the entry says, and who is owed none knows it.
NoticesAreTrue ==
  \A t \in Threads, d \in Dids :
    work[t].notices[d] # <<>> => LastOf(work[t].notices[d]) = devices[d].state

TheOthersKnow ==
  \A d \in stateSubs : (\A t \in Threads : work[t].notices[d] = <<>>) => seen[d] = devices[d].state

\* A goroutine that holds a list of the LAN client; one that will apply what is true now.
Applies(t) == work[t].pc = "apply" /\ work[t].from = "lan"
Fresh(t) == work[t].pc = "read" \/ (Applies(t) /\ OnlineIn(work[t].list) = OnlineIn(lanList))

LANAgrees == \A d \in Dids : devices[d].lanOnline = lanList[d].online
LANFollows == LANAgrees \/ \E t \in Threads : Fresh(t)
StaleIsOvertaken == \A t \in Threads : Applies(t) => \E u \in Threads : Fresh(u)

GatewaysFollow ==
  \A d \in Dids \ moved :
    devices[d].gatewayOnline => devices[d].group \in Groups /\ groupOnline[devices[d].group]
ListsAreCurrent ==
  \A t \in Threads : work[t].pc = "apply" /\ work[t].from \in Groups => groupOnline[work[t].from]

Settling ==
  /\ OneNotifies /\ NoticesAreTrue /\ TheOthersKnow
  /\ LANFollows /\ StaleIsOvertaken /\ GatewaysFollow /\ ListsAreCurrent

RegistryInv ==
  /\ IInv /\ NoticesAreDelivered /\ UnknownIsOffline
  /\ ~overlapped => Settling

Working == [pc : {"idle", "read", "apply", "notify"}, from : Groups \cup {"", "lan"},
            list : Lists, notices : [Dids -> Seq(States)]]

\* Recomputing an entry changes neither its flags nor its group.
LEMMA RecomputeKeepsFlags ==
  ASSUME NEW e \in Entry
  PROVE  LET f == recomputeEntryLocked(e) IN
         /\ f.known = e.known /\ f.group = e.group
         /\ f.gatewayOnline = e.gatewayOnline /\ f.lanOnline = e.lanOnline
  BY DEF recomputeEntryLocked, Entry

\* What a handler may do to the entries without touching what gateways and the LAN client said.
KeepsLocal(f) ==
  \A d \in Dids : /\ f[d].lanOnline = devices[d].lanOnline
                  /\ f[d].gatewayOnline = devices[d].gatewayOnline
                  /\ devices[d].known => f[d].known

\* The notices name the last state of the entries that changed.
NoticesFit(f, notes) ==
  \A d \in Dids : IF notes[d] = <<>> THEN f[d].state = devices[d].state
                  ELSE LastOf(notes[d]) = f[d].state

LEMMA DiffFits ==
  ASSUME NEW f
  PROVE  NoticesFit(f, [x \in Dids |-> Notice(devices[x], f[x])])
  BY DEF NoticesFit, Notice, LastOf

\* An undisturbed handler was alone when it published; nobody holds a list after it.
LEMMA PublishesAlone ==
  ASSUME RegistryInv, NEW t \in Threads, NEW f, NEW notes, notes \in [Dids -> Seq(States)],
         Publish(t, f, notes)
  PROVE  /\ devices' = f
         /\ work'[t].notices = notes
         /\ work'[t].pc = IF \A d \in Dids : notes[d] = <<>> THEN "idle" ELSE "notify"
         /\ \A u \in Threads \ {t} : work'[u] = work[u]
         /\ ~overlapped' => ~overlapped /\ \A u \in Threads \ {t} : work[u].pc = "idle"
  BY DEF Publish, Quiet, RegistryInv, IInv, TypeOK

\* After an undisturbed handler subscribers know the state or are about to be told.
LEMMA PublishTells ==
  ASSUME RegistryInv, NEW t \in Threads, NEW f, NEW notes, notes \in [Dids -> Seq(States)],
         work[t].pc \in {"idle", "apply"}, NoticesFit(f, notes), Publish(t, f, notes),
         UNCHANGED <<stateSubs, seen>>
  PROVE  /\ NoticesAreDelivered'
         /\ ~overlapped' =>
              /\ OneNotifies' /\ NoticesAreTrue' /\ TheOthersKnow'
              /\ StaleIsOvertaken' /\ ListsAreCurrent'
              /\ ~overlapped /\ \A u \in Threads \ {t} : work[u].pc = "idle"
              /\ work[t].pc = "idle" => LANAgrees
              /\ work[t].pc = "apply" /\ work[t].from \in Groups => LANAgrees
              /\ Applies(t) => OnlineIn(work[t].list) = OnlineIn(lanList)
<1>1. /\ devices' = f
      /\ work'[t].notices = notes
      /\ work'[t].pc = IF \A d \in Dids : notes[d] = <<>> THEN "idle" ELSE "notify"
      /\ \A u \in Threads \ {t} : work'[u] = work[u]
      /\ ~overlapped' => ~overlapped /\ \A u \in Threads \ {t} : work[u].pc = "idle"
  BY PublishesAlone
<1>2. NoticesAreDelivered'
  BY <1>1 DEF RegistryInv, NoticesAreDelivered
<1>3. ASSUME ~overlapped'
      PROVE  /\ OneNotifies' /\ NoticesAreTrue' /\ TheOthersKnow'
             /\ StaleIsOvertaken' /\ ListsAreCurrent'
             /\ ~overlapped /\ \A u \in Threads \ {t} : work[u].pc = "idle"
             /\ work[t].pc = "idle" => LANAgrees
             /\ work[t].pc = "apply" /\ work[t].from \in Groups => LANAgrees
             /\ Applies(t) => OnlineIn(work[t].list) = OnlineIn(lanList)
  <2>1. ~overlapped /\ Settling /\ \A u \in Threads \ {t} : work[u].pc = "idle"
    BY <1>1, <1>3 DEF RegistryInv
  <2>2. \A u \in Threads, d \in Dids : work[u].notices[d] = <<>>
    BY <2>1 DEF RegistryInv, NoticesAreDelivered
  <2>3. \A u \in Threads : work'[u].pc \in {"idle", "notify"}
    BY <1>1, <2>1
  <2>4. OneNotifies'
    BY <1>1, <2>1 DEF OneNotifies
  <2>5. NoticesAreTrue'
    BY <1>1, <2>2 DEF NoticesAreTrue, NoticesFit
  <2>6. TheOthersKnow'
    <3>. SUFFICES ASSUME NEW d \in stateSubs, notes[d] = <<>> PROVE seen[d] = f[d].state
      BY <1>1 DEF TheOthersKnow
    <3>. QED
      BY <2>1, <2>2, ZenonT(60) DEF Settling, TheOthersKnow, NoticesFit, RegistryInv, IInv, TypeOK
  <2>7. StaleIsOvertaken' /\ ListsAreCurrent'
    BY <2>3 DEF StaleIsOvertaken, ListsAreCurrent, Applies
  <2>8. \A u \in Threads \ {t} : ~Fresh(u)
    BY <2>1 DEF Fresh, Applies
  <2>9. work[t].pc = "idle" => LANAgrees
    BY <2>1, <2>8 DEF Settling, LANFollows, Fresh, Applies
  <2>10. work[t].pc = "apply" /\ work[t].from \in Groups => LANAgrees
    BY <2>1, <2>8, RegistryConstants DEF Settling, LANFollows, Fresh, Applies
  <2>11. Applies(t) => OnlineIn(work[t].list) = OnlineIn(lanList)
    BY <2>1, <2>8 DEF Settling, StaleIsOvertaken, Fresh, Applies
  <2>. QED
    BY <2>1, <2>4, <2>5, <2>6, <2>7, <2>9, <2>10, <2>11
<1>. QED
  BY <1>2, <1>3

\* A handler of the cloud leaves what the local backends said as it is.
LEMMA CloudSettles ==
  ASSUME RegistryInv, IInv', NEW t \in Threads, NEW f, NEW notes, notes \in [Dids -> Seq(States)],
         work[t].pc = "idle", NoticesFit(f, notes), Publish(t, f, notes), KeepsLocal(f),
         UNCHANGED <<groupOnline, lanList, stateSubs, seen>>,
         moved \subseteq moved',
         \A d \in Dids : f[d].group = devices[d].group \/ d \in moved' \/ ~devices[d].gatewayOnline
  PROVE  RegistryInv'
<1>1. devices' = f
  BY DEF Publish
<1>2. NoticesAreDelivered'
  BY PublishTells
<1>3. UnknownIsOffline'
  BY <1>1 DEF UnknownIsOffline, KeepsLocal, RegistryInv
<1>4. ASSUME ~overlapped' PROVE Settling'
  <2>1. /\ OneNotifies' /\ NoticesAreTrue' /\ TheOthersKnow'
        /\ StaleIsOvertaken' /\ ListsAreCurrent' /\ ~overlapped /\ LANAgrees
    BY <1>4, PublishTells
  <2>2. LANFollows'
    BY <1>1, <2>1 DEF LANFollows, LANAgrees, KeepsLocal
  <2>3. GatewaysFollow
    BY <2>1 DEF RegistryInv, Settling
  <2>4. GatewaysFollow'
    BY <1>1, <2>3 DEF GatewaysFollow, KeepsLocal
  <2>. QED
    BY <2>1, <2>2, <2>4 DEF Settling
<1>. QED
  BY <1>2, <1>3, <1>4 DEF RegistryInv

LEMMA CloudStepSettles ==
  ASSUME RegistryInv, NEW t \in Threads, CloudStep(t)
  PROVE  RegistryInv'
<1>T. IInv /\ IInv' /\ devices \in [Dids -> Entry] /\ Consistent(devices)
  BY CloudKeepsIInv, IInvConsistent DEF RegistryInv, IInv, TypeOK
<1>1. ASSUME NEW snapshot \in [Dids -> CloudInfo], RefreshCloudDevices(t, snapshot)
      PROVE  RegistryInv'
  <2>. DEFINE gone  == [d \in Dids |-> CloudAbsent(devices[d])]
              back  == [d \in Dids |-> CloudAdded(gone[d], snapshot[d])]
              notes == [d \in Dids |-> Notice(devices[d], gone[d]) \o Notice(gone[d], back[d])]
  <2>1. /\ Publish(t, back, notes) /\ moved' = moved \cup GatewayLeftBehind(back)
        /\ UNCHANGED <<groupOnline, lanList, stateSubs, seen>> /\ work[t].pc = "idle"
    BY <1>1 DEF RefreshCloudDevices
  <2>2. \A d \in Dids : /\ gone[d] \in Entry /\ Merged(gone[d])
                        /\ back[d] \in Entry
    BY <1>T, CloudAbsentMerges, CloudAddedMerges DEF Consistent
  <2>3. ASSUME NEW d \in Dids
        PROVE  /\ gone[d].lanOnline = devices[d].lanOnline
               /\ gone[d].gatewayOnline = devices[d].gatewayOnline
               /\ gone[d].known = devices[d].known
    <3>1. [devices[d] EXCEPT !.cloudPresent = FALSE] \in Entry
      BY <1>T DEF Entry
    <3>2. /\ [devices[d] EXCEPT !.cloudPresent = FALSE].known = devices[d].known
          /\ [devices[d] EXCEPT !.cloudPresent = FALSE].lanOnline = devices[d].lanOnline
          /\ [devices[d] EXCEPT !.cloudPresent = FALSE].gatewayOnline = devices[d].gatewayOnline
      BY <1>T DEF Entry
    <3>. QED
      BY <3>1, <3>2, RecomputeKeepsFlags DEF CloudAbsent
  <2>4. ASSUME NEW d \in Dids
        PROVE  /\ back[d].lanOnline = gone[d].lanOnline
               /\ back[d].gatewayOnline = gone[d].gatewayOnline
               /\ gone[d].known => back[d].known
    <3>. DEFINE e == [gone[d] EXCEPT !.known = TRUE, !.group = snapshot[d].group,
                                     !.cloudPresent = TRUE, !.cloudOnline = snapshot[d].online]
    <3>1. gone[d] \in Entry /\ snapshot[d] \in CloudInfo
      BY <2>2
    <3>. HIDE DEF gone
    <3>2. e \in Entry /\ e.known = TRUE /\ e.lanOnline = gone[d].lanOnline
          /\ e.gatewayOnline = gone[d].gatewayOnline
      BY <3>1 DEF Entry, CloudInfo
    <3>. QED
      BY <3>2, RecomputeKeepsFlags DEF CloudAdded
  <2>5. KeepsLocal(back)
    BY <2>3, <2>4 DEF KeepsLocal
  <2>. HIDE DEF gone, back
  <2>6. notes \in [Dids -> Seq(States)]
    <3>. SUFFICES ASSUME NEW d \in Dids PROVE notes[d] \in Seq(States)
      OBVIOUS
    <3>1. Notice(devices[d], gone[d]) \in Seq(States) /\ Notice(gone[d], back[d]) \in Seq(States)
      BY <1>T, <2>2, NoticeType
    <3>. QED
      BY <3>1
  <2>7. NoticesFit(back, notes)
    <3>. SUFFICES ASSUME NEW d \in Dids
                  PROVE  IF notes[d] = <<>> THEN back[d].state = devices[d].state
                         ELSE LastOf(notes[d]) = back[d].state
      BY DEF NoticesFit
    <3>1. CASE gone[d].state = back[d].state /\ devices[d].state = gone[d].state
      BY <3>1 DEF Notice, LastOf
    <3>2. CASE gone[d].state = back[d].state /\ devices[d].state # gone[d].state
      BY <3>2 DEF Notice, LastOf
    <3>3. CASE gone[d].state # back[d].state /\ devices[d].state = gone[d].state
      BY <3>3 DEF Notice, LastOf
    <3>4. CASE gone[d].state # back[d].state /\ devices[d].state # gone[d].state
      BY <3>4 DEF Notice, LastOf
    <3>. QED
      BY <3>1, <3>2, <3>3, <3>4
  <2>8. \A d \in Dids : back[d].group = devices[d].group \/ d \in moved' \/ ~devices[d].gatewayOnline
    BY <2>1 DEF GatewayLeftBehind
  <2>. HIDE DEF notes
  <2>. QED
    BY <1>T, <2>1, <2>5, <2>6, <2>7, <2>8, CloudSettles
<1>2. ASSUME NEW d \in Dids, NEW found \in BOOLEAN, NEW online \in BOOLEAN,
             RefreshCloudDevicesByDID(t, d, found, online)
      PROVE  RegistryInv'
  <2>. DEFINE e == [devices[d] EXCEPT !.known = TRUE, !.cloudPresent = found,
                                      !.cloudOnline = found /\ online]
              f == [devices EXCEPT ![d] = recomputeEntryLocked(e)]
              notes == [x \in Dids |-> Notice(devices[x], f[x])]
  <2>1. /\ Publish(t, f, notes) /\ work[t].pc = "idle"
        /\ UNCHANGED <<groupOnline, lanList, stateSubs, seen, moved>>
    BY <1>2 DEF RefreshCloudDevicesByDID
  <2>2. e \in Entry /\ e.known = TRUE /\ e.group = devices[d].group
        /\ e.lanOnline = devices[d].lanOnline /\ e.gatewayOnline = devices[d].gatewayOnline
    BY <1>T DEF Entry
  <2>3. KeepsLocal(f) /\ \A x \in Dids : f[x].group = devices[x].group /\ f[x] \in Entry
    BY <1>T, <2>2, RecomputeKeepsFlags, RecomputeMerges DEF KeepsLocal
  <2>. HIDE DEF f
  <2>4. notes \in [Dids -> Seq(States)] /\ NoticesFit(f, notes)
    BY <1>T, <2>3, NoticeType, DiffFits
  <2>. HIDE DEF notes
  <2>. QED
    BY <1>T, <2>1, <2>3, <2>4, CloudSettles
<1>3. ASSUME NEW d \in Dids, NEW online \in BOOLEAN, handleCloudDeviceState(t, d, online)
      PROVE  RegistryInv'
  <2>. DEFINE e == [devices[d] EXCEPT !.cloudPresent = TRUE, !.cloudOnline = online]
              f == [devices EXCEPT ![d] = recomputeEntryLocked(e)]
              notes == [x \in Dids |-> Notice(devices[x], f[x])]
  <2>1. /\ Publish(t, f, notes) /\ work[t].pc = "idle"
        /\ UNCHANGED <<groupOnline, lanList, stateSubs, seen, moved>>
    BY <1>3 DEF handleCloudDeviceState
  <2>2. e \in Entry /\ e.known = devices[d].known /\ e.group = devices[d].group
        /\ e.lanOnline = devices[d].lanOnline /\ e.gatewayOnline = devices[d].gatewayOnline
    BY <1>T DEF Entry
  <2>3. KeepsLocal(f) /\ \A x \in Dids : f[x].group = devices[x].group /\ f[x] \in Entry
    BY <1>T, <2>2, RecomputeKeepsFlags, RecomputeMerges DEF KeepsLocal
  <2>. HIDE DEF f
  <2>4. notes \in [Dids -> Seq(States)] /\ NoticesFit(f, notes)
    BY <1>T, <2>3, NoticeType, DiffFits
  <2>. HIDE DEF notes
  <2>. QED
    BY <1>T, <2>1, <2>3, <2>4, CloudSettles
<1>4. ASSUME CloudDisconnected(t) PROVE RegistryInv'
  <2>. DEFINE f == [d \in Dids |->
                     IF devices[d].cloudPresent /\ devices[d].cloudOnline
                       THEN recomputeEntryLocked([devices[d] EXCEPT !.cloudOnline = FALSE])
                       ELSE devices[d]]
              notes == [x \in Dids |-> Notice(devices[x], f[x])]
  <2>1. /\ Publish(t, f, notes) /\ work[t].pc = "idle"
        /\ UNCHANGED <<groupOnline, lanList, stateSubs, seen, moved>>
    BY <1>4 DEF CloudDisconnected
  <2>2. ASSUME NEW d \in Dids
        PROVE  LET e == [devices[d] EXCEPT !.cloudOnline = FALSE] IN
               /\ e \in Entry /\ e.known = devices[d].known /\ e.group = devices[d].group
               /\ e.lanOnline = devices[d].lanOnline /\ e.gatewayOnline = devices[d].gatewayOnline
    BY <1>T DEF Entry
  <2>3. KeepsLocal(f) /\ \A x \in Dids : f[x].group = devices[x].group /\ f[x] \in Entry
    BY <1>T, <2>2, RecomputeKeepsFlags, RecomputeMerges, ZenonT(60) DEF KeepsLocal
  <2>. HIDE DEF f
  <2>4. notes \in [Dids -> Seq(States)] /\ NoticesFit(f, notes)
    BY <1>T, <2>3, NoticeType, DiffFits
  <2>. HIDE DEF notes
  <2>. QED
    BY <1>T, <2>1, <2>3, <2>4, CloudSettles
<1>. QED
  BY <1>1, <1>2, <1>3, <1>4 DEF CloudStep

-----------------------------------------------------------------------------
(* Gateways and the LAN *)

\* What a gateway's list, or its end, does to the entries.
LEMMA GatewayUpdateFrame ==
  ASSUME Consistent(devices), NEW g \in Groups, NEW list \in Lists, NEW d \in Dids
  PROVE  LET f == updateGatewayDevices(g, list) IN
         /\ f[d].lanOnline = devices[d].lanOnline
         /\ devices[d].known => f[d].known
         /\ list[d].listed => f[d].known /\ f[d].group = g
         /\ ~list[d].listed /\ devices[d].known /\ devices[d].group = g => ~f[d].gatewayOnline
         /\ ~list[d].listed /\ ~(devices[d].known /\ devices[d].group = g) => f[d] = devices[d]
<1>. DEFINE e == devices[d]
            s == list[d]
            gone == [e EXCEPT !.gatewayOnline = FALSE, !.gatewayPush = FALSE]
            here == [e EXCEPT !.known = TRUE, !.group = g,
                              !.gatewayOnline = s.online, !.gatewayPush = s.push]
<1>1. e \in Entry /\ s.online \in BOOLEAN /\ s.push \in BOOLEAN
  BY DEF Consistent, Lists, Summary, NotListed
<1>2. gone \in Entry /\ gone.known = e.known /\ gone.lanOnline = e.lanOnline
      /\ gone.gatewayOnline = FALSE
  BY <1>1 DEF Entry
<1>3. here \in Entry /\ here.known = TRUE /\ here.lanOnline = e.lanOnline /\ here.group = g
  BY <1>1 DEF Entry
<1>4. updateGatewayDevices(g, list)[d] = IF s.listed THEN recomputeEntryLocked(here)
        ELSE IF e.known /\ e.group = g THEN recomputeEntryLocked(gone) ELSE e
  BY DEF updateGatewayDevices, GatewayListed, GatewayGone
<1>. HIDE DEF gone, here
<1>. QED
  BY <1>2, <1>3, <1>4, RecomputeKeepsFlags

\* What a list of the LAN client does to the entries.
LEMMA LANUpdateFrame ==
  ASSUME Consistent(devices), NEW list \in Lists, NEW d \in Dids
  PROVE  LET f == updateLANDevices(list) IN
         /\ f[d].gatewayOnline = devices[d].gatewayOnline /\ f[d].group = devices[d].group
         /\ devices[d].known => f[d].known
         /\ list[d].listed \/ devices[d].known => f[d].known /\ f[d].lanOnline = list[d].online
         /\ ~list[d].listed /\ ~devices[d].known => f[d] = devices[d]
<1>. DEFINE e == devices[d]
            here == [e EXCEPT !.known = TRUE, !.lanOnline = list[d].online,
                              !.lanPush = list[d].push]
<1>1. e \in Entry /\ list[d].online \in BOOLEAN /\ list[d].push \in BOOLEAN
  BY DEF Consistent, Lists, Summary, NotListed
<1>2. here \in Entry /\ here.known = TRUE /\ here.lanOnline = list[d].online
      /\ here.gatewayOnline = e.gatewayOnline /\ here.group = e.group
  BY <1>1 DEF Entry
<1>3. updateLANDevices(list)[d] = IF list[d].listed \/ e.known THEN recomputeEntryLocked(here)
        ELSE e
  BY DEF updateLANDevices
<1>. HIDE DEF here
<1>. QED
  BY <1>2, <1>3, RecomputeKeepsFlags

LEMMA UnlistedIsOffline ==
  \A list \in Lists, d \in Dids : list[d].online \in BOOLEAN /\ (~list[d].listed => ~list[d].online)
  BY DEF Lists, Summary, NotListed

\* A handler that applies the list of a gateway, or marks its devices gone.
LEMMA GatewaySettles ==
  ASSUME RegistryInv, IInv', NEW t \in Threads, NEW g \in Groups, NEW list \in Lists,
         NEW f, f = updateGatewayDevices(g, list),
         Publish(t, f, [x \in Dids |-> Notice(devices[x], f[x])]),
         \/ list = EmptyList /\ work[t].pc = "idle" /\ groupOnline' = [groupOnline EXCEPT ![g] = FALSE]
         \/ work[t].pc = "apply" /\ work[t].from = g /\ UNCHANGED groupOnline,
         UNCHANGED <<lanList, stateSubs, seen, moved>>
  PROVE  RegistryInv'
<1>. DEFINE notes == [x \in Dids |-> Notice(devices[x], f[x])]
<1>1. devices' = f
  BY DEF Publish
<1>T. /\ Consistent(devices) /\ Consistent(f) /\ groupOnline \in [Groups -> BOOLEAN]
      /\ devices \in [Dids -> Entry] /\ f \in [Dids -> Entry]
  BY GatewayUpdateMerges, IInvConsistent DEF RegistryInv, IInv, TypeOK, Consistent
<1>2. notes \in [Dids -> Seq(States)] /\ NoticesFit(f, notes)
  BY <1>T, NoticeType, DiffFits
<1>. HIDE DEF notes
<1>3. /\ NoticesAreDelivered'
      /\ ~overlapped' =>
           /\ OneNotifies' /\ NoticesAreTrue' /\ TheOthersKnow'
           /\ StaleIsOvertaken' /\ ListsAreCurrent' /\ ~overlapped /\ LANAgrees
  BY <1>2, PublishTells DEF notes
<1>4. UnknownIsOffline'
  <2>. SUFFICES ASSUME NEW d \in Dids, ~f[d].known PROVE ~f[d].lanOnline /\ ~f[d].gatewayOnline
    BY <1>1 DEF UnknownIsOffline
  <2>1. f[d] = devices[d]
    BY <1>T, GatewayUpdateFrame
  <2>. QED
    BY <2>1 DEF RegistryInv, UnknownIsOffline
<1>5. ASSUME ~overlapped' PROVE Settling'
  <2>1. LANFollows'
    BY <1>1, <1>3, <1>5, <1>T, GatewayUpdateFrame DEF LANFollows, LANAgrees
  <2>2. GatewaysFollow /\ ListsAreCurrent
    BY <1>3, <1>5 DEF RegistryInv, Settling
  <2>3. GatewaysFollow'
    <3>. SUFFICES ASSUME NEW d \in Dids \ moved, f[d].gatewayOnline
                  PROVE  f[d].group \in Groups /\ groupOnline'[f[d].group]
      BY <1>1 DEF GatewaysFollow
    <3>1. CASE list[d].listed
      <4>1. f[d].group = g
        BY <1>T, <3>1, GatewayUpdateFrame
      <4>2. list # EmptyList
        BY <3>1 DEF EmptyList, NotListed
      <4>3. groupOnline[g] /\ UNCHANGED groupOnline
        BY <2>2, <4>2 DEF ListsAreCurrent
      <4>. QED
        BY <4>1, <4>3
    <3>2. CASE ~list[d].listed
      <4>1. f[d] = devices[d] /\ ~(devices[d].known /\ devices[d].group = g)
        BY <1>T, <3>2, GatewayUpdateFrame
      <4>2. devices[d].known
        BY <4>1 DEF RegistryInv, UnknownIsOffline
      <4>. QED
        BY <1>T, <2>2, <4>1, <4>2 DEF GatewaysFollow
    <3>. QED
      BY <3>1, <3>2
  <2>. QED
    BY <1>3, <1>5, <2>1, <2>3 DEF Settling
<1>. QED
  BY <1>3, <1>4, <1>5 DEF RegistryInv

\* A handler that applies a list of the LAN client, or the end of LAN control.
LEMMA LANSettles ==
  ASSUME RegistryInv, IInv', NEW t \in Threads, NEW list \in Lists,
         NEW f, f = updateLANDevices(list),
         Publish(t, f, [x \in Dids |-> Notice(devices[x], f[x])]),
         \/ work[t].pc = "idle" /\ list = EmptyList /\ OnlineIn(lanList) = {}
         \/ Applies(t) /\ list = work[t].list,
         UNCHANGED <<groupOnline, lanList, stateSubs, seen, moved>>
  PROVE  RegistryInv'
<1>. DEFINE notes == [x \in Dids |-> Notice(devices[x], f[x])]
<1>1. devices' = f
  BY DEF Publish
<1>T. /\ Consistent(devices) /\ Consistent(f) /\ lanList \in Lists
      /\ devices \in [Dids -> Entry] /\ f \in [Dids -> Entry]
  BY LANUpdateMerges, IInvConsistent DEF RegistryInv, IInv, TypeOK, Consistent
<1>2. notes \in [Dids -> Seq(States)] /\ NoticesFit(f, notes)
  BY <1>T, NoticeType, DiffFits
<1>. HIDE DEF notes
<1>3. /\ NoticesAreDelivered'
      /\ ~overlapped' =>
           /\ OneNotifies' /\ NoticesAreTrue' /\ TheOthersKnow'
           /\ StaleIsOvertaken' /\ ListsAreCurrent' /\ ~overlapped
           /\ Applies(t) => OnlineIn(work[t].list) = OnlineIn(lanList)
  BY <1>2, PublishTells DEF notes, Applies
<1>4. UnknownIsOffline'
  <2>. SUFFICES ASSUME NEW d \in Dids, ~f[d].known PROVE ~f[d].lanOnline /\ ~f[d].gatewayOnline
    BY <1>1 DEF UnknownIsOffline
  <2>1. f[d] = devices[d]
    BY <1>T, LANUpdateFrame
  <2>. QED
    BY <2>1 DEF RegistryInv, UnknownIsOffline
<1>5. ASSUME ~overlapped' PROVE Settling'
  <2>1. OnlineIn(list) = OnlineIn(lanList)
    BY <1>3, <1>5 DEF OnlineIn, EmptyList, NotListed
  <2>2. \A d \in Dids : list[d].online = lanList[d].online
    BY <1>T, <2>1, UnlistedIsOffline DEF OnlineIn
  <2>3. ASSUME NEW d \in Dids PROVE f[d].lanOnline = lanList[d].online
    <3>1. CASE list[d].listed \/ devices[d].known
      BY <1>T, <2>2, <3>1, LANUpdateFrame
    <3>2. CASE ~list[d].listed /\ ~devices[d].known
      <4>1. f[d] = devices[d] /\ ~devices[d].lanOnline /\ ~list[d].online
        BY <1>T, <3>2, LANUpdateFrame, UnlistedIsOffline DEF RegistryInv, UnknownIsOffline
      <4>2. devices[d].lanOnline = FALSE
        BY <1>T, <4>1 DEF Entry
      <4>3. list[d].online = FALSE
        BY <4>1, UnlistedIsOffline
      <4>. QED
        BY <2>2, <4>1, <4>2, <4>3
    <3>. QED
      BY <3>1, <3>2
  <2>4. LANFollows'
    BY <1>1, <2>3 DEF LANFollows, LANAgrees
  <2>5. GatewaysFollow
    BY <1>3, <1>5 DEF RegistryInv, Settling
  <2>6. GatewaysFollow'
    BY <1>1, <1>T, <2>5, LANUpdateFrame DEF GatewaysFollow
  <2>. QED
    BY <1>3, <1>5, <2>4, <2>6 DEF Settling
<1>. QED
  BY <1>3, <1>4, <1>5 DEF RegistryInv

\* A goroutine that takes a list, or learns that there is a new one, publishes nothing.
LEMMA TakingSettles ==
  ASSUME RegistryInv, IInv', NEW t \in Threads,
         work[t].pc \in {"idle", "read"}, work'[t].pc \in {"read", "apply"},
         \A d \in Dids : work'[t].notices[d] = <<>>,
         \A u \in Threads \ {t} : work'[u] = work[u],
         \/ work'[t].pc = "read"
         \/ /\ work'[t].pc = "apply" /\ work'[t].from = "lan" /\ work'[t].list = lanList
            /\ UNCHANGED lanList
         \/ /\ work'[t].pc = "apply" /\ work'[t].from \in Groups /\ groupOnline[work'[t].from]
            /\ work[t].pc = "idle" /\ UNCHANGED lanList,
         UNCHANGED <<devices, groupOnline, stateSubs, seen, overlapped, moved>>
  PROVE  RegistryInv'
<1>1. \A d \in Dids : work[t].notices[d] = <<>>
  BY DEF RegistryInv, NoticesAreDelivered
<1>2. NoticesAreDelivered' /\ UnknownIsOffline'
  BY DEF RegistryInv, NoticesAreDelivered, UnknownIsOffline
<1>3. ASSUME ~overlapped' PROVE Settling'
  <2>1. Settling
    BY <1>3 DEF RegistryInv
  <2>2. OneNotifies' /\ NoticesAreTrue'
    BY <2>1 DEF Settling, OneNotifies, NoticesAreTrue
  <2>3. TheOthersKnow'
    <3>. SUFFICES ASSUME NEW d \in stateSubs, \A u \in Threads : work'[u].notices[d] = <<>>
                  PROVE  seen[d] = devices[d].state
      BY DEF TheOthersKnow
    <3>1. d \in Dids
      BY DEF RegistryInv, IInv, TypeOK
    <3>2. \A u \in Threads : work[u].notices[d] = <<>>
      BY <1>1, <3>1
    <3>. QED
      BY <2>1, <3>2 DEF Settling, TheOthersKnow
  <2>4. LANFollows' /\ StaleIsOvertaken'
    <3>1. CASE work'[t].pc = "read"
      BY <3>1 DEF LANFollows, StaleIsOvertaken, Fresh
    <3>2. CASE work'[t].pc = "apply" /\ work'[t].from = "lan" /\ work'[t].list = lanList
               /\ UNCHANGED lanList
      BY <3>2 DEF LANFollows, StaleIsOvertaken, Fresh, Applies, OnlineIn
    <3>3. CASE /\ work'[t].pc = "apply" /\ work'[t].from \in Groups
               /\ work[t].pc = "idle" /\ UNCHANGED lanList
      <4>1. ~Applies(t)' /\ ~Fresh(t)
        BY <3>3, RegistryConstants DEF Applies, Fresh
      <4>2. \A u \in Threads \ {t} : (Applies(u)' <=> Applies(u)) /\ (Fresh(u)' <=> Fresh(u))
        BY <3>3 DEF Applies, Fresh, OnlineIn
      <4>3. LANAgrees' <=> LANAgrees
        BY <3>3 DEF LANAgrees
      <4>4. LANFollows'
        BY <2>1, <4>1, <4>2, <4>3 DEF Settling, LANFollows
      <4>5. StaleIsOvertaken'
        BY <2>1, <4>1, <4>2 DEF Settling, StaleIsOvertaken
      <4>. QED
        BY <4>4, <4>5
    <3>. QED
      BY <3>1, <3>2, <3>3
  <2>5. GatewaysFollow' /\ ListsAreCurrent'
    BY <2>1, RegistryConstants DEF Settling, GatewaysFollow, ListsAreCurrent
  <2>. QED
    BY <2>2, <2>3, <2>4, <2>5 DEF Settling
<1>. QED
  BY <1>2, <1>3 DEF RegistryInv

LEMMA LocalStepSettles ==
  ASSUME RegistryInv, NEW t \in Threads, LocalStep(t)
  PROVE  RegistryInv'
<1>T. IInv /\ IInv' /\ work \in [Threads -> Working]
  BY LocalKeepsIInv DEF RegistryInv, IInv, TypeOK, Working
<1>1. ASSUME NEW g \in Groups, GatewayDisconnected(t, g) PROVE RegistryInv'
  BY <1>1, <1>T, EmptyListType, GatewaySettles DEF GatewayDisconnected
<1>2. ASSUME NEW g \in Groups, NEW list \in Lists, FetchGatewayList(t, g, list)
      PROVE  RegistryInv'
  <2>1. /\ work[t].pc = "idle" /\ groupOnline[g]
        /\ work' = [work EXCEPT ![t] = [Quiet EXCEPT !.pc = "apply", !.from = g, !.list = list]]
        /\ UNCHANGED <<devices, groupOnline, lanList, stateSubs, seen, overlapped, moved>>
    BY <1>2 DEF FetchGatewayList
  <2>2. /\ work'[t].pc = "apply" /\ work'[t].from = g
        /\ \A d \in Dids : work'[t].notices[d] = <<>>
        /\ \A u \in Threads \ {t} : work'[u] = work[u]
    BY <1>T, <2>1 DEF Quiet
  <2>. QED
    BY <1>T, <2>1, <2>2, TakingSettles
<1>3. ASSUME ApplyGatewayList(t) PROVE RegistryInv'
  <2>1. work[t].list \in Lists
    BY <1>T DEF Working
  <2>. QED
    BY <1>3, <1>T, <2>1, GatewaySettles DEF ApplyGatewayList
<1>4. ASSUME NEW list \in Lists, LANDeviceStateChanged(t, list) PROVE RegistryInv'
  <2>1. /\ work[t].pc = "idle" /\ work' = [work EXCEPT ![t] = [work[t] EXCEPT !.pc = "read"]]
        /\ UNCHANGED <<devices, groupOnline, stateSubs, seen, overlapped, moved>>
    BY <1>4 DEF LANDeviceStateChanged
  <2>2. /\ work'[t].pc = "read" /\ work'[t].notices = work[t].notices
        /\ \A u \in Threads \ {t} : work'[u] = work[u]
    BY <1>T, <2>1 DEF Working
  <2>3. \A d \in Dids : work[t].notices[d] = <<>>
    BY <2>1 DEF RegistryInv, NoticesAreDelivered
  <2>. QED
    BY <1>T, <2>1, <2>2, <2>3, TakingSettles
<1>5. ASSUME ReadLANList(t) PROVE RegistryInv'
  <2>1. /\ work[t].pc = "read"
        /\ work' = [work EXCEPT ![t] = [Quiet EXCEPT !.pc = "apply", !.from = "lan", !.list = lanList]]
        /\ UNCHANGED <<devices, groupOnline, lanList, stateSubs, seen, overlapped, moved>>
    BY <1>5 DEF ReadLANList
  <2>2. /\ work'[t].pc = "apply" /\ work'[t].from = "lan" /\ work'[t].list = lanList
        /\ \A d \in Dids : work'[t].notices[d] = <<>>
        /\ \A u \in Threads \ {t} : work'[u] = work[u]
    BY <1>T, <2>1 DEF Quiet
  <2>. QED
    BY <1>T, <2>1, <2>2, TakingSettles
<1>6. ASSUME ApplyLANList(t) PROVE RegistryInv'
  <2>1. work[t].list \in Lists
    BY <1>T DEF Working
  <2>. QED
    BY <1>6, <1>T, <2>1, LANSettles DEF ApplyLANList, Applies
<1>7. ASSUME LANDisabled(t) PROVE RegistryInv'
  BY <1>7, <1>T, EmptyListType, LANSettles DEF LANDisabled
<1>. QED
  BY <1>1, <1>2, <1>3, <1>4, <1>5, <1>6, <1>7 DEF LocalStep

-----------------------------------------------------------------------------
(* Notices and subscribers *)

LEMMA TailKeepsLast ==
  ASSUME NEW S, NEW s \in Seq(S), s # <<>>
  PROVE  IF Tail(s) = <<>> THEN Head(s) = LastOf(s) ELSE LastOf(Tail(s)) = LastOf(s)
<1>1. Len(s) \in Nat /\ Len(Tail(s)) \in Nat /\ Len(s) # 0 /\ Len(Tail(s)) = Len(s) - 1 /\ Tail(s) \in Seq(S)
  OBVIOUS
<1>2. CASE Tail(s) = <<>>
  <2>0. Len(<<>>) = 0
    OBVIOUS
  <2>1. Len(Tail(s)) = 0
    BY <1>2, <2>0, Zenon
  <2>2. \A m, n \in Nat : m = n - 1 /\ m = 0 => n = 1
    OBVIOUS
  <2>3. Len(s) = 1
    BY <1>1, <2>1, <2>2, Zenon
  <2>. QED
    BY <1>2, <2>3 DEF LastOf
<1>3. CASE Tail(s) # <<>>
  <2>1. Len(Tail(s)) # 0
    BY <1>1, <1>3
  <2>2. Tail(s)[Len(s) - 1] = s[Len(s)]
    BY <1>1, <2>1
  <2>. QED
    BY <1>1, <1>3, <2>2 DEF LastOf
<1>. QED
  BY <1>2, <1>3

LEMMA NotifySettles ==
  ASSUME RegistryInv, NEW t \in Threads, NEW d \in Dids, NotifyDeviceState(t, d)
  PROVE  RegistryInv'
<1>. DEFINE old == work[t].notices
            rest == [old EXCEPT ![d] = Tail(@)]
<1>T. /\ IInv' /\ work \in [Threads -> Working] /\ old \in [Dids -> Seq(States)]
      /\ stateSubs \subseteq Dids /\ seen \in [Dids -> States]
  BY NotifyKeepsIInv DEF RegistryInv, IInv, TypeOK, Working
<1>1. /\ work[t].pc = "notify" /\ old[d] # <<>>
      /\ seen' = IF d \in stateSubs THEN [seen EXCEPT ![d] = Head(old[d])] ELSE seen
      /\ UNCHANGED <<devices, groupOnline, lanList, stateSubs, overlapped, moved>>
  BY DEF NotifyDeviceState
<1>2. /\ work'[t].notices = rest
      /\ work'[t].pc = IF \A x \in Dids : rest[x] = <<>> THEN "idle" ELSE "notify"
      /\ \A u \in Threads \ {t} : work'[u] = work[u]
  BY <1>T DEF NotifyDeviceState, Working
<1>3. /\ \A x \in Dids \ {d} : rest[x] = old[x]
      /\ IF rest[d] = <<>> THEN Head(old[d]) = LastOf(old[d]) ELSE LastOf(rest[d]) = LastOf(old[d])
  BY <1>T, <1>1, TailKeepsLast
<1>. HIDE DEF rest
<1>4. NoticesAreDelivered' /\ UnknownIsOffline'
  BY <1>1, <1>2 DEF RegistryInv, NoticesAreDelivered, UnknownIsOffline
<1>5. ASSUME ~overlapped' PROVE Settling'
  <2>1. Settling
    BY <1>1, <1>5 DEF RegistryInv
  <2>2. OneNotifies'
    BY <1>1, <1>2, <2>1 DEF Settling, OneNotifies
  <2>3. NoticesAreTrue'
    <3>. SUFFICES ASSUME NEW u \in Threads, NEW x \in Dids, work'[u].notices[x] # <<>>
                  PROVE  LastOf(work'[u].notices[x]) = devices[x].state
      BY <1>1 DEF NoticesAreTrue
    <3>1. CASE u # t
      BY <1>2, <2>1, <3>1 DEF Settling, NoticesAreTrue
    <3>2. CASE u = t /\ x # d
      BY <1>2, <1>3, <2>1, <3>2 DEF Settling, NoticesAreTrue
    <3>3. CASE u = t /\ x = d
      BY <1>1, <1>2, <1>3, <2>1, <3>3 DEF Settling, NoticesAreTrue
    <3>. QED
      BY <3>1, <3>2, <3>3
  <2>4. TheOthersKnow'
    <3>. SUFFICES ASSUME NEW x \in stateSubs, \A u \in Threads : work'[u].notices[x] = <<>>
                  PROVE  seen'[x] = devices[x].state
      BY <1>1 DEF TheOthersKnow
    <3>1. CASE x # d
      <4>1. \A u \in Threads : work[u].notices[x] = <<>>
        BY <1>T, <1>2, <1>3, <3>1
      <4>. QED
        BY <1>1, <2>1, <3>1, <4>1 DEF Settling, TheOthersKnow
    <3>2. CASE x = d
      <4>1. Head(old[d]) = LastOf(old[d])
        BY <1>2, <1>3, <3>2
      <4>2. LastOf(old[d]) = devices[d].state
        BY <1>1, <2>1 DEF Settling, NoticesAreTrue
      <4>. QED
        BY <1>T, <1>1, <3>2, <4>1, <4>2
    <3>. QED
      BY <3>1, <3>2
  <2>5. \A u \in Threads : (Applies(u)' <=> Applies(u)) /\ (Fresh(u)' <=> Fresh(u))
    <3>. SUFFICES ASSUME NEW u \in Threads
                  PROVE  (Applies(u)' <=> Applies(u)) /\ (Fresh(u)' <=> Fresh(u))
      OBVIOUS
    <3>1. CASE u = t
      BY <1>1, <1>2, <3>1 DEF Applies, Fresh
    <3>2. CASE u # t
      BY <1>1, <1>2, <3>2 DEF Applies, Fresh, OnlineIn
    <3>. QED
      BY <3>1, <3>2
  <2>6. LANAgrees' <=> LANAgrees
    BY <1>1 DEF LANAgrees
  <2>7. LANFollows' /\ StaleIsOvertaken'
    BY <2>1, <2>5, <2>6 DEF Settling, LANFollows, StaleIsOvertaken
  <2>8. GatewaysFollow' /\ ListsAreCurrent'
    BY <1>1, <1>2, <2>1 DEF Settling, GatewaysFollow, ListsAreCurrent
  <2>. QED
    BY <2>2, <2>3, <2>4, <2>7, <2>8 DEF Settling
<1>. QED
  BY <1>T, <1>4, <1>5 DEF RegistryInv

LEMMA SubscribersSettle ==
  ASSUME RegistryInv, NEW d \in Dids, SubscribeDeviceState(d) \/ UnsubscribeDeviceState(d)
  PROVE  RegistryInv'
<1>T. stateSubs \subseteq Dids /\ seen \in [Dids -> States] /\ devices \in [Dids -> Entry]
  BY DEF RegistryInv, IInv, TypeOK
<1>0. UNCHANGED <<devices, groupOnline, lanList, work, overlapped, moved>>
  BY DEF SubscribeDeviceState, UnsubscribeDeviceState
<1>1. /\ stateSubs' \subseteq Dids /\ seen' \in [Dids -> States]
      /\ \A x \in stateSubs' : seen'[x] = devices[x].state \/ (x \in stateSubs /\ seen'[x] = seen[x])
  <2>1. CASE SubscribeDeviceState(d)
    <3>1. devices[d].state \in States
      BY <1>T DEF Entry
    <3>2. stateSubs' = stateSubs \cup {d} /\ seen' = [seen EXCEPT ![d] = devices[d].state]
      BY <2>1 DEF SubscribeDeviceState
    <3>. QED
      BY <1>T, <3>1, <3>2
  <2>2. CASE UnsubscribeDeviceState(d)
    BY <1>T, <2>2 DEF UnsubscribeDeviceState
  <2>. QED
    BY <2>1, <2>2
<1>2. IInv'
  BY <1>0, <1>1 DEF RegistryInv, IInv, TypeOK, FlagsDetermineState
<1>3. TheOthersKnow => TheOthersKnow'
  BY <1>0, <1>1 DEF TheOthersKnow
<1>. QED
  BY <1>0, <1>1, <1>2, <1>3
  DEF RegistryInv, NoticesAreDelivered, UnknownIsOffline, Settling, OneNotifies, NoticesAreTrue,
      LANFollows, LANAgrees, StaleIsOvertaken, Fresh, Applies, OnlineIn, GatewaysFollow,
      ListsAreCurrent

LEMMA GatewayConnectedSettles ==
  ASSUME RegistryInv, NEW g \in Groups, GatewayConnected(g)
  PROVE  RegistryInv'
<1>1. /\ UNCHANGED <<devices, lanList, work, stateSubs, seen, overlapped, moved>>
      /\ groupOnline' \in [Groups -> BOOLEAN]
      /\ \A h \in Groups : groupOnline[h] => groupOnline'[h]
  BY DEF RegistryInv, IInv, TypeOK, GatewayConnected
<1>2. IInv'
  BY <1>1 DEF RegistryInv, IInv, TypeOK, FlagsDetermineState
<1>. QED
  BY <1>1, <1>2
  DEF RegistryInv, NoticesAreDelivered, UnknownIsOffline, Settling, OneNotifies, NoticesAreTrue,
      TheOthersKnow, LANFollows, LANAgrees, StaleIsOvertaken, Fresh, Applies, OnlineIn,
      GatewaysFollow, ListsAreCurrent

LEMMA LANPushSettles ==
  ASSUME RegistryInv, NEW list \in Lists, LANPushChanged(list)
  PROVE  RegistryInv'
<1>1. /\ UNCHANGED <<devices, groupOnline, work, stateSubs, seen, overlapped, moved>>
      /\ OnlineIn(list) = OnlineIn(lanList) /\ lanList' = list /\ lanList \in Lists
  BY DEF RegistryInv, IInv, TypeOK, LANPushChanged
<1>2. IInv'
  BY <1>1 DEF RegistryInv, IInv, TypeOK, FlagsDetermineState
<1>3. \A d \in Dids : list[d].online = lanList[d].online
  BY <1>1, UnlistedIsOffline DEF OnlineIn
<1>4. LANAgrees => LANAgrees'
  BY <1>1, <1>3 DEF LANAgrees
<1>5. OnlineIn(lanList)' = OnlineIn(lanList)
  BY <1>1 DEF OnlineIn
<1>6. \A t \in Threads : OnlineIn(work[t].list)' = OnlineIn(work[t].list)
  BY <1>1 DEF OnlineIn
<1>7. \A t \in Threads : (Applies(t)' <=> Applies(t)) /\ (Fresh(t)' <=> Fresh(t))
  BY <1>1, <1>5, <1>6 DEF Fresh, Applies
<1>8. (LANFollows => LANFollows') /\ (StaleIsOvertaken => StaleIsOvertaken')
  BY <1>4, <1>7 DEF LANFollows, StaleIsOvertaken
<1>. QED
  BY <1>1, <1>2, <1>8
  DEF RegistryInv, NoticesAreDelivered, UnknownIsOffline, Settling, OneNotifies, NoticesAreTrue,
      TheOthersKnow, GatewaysFollow, ListsAreCurrent

LEMMA RegistryInit == Init => RegistryInv
<1>. SUFFICES ASSUME Init PROVE RegistryInv
  OBVIOUS
<1>1. IInv
  BY InitIInv
<1>2. /\ \A t \in Threads : work[t].pc = "idle" /\ \A d \in Dids : work[t].notices[d] = <<>>
      /\ \A d \in Dids : devices[d].state = "disable" /\ ~devices[d].lanOnline
                         /\ ~devices[d].gatewayOnline /\ lanList[d].online = FALSE
                         /\ devices[d].lanOnline = FALSE
  BY DEF Init, Quiet, NewEntry, EmptyList, NotListed
<1>. QED
  BY <1>1, <1>2
  DEF Init, RegistryInv, NoticesAreDelivered, UnknownIsOffline, Settling, OneNotifies,
      NoticesAreTrue, TheOthersKnow, LANFollows, LANAgrees, StaleIsOvertaken, Fresh, Applies,
      GatewaysFollow, ListsAreCurrent

LEMMA RegistryStep == RegistryInv /\ [Next]_vars => RegistryInv'
<1>. SUFFICES ASSUME RegistryInv, [Next]_vars PROVE RegistryInv'
  OBVIOUS
<1>1. ASSUME NEW t \in Threads, CloudStep(t) PROVE RegistryInv'
  BY <1>1, CloudStepSettles
<1>2. ASSUME NEW t \in Threads, LocalStep(t) PROVE RegistryInv'
  BY <1>2, LocalStepSettles
<1>3. ASSUME NEW t \in Threads, NEW d \in Dids, NotifyDeviceState(t, d) PROVE RegistryInv'
  BY <1>3, NotifySettles
<1>4. ASSUME NEW g \in Groups, GatewayConnected(g) PROVE RegistryInv'
  BY <1>4, GatewayConnectedSettles
<1>5. ASSUME NEW list \in Lists, LANPushChanged(list) PROVE RegistryInv'
  BY <1>5, LANPushSettles
<1>6. ASSUME NEW d \in Dids, SubscribeDeviceState(d) \/ UnsubscribeDeviceState(d)
      PROVE  RegistryInv'
  BY <1>6, SubscribersSettle
<1>7. CASE UNCHANGED vars
  <2>1. UNCHANGED <<devices, groupOnline, lanList, work, stateSubs, seen, overlapped, moved>>
    BY <1>7 DEF vars
  <2>2. IInv'
    BY <2>1 DEF RegistryInv, IInv, TypeOK, FlagsDetermineState
  <2>3. NoticesAreDelivered' /\ UnknownIsOffline'
    BY <2>1 DEF RegistryInv, NoticesAreDelivered, UnknownIsOffline
  <2>4. Settling => OneNotifies' /\ NoticesAreTrue' /\ TheOthersKnow'
    BY <2>1 DEF Settling, OneNotifies, NoticesAreTrue, TheOthersKnow
  <2>5. Settling => LANFollows' /\ StaleIsOvertaken'
    BY <2>1 DEF Settling, LANFollows, LANAgrees, StaleIsOvertaken, Fresh, Applies, OnlineIn
  <2>6. Settling => GatewaysFollow' /\ ListsAreCurrent'
    BY <2>1 DEF Settling, GatewaysFollow, ListsAreCurrent
  <2>. QED
    BY <2>1, <2>2, <2>3, <2>4, <2>5, <2>6 DEF RegistryInv, Settling
<1>. QED
  BY <1>1, <1>2, <1>3, <1>4, <1>5, <1>6, <1>7 DEF Next

-----------------------------------------------------------------------------
(* Start, Close and the handlers of the client *)

Three == {"user", "net", "conn"}
NetworkSteps == {"up", "ensure", "startPush", "schedule", "down", "stopPush", "closePush", "lost"}
StartSteps == {"subscribe", "routes", "lan", "status", "rollback"}
CloseSteps == {"release", "closeOwned", "closeLAN"}

Steps == {"idle", "armed", "stopped", "refresh", "connected", "undo"}
         \cup NetworkSteps \cup StartSteps \cup CloseSteps

FlagTypes ==
  /\ started \in BOOLEAN /\ networkOnline \in BOOLEAN /\ pushOn \in BOOLEAN /\ callbacks \in BOOLEAN
  /\ stateSub \in BOOLEAN /\ network \in BOOLEAN /\ routes \in BOOLEAN /\ lan \in BOOLEAN
  /\ lanVote \in BOOLEAN /\ push \in BOOLEAN /\ connected \in BOOLEAN /\ brokerSub \in BOOLEAN
  /\ local \in BOOLEAN /\ panicked \in BOOLEAN /\ raced \in BOOLEAN

SlotTypes ==
  /\ starts \in 0..MaxStarts /\ ctx = (IF started THEN starts ELSE 0)
  /\ started => starts >= 1
  /\ timer \in Timers \cup {None} /\ tctx \in [Timers -> 0..MaxStarts]

StepTypes ==
  /\ pc \in [Lifecycle!Goroutines -> Steps]
  /\ pc["user"] \in {"idle", "undo"} \cup NetworkSteps \cup StartSteps \cup CloseSteps
  /\ pc["net"] \in {"idle"} \cup NetworkSteps
  /\ pc["conn"] \in {"idle", "connected", "schedule", "lost"}
  /\ \A t \in Timers : pc[t] \in {"idle", "armed", "stopped", "refresh"}

LifecycleTypes == FlagTypes /\ SlotTypes /\ StepTypes

\* What the user's goroutine has open at each of its steps.
UserKnows ==
  /\ pc["user"] \in StartSteps \cup NetworkSteps => started
  /\ pc["user"] \in CloseSteps \cup {"undo"} => ~started
  /\ pc["user"] = "idle" /\ ~started => ~routes /\ ~lan /\ ~lanVote /\ ~callbacks
  /\ pc["user"] \in {"closeOwned", "closeLAN"} => ~routes /\ ~callbacks
  /\ started /\ pc["user"] # "subscribe" => callbacks

\* The backend behind the connection cannot be closed below a callback.
PushIsThere ==
  /\ connected => push
  /\ pc["conn"] = "connected" => connected
  /\ pc["conn"] = "lost" => ~connected

TimerIsHeld == \A t \in Timers : pc[t] = "armed" => timer = t
TimersHaveContexts == \A t \in Timers : pc[t] \in {"armed", "stopped"} => tctx[t] \in 1..starts

OneRuns == \A t, u \in Three : pc[t] # "idle" /\ pc[u] # "idle" => t = u

\* No handler or refresh runs beside a stopped or starting client.
Resting ==
  ~started \/ pc["user"] \in StartSteps =>
    /\ timer = None /\ ~Lifecycle!HandlerRuns
    /\ \A t \in Timers : pc[t] # "armed" /\ (started /\ pc[t] = "stopped" => tctx[t] < ctx)

NetworkSeen ==
  started =>
    /\ \A t \in {"user", "net"} :
         /\ pc[t] \in {"up", "ensure", "startPush", "schedule"} => network
         /\ pc[t] \in {"down", "stopPush", "closePush", "lost"} => ~network
    /\ pc["user"] \notin StartSteps \cup {"up", "down"} /\ pc["net"] \notin {"up", "down"} =>
         networkOnline = network

PushSeen ==
  /\ pushOn => push \/ pc["user"] = "startPush" \/ pc["net"] = "startPush"
  /\ pc["user"] = "closePush" \/ pc["net"] = "closePush" \/ pc["user"] \in CloseSteps => ~pushOn

\* In its first life the client learns of every connection its push makes.
FirstLife ==
  /\ starts = 0 => ~push
  /\ started /\ starts = 1 =>
       /\ connected => \/ pushOn \/ pc["conn"] = "connected"
                       \/ pc["user"] = "closePush" \/ pc["net"] = "closePush"
       /\ pc["user"] \in StartSteps => ~push
       /\ \A t \in {"user", "net"} : pc[t] \in {"startPush", "lost"} => ~connected

\* What holds unless a handler overlapped with another, with Start or with Close.
Undisturbed ==
  /\ ~panicked /\ TimersHaveContexts /\ OneRuns /\ Resting /\ NetworkSeen /\ PushSeen
  /\ FirstLife

LifecycleInv ==
  /\ LifecycleTypes /\ UserKnows /\ PushIsThere /\ TimerIsHeld
  /\ ~raced => Undisturbed

LEMMA GoroutinesDiffer ==
  /\ \A t \in Three : t \in Lifecycle!Goroutines /\ t \notin Timers
  /\ \A t \in Timers : t \in Lifecycle!Goroutines /\ t \notin Three
  /\ Lifecycle!Goroutines = Three \cup Timers
  BY LifecycleConstants DEF Lifecycle!Goroutines, Three

\* Goroutine g, which schedules a refresh, ends; a timer is armed with the present context and
\* the one before it is stopped.
Arms(g, u) ==
  /\ pc[u] = "idle" \/ u = g
  /\ timer' = u /\ pc'[u] = "armed" /\ tctx'[u] = ctx
  /\ tctx' \in [Timers -> 0..MaxStarts] /\ \A v \in Timers \ {u} : tctx'[v] = tctx[v]
  /\ pc' \in [Lifecycle!Goroutines -> Steps]
  /\ g # u => pc'[g] = "idle"
  /\ \A v \in Lifecycle!Goroutines \ {u, g} :
       pc'[v] = IF v = timer /\ v \in Timers /\ pc[v] = "armed" THEN "stopped" ELSE pc[v]
  /\ panicked' = (panicked \/ ctx = 0)

LEMMA Schedules ==
  ASSUME LifecycleTypes, NEW g \in Lifecycle!Goroutines, pc[g] # "armed",
         Lifecycle!scheduleCloudRefresh([pc EXCEPT ![g] = "idle"])
  PROVE  \E u \in Timers : Arms(g, u)
<1>. DEFINE p == [pc EXCEPT ![g] = "idle"]
            q == Lifecycle!Stopped(p, timer)
<1>1. PICK u \in Timers :
        /\ p[u] = "idle" /\ timer' = u /\ tctx' = [tctx EXCEPT ![u] = ctx]
        /\ pc' = [q EXCEPT ![u] = "armed"]
        /\ panicked' = (panicked \/ ctx = 0)
  BY DEF Lifecycle!scheduleCloudRefresh
<1>2. ctx \in 0..MaxStarts
  BY LifecycleConstants DEF LifecycleTypes, SlotTypes
<1>3. /\ tctx' \in [Timers -> 0..MaxStarts] /\ tctx'[u] = ctx
      /\ \A v \in Timers \ {u} : tctx'[v] = tctx[v]
  BY <1>1, <1>2 DEF LifecycleTypes, SlotTypes
<1>4. /\ p \in [Lifecycle!Goroutines -> Steps] /\ p[g] = "idle"
      /\ \A v \in Lifecycle!Goroutines \ {g} : p[v] = pc[v]
  BY DEF LifecycleTypes, StepTypes, Steps
<1>. HIDE DEF p
<1>5. /\ q \in [Lifecycle!Goroutines -> Steps]
      /\ \A v \in Lifecycle!Goroutines :
           q[v] = IF v = timer /\ v \in Timers /\ p[v] = "armed" THEN "stopped" ELSE p[v]
  BY <1>4, GoroutinesDiffer DEF Lifecycle!Stopped, Steps
<1>. HIDE DEF q
<1>6. /\ pc' \in [Lifecycle!Goroutines -> Steps] /\ pc'[u] = "armed"
      /\ \A v \in Lifecycle!Goroutines \ {u} : pc'[v] = q[v]
  BY <1>1, <1>5, GoroutinesDiffer DEF Steps
<1>7. pc[u] = "idle" \/ u = g
  BY <1>1, <1>4, GoroutinesDiffer
<1>8. g # u => pc'[g] = "idle"
  BY <1>4, <1>5, <1>6
<1>9. \A v \in Lifecycle!Goroutines \ {u, g} :
        pc'[v] = IF v = timer /\ v \in Timers /\ pc[v] = "armed" THEN "stopped" ELSE pc[v]
  BY <1>4, <1>5, <1>6
<1>. QED
  BY <1>1, <1>3, <1>6, <1>7, <1>8, <1>9 DEF Arms

LEMMA LifecycleInit == Lifecycle!Init => LifecycleInv
<1>. SUFFICES ASSUME Lifecycle!Init PROVE LifecycleInv
  OBVIOUS
<1>1. pc = [t \in Lifecycle!Goroutines |-> "idle"]
  BY DEF Lifecycle!Init
<1>2. StepTypes
  BY <1>1, GoroutinesDiffer DEF StepTypes, Steps, Three
<1>3. SlotTypes
  BY LifecycleConstants DEF Lifecycle!Init, SlotTypes
<1>9. FlagTypes
  BY Zenon DEF Lifecycle!Init, FlagTypes
<1>4. \A t \in Lifecycle!Goroutines : pc[t] = "idle"
  BY <1>1
<1>5. pc["user"] = "idle" /\ pc["net"] = "idle" /\ pc["conn"] = "idle" /\ \A t \in Timers : pc[t] = "idle"
  BY <1>4, GoroutinesDiffer DEF Three
<1>6. UserKnows /\ PushIsThere /\ TimerIsHeld
  BY <1>5
  DEF Lifecycle!Init, UserKnows, PushIsThere, TimerIsHeld, StartSteps, NetworkSteps, CloseSteps
<1>7. OneRuns /\ Resting /\ TimersHaveContexts
  BY <1>5
  DEF Lifecycle!Init, OneRuns, Three, Resting, TimersHaveContexts, Lifecycle!HandlerRuns,
      Lifecycle!Busy
<1>8. NetworkSeen /\ PushSeen /\ FirstLife
  BY <1>5 DEF Lifecycle!Init, NetworkSeen, PushSeen, FirstLife, CloseSteps
<1>. QED
  BY <1>2, <1>3, <1>6, <1>7, <1>8, <1>9
  DEF LifecycleInv, LifecycleTypes, Undisturbed, Lifecycle!Init

LEMMA FlagTypesStep ==
  LifecycleInv /\ [Lifecycle!Next]_lifecycle => FlagTypes'
  <1>. SUFFICES ASSUME LifecycleInv, [Lifecycle!Next]_lifecycle PROVE FlagTypes'
    OBVIOUS
  <1>. USE DEF LifecycleInv, LifecycleTypes, FlagTypes
  <1>1. CASE Lifecycle!StartRoutes
    <2>1. {started', networkOnline', pushOn', callbacks', stateSub', network', lan', lanVote',
           push', connected', brokerSub', local', panicked', raced'} \subseteq BOOLEAN
      BY <1>1
      DEF Lifecycle!StartRoutes, Lifecycle!client, Lifecycle!backends
    <2>2. {routes'} \subseteq BOOLEAN
      BY <1>1
      DEF Lifecycle!StartRoutes
    <2>. QED
      BY <2>1, <2>2
  <1>2. CASE Lifecycle!StartLAN
    <2>1. {started', networkOnline', pushOn', callbacks', stateSub', network', routes', push',
           connected', brokerSub', local', panicked', raced'} \subseteq BOOLEAN
      BY <1>2
      DEF Lifecycle!StartLAN, Lifecycle!client, Lifecycle!backends
    <2>2. {lan', lanVote'} \subseteq BOOLEAN
      BY <1>2
      DEF Lifecycle!StartLAN
    <2>. QED
      BY <2>1, <2>2
  <1>3. CASE Lifecycle!rollbackStart
    <2>1. {networkOnline', pushOn', callbacks', stateSub', network', routes', lan', lanVote',
           push', connected', brokerSub', local', panicked'} \subseteq BOOLEAN
      BY <1>3
      DEF Lifecycle!rollbackStart, Lifecycle!client, Lifecycle!backends
    <2>2. {started', raced'} \subseteq BOOLEAN
      BY <1>3
      DEF Lifecycle!rollbackStart
    <2>. QED
      BY <2>1, <2>2
  <1>4. CASE Lifecycle!CloseReleases
    <2>1. {started', networkOnline', pushOn', stateSub', network', lan', lanVote', push',
           connected', brokerSub', local', panicked', raced'} \subseteq BOOLEAN
      BY <1>4
      DEF Lifecycle!CloseReleases, Lifecycle!client, Lifecycle!backends
    <2>2. {callbacks', routes'} \subseteq BOOLEAN
      BY <1>4
      DEF Lifecycle!CloseReleases
    <2>. QED
      BY <2>1, <2>2
  <1>5. CASE Lifecycle!BrokerDisconnects
    <2>1. {started', networkOnline', pushOn', callbacks', stateSub', network', routes', lan',
           lanVote', push', brokerSub', local', panicked'} \subseteq BOOLEAN
      BY <1>5
      DEF Lifecycle!BrokerDisconnects, Lifecycle!ConnectionReports, Lifecycle!client
    <2>2. {connected', raced'} \subseteq BOOLEAN
      BY <1>5
      DEF Lifecycle!BrokerDisconnects, Lifecycle!ConnectionReports
    <2>. QED
      BY <2>1, <2>2
  <1>6. ASSUME NEW t \in Three, Lifecycle!StartPush(t) PROVE FlagTypes'
    <2>1. {started', networkOnline', callbacks', stateSub', network', routes', lan', lanVote',
           connected', brokerSub', local', panicked', raced'} \subseteq BOOLEAN
      BY <1>6
      DEF Lifecycle!StartPush, Lifecycle!client, Lifecycle!backends
    <2>2. {push', pushOn'} \subseteq BOOLEAN
      BY <1>6
      DEF Lifecycle!StartPush
    <2>. QED
      BY <2>1, <2>2
  <1>7. ASSUME NEW t \in Three, Lifecycle!NetworkDown(t) PROVE FlagTypes'
    <2>1. {started', pushOn', callbacks', stateSub', network', routes', lan', lanVote', push',
           connected', brokerSub', local', panicked', raced'} \subseteq BOOLEAN
      BY <1>7
      DEF Lifecycle!NetworkDown, Lifecycle!client, Lifecycle!backends
    <2>2. {networkOnline'} \subseteq BOOLEAN
      BY <1>7
      DEF Lifecycle!NetworkDown
    <2>. QED
      BY <2>1, <2>2
  <1>8. ASSUME NEW t \in Three, Lifecycle!StopPush(t) PROVE FlagTypes'
    <2>1. {started', networkOnline', callbacks', stateSub', network', routes', lan', lanVote',
           push', connected', brokerSub', local', panicked', raced'} \subseteq BOOLEAN
      BY <1>8
      DEF Lifecycle!StopPush, Lifecycle!client, Lifecycle!backends
    <2>2. {pushOn'} \subseteq BOOLEAN
      BY <1>8
      DEF Lifecycle!StopPush
    <2>. QED
      BY <2>1, <2>2
  <1>9. ASSUME NEW t \in Three, Lifecycle!ClosePush(t) PROVE FlagTypes'
    <2>1. {started', networkOnline', pushOn', callbacks', stateSub', network', routes', lan',
           lanVote', local', panicked', raced'} \subseteq BOOLEAN
      BY <1>9
      DEF Lifecycle!ClosePush, Lifecycle!client, Lifecycle!backends
    <2>2. {push', connected', brokerSub'} \subseteq BOOLEAN
      BY <1>9
      DEF Lifecycle!ClosePush
    <2>. QED
      BY <2>1, <2>2
  <1>10. ASSUME NEW t \in Three, Lifecycle!ConnectionLost(t) PROVE FlagTypes'
    <2>1. {started', networkOnline', callbacks', stateSub', network', routes', lan', lanVote',
           push', connected', brokerSub', local', panicked', raced'} \subseteq BOOLEAN
      BY <1>10
      DEF Lifecycle!ConnectionLost, Lifecycle!client, Lifecycle!backends
    <2>2. {pushOn'} \subseteq BOOLEAN
      BY <1>10
      DEF Lifecycle!ConnectionLost
    <2>. QED
      BY <2>1, <2>2
  <1>11. ASSUME NEW t \in Three, Lifecycle!ConnectionMade(t) PROVE FlagTypes'
    <2>1. {started', networkOnline', callbacks', stateSub', network', routes', lan', lanVote',
           push', connected', brokerSub', local', panicked', raced'} \subseteq BOOLEAN
      BY <1>11
      DEF Lifecycle!ConnectionMade, Lifecycle!client, Lifecycle!backends
    <2>2. {pushOn'} \subseteq BOOLEAN
      BY <1>11
      DEF Lifecycle!ConnectionMade
    <2>. QED
      BY <2>1, <2>2
  <1>12. CASE Lifecycle!Start
    BY <1>12
    DEF Lifecycle!Start, Lifecycle!client, Lifecycle!backends
  <1>13. CASE Lifecycle!CloseTakes
    BY <1>13
    DEF Lifecycle!CloseTakes, Lifecycle!client, Lifecycle!backends
  <1>14. CASE Lifecycle!StartSubscribes
    BY <1>14
    DEF Lifecycle!StartSubscribes, Lifecycle!client, Lifecycle!backends
  <1>15. CASE Lifecycle!StartReadsStatus
    BY <1>15
    DEF Lifecycle!StartReadsStatus, Lifecycle!client, Lifecycle!backends
  <1>16. CASE Lifecycle!RollbackReleases
    BY <1>16
    DEF Lifecycle!RollbackReleases, Lifecycle!client, Lifecycle!backends
  <1>17. CASE Lifecycle!CloseOwnedPush
    BY <1>17, ZenonT(60)
    DEF Lifecycle!CloseOwnedPush, Lifecycle!client, Lifecycle!backends
  <1>18. CASE Lifecycle!CloseLAN
    BY <1>18, ZenonT(60)
    DEF Lifecycle!CloseLAN, Lifecycle!client, Lifecycle!backends
  <1>19. CASE Lifecycle!BrokerConnects
    BY <1>19
    DEF Lifecycle!BrokerConnects, Lifecycle!ConnectionReports, Lifecycle!client
  <1>20. ASSUME NEW status \in BOOLEAN, Lifecycle!MonitorReports(status) PROVE FlagTypes'
    BY <1>20
    DEF Lifecycle!MonitorReports, Lifecycle!client, Lifecycle!backends
  <1>21. ASSUME NEW t \in Three, Lifecycle!NetworkUp(t) PROVE FlagTypes'
    BY <1>21
    DEF Lifecycle!NetworkUp, Lifecycle!client, Lifecycle!backends
  <1>22. ASSUME NEW t \in Three, Lifecycle!EnsurePush(t) PROVE FlagTypes'
    BY <1>22
    DEF Lifecycle!EnsurePush, Lifecycle!client, Lifecycle!backends
  <1>23. ASSUME NEW t \in Three, Lifecycle!Schedule(t) PROVE FlagTypes'
    BY <1>23
    DEF Lifecycle!Schedule, Lifecycle!client, Lifecycle!backends, Lifecycle!scheduleCloudRefresh
  <1>24. ASSUME NEW t \in Timers, Lifecycle!TimerFires(t) PROVE FlagTypes'
    BY <1>24
    DEF Lifecycle!TimerFires, Lifecycle!client, Lifecycle!backends
  <1>25. ASSUME NEW t \in Timers, Lifecycle!TimerReturns(t) PROVE FlagTypes'
    BY <1>25
    DEF Lifecycle!TimerReturns, Lifecycle!client, Lifecycle!backends
  <1>26. ASSUME NEW t \in Timers, Lifecycle!RefreshSucceeds(t) PROVE FlagTypes'
    BY <1>26
    DEF Lifecycle!RefreshSucceeds, Lifecycle!client, Lifecycle!backends
  <1>27. ASSUME NEW t \in Timers, Lifecycle!RefreshFails(t) PROVE FlagTypes'
    BY <1>27
    DEF Lifecycle!RefreshFails, Lifecycle!client, Lifecycle!backends,
        Lifecycle!scheduleCloudRefresh
  <1>28. CASE UNCHANGED lifecycle
    BY <1>28
    DEF lifecycle
  <1>. HIDE DEF LifecycleInv, LifecycleTypes, FlagTypes
  <1>. QED
    BY <1>1, <1>2, <1>3, <1>4, <1>5, <1>6, <1>7, <1>8, <1>9, <1>10, <1>11, <1>12, <1>13, <1>14,
       <1>15, <1>16, <1>17, <1>18, <1>19, <1>20, <1>21, <1>22, <1>23, <1>24, <1>25, <1>26,
       <1>27, <1>28
    DEF Lifecycle!Next, Lifecycle!UserStep, Lifecycle!HandlerStep, Lifecycle!TimerStep, Three

LEMMA SlotTypesStep ==
  LifecycleInv /\ [Lifecycle!Next]_lifecycle => SlotTypes'
  <1>. SUFFICES ASSUME LifecycleInv, [Lifecycle!Next]_lifecycle PROVE SlotTypes'
    OBVIOUS
  <1>. USE DEF LifecycleInv, LifecycleTypes, SlotTypes, UserKnows
  <1>1. ASSUME NEW t \in Three, Lifecycle!Schedule(t) PROVE SlotTypes'
    <2>1. pc[t] = "schedule" /\ t \in Lifecycle!Goroutines
      BY <1>1, GoroutinesDiffer DEF Lifecycle!Schedule
    <2>2. PICK u \in Timers : Arms(t, u)
      BY <1>1, <2>1, Schedules DEF Lifecycle!Schedule
    <2>3. UNCHANGED <<started, ctx, starts, networkOnline, pushOn, callbacks, stateSub, network,
                      Lifecycle!backends, local, raced>>
      BY <1>1 DEF Lifecycle!Schedule
    <2>. QED
      BY <1>1, <2>1, <2>2, <2>3, GoroutinesDiffer, LifecycleConstants
      DEF Arms, Lifecycle!backends
  <1>2. ASSUME NEW t \in Timers, Lifecycle!RefreshFails(t) PROVE SlotTypes'
    <2>1. /\ pc[t] = "refresh" /\ t \in Lifecycle!Goroutines
          /\ UNCHANGED <<started, ctx, starts, networkOnline, pushOn, callbacks, stateSub, network,
                         Lifecycle!backends, local, raced>>
      BY <1>2, GoroutinesDiffer DEF Lifecycle!RefreshFails
    <2>2. CASE networkOnline
      <3>1. PICK u \in Timers : Arms(t, u)
        BY <1>2, <2>1, <2>2, Schedules DEF Lifecycle!RefreshFails
      <3>. QED
        BY <1>2, <2>1, <3>1, GoroutinesDiffer, LifecycleConstants
        DEF Arms, Lifecycle!backends
    <2>3. CASE ~networkOnline
      BY <1>2, <2>1, <2>3, GoroutinesDiffer, LifecycleConstants
      DEF Lifecycle!RefreshFails, Lifecycle!Goto, Lifecycle!backends
    <2>. QED
      BY <2>2, <2>3
  <1>3. CASE Lifecycle!Start
    BY <1>3, LifecycleConstants
    DEF Lifecycle!Start, Lifecycle!client, Lifecycle!backends
  <1>4. CASE Lifecycle!CloseTakes
    BY <1>4, LifecycleConstants
    DEF Lifecycle!CloseTakes, Lifecycle!client, Lifecycle!backends
  <1>5. CASE Lifecycle!StartSubscribes
    BY <1>5, LifecycleConstants
    DEF Lifecycle!StartSubscribes, Lifecycle!client, Lifecycle!backends
  <1>6. CASE Lifecycle!StartRoutes
    BY <1>6, LifecycleConstants
    DEF Lifecycle!StartRoutes, Lifecycle!client, Lifecycle!backends
  <1>7. CASE Lifecycle!StartLAN
    BY <1>7, LifecycleConstants
    DEF Lifecycle!StartLAN, Lifecycle!client, Lifecycle!backends
  <1>8. CASE Lifecycle!StartReadsStatus
    BY <1>8, LifecycleConstants
    DEF Lifecycle!StartReadsStatus, Lifecycle!client, Lifecycle!backends
  <1>9. CASE Lifecycle!rollbackStart
    BY <1>9, LifecycleConstants
    DEF Lifecycle!rollbackStart, Lifecycle!client, Lifecycle!backends
  <1>10. CASE Lifecycle!RollbackReleases
    BY <1>10, LifecycleConstants
    DEF Lifecycle!RollbackReleases, Lifecycle!client, Lifecycle!backends
  <1>11. CASE Lifecycle!CloseReleases
    BY <1>11, LifecycleConstants
    DEF Lifecycle!CloseReleases, Lifecycle!client, Lifecycle!backends
  <1>12. CASE Lifecycle!CloseOwnedPush
    BY <1>12, LifecycleConstants
    DEF Lifecycle!CloseOwnedPush, Lifecycle!client, Lifecycle!backends
  <1>13. CASE Lifecycle!CloseLAN
    BY <1>13, LifecycleConstants
    DEF Lifecycle!CloseLAN, Lifecycle!client, Lifecycle!backends
  <1>14. CASE Lifecycle!BrokerConnects
    BY <1>14, LifecycleConstants
    DEF Lifecycle!BrokerConnects, Lifecycle!ConnectionReports, Lifecycle!client
  <1>15. CASE Lifecycle!BrokerDisconnects
    BY <1>15, LifecycleConstants
    DEF Lifecycle!BrokerDisconnects, Lifecycle!ConnectionReports, Lifecycle!client
  <1>16. ASSUME NEW status \in BOOLEAN, Lifecycle!MonitorReports(status) PROVE SlotTypes'
    BY <1>16, LifecycleConstants
    DEF Lifecycle!MonitorReports, Lifecycle!client, Lifecycle!backends
  <1>17. ASSUME NEW t \in Three, Lifecycle!NetworkUp(t) PROVE SlotTypes'
    BY <1>17, LifecycleConstants
    DEF Lifecycle!NetworkUp, Lifecycle!client, Lifecycle!backends
  <1>18. ASSUME NEW t \in Three, Lifecycle!EnsurePush(t) PROVE SlotTypes'
    BY <1>18, LifecycleConstants
    DEF Lifecycle!EnsurePush, Lifecycle!client, Lifecycle!backends
  <1>19. ASSUME NEW t \in Three, Lifecycle!StartPush(t) PROVE SlotTypes'
    BY <1>19, LifecycleConstants
    DEF Lifecycle!StartPush, Lifecycle!client, Lifecycle!backends
  <1>20. ASSUME NEW t \in Three, Lifecycle!NetworkDown(t) PROVE SlotTypes'
    BY <1>20, LifecycleConstants
    DEF Lifecycle!NetworkDown, Lifecycle!client, Lifecycle!backends
  <1>21. ASSUME NEW t \in Three, Lifecycle!StopPush(t) PROVE SlotTypes'
    BY <1>21, LifecycleConstants
    DEF Lifecycle!StopPush, Lifecycle!client, Lifecycle!backends
  <1>22. ASSUME NEW t \in Three, Lifecycle!ClosePush(t) PROVE SlotTypes'
    BY <1>22, LifecycleConstants
    DEF Lifecycle!ClosePush, Lifecycle!client, Lifecycle!backends
  <1>23. ASSUME NEW t \in Three, Lifecycle!ConnectionLost(t) PROVE SlotTypes'
    BY <1>23, LifecycleConstants
    DEF Lifecycle!ConnectionLost, Lifecycle!client, Lifecycle!backends
  <1>24. ASSUME NEW t \in Three, Lifecycle!ConnectionMade(t) PROVE SlotTypes'
    BY <1>24, LifecycleConstants
    DEF Lifecycle!ConnectionMade, Lifecycle!client, Lifecycle!backends
  <1>25. ASSUME NEW t \in Timers, Lifecycle!TimerFires(t) PROVE SlotTypes'
    BY <1>25, LifecycleConstants
    DEF Lifecycle!TimerFires, Lifecycle!client, Lifecycle!backends
  <1>26. ASSUME NEW t \in Timers, Lifecycle!TimerReturns(t) PROVE SlotTypes'
    BY <1>26, LifecycleConstants
    DEF Lifecycle!TimerReturns, Lifecycle!client, Lifecycle!backends
  <1>27. ASSUME NEW t \in Timers, Lifecycle!RefreshSucceeds(t) PROVE SlotTypes'
    BY <1>27, LifecycleConstants
    DEF Lifecycle!RefreshSucceeds, Lifecycle!client, Lifecycle!backends
  <1>28. CASE UNCHANGED lifecycle
    BY <1>28
    DEF lifecycle
  <1>. HIDE DEF LifecycleInv, LifecycleTypes, SlotTypes, UserKnows
  <1>. QED
    BY <1>1, <1>2, <1>3, <1>4, <1>5, <1>6, <1>7, <1>8, <1>9, <1>10, <1>11, <1>12, <1>13, <1>14,
       <1>15, <1>16, <1>17, <1>18, <1>19, <1>20, <1>21, <1>22, <1>23, <1>24, <1>25, <1>26,
       <1>27, <1>28
    DEF Lifecycle!Next, Lifecycle!UserStep, Lifecycle!HandlerStep, Lifecycle!TimerStep, Three

LEMMA StepTypesStep ==
  LifecycleInv /\ [Lifecycle!Next]_lifecycle => StepTypes'
  <1>. SUFFICES ASSUME LifecycleInv, [Lifecycle!Next]_lifecycle PROVE StepTypes'
    OBVIOUS
  <1>. USE DEF LifecycleInv, LifecycleTypes, StepTypes, Three, Steps, NetworkSteps, StartSteps,
               CloseSteps, Lifecycle!Goroutines
  <1>1. ASSUME NEW t \in Three, Lifecycle!Schedule(t) PROVE StepTypes'
    <2>1. pc[t] = "schedule" /\ t \in Lifecycle!Goroutines
      BY <1>1, GoroutinesDiffer DEF Lifecycle!Schedule
    <2>2. PICK u \in Timers : Arms(t, u)
      BY <1>1, <2>1, Schedules DEF Lifecycle!Schedule
    <2>3. UNCHANGED <<started, ctx, starts, networkOnline, pushOn, callbacks, stateSub, network,
                      Lifecycle!backends, local, raced>>
      BY <1>1 DEF Lifecycle!Schedule
    <2>. QED
      BY <1>1, <2>1, <2>2, <2>3, GoroutinesDiffer, LifecycleConstants
      DEF Arms, Lifecycle!backends
  <1>2. ASSUME NEW t \in Timers, Lifecycle!RefreshFails(t) PROVE StepTypes'
    <2>1. /\ pc[t] = "refresh" /\ t \in Lifecycle!Goroutines
          /\ UNCHANGED <<started, ctx, starts, networkOnline, pushOn, callbacks, stateSub, network,
                         Lifecycle!backends, local, raced>>
      BY <1>2, GoroutinesDiffer DEF Lifecycle!RefreshFails
    <2>2. CASE networkOnline
      <3>1. PICK u \in Timers : Arms(t, u)
        BY <1>2, <2>1, <2>2, Schedules DEF Lifecycle!RefreshFails
      <3>. QED
        BY <1>2, <2>1, <3>1, GoroutinesDiffer, LifecycleConstants
        DEF Arms, Lifecycle!backends
    <2>3. CASE ~networkOnline
      BY <1>2, <2>1, <2>3, GoroutinesDiffer, LifecycleConstants
      DEF Lifecycle!RefreshFails, Lifecycle!Goto, Lifecycle!backends
    <2>. QED
      BY <2>2, <2>3
  <1>3. CASE Lifecycle!Start
    BY <1>3, LifecycleConstants
    DEF Lifecycle!Start, Lifecycle!Goto, Lifecycle!client, Lifecycle!backends,
        Lifecycle!HandlerRuns, Lifecycle!Busy
  <1>4. CASE Lifecycle!CloseTakes
    BY <1>4, LifecycleConstants
    DEF Lifecycle!CloseTakes, Lifecycle!Stopped, Lifecycle!Busy, Lifecycle!HandlerRuns,
        Lifecycle!client, Lifecycle!backends
  <1>5. CASE Lifecycle!StartSubscribes
    BY <1>5, LifecycleConstants
    DEF Lifecycle!StartSubscribes, Lifecycle!client, Lifecycle!backends, Lifecycle!Goto,
        Lifecycle!Busy
  <1>6. CASE Lifecycle!StartRoutes
    BY <1>6, LifecycleConstants, ZenonT(60)
    DEF Lifecycle!StartRoutes, Lifecycle!client, Lifecycle!backends, Lifecycle!Goto,
        Lifecycle!Busy
  <1>7. CASE Lifecycle!StartLAN
    BY <1>7, LifecycleConstants, ZenonT(60)
    DEF Lifecycle!StartLAN, Lifecycle!client, Lifecycle!backends, Lifecycle!Goto, Lifecycle!Busy
  <1>8. CASE Lifecycle!StartReadsStatus
    BY <1>8, LifecycleConstants
    DEF Lifecycle!StartReadsStatus, Lifecycle!client, Lifecycle!backends, Lifecycle!Goto,
        Lifecycle!Busy
  <1>9. CASE Lifecycle!rollbackStart
    BY <1>9, LifecycleConstants
    DEF Lifecycle!rollbackStart, Lifecycle!Goto, Lifecycle!client, Lifecycle!backends,
        Lifecycle!HandlerRuns, Lifecycle!Busy
  <1>10. CASE Lifecycle!RollbackReleases
    BY <1>10, LifecycleConstants
    DEF Lifecycle!RollbackReleases, Lifecycle!client, Lifecycle!backends, Lifecycle!Goto,
        Lifecycle!Busy
  <1>11. CASE Lifecycle!CloseReleases
    BY <1>11, LifecycleConstants
    DEF Lifecycle!CloseReleases, Lifecycle!client, Lifecycle!backends, Lifecycle!Goto,
        Lifecycle!Busy
  <1>12. CASE Lifecycle!CloseOwnedPush
    BY <1>12, LifecycleConstants
    DEF Lifecycle!CloseOwnedPush, Lifecycle!client, Lifecycle!backends, Lifecycle!Goto,
        Lifecycle!Busy
  <1>13. CASE Lifecycle!CloseLAN
    BY <1>13, LifecycleConstants
    DEF Lifecycle!CloseLAN, Lifecycle!client, Lifecycle!backends, Lifecycle!Goto, Lifecycle!Busy
  <1>14. CASE Lifecycle!BrokerConnects
    BY <1>14, LifecycleConstants
    DEF Lifecycle!BrokerConnects, Lifecycle!ConnectionReports, Lifecycle!client, Lifecycle!Busy
  <1>15. CASE Lifecycle!BrokerDisconnects
    BY <1>15, LifecycleConstants
    DEF Lifecycle!BrokerDisconnects, Lifecycle!ConnectionReports, Lifecycle!client,
        Lifecycle!Busy
  <1>16. ASSUME NEW status \in BOOLEAN, Lifecycle!MonitorReports(status) PROVE StepTypes'
    BY <1>16, LifecycleConstants
    DEF Lifecycle!MonitorReports, Lifecycle!client, Lifecycle!backends, Lifecycle!Goto,
        Lifecycle!Busy
  <1>17. ASSUME NEW t \in Three, Lifecycle!NetworkUp(t) PROVE StepTypes'
    BY <1>17, LifecycleConstants
    DEF Lifecycle!NetworkUp, Lifecycle!client, Lifecycle!backends, Lifecycle!Goto,
        Lifecycle!Busy
  <1>18. ASSUME NEW t \in Three, Lifecycle!EnsurePush(t) PROVE StepTypes'
    BY <1>18, LifecycleConstants
    DEF Lifecycle!EnsurePush, Lifecycle!client, Lifecycle!backends, Lifecycle!Goto,
        Lifecycle!Busy
  <1>19. ASSUME NEW t \in Three, Lifecycle!StartPush(t) PROVE StepTypes'
    BY <1>19, LifecycleConstants
    DEF Lifecycle!StartPush, Lifecycle!client, Lifecycle!backends, Lifecycle!Goto,
        Lifecycle!Busy
  <1>20. ASSUME NEW t \in Three, Lifecycle!NetworkDown(t) PROVE StepTypes'
    BY <1>20, LifecycleConstants
    DEF Lifecycle!NetworkDown, Lifecycle!Stopped, Lifecycle!client, Lifecycle!backends
  <1>21. ASSUME NEW t \in Three, Lifecycle!StopPush(t) PROVE StepTypes'
    BY <1>21, LifecycleConstants
    DEF Lifecycle!StopPush, Lifecycle!client, Lifecycle!backends, Lifecycle!Goto, Lifecycle!Busy
  <1>22. ASSUME NEW t \in Three, Lifecycle!ClosePush(t) PROVE StepTypes'
    BY <1>22, LifecycleConstants
    DEF Lifecycle!ClosePush, Lifecycle!client, Lifecycle!backends, Lifecycle!Goto,
        Lifecycle!Busy
  <1>23. ASSUME NEW t \in Three, Lifecycle!ConnectionLost(t) PROVE StepTypes'
    BY <1>23, LifecycleConstants
    DEF Lifecycle!ConnectionLost, Lifecycle!client, Lifecycle!backends, Lifecycle!Goto,
        Lifecycle!Busy
  <1>24. ASSUME NEW t \in Three, Lifecycle!ConnectionMade(t) PROVE StepTypes'
    BY <1>24, LifecycleConstants
    DEF Lifecycle!ConnectionMade, Lifecycle!client, Lifecycle!backends, Lifecycle!Goto,
        Lifecycle!Busy
  <1>25. ASSUME NEW t \in Timers, Lifecycle!TimerFires(t) PROVE StepTypes'
    BY <1>25, LifecycleConstants
    DEF Lifecycle!TimerFires, Lifecycle!client, Lifecycle!backends, Lifecycle!Goto,
        Lifecycle!Busy
  <1>26. ASSUME NEW t \in Timers, Lifecycle!TimerReturns(t) PROVE StepTypes'
    BY <1>26, LifecycleConstants
    DEF Lifecycle!TimerReturns, Lifecycle!client, Lifecycle!backends, Lifecycle!Goto,
        Lifecycle!Busy
  <1>27. ASSUME NEW t \in Timers, Lifecycle!RefreshSucceeds(t) PROVE StepTypes'
    BY <1>27, LifecycleConstants
    DEF Lifecycle!RefreshSucceeds, Lifecycle!client, Lifecycle!backends, Lifecycle!Goto,
        Lifecycle!Busy
  <1>28. CASE UNCHANGED lifecycle
    BY <1>28
    DEF lifecycle
  <1>. HIDE DEF LifecycleInv, LifecycleTypes, StepTypes, Three, Steps, NetworkSteps, StartSteps,
                CloseSteps, Lifecycle!Goroutines
  <1>. QED
    BY <1>1, <1>2, <1>3, <1>4, <1>5, <1>6, <1>7, <1>8, <1>9, <1>10, <1>11, <1>12, <1>13, <1>14,
       <1>15, <1>16, <1>17, <1>18, <1>19, <1>20, <1>21, <1>22, <1>23, <1>24, <1>25, <1>26,
       <1>27, <1>28
    DEF Lifecycle!Next, Lifecycle!UserStep, Lifecycle!HandlerStep, Lifecycle!TimerStep, Three

LEMMA UserKnowsStep ==
  LifecycleInv /\ [Lifecycle!Next]_lifecycle => UserKnows'
  <1>. SUFFICES ASSUME LifecycleInv, [Lifecycle!Next]_lifecycle PROVE UserKnows'
    OBVIOUS
  <1>. USE DEF LifecycleInv, LifecycleTypes, FlagTypes, SlotTypes, StepTypes, UserKnows, Three,
               Steps, NetworkSteps, StartSteps, CloseSteps, Lifecycle!Goroutines
  <1>1. ASSUME NEW t \in Three, Lifecycle!Schedule(t) PROVE UserKnows'
    <2>1. pc[t] = "schedule" /\ t \in Lifecycle!Goroutines
      BY <1>1, GoroutinesDiffer DEF Lifecycle!Schedule
    <2>2. PICK u \in Timers : Arms(t, u)
      BY <1>1, <2>1, Schedules DEF Lifecycle!Schedule
    <2>3. UNCHANGED <<started, ctx, starts, networkOnline, pushOn, callbacks, stateSub, network,
                      Lifecycle!backends, local, raced>>
      BY <1>1 DEF Lifecycle!Schedule
    <2>. QED
      BY <1>1, <2>1, <2>2, <2>3, GoroutinesDiffer, LifecycleConstants
      DEF Arms, Lifecycle!backends
  <1>2. ASSUME NEW t \in Timers, Lifecycle!RefreshFails(t) PROVE UserKnows'
    <2>1. /\ pc[t] = "refresh" /\ t \in Lifecycle!Goroutines
          /\ UNCHANGED <<started, ctx, starts, networkOnline, pushOn, callbacks, stateSub, network,
                         Lifecycle!backends, local, raced>>
      BY <1>2, GoroutinesDiffer DEF Lifecycle!RefreshFails
    <2>2. CASE networkOnline
      <3>1. PICK u \in Timers : Arms(t, u)
        BY <1>2, <2>1, <2>2, Schedules DEF Lifecycle!RefreshFails
      <3>. QED
        BY <1>2, <2>1, <3>1, GoroutinesDiffer, LifecycleConstants
        DEF Arms, Lifecycle!backends
    <2>3. CASE ~networkOnline
      BY <1>2, <2>1, <2>3, GoroutinesDiffer, LifecycleConstants
      DEF Lifecycle!RefreshFails, Lifecycle!Goto, Lifecycle!backends
    <2>. QED
      BY <2>2, <2>3
  <1>3. CASE Lifecycle!Start
    BY <1>3, LifecycleConstants
    DEF Lifecycle!Start, Lifecycle!Goto, Lifecycle!client, Lifecycle!backends,
        Lifecycle!HandlerRuns, Lifecycle!Busy
  <1>4. CASE Lifecycle!CloseTakes
    BY <1>4, LifecycleConstants
    DEF Lifecycle!CloseTakes, Lifecycle!Stopped, Lifecycle!Busy, Lifecycle!HandlerRuns,
        Lifecycle!client, Lifecycle!backends
  <1>5. CASE Lifecycle!StartSubscribes
    BY <1>5, LifecycleConstants
    DEF Lifecycle!StartSubscribes, Lifecycle!client, Lifecycle!backends, Lifecycle!Goto,
        Lifecycle!Busy
  <1>6. CASE Lifecycle!StartRoutes
    BY <1>6, LifecycleConstants
    DEF Lifecycle!StartRoutes, Lifecycle!client, Lifecycle!backends, Lifecycle!Goto,
        Lifecycle!Busy
  <1>7. CASE Lifecycle!StartLAN
    BY <1>7, LifecycleConstants
    DEF Lifecycle!StartLAN, Lifecycle!client, Lifecycle!backends, Lifecycle!Goto, Lifecycle!Busy
  <1>8. CASE Lifecycle!StartReadsStatus
    BY <1>8, LifecycleConstants
    DEF Lifecycle!StartReadsStatus, Lifecycle!client, Lifecycle!backends, Lifecycle!Goto,
        Lifecycle!Busy
  <1>9. CASE Lifecycle!rollbackStart
    BY <1>9, LifecycleConstants
    DEF Lifecycle!rollbackStart, Lifecycle!Goto, Lifecycle!client, Lifecycle!backends,
        Lifecycle!HandlerRuns, Lifecycle!Busy
  <1>10. CASE Lifecycle!RollbackReleases
    BY <1>10, LifecycleConstants
    DEF Lifecycle!RollbackReleases, Lifecycle!client, Lifecycle!backends, Lifecycle!Goto,
        Lifecycle!Busy
  <1>11. CASE Lifecycle!CloseReleases
    BY <1>11, LifecycleConstants
    DEF Lifecycle!CloseReleases, Lifecycle!client, Lifecycle!backends, Lifecycle!Goto,
        Lifecycle!Busy
  <1>12. CASE Lifecycle!CloseOwnedPush
    BY <1>12, LifecycleConstants
    DEF Lifecycle!CloseOwnedPush, Lifecycle!client, Lifecycle!backends, Lifecycle!Goto,
        Lifecycle!Busy
  <1>13. CASE Lifecycle!CloseLAN
    BY <1>13, LifecycleConstants
    DEF Lifecycle!CloseLAN, Lifecycle!client, Lifecycle!backends, Lifecycle!Goto, Lifecycle!Busy
  <1>14. CASE Lifecycle!BrokerConnects
    BY <1>14, LifecycleConstants
    DEF Lifecycle!BrokerConnects, Lifecycle!ConnectionReports, Lifecycle!client, Lifecycle!Busy
  <1>15. CASE Lifecycle!BrokerDisconnects
    BY <1>15, LifecycleConstants
    DEF Lifecycle!BrokerDisconnects, Lifecycle!ConnectionReports, Lifecycle!client,
        Lifecycle!Busy
  <1>16. ASSUME NEW status \in BOOLEAN, Lifecycle!MonitorReports(status) PROVE UserKnows'
    BY <1>16, LifecycleConstants
    DEF Lifecycle!MonitorReports, Lifecycle!client, Lifecycle!backends, Lifecycle!Goto,
        Lifecycle!Busy
  <1>17. ASSUME NEW t \in Three, Lifecycle!NetworkUp(t) PROVE UserKnows'
    BY <1>17, LifecycleConstants
    DEF Lifecycle!NetworkUp, Lifecycle!client, Lifecycle!backends, Lifecycle!Goto,
        Lifecycle!Busy
  <1>18. ASSUME NEW t \in Three, Lifecycle!EnsurePush(t) PROVE UserKnows'
    BY <1>18, LifecycleConstants
    DEF Lifecycle!EnsurePush, Lifecycle!client, Lifecycle!backends, Lifecycle!Goto,
        Lifecycle!Busy
  <1>19. ASSUME NEW t \in Three, Lifecycle!StartPush(t) PROVE UserKnows'
    BY <1>19, LifecycleConstants
    DEF Lifecycle!StartPush, Lifecycle!client, Lifecycle!backends, Lifecycle!Goto,
        Lifecycle!Busy
  <1>20. ASSUME NEW t \in Three, Lifecycle!NetworkDown(t) PROVE UserKnows'
    BY <1>20, LifecycleConstants
    DEF Lifecycle!NetworkDown, Lifecycle!Stopped, Lifecycle!client, Lifecycle!backends
  <1>21. ASSUME NEW t \in Three, Lifecycle!StopPush(t) PROVE UserKnows'
    BY <1>21, LifecycleConstants
    DEF Lifecycle!StopPush, Lifecycle!client, Lifecycle!backends, Lifecycle!Goto, Lifecycle!Busy
  <1>22. ASSUME NEW t \in Three, Lifecycle!ClosePush(t) PROVE UserKnows'
    BY <1>22, LifecycleConstants
    DEF Lifecycle!ClosePush, Lifecycle!client, Lifecycle!backends, Lifecycle!Goto,
        Lifecycle!Busy
  <1>23. ASSUME NEW t \in Three, Lifecycle!ConnectionLost(t) PROVE UserKnows'
    BY <1>23, LifecycleConstants
    DEF Lifecycle!ConnectionLost, Lifecycle!client, Lifecycle!backends, Lifecycle!Goto,
        Lifecycle!Busy
  <1>24. ASSUME NEW t \in Three, Lifecycle!ConnectionMade(t) PROVE UserKnows'
    BY <1>24, LifecycleConstants
    DEF Lifecycle!ConnectionMade, Lifecycle!client, Lifecycle!backends, Lifecycle!Goto,
        Lifecycle!Busy
  <1>25. ASSUME NEW t \in Timers, Lifecycle!TimerFires(t) PROVE UserKnows'
    BY <1>25, LifecycleConstants
    DEF Lifecycle!TimerFires, Lifecycle!client, Lifecycle!backends, Lifecycle!Goto,
        Lifecycle!Busy
  <1>26. ASSUME NEW t \in Timers, Lifecycle!TimerReturns(t) PROVE UserKnows'
    BY <1>26, LifecycleConstants
    DEF Lifecycle!TimerReturns, Lifecycle!client, Lifecycle!backends, Lifecycle!Goto,
        Lifecycle!Busy
  <1>27. ASSUME NEW t \in Timers, Lifecycle!RefreshSucceeds(t) PROVE UserKnows'
    BY <1>27, LifecycleConstants
    DEF Lifecycle!RefreshSucceeds, Lifecycle!client, Lifecycle!backends, Lifecycle!Goto,
        Lifecycle!Busy
  <1>28. CASE UNCHANGED lifecycle
    BY <1>28
    DEF lifecycle
  <1>. HIDE DEF LifecycleInv, LifecycleTypes, FlagTypes, SlotTypes, StepTypes, UserKnows, Three,
                Steps, NetworkSteps, StartSteps, CloseSteps, Lifecycle!Goroutines
  <1>. QED
    BY <1>1, <1>2, <1>3, <1>4, <1>5, <1>6, <1>7, <1>8, <1>9, <1>10, <1>11, <1>12, <1>13, <1>14,
       <1>15, <1>16, <1>17, <1>18, <1>19, <1>20, <1>21, <1>22, <1>23, <1>24, <1>25, <1>26,
       <1>27, <1>28
    DEF Lifecycle!Next, Lifecycle!UserStep, Lifecycle!HandlerStep, Lifecycle!TimerStep, Three

LEMMA PushIsThereStep ==
  LifecycleInv /\ [Lifecycle!Next]_lifecycle => PushIsThere'
  <1>. SUFFICES ASSUME LifecycleInv, [Lifecycle!Next]_lifecycle PROVE PushIsThere'
    OBVIOUS
  <1>. USE DEF LifecycleInv, LifecycleTypes, FlagTypes, SlotTypes, StepTypes, PushIsThere,
               Three, Steps, NetworkSteps, StartSteps, CloseSteps, Lifecycle!Goroutines
  <1>1. ASSUME NEW t \in Three, Lifecycle!Schedule(t) PROVE PushIsThere'
    <2>1. pc[t] = "schedule" /\ t \in Lifecycle!Goroutines
      BY <1>1, GoroutinesDiffer DEF Lifecycle!Schedule
    <2>2. PICK u \in Timers : Arms(t, u)
      BY <1>1, <2>1, Schedules DEF Lifecycle!Schedule
    <2>3. UNCHANGED <<started, ctx, starts, networkOnline, pushOn, callbacks, stateSub, network,
                      Lifecycle!backends, local, raced>>
      BY <1>1 DEF Lifecycle!Schedule
    <2>. QED
      BY <1>1, <2>1, <2>2, <2>3, GoroutinesDiffer, LifecycleConstants
      DEF Arms, Lifecycle!backends
  <1>2. ASSUME NEW t \in Timers, Lifecycle!RefreshFails(t) PROVE PushIsThere'
    <2>1. /\ pc[t] = "refresh" /\ t \in Lifecycle!Goroutines
          /\ UNCHANGED <<started, ctx, starts, networkOnline, pushOn, callbacks, stateSub, network,
                         Lifecycle!backends, local, raced>>
      BY <1>2, GoroutinesDiffer DEF Lifecycle!RefreshFails
    <2>2. CASE networkOnline
      <3>1. PICK u \in Timers : Arms(t, u)
        BY <1>2, <2>1, <2>2, Schedules DEF Lifecycle!RefreshFails
      <3>. QED
        BY <1>2, <2>1, <3>1, GoroutinesDiffer, LifecycleConstants
        DEF Arms, Lifecycle!backends
    <2>3. CASE ~networkOnline
      BY <1>2, <2>1, <2>3, GoroutinesDiffer, LifecycleConstants
      DEF Lifecycle!RefreshFails, Lifecycle!Goto, Lifecycle!backends
    <2>. QED
      BY <2>2, <2>3
  <1>3. CASE Lifecycle!Start
    BY <1>3, LifecycleConstants
    DEF Lifecycle!Start, Lifecycle!Goto, Lifecycle!client, Lifecycle!backends,
        Lifecycle!HandlerRuns, Lifecycle!Busy
  <1>4. CASE Lifecycle!CloseTakes
    BY <1>4, LifecycleConstants
    DEF Lifecycle!CloseTakes, Lifecycle!Stopped, Lifecycle!Busy, Lifecycle!HandlerRuns,
        Lifecycle!client, Lifecycle!backends
  <1>5. CASE Lifecycle!StartSubscribes
    BY <1>5, LifecycleConstants
    DEF Lifecycle!StartSubscribes, Lifecycle!client, Lifecycle!backends, Lifecycle!Goto,
        Lifecycle!Busy
  <1>6. CASE Lifecycle!StartRoutes
    BY <1>6, LifecycleConstants
    DEF Lifecycle!StartRoutes, Lifecycle!client, Lifecycle!backends, Lifecycle!Goto,
        Lifecycle!Busy
  <1>7. CASE Lifecycle!StartLAN
    BY <1>7, LifecycleConstants
    DEF Lifecycle!StartLAN, Lifecycle!client, Lifecycle!backends, Lifecycle!Goto, Lifecycle!Busy
  <1>8. CASE Lifecycle!StartReadsStatus
    BY <1>8, LifecycleConstants
    DEF Lifecycle!StartReadsStatus, Lifecycle!client, Lifecycle!backends, Lifecycle!Goto,
        Lifecycle!Busy
  <1>9. CASE Lifecycle!rollbackStart
    BY <1>9, LifecycleConstants
    DEF Lifecycle!rollbackStart, Lifecycle!Goto, Lifecycle!client, Lifecycle!backends,
        Lifecycle!HandlerRuns, Lifecycle!Busy
  <1>10. CASE Lifecycle!RollbackReleases
    BY <1>10, LifecycleConstants
    DEF Lifecycle!RollbackReleases, Lifecycle!client, Lifecycle!backends, Lifecycle!Goto,
        Lifecycle!Busy
  <1>11. CASE Lifecycle!CloseReleases
    BY <1>11, LifecycleConstants
    DEF Lifecycle!CloseReleases, Lifecycle!client, Lifecycle!backends, Lifecycle!Goto,
        Lifecycle!Busy
  <1>12. CASE Lifecycle!CloseOwnedPush
    BY <1>12, LifecycleConstants
    DEF Lifecycle!CloseOwnedPush, Lifecycle!client, Lifecycle!backends, Lifecycle!Goto,
        Lifecycle!Busy
  <1>13. CASE Lifecycle!CloseLAN
    BY <1>13, LifecycleConstants
    DEF Lifecycle!CloseLAN, Lifecycle!client, Lifecycle!backends, Lifecycle!Goto, Lifecycle!Busy
  <1>14. CASE Lifecycle!BrokerConnects
    BY <1>14, LifecycleConstants
    DEF Lifecycle!BrokerConnects, Lifecycle!ConnectionReports, Lifecycle!client, Lifecycle!Busy
  <1>15. CASE Lifecycle!BrokerDisconnects
    BY <1>15, LifecycleConstants
    DEF Lifecycle!BrokerDisconnects, Lifecycle!ConnectionReports, Lifecycle!client,
        Lifecycle!Busy
  <1>16. ASSUME NEW status \in BOOLEAN, Lifecycle!MonitorReports(status) PROVE PushIsThere'
    BY <1>16, LifecycleConstants
    DEF Lifecycle!MonitorReports, Lifecycle!client, Lifecycle!backends, Lifecycle!Goto,
        Lifecycle!Busy
  <1>17. ASSUME NEW t \in Three, Lifecycle!NetworkUp(t) PROVE PushIsThere'
    BY <1>17, LifecycleConstants
    DEF Lifecycle!NetworkUp, Lifecycle!client, Lifecycle!backends, Lifecycle!Goto,
        Lifecycle!Busy
  <1>18. ASSUME NEW t \in Three, Lifecycle!EnsurePush(t) PROVE PushIsThere'
    BY <1>18, LifecycleConstants
    DEF Lifecycle!EnsurePush, Lifecycle!client, Lifecycle!backends, Lifecycle!Goto,
        Lifecycle!Busy
  <1>19. ASSUME NEW t \in Three, Lifecycle!StartPush(t) PROVE PushIsThere'
    BY <1>19, LifecycleConstants
    DEF Lifecycle!StartPush, Lifecycle!client, Lifecycle!backends, Lifecycle!Goto,
        Lifecycle!Busy
  <1>20. ASSUME NEW t \in Three, Lifecycle!NetworkDown(t) PROVE PushIsThere'
    BY <1>20, LifecycleConstants
    DEF Lifecycle!NetworkDown, Lifecycle!Stopped, Lifecycle!client, Lifecycle!backends
  <1>21. ASSUME NEW t \in Three, Lifecycle!StopPush(t) PROVE PushIsThere'
    BY <1>21, LifecycleConstants
    DEF Lifecycle!StopPush, Lifecycle!client, Lifecycle!backends, Lifecycle!Goto, Lifecycle!Busy
  <1>22. ASSUME NEW t \in Three, Lifecycle!ClosePush(t) PROVE PushIsThere'
    BY <1>22, LifecycleConstants
    DEF Lifecycle!ClosePush, Lifecycle!client, Lifecycle!backends, Lifecycle!Goto,
        Lifecycle!Busy
  <1>23. ASSUME NEW t \in Three, Lifecycle!ConnectionLost(t) PROVE PushIsThere'
    BY <1>23, LifecycleConstants
    DEF Lifecycle!ConnectionLost, Lifecycle!client, Lifecycle!backends, Lifecycle!Goto,
        Lifecycle!Busy
  <1>24. ASSUME NEW t \in Three, Lifecycle!ConnectionMade(t) PROVE PushIsThere'
    BY <1>24, LifecycleConstants
    DEF Lifecycle!ConnectionMade, Lifecycle!client, Lifecycle!backends, Lifecycle!Goto,
        Lifecycle!Busy
  <1>25. ASSUME NEW t \in Timers, Lifecycle!TimerFires(t) PROVE PushIsThere'
    BY <1>25, LifecycleConstants
    DEF Lifecycle!TimerFires, Lifecycle!client, Lifecycle!backends, Lifecycle!Goto,
        Lifecycle!Busy
  <1>26. ASSUME NEW t \in Timers, Lifecycle!TimerReturns(t) PROVE PushIsThere'
    BY <1>26, LifecycleConstants
    DEF Lifecycle!TimerReturns, Lifecycle!client, Lifecycle!backends, Lifecycle!Goto,
        Lifecycle!Busy
  <1>27. ASSUME NEW t \in Timers, Lifecycle!RefreshSucceeds(t) PROVE PushIsThere'
    BY <1>27, LifecycleConstants
    DEF Lifecycle!RefreshSucceeds, Lifecycle!client, Lifecycle!backends, Lifecycle!Goto,
        Lifecycle!Busy
  <1>28. CASE UNCHANGED lifecycle
    BY <1>28
    DEF lifecycle
  <1>. HIDE DEF LifecycleInv, LifecycleTypes, FlagTypes, SlotTypes, StepTypes, PushIsThere,
                Three, Steps, NetworkSteps, StartSteps, CloseSteps, Lifecycle!Goroutines
  <1>. QED
    BY <1>1, <1>2, <1>3, <1>4, <1>5, <1>6, <1>7, <1>8, <1>9, <1>10, <1>11, <1>12, <1>13, <1>14,
       <1>15, <1>16, <1>17, <1>18, <1>19, <1>20, <1>21, <1>22, <1>23, <1>24, <1>25, <1>26,
       <1>27, <1>28
    DEF Lifecycle!Next, Lifecycle!UserStep, Lifecycle!HandlerStep, Lifecycle!TimerStep, Three

LEMMA TimerIsHeldStep ==
  LifecycleInv /\ [Lifecycle!Next]_lifecycle => TimerIsHeld'
  <1>. SUFFICES ASSUME LifecycleInv, [Lifecycle!Next]_lifecycle PROVE TimerIsHeld'
    OBVIOUS
  <1>. USE DEF LifecycleInv, LifecycleTypes, FlagTypes, SlotTypes, StepTypes, TimerIsHeld,
               Three, Steps, NetworkSteps, StartSteps, CloseSteps, Lifecycle!Goroutines
  <1>1. ASSUME NEW t \in Three, Lifecycle!Schedule(t) PROVE TimerIsHeld'
    <2>1. pc[t] = "schedule" /\ t \in Lifecycle!Goroutines
      BY <1>1, GoroutinesDiffer DEF Lifecycle!Schedule
    <2>2. PICK u \in Timers : Arms(t, u)
      BY <1>1, <2>1, Schedules DEF Lifecycle!Schedule
    <2>3. UNCHANGED <<started, ctx, starts, networkOnline, pushOn, callbacks, stateSub, network,
                      Lifecycle!backends, local, raced>>
      BY <1>1 DEF Lifecycle!Schedule
    <2>. QED
      BY <1>1, <2>1, <2>2, <2>3, GoroutinesDiffer, LifecycleConstants
      DEF Arms, Lifecycle!backends
  <1>2. ASSUME NEW t \in Timers, Lifecycle!RefreshFails(t) PROVE TimerIsHeld'
    <2>1. /\ pc[t] = "refresh" /\ t \in Lifecycle!Goroutines
          /\ UNCHANGED <<started, ctx, starts, networkOnline, pushOn, callbacks, stateSub, network,
                         Lifecycle!backends, local, raced>>
      BY <1>2, GoroutinesDiffer DEF Lifecycle!RefreshFails
    <2>2. CASE networkOnline
      <3>1. PICK u \in Timers : Arms(t, u)
        BY <1>2, <2>1, <2>2, Schedules DEF Lifecycle!RefreshFails
      <3>. QED
        BY <1>2, <2>1, <3>1, GoroutinesDiffer, LifecycleConstants
        DEF Arms, Lifecycle!backends
    <2>3. CASE ~networkOnline
      BY <1>2, <2>1, <2>3, GoroutinesDiffer, LifecycleConstants
      DEF Lifecycle!RefreshFails, Lifecycle!Goto, Lifecycle!backends
    <2>. QED
      BY <2>2, <2>3
  <1>3. CASE Lifecycle!Start
    BY <1>3, LifecycleConstants
    DEF Lifecycle!Start, Lifecycle!Goto, Lifecycle!client, Lifecycle!backends,
        Lifecycle!HandlerRuns, Lifecycle!Busy
  <1>4. CASE Lifecycle!CloseTakes
    BY <1>4, LifecycleConstants
    DEF Lifecycle!CloseTakes, Lifecycle!Stopped, Lifecycle!Busy, Lifecycle!HandlerRuns,
        Lifecycle!client, Lifecycle!backends
  <1>5. CASE Lifecycle!StartSubscribes
    BY <1>5, LifecycleConstants
    DEF Lifecycle!StartSubscribes, Lifecycle!client, Lifecycle!backends, Lifecycle!Goto,
        Lifecycle!Busy
  <1>6. CASE Lifecycle!StartRoutes
    BY <1>6, LifecycleConstants
    DEF Lifecycle!StartRoutes, Lifecycle!client, Lifecycle!backends, Lifecycle!Goto,
        Lifecycle!Busy
  <1>7. CASE Lifecycle!StartLAN
    BY <1>7, LifecycleConstants
    DEF Lifecycle!StartLAN, Lifecycle!client, Lifecycle!backends, Lifecycle!Goto, Lifecycle!Busy
  <1>8. CASE Lifecycle!StartReadsStatus
    BY <1>8, LifecycleConstants
    DEF Lifecycle!StartReadsStatus, Lifecycle!client, Lifecycle!backends, Lifecycle!Goto,
        Lifecycle!Busy
  <1>9. CASE Lifecycle!rollbackStart
    BY <1>9, LifecycleConstants
    DEF Lifecycle!rollbackStart, Lifecycle!Goto, Lifecycle!client, Lifecycle!backends,
        Lifecycle!HandlerRuns, Lifecycle!Busy
  <1>10. CASE Lifecycle!RollbackReleases
    BY <1>10, LifecycleConstants
    DEF Lifecycle!RollbackReleases, Lifecycle!client, Lifecycle!backends, Lifecycle!Goto,
        Lifecycle!Busy
  <1>11. CASE Lifecycle!CloseReleases
    BY <1>11, LifecycleConstants
    DEF Lifecycle!CloseReleases, Lifecycle!client, Lifecycle!backends, Lifecycle!Goto,
        Lifecycle!Busy
  <1>12. CASE Lifecycle!CloseOwnedPush
    BY <1>12, LifecycleConstants
    DEF Lifecycle!CloseOwnedPush, Lifecycle!client, Lifecycle!backends, Lifecycle!Goto,
        Lifecycle!Busy
  <1>13. CASE Lifecycle!CloseLAN
    BY <1>13, LifecycleConstants
    DEF Lifecycle!CloseLAN, Lifecycle!client, Lifecycle!backends, Lifecycle!Goto, Lifecycle!Busy
  <1>14. CASE Lifecycle!BrokerConnects
    BY <1>14, LifecycleConstants
    DEF Lifecycle!BrokerConnects, Lifecycle!ConnectionReports, Lifecycle!client, Lifecycle!Busy
  <1>15. CASE Lifecycle!BrokerDisconnects
    BY <1>15, LifecycleConstants
    DEF Lifecycle!BrokerDisconnects, Lifecycle!ConnectionReports, Lifecycle!client,
        Lifecycle!Busy
  <1>16. ASSUME NEW status \in BOOLEAN, Lifecycle!MonitorReports(status) PROVE TimerIsHeld'
    BY <1>16, LifecycleConstants
    DEF Lifecycle!MonitorReports, Lifecycle!client, Lifecycle!backends, Lifecycle!Goto,
        Lifecycle!Busy
  <1>17. ASSUME NEW t \in Three, Lifecycle!NetworkUp(t) PROVE TimerIsHeld'
    BY <1>17, LifecycleConstants
    DEF Lifecycle!NetworkUp, Lifecycle!client, Lifecycle!backends, Lifecycle!Goto,
        Lifecycle!Busy
  <1>18. ASSUME NEW t \in Three, Lifecycle!EnsurePush(t) PROVE TimerIsHeld'
    BY <1>18, LifecycleConstants
    DEF Lifecycle!EnsurePush, Lifecycle!client, Lifecycle!backends, Lifecycle!Goto,
        Lifecycle!Busy
  <1>19. ASSUME NEW t \in Three, Lifecycle!StartPush(t) PROVE TimerIsHeld'
    BY <1>19, LifecycleConstants
    DEF Lifecycle!StartPush, Lifecycle!client, Lifecycle!backends, Lifecycle!Goto,
        Lifecycle!Busy
  <1>20. ASSUME NEW t \in Three, Lifecycle!NetworkDown(t) PROVE TimerIsHeld'
    BY <1>20, LifecycleConstants
    DEF Lifecycle!NetworkDown, Lifecycle!Stopped, Lifecycle!client, Lifecycle!backends
  <1>21. ASSUME NEW t \in Three, Lifecycle!StopPush(t) PROVE TimerIsHeld'
    BY <1>21, LifecycleConstants
    DEF Lifecycle!StopPush, Lifecycle!client, Lifecycle!backends, Lifecycle!Goto, Lifecycle!Busy
  <1>22. ASSUME NEW t \in Three, Lifecycle!ClosePush(t) PROVE TimerIsHeld'
    BY <1>22, LifecycleConstants
    DEF Lifecycle!ClosePush, Lifecycle!client, Lifecycle!backends, Lifecycle!Goto,
        Lifecycle!Busy
  <1>23. ASSUME NEW t \in Three, Lifecycle!ConnectionLost(t) PROVE TimerIsHeld'
    BY <1>23, LifecycleConstants
    DEF Lifecycle!ConnectionLost, Lifecycle!client, Lifecycle!backends, Lifecycle!Goto,
        Lifecycle!Busy
  <1>24. ASSUME NEW t \in Three, Lifecycle!ConnectionMade(t) PROVE TimerIsHeld'
    BY <1>24, LifecycleConstants
    DEF Lifecycle!ConnectionMade, Lifecycle!client, Lifecycle!backends, Lifecycle!Goto,
        Lifecycle!Busy
  <1>25. ASSUME NEW t \in Timers, Lifecycle!TimerFires(t) PROVE TimerIsHeld'
    BY <1>25, LifecycleConstants
    DEF Lifecycle!TimerFires, Lifecycle!client, Lifecycle!backends, Lifecycle!Goto,
        Lifecycle!Busy
  <1>26. ASSUME NEW t \in Timers, Lifecycle!TimerReturns(t) PROVE TimerIsHeld'
    BY <1>26, LifecycleConstants
    DEF Lifecycle!TimerReturns, Lifecycle!client, Lifecycle!backends, Lifecycle!Goto,
        Lifecycle!Busy
  <1>27. ASSUME NEW t \in Timers, Lifecycle!RefreshSucceeds(t) PROVE TimerIsHeld'
    BY <1>27, LifecycleConstants
    DEF Lifecycle!RefreshSucceeds, Lifecycle!client, Lifecycle!backends, Lifecycle!Goto,
        Lifecycle!Busy
  <1>28. CASE UNCHANGED lifecycle
    BY <1>28
    DEF lifecycle
  <1>. HIDE DEF LifecycleInv, LifecycleTypes, FlagTypes, SlotTypes, StepTypes, TimerIsHeld,
                Three, Steps, NetworkSteps, StartSteps, CloseSteps, Lifecycle!Goroutines
  <1>. QED
    BY <1>1, <1>2, <1>3, <1>4, <1>5, <1>6, <1>7, <1>8, <1>9, <1>10, <1>11, <1>12, <1>13, <1>14,
       <1>15, <1>16, <1>17, <1>18, <1>19, <1>20, <1>21, <1>22, <1>23, <1>24, <1>25, <1>26,
       <1>27, <1>28
    DEF Lifecycle!Next, Lifecycle!UserStep, Lifecycle!HandlerStep, Lifecycle!TimerStep, Three

LEMMA NeverPanics ==
  LifecycleInv /\ Undisturbed /\ [Lifecycle!Next]_lifecycle => (~raced' => ~panicked')
  <1>. SUFFICES ASSUME LifecycleInv, Undisturbed, [Lifecycle!Next]_lifecycle
                PROVE  (~raced' => ~panicked')
    OBVIOUS
  <1>. USE DEF LifecycleInv, LifecycleTypes, FlagTypes, SlotTypes, StepTypes, Undisturbed,
               Resting, UserKnows, Three, Steps, NetworkSteps, StartSteps, CloseSteps,
               Lifecycle!Goroutines
  <1>1. ASSUME NEW t \in Three, Lifecycle!Schedule(t) PROVE (~raced' => ~panicked')
    <2>1. pc[t] = "schedule" /\ t \in Lifecycle!Goroutines
      BY <1>1, GoroutinesDiffer DEF Lifecycle!Schedule
    <2>2. PICK u \in Timers : Arms(t, u)
      BY <1>1, <2>1, Schedules DEF Lifecycle!Schedule
    <2>3. UNCHANGED <<started, ctx, starts, networkOnline, pushOn, callbacks, stateSub, network,
                      Lifecycle!backends, local, raced>>
      BY <1>1 DEF Lifecycle!Schedule
    <2>. QED
      BY <1>1, <2>1, <2>2, <2>3, GoroutinesDiffer, LifecycleConstants
      DEF Arms, Lifecycle!HandlerRuns, Lifecycle!Busy, Lifecycle!backends
  <1>2. ASSUME NEW t \in Timers, Lifecycle!RefreshFails(t) PROVE (~raced' => ~panicked')
    <2>1. /\ pc[t] = "refresh" /\ t \in Lifecycle!Goroutines
          /\ UNCHANGED <<started, ctx, starts, networkOnline, pushOn, callbacks, stateSub, network,
                         Lifecycle!backends, local, raced>>
      BY <1>2, GoroutinesDiffer DEF Lifecycle!RefreshFails
    <2>2. CASE networkOnline
      <3>1. PICK u \in Timers : Arms(t, u)
        BY <1>2, <2>1, <2>2, Schedules DEF Lifecycle!RefreshFails
      <3>. QED
        BY <1>2, <2>1, <3>1, GoroutinesDiffer, LifecycleConstants
        DEF Arms, Lifecycle!HandlerRuns, Lifecycle!Busy, Lifecycle!backends
    <2>3. CASE ~networkOnline
      BY <1>2, <2>1, <2>3, GoroutinesDiffer, LifecycleConstants
      DEF Lifecycle!HandlerRuns, Lifecycle!Busy, Lifecycle!RefreshFails, Lifecycle!Goto,
          Lifecycle!backends
    <2>. QED
      BY <2>2, <2>3
  <1>3. CASE Lifecycle!Start
    BY <1>3, LifecycleConstants
    DEF Lifecycle!Start, Lifecycle!Goto, Lifecycle!client, Lifecycle!backends,
        Lifecycle!HandlerRuns, Lifecycle!Busy
  <1>4. CASE Lifecycle!CloseTakes
    BY <1>4, LifecycleConstants
    DEF Lifecycle!CloseTakes, Lifecycle!Stopped, Lifecycle!Busy, Lifecycle!HandlerRuns,
        Lifecycle!client, Lifecycle!backends
  <1>5. CASE Lifecycle!StartSubscribes
    BY <1>5, LifecycleConstants
    DEF Lifecycle!StartSubscribes, Lifecycle!client, Lifecycle!backends, Lifecycle!Goto,
        Lifecycle!Busy, Lifecycle!HandlerRuns
  <1>6. CASE Lifecycle!StartRoutes
    BY <1>6, LifecycleConstants
    DEF Lifecycle!StartRoutes, Lifecycle!client, Lifecycle!backends, Lifecycle!Goto,
        Lifecycle!Busy, Lifecycle!HandlerRuns
  <1>7. CASE Lifecycle!StartLAN
    BY <1>7, LifecycleConstants
    DEF Lifecycle!StartLAN, Lifecycle!client, Lifecycle!backends, Lifecycle!Goto,
        Lifecycle!Busy, Lifecycle!HandlerRuns
  <1>8. CASE Lifecycle!StartReadsStatus
    BY <1>8, LifecycleConstants
    DEF Lifecycle!StartReadsStatus, Lifecycle!client, Lifecycle!backends, Lifecycle!Goto,
        Lifecycle!Busy, Lifecycle!HandlerRuns
  <1>9. CASE Lifecycle!rollbackStart
    BY <1>9, LifecycleConstants
    DEF Lifecycle!rollbackStart, Lifecycle!Goto, Lifecycle!client, Lifecycle!backends,
        Lifecycle!HandlerRuns, Lifecycle!Busy
  <1>10. CASE Lifecycle!RollbackReleases
    BY <1>10, LifecycleConstants
    DEF Lifecycle!RollbackReleases, Lifecycle!client, Lifecycle!backends, Lifecycle!Goto,
        Lifecycle!Busy, Lifecycle!HandlerRuns
  <1>11. CASE Lifecycle!CloseReleases
    BY <1>11, LifecycleConstants
    DEF Lifecycle!CloseReleases, Lifecycle!client, Lifecycle!backends, Lifecycle!Goto,
        Lifecycle!Busy, Lifecycle!HandlerRuns
  <1>12. CASE Lifecycle!CloseOwnedPush
    BY <1>12, LifecycleConstants
    DEF Lifecycle!CloseOwnedPush, Lifecycle!client, Lifecycle!backends, Lifecycle!Goto,
        Lifecycle!Busy, Lifecycle!HandlerRuns
  <1>13. CASE Lifecycle!CloseLAN
    BY <1>13, LifecycleConstants
    DEF Lifecycle!CloseLAN, Lifecycle!client, Lifecycle!backends, Lifecycle!Goto,
        Lifecycle!Busy, Lifecycle!HandlerRuns
  <1>14. CASE Lifecycle!BrokerConnects
    BY <1>14, LifecycleConstants
    DEF Lifecycle!BrokerConnects, Lifecycle!ConnectionReports, Lifecycle!client, Lifecycle!Busy,
        Lifecycle!HandlerRuns
  <1>15. CASE Lifecycle!BrokerDisconnects
    BY <1>15, LifecycleConstants
    DEF Lifecycle!BrokerDisconnects, Lifecycle!ConnectionReports, Lifecycle!client,
        Lifecycle!Busy, Lifecycle!HandlerRuns
  <1>16. ASSUME NEW status \in BOOLEAN,
               Lifecycle!MonitorReports(status)
        PROVE  (~raced' => ~panicked')
    BY <1>16, LifecycleConstants
    DEF Lifecycle!MonitorReports, Lifecycle!client, Lifecycle!backends, Lifecycle!Goto,
        Lifecycle!Busy, Lifecycle!HandlerRuns
  <1>17. ASSUME NEW t \in Three, Lifecycle!NetworkUp(t) PROVE (~raced' => ~panicked')
    BY <1>17, LifecycleConstants
    DEF Lifecycle!NetworkUp, Lifecycle!client, Lifecycle!backends, Lifecycle!Goto,
        Lifecycle!Busy, Lifecycle!HandlerRuns
  <1>18. ASSUME NEW t \in Three, Lifecycle!EnsurePush(t) PROVE (~raced' => ~panicked')
    BY <1>18, LifecycleConstants
    DEF Lifecycle!EnsurePush, Lifecycle!client, Lifecycle!backends, Lifecycle!Goto,
        Lifecycle!Busy, Lifecycle!HandlerRuns
  <1>19. ASSUME NEW t \in Three, Lifecycle!StartPush(t) PROVE (~raced' => ~panicked')
    BY <1>19, LifecycleConstants
    DEF Lifecycle!StartPush, Lifecycle!client, Lifecycle!backends, Lifecycle!Goto,
        Lifecycle!Busy, Lifecycle!HandlerRuns
  <1>20. ASSUME NEW t \in Three, Lifecycle!NetworkDown(t) PROVE (~raced' => ~panicked')
    BY <1>20, LifecycleConstants
    DEF Lifecycle!NetworkDown, Lifecycle!Stopped, Lifecycle!client, Lifecycle!backends,
        Lifecycle!HandlerRuns, Lifecycle!Busy
  <1>21. ASSUME NEW t \in Three, Lifecycle!StopPush(t) PROVE (~raced' => ~panicked')
    BY <1>21, LifecycleConstants
    DEF Lifecycle!StopPush, Lifecycle!client, Lifecycle!backends, Lifecycle!Goto,
        Lifecycle!Busy, Lifecycle!HandlerRuns
  <1>22. ASSUME NEW t \in Three, Lifecycle!ClosePush(t) PROVE (~raced' => ~panicked')
    BY <1>22, LifecycleConstants
    DEF Lifecycle!ClosePush, Lifecycle!client, Lifecycle!backends, Lifecycle!Goto,
        Lifecycle!Busy, Lifecycle!HandlerRuns
  <1>23. ASSUME NEW t \in Three, Lifecycle!ConnectionLost(t) PROVE (~raced' => ~panicked')
    BY <1>23, LifecycleConstants
    DEF Lifecycle!ConnectionLost, Lifecycle!client, Lifecycle!backends, Lifecycle!Goto,
        Lifecycle!Busy, Lifecycle!HandlerRuns
  <1>24. ASSUME NEW t \in Three, Lifecycle!ConnectionMade(t) PROVE (~raced' => ~panicked')
    BY <1>24, LifecycleConstants
    DEF Lifecycle!ConnectionMade, Lifecycle!client, Lifecycle!backends, Lifecycle!Goto,
        Lifecycle!Busy, Lifecycle!HandlerRuns
  <1>25. ASSUME NEW t \in Timers, Lifecycle!TimerFires(t) PROVE (~raced' => ~panicked')
    BY <1>25, LifecycleConstants
    DEF Lifecycle!TimerFires, Lifecycle!client, Lifecycle!backends, Lifecycle!Goto,
        Lifecycle!Busy, Lifecycle!HandlerRuns
  <1>26. ASSUME NEW t \in Timers, Lifecycle!TimerReturns(t) PROVE (~raced' => ~panicked')
    BY <1>26, LifecycleConstants
    DEF Lifecycle!TimerReturns, Lifecycle!client, Lifecycle!backends, Lifecycle!Goto,
        Lifecycle!Busy, Lifecycle!HandlerRuns
  <1>27. ASSUME NEW t \in Timers, Lifecycle!RefreshSucceeds(t) PROVE (~raced' => ~panicked')
    BY <1>27, LifecycleConstants
    DEF Lifecycle!RefreshSucceeds, Lifecycle!client, Lifecycle!backends, Lifecycle!Goto,
        Lifecycle!Busy, Lifecycle!HandlerRuns
  <1>28. CASE UNCHANGED lifecycle
    BY <1>28
    DEF lifecycle, Lifecycle!HandlerRuns, Lifecycle!Busy
  <1>. HIDE DEF LifecycleInv, LifecycleTypes, FlagTypes, SlotTypes, StepTypes, Undisturbed,
                Resting, UserKnows, Three, Steps, NetworkSteps, StartSteps, CloseSteps,
                Lifecycle!Goroutines
  <1>. QED
    BY <1>1, <1>2, <1>3, <1>4, <1>5, <1>6, <1>7, <1>8, <1>9, <1>10, <1>11, <1>12, <1>13, <1>14,
       <1>15, <1>16, <1>17, <1>18, <1>19, <1>20, <1>21, <1>22, <1>23, <1>24, <1>25, <1>26,
       <1>27, <1>28
    DEF Lifecycle!Next, Lifecycle!UserStep, Lifecycle!HandlerStep, Lifecycle!TimerStep, Three

LEMMA ContextsStep ==
  LifecycleInv /\ Undisturbed /\ [Lifecycle!Next]_lifecycle => (~raced' => TimersHaveContexts')
  <1>. SUFFICES ASSUME LifecycleInv, Undisturbed, [Lifecycle!Next]_lifecycle
                PROVE  (~raced' => TimersHaveContexts')
    OBVIOUS
  <1>. USE DEF LifecycleInv, LifecycleTypes, FlagTypes, SlotTypes, StepTypes, Undisturbed,
               TimersHaveContexts, TimerIsHeld, UserKnows, Resting, Three, Steps, NetworkSteps,
               StartSteps, CloseSteps, Lifecycle!Goroutines
  <1>1. ASSUME NEW t \in Three, Lifecycle!Schedule(t) PROVE (~raced' => TimersHaveContexts')
    <2>1. pc[t] = "schedule" /\ t \in Lifecycle!Goroutines
      BY <1>1, GoroutinesDiffer DEF Lifecycle!Schedule
    <2>2. PICK u \in Timers : Arms(t, u)
      BY <1>1, <2>1, Schedules DEF Lifecycle!Schedule
    <2>3. starts' = starts
      BY <1>1 DEF Lifecycle!Schedule
    <2>4. started
      BY <1>1, <2>1 DEF Lifecycle!HandlerRuns, Lifecycle!Busy
    <2>5. tctx'[u] \in 1..starts'
      BY <2>2, <2>3, <2>4, LifecycleConstants DEF Arms
    <2>6. \A v \in Timers \ {u} :
            /\ pc'[v] \in {"armed", "stopped"} => pc[v] \in {"armed", "stopped"}
            /\ tctx'[v] = tctx[v]
      BY <2>1, <2>2, GoroutinesDiffer DEF Arms
    <2>. QED
      BY <2>3, <2>5, <2>6
  <1>2. ASSUME NEW t \in Timers,
               Lifecycle!RefreshFails(t)
        PROVE  (~raced' => TimersHaveContexts')
    <2>1. /\ pc[t] = "refresh" /\ t \in Lifecycle!Goroutines
          /\ UNCHANGED <<started, ctx, starts, networkOnline, pushOn, callbacks, stateSub, network,
                         Lifecycle!backends, local, raced>>
      BY <1>2, GoroutinesDiffer DEF Lifecycle!RefreshFails
    <2>2. CASE networkOnline
      <3>1. PICK u \in Timers : Arms(t, u)
        BY <1>2, <2>1, <2>2, Schedules DEF Lifecycle!RefreshFails
      <3>. QED
        BY <1>2, <2>1, <3>1, GoroutinesDiffer, LifecycleConstants
        DEF Arms, Lifecycle!HandlerRuns, Lifecycle!Busy, Lifecycle!backends
    <2>3. CASE ~networkOnline
      BY <1>2, <2>1, <2>3, GoroutinesDiffer, LifecycleConstants
      DEF Lifecycle!HandlerRuns, Lifecycle!Busy, Lifecycle!RefreshFails, Lifecycle!Goto,
          Lifecycle!backends
    <2>. QED
      BY <2>2, <2>3
  <1>3. CASE Lifecycle!Start
    BY <1>3, LifecycleConstants
    DEF Lifecycle!Start, Lifecycle!Goto, Lifecycle!client, Lifecycle!backends,
        Lifecycle!HandlerRuns, Lifecycle!Busy
  <1>4. CASE Lifecycle!CloseTakes
    BY <1>4, LifecycleConstants
    DEF Lifecycle!CloseTakes, Lifecycle!Stopped, Lifecycle!Busy, Lifecycle!HandlerRuns,
        Lifecycle!client, Lifecycle!backends
  <1>5. CASE Lifecycle!StartSubscribes
    BY <1>5, LifecycleConstants
    DEF Lifecycle!StartSubscribes, Lifecycle!client, Lifecycle!backends, Lifecycle!Goto,
        Lifecycle!Busy, Lifecycle!HandlerRuns
  <1>6. CASE Lifecycle!StartRoutes
    BY <1>6, LifecycleConstants
    DEF Lifecycle!StartRoutes, Lifecycle!client, Lifecycle!backends, Lifecycle!Goto,
        Lifecycle!Busy, Lifecycle!HandlerRuns
  <1>7. CASE Lifecycle!StartLAN
    BY <1>7, LifecycleConstants
    DEF Lifecycle!StartLAN, Lifecycle!client, Lifecycle!backends, Lifecycle!Goto,
        Lifecycle!Busy, Lifecycle!HandlerRuns
  <1>8. CASE Lifecycle!StartReadsStatus
    BY <1>8, LifecycleConstants
    DEF Lifecycle!StartReadsStatus, Lifecycle!client, Lifecycle!backends, Lifecycle!Goto,
        Lifecycle!Busy, Lifecycle!HandlerRuns
  <1>9. CASE Lifecycle!rollbackStart
    BY <1>9, LifecycleConstants
    DEF Lifecycle!rollbackStart, Lifecycle!Goto, Lifecycle!client, Lifecycle!backends,
        Lifecycle!HandlerRuns, Lifecycle!Busy
  <1>10. CASE Lifecycle!RollbackReleases
    BY <1>10, LifecycleConstants
    DEF Lifecycle!RollbackReleases, Lifecycle!client, Lifecycle!backends, Lifecycle!Goto,
        Lifecycle!Busy, Lifecycle!HandlerRuns
  <1>11. CASE Lifecycle!CloseReleases
    BY <1>11, LifecycleConstants
    DEF Lifecycle!CloseReleases, Lifecycle!client, Lifecycle!backends, Lifecycle!Goto,
        Lifecycle!Busy, Lifecycle!HandlerRuns
  <1>12. CASE Lifecycle!CloseOwnedPush
    BY <1>12, LifecycleConstants
    DEF Lifecycle!CloseOwnedPush, Lifecycle!client, Lifecycle!backends, Lifecycle!Goto,
        Lifecycle!Busy, Lifecycle!HandlerRuns
  <1>13. CASE Lifecycle!CloseLAN
    BY <1>13, LifecycleConstants
    DEF Lifecycle!CloseLAN, Lifecycle!client, Lifecycle!backends, Lifecycle!Goto,
        Lifecycle!Busy, Lifecycle!HandlerRuns
  <1>14. CASE Lifecycle!BrokerConnects
    BY <1>14, LifecycleConstants
    DEF Lifecycle!BrokerConnects, Lifecycle!ConnectionReports, Lifecycle!client, Lifecycle!Busy,
        Lifecycle!HandlerRuns
  <1>15. CASE Lifecycle!BrokerDisconnects
    BY <1>15, LifecycleConstants
    DEF Lifecycle!BrokerDisconnects, Lifecycle!ConnectionReports, Lifecycle!client,
        Lifecycle!Busy, Lifecycle!HandlerRuns
  <1>16. ASSUME NEW status \in BOOLEAN,
               Lifecycle!MonitorReports(status)
        PROVE  (~raced' => TimersHaveContexts')
    BY <1>16, LifecycleConstants
    DEF Lifecycle!MonitorReports, Lifecycle!client, Lifecycle!backends, Lifecycle!Goto,
        Lifecycle!Busy, Lifecycle!HandlerRuns
  <1>17. ASSUME NEW t \in Three, Lifecycle!NetworkUp(t) PROVE (~raced' => TimersHaveContexts')
    BY <1>17, LifecycleConstants
    DEF Lifecycle!NetworkUp, Lifecycle!client, Lifecycle!backends, Lifecycle!Goto,
        Lifecycle!Busy, Lifecycle!HandlerRuns
  <1>18. ASSUME NEW t \in Three, Lifecycle!EnsurePush(t) PROVE (~raced' => TimersHaveContexts')
    BY <1>18, LifecycleConstants
    DEF Lifecycle!EnsurePush, Lifecycle!client, Lifecycle!backends, Lifecycle!Goto,
        Lifecycle!Busy, Lifecycle!HandlerRuns
  <1>19. ASSUME NEW t \in Three, Lifecycle!StartPush(t) PROVE (~raced' => TimersHaveContexts')
    BY <1>19, LifecycleConstants
    DEF Lifecycle!StartPush, Lifecycle!client, Lifecycle!backends, Lifecycle!Goto,
        Lifecycle!Busy, Lifecycle!HandlerRuns
  <1>20. ASSUME NEW t \in Three, Lifecycle!NetworkDown(t) PROVE (~raced' => TimersHaveContexts')
    BY <1>20, LifecycleConstants
    DEF Lifecycle!NetworkDown, Lifecycle!Stopped, Lifecycle!client, Lifecycle!backends,
        Lifecycle!HandlerRuns, Lifecycle!Busy
  <1>21. ASSUME NEW t \in Three, Lifecycle!StopPush(t) PROVE (~raced' => TimersHaveContexts')
    BY <1>21, LifecycleConstants
    DEF Lifecycle!StopPush, Lifecycle!client, Lifecycle!backends, Lifecycle!Goto,
        Lifecycle!Busy, Lifecycle!HandlerRuns
  <1>22. ASSUME NEW t \in Three, Lifecycle!ClosePush(t) PROVE (~raced' => TimersHaveContexts')
    BY <1>22, LifecycleConstants
    DEF Lifecycle!ClosePush, Lifecycle!client, Lifecycle!backends, Lifecycle!Goto,
        Lifecycle!Busy, Lifecycle!HandlerRuns
  <1>23. ASSUME NEW t \in Three,
               Lifecycle!ConnectionLost(t)
        PROVE  (~raced' => TimersHaveContexts')
    BY <1>23, LifecycleConstants
    DEF Lifecycle!ConnectionLost, Lifecycle!client, Lifecycle!backends, Lifecycle!Goto,
        Lifecycle!Busy, Lifecycle!HandlerRuns
  <1>24. ASSUME NEW t \in Three,
               Lifecycle!ConnectionMade(t)
        PROVE  (~raced' => TimersHaveContexts')
    BY <1>24, LifecycleConstants
    DEF Lifecycle!ConnectionMade, Lifecycle!client, Lifecycle!backends, Lifecycle!Goto,
        Lifecycle!Busy, Lifecycle!HandlerRuns
  <1>25. ASSUME NEW t \in Timers, Lifecycle!TimerFires(t) PROVE (~raced' => TimersHaveContexts')
    BY <1>25, LifecycleConstants
    DEF Lifecycle!TimerFires, Lifecycle!client, Lifecycle!backends, Lifecycle!Goto,
        Lifecycle!Busy, Lifecycle!HandlerRuns
  <1>26. ASSUME NEW t \in Timers,
               Lifecycle!TimerReturns(t)
        PROVE  (~raced' => TimersHaveContexts')
    BY <1>26, LifecycleConstants
    DEF Lifecycle!TimerReturns, Lifecycle!client, Lifecycle!backends, Lifecycle!Goto,
        Lifecycle!Busy, Lifecycle!HandlerRuns
  <1>27. ASSUME NEW t \in Timers,
               Lifecycle!RefreshSucceeds(t)
        PROVE  (~raced' => TimersHaveContexts')
    BY <1>27, LifecycleConstants
    DEF Lifecycle!RefreshSucceeds, Lifecycle!client, Lifecycle!backends, Lifecycle!Goto,
        Lifecycle!Busy, Lifecycle!HandlerRuns
  <1>28. CASE UNCHANGED lifecycle
    BY <1>28
    DEF lifecycle, Lifecycle!HandlerRuns, Lifecycle!Busy
  <1>. HIDE DEF LifecycleInv, LifecycleTypes, FlagTypes, SlotTypes, StepTypes, Undisturbed,
                TimersHaveContexts, TimerIsHeld, UserKnows, Resting, Three, Steps, NetworkSteps,
                StartSteps, CloseSteps, Lifecycle!Goroutines
  <1>. QED
    BY <1>1, <1>2, <1>3, <1>4, <1>5, <1>6, <1>7, <1>8, <1>9, <1>10, <1>11, <1>12, <1>13, <1>14,
       <1>15, <1>16, <1>17, <1>18, <1>19, <1>20, <1>21, <1>22, <1>23, <1>24, <1>25, <1>26,
       <1>27, <1>28
    DEF Lifecycle!Next, Lifecycle!UserStep, Lifecycle!HandlerStep, Lifecycle!TimerStep, Three

LEMMA OneRunsStep ==
  LifecycleInv /\ Undisturbed /\ [Lifecycle!Next]_lifecycle => (~raced' => OneRuns')
  <1>. SUFFICES ASSUME LifecycleInv, Undisturbed, [Lifecycle!Next]_lifecycle
                PROVE  (~raced' => OneRuns')
    OBVIOUS
  <1>. USE DEF LifecycleInv, LifecycleTypes, FlagTypes, SlotTypes, StepTypes, Undisturbed,
               OneRuns, UserKnows, Three, Steps, NetworkSteps, StartSteps, CloseSteps,
               Lifecycle!Goroutines
  <1>1. ASSUME NEW t \in Three, Lifecycle!Schedule(t) PROVE (~raced' => OneRuns')
    <2>1. pc[t] = "schedule" /\ t \in Lifecycle!Goroutines
      BY <1>1, GoroutinesDiffer DEF Lifecycle!Schedule
    <2>2. PICK u \in Timers : Arms(t, u)
      BY <1>1, <2>1, Schedules DEF Lifecycle!Schedule
    <2>3. UNCHANGED <<started, ctx, starts, networkOnline, pushOn, callbacks, stateSub, network,
                      Lifecycle!backends, local, raced>>
      BY <1>1 DEF Lifecycle!Schedule
    <2>. QED
      BY <1>1, <2>1, <2>2, <2>3, GoroutinesDiffer, LifecycleConstants
      DEF Arms, Lifecycle!HandlerRuns, Lifecycle!Busy, Lifecycle!backends
  <1>2. ASSUME NEW t \in Timers, Lifecycle!RefreshFails(t) PROVE (~raced' => OneRuns')
    <2>1. /\ pc[t] = "refresh" /\ t \in Lifecycle!Goroutines
          /\ UNCHANGED <<started, ctx, starts, networkOnline, pushOn, callbacks, stateSub, network,
                         Lifecycle!backends, local, raced>>
      BY <1>2, GoroutinesDiffer DEF Lifecycle!RefreshFails
    <2>2. CASE networkOnline
      <3>1. PICK u \in Timers : Arms(t, u)
        BY <1>2, <2>1, <2>2, Schedules DEF Lifecycle!RefreshFails
      <3>. QED
        BY <1>2, <2>1, <3>1, GoroutinesDiffer, LifecycleConstants
        DEF Arms, Lifecycle!HandlerRuns, Lifecycle!Busy, Lifecycle!backends
    <2>3. CASE ~networkOnline
      BY <1>2, <2>1, <2>3, GoroutinesDiffer, LifecycleConstants
      DEF Lifecycle!HandlerRuns, Lifecycle!Busy, Lifecycle!RefreshFails, Lifecycle!Goto,
          Lifecycle!backends
    <2>. QED
      BY <2>2, <2>3
  <1>3. CASE Lifecycle!Start
    BY <1>3, LifecycleConstants
    DEF Lifecycle!Start, Lifecycle!Goto, Lifecycle!client, Lifecycle!backends,
        Lifecycle!HandlerRuns, Lifecycle!Busy
  <1>4. CASE Lifecycle!CloseTakes
    BY <1>4, LifecycleConstants
    DEF Lifecycle!CloseTakes, Lifecycle!Stopped, Lifecycle!Busy, Lifecycle!HandlerRuns,
        Lifecycle!client, Lifecycle!backends
  <1>5. CASE Lifecycle!StartSubscribes
    BY <1>5, LifecycleConstants
    DEF Lifecycle!StartSubscribes, Lifecycle!client, Lifecycle!backends, Lifecycle!Goto,
        Lifecycle!Busy, Lifecycle!HandlerRuns
  <1>6. CASE Lifecycle!StartRoutes
    BY <1>6, LifecycleConstants
    DEF Lifecycle!StartRoutes, Lifecycle!client, Lifecycle!backends, Lifecycle!Goto,
        Lifecycle!Busy, Lifecycle!HandlerRuns
  <1>7. CASE Lifecycle!StartLAN
    BY <1>7, LifecycleConstants
    DEF Lifecycle!StartLAN, Lifecycle!client, Lifecycle!backends, Lifecycle!Goto,
        Lifecycle!Busy, Lifecycle!HandlerRuns
  <1>8. CASE Lifecycle!StartReadsStatus
    BY <1>8, LifecycleConstants
    DEF Lifecycle!StartReadsStatus, Lifecycle!client, Lifecycle!backends, Lifecycle!Goto,
        Lifecycle!Busy, Lifecycle!HandlerRuns
  <1>9. CASE Lifecycle!rollbackStart
    BY <1>9, LifecycleConstants
    DEF Lifecycle!rollbackStart, Lifecycle!Goto, Lifecycle!client, Lifecycle!backends,
        Lifecycle!HandlerRuns, Lifecycle!Busy
  <1>10. CASE Lifecycle!RollbackReleases
    BY <1>10, LifecycleConstants
    DEF Lifecycle!RollbackReleases, Lifecycle!client, Lifecycle!backends, Lifecycle!Goto,
        Lifecycle!Busy, Lifecycle!HandlerRuns
  <1>11. CASE Lifecycle!CloseReleases
    BY <1>11, LifecycleConstants
    DEF Lifecycle!CloseReleases, Lifecycle!client, Lifecycle!backends, Lifecycle!Goto,
        Lifecycle!Busy, Lifecycle!HandlerRuns
  <1>12. CASE Lifecycle!CloseOwnedPush
    BY <1>12, LifecycleConstants
    DEF Lifecycle!CloseOwnedPush, Lifecycle!client, Lifecycle!backends, Lifecycle!Goto,
        Lifecycle!Busy, Lifecycle!HandlerRuns
  <1>13. CASE Lifecycle!CloseLAN
    BY <1>13, LifecycleConstants
    DEF Lifecycle!CloseLAN, Lifecycle!client, Lifecycle!backends, Lifecycle!Goto,
        Lifecycle!Busy, Lifecycle!HandlerRuns
  <1>14. CASE Lifecycle!BrokerConnects
    BY <1>14, LifecycleConstants
    DEF Lifecycle!BrokerConnects, Lifecycle!ConnectionReports, Lifecycle!client, Lifecycle!Busy,
        Lifecycle!HandlerRuns
  <1>15. CASE Lifecycle!BrokerDisconnects
    BY <1>15, LifecycleConstants
    DEF Lifecycle!BrokerDisconnects, Lifecycle!ConnectionReports, Lifecycle!client,
        Lifecycle!Busy, Lifecycle!HandlerRuns
  <1>16. ASSUME NEW status \in BOOLEAN,
               Lifecycle!MonitorReports(status)
        PROVE  (~raced' => OneRuns')
    BY <1>16, LifecycleConstants
    DEF Lifecycle!MonitorReports, Lifecycle!client, Lifecycle!backends, Lifecycle!Goto,
        Lifecycle!Busy, Lifecycle!HandlerRuns
  <1>17. ASSUME NEW t \in Three, Lifecycle!NetworkUp(t) PROVE (~raced' => OneRuns')
    BY <1>17, LifecycleConstants
    DEF Lifecycle!NetworkUp, Lifecycle!client, Lifecycle!backends, Lifecycle!Goto,
        Lifecycle!Busy, Lifecycle!HandlerRuns
  <1>18. ASSUME NEW t \in Three, Lifecycle!EnsurePush(t) PROVE (~raced' => OneRuns')
    BY <1>18, LifecycleConstants
    DEF Lifecycle!EnsurePush, Lifecycle!client, Lifecycle!backends, Lifecycle!Goto,
        Lifecycle!Busy, Lifecycle!HandlerRuns
  <1>19. ASSUME NEW t \in Three, Lifecycle!StartPush(t) PROVE (~raced' => OneRuns')
    BY <1>19, LifecycleConstants
    DEF Lifecycle!StartPush, Lifecycle!client, Lifecycle!backends, Lifecycle!Goto,
        Lifecycle!Busy, Lifecycle!HandlerRuns
  <1>20. ASSUME NEW t \in Three, Lifecycle!NetworkDown(t) PROVE (~raced' => OneRuns')
    BY <1>20, LifecycleConstants
    DEF Lifecycle!NetworkDown, Lifecycle!Stopped, Lifecycle!client, Lifecycle!backends,
        Lifecycle!HandlerRuns, Lifecycle!Busy
  <1>21. ASSUME NEW t \in Three, Lifecycle!StopPush(t) PROVE (~raced' => OneRuns')
    BY <1>21, LifecycleConstants
    DEF Lifecycle!StopPush, Lifecycle!client, Lifecycle!backends, Lifecycle!Goto,
        Lifecycle!Busy, Lifecycle!HandlerRuns
  <1>22. ASSUME NEW t \in Three, Lifecycle!ClosePush(t) PROVE (~raced' => OneRuns')
    BY <1>22, LifecycleConstants
    DEF Lifecycle!ClosePush, Lifecycle!client, Lifecycle!backends, Lifecycle!Goto,
        Lifecycle!Busy, Lifecycle!HandlerRuns
  <1>23. ASSUME NEW t \in Three, Lifecycle!ConnectionLost(t) PROVE (~raced' => OneRuns')
    BY <1>23, LifecycleConstants
    DEF Lifecycle!ConnectionLost, Lifecycle!client, Lifecycle!backends, Lifecycle!Goto,
        Lifecycle!Busy, Lifecycle!HandlerRuns
  <1>24. ASSUME NEW t \in Three, Lifecycle!ConnectionMade(t) PROVE (~raced' => OneRuns')
    BY <1>24, LifecycleConstants
    DEF Lifecycle!ConnectionMade, Lifecycle!client, Lifecycle!backends, Lifecycle!Goto,
        Lifecycle!Busy, Lifecycle!HandlerRuns
  <1>25. ASSUME NEW t \in Timers, Lifecycle!TimerFires(t) PROVE (~raced' => OneRuns')
    BY <1>25, LifecycleConstants
    DEF Lifecycle!TimerFires, Lifecycle!client, Lifecycle!backends, Lifecycle!Goto,
        Lifecycle!Busy, Lifecycle!HandlerRuns
  <1>26. ASSUME NEW t \in Timers, Lifecycle!TimerReturns(t) PROVE (~raced' => OneRuns')
    BY <1>26, LifecycleConstants
    DEF Lifecycle!TimerReturns, Lifecycle!client, Lifecycle!backends, Lifecycle!Goto,
        Lifecycle!Busy, Lifecycle!HandlerRuns
  <1>27. ASSUME NEW t \in Timers, Lifecycle!RefreshSucceeds(t) PROVE (~raced' => OneRuns')
    BY <1>27, LifecycleConstants
    DEF Lifecycle!RefreshSucceeds, Lifecycle!client, Lifecycle!backends, Lifecycle!Goto,
        Lifecycle!Busy, Lifecycle!HandlerRuns
  <1>28. CASE UNCHANGED lifecycle
    BY <1>28
    DEF lifecycle, Lifecycle!HandlerRuns, Lifecycle!Busy
  <1>. HIDE DEF LifecycleInv, LifecycleTypes, FlagTypes, SlotTypes, StepTypes, Undisturbed,
                OneRuns, UserKnows, Three, Steps, NetworkSteps, StartSteps, CloseSteps,
                Lifecycle!Goroutines
  <1>. QED
    BY <1>1, <1>2, <1>3, <1>4, <1>5, <1>6, <1>7, <1>8, <1>9, <1>10, <1>11, <1>12, <1>13, <1>14,
       <1>15, <1>16, <1>17, <1>18, <1>19, <1>20, <1>21, <1>22, <1>23, <1>24, <1>25, <1>26,
       <1>27, <1>28
    DEF Lifecycle!Next, Lifecycle!UserStep, Lifecycle!HandlerStep, Lifecycle!TimerStep, Three

LEMMA RestingStep ==
  LifecycleInv /\ Undisturbed /\ [Lifecycle!Next]_lifecycle => (~raced' => Resting')
  <1>. SUFFICES ASSUME LifecycleInv, Undisturbed, [Lifecycle!Next]_lifecycle
                PROVE  (~raced' => Resting')
    OBVIOUS
  <1>. USE DEF LifecycleInv, LifecycleTypes, FlagTypes, SlotTypes, StepTypes, Undisturbed,
               Resting, TimersHaveContexts, OneRuns, TimerIsHeld, UserKnows, Three, Steps,
               NetworkSteps, StartSteps, CloseSteps, Lifecycle!Goroutines
  <1>1. ASSUME NEW t \in Three, Lifecycle!Schedule(t) PROVE (~raced' => Resting')
    <2>1. pc[t] = "schedule" /\ t \in Lifecycle!Goroutines
      BY <1>1, GoroutinesDiffer DEF Lifecycle!Schedule
    <2>2. PICK u \in Timers : Arms(t, u)
      BY <1>1, <2>1, Schedules DEF Lifecycle!Schedule
    <2>3. UNCHANGED <<started, ctx, starts, networkOnline, pushOn, callbacks, stateSub, network,
                      Lifecycle!backends, local, raced>>
      BY <1>1 DEF Lifecycle!Schedule
    <2>. QED
      BY <1>1, <2>1, <2>2, <2>3, GoroutinesDiffer, LifecycleConstants
      DEF Arms, Lifecycle!HandlerRuns, Lifecycle!Busy, Lifecycle!backends
  <1>2. ASSUME NEW t \in Timers, Lifecycle!TimerFires(t) PROVE (~raced' => Resting')
    <2>. SUFFICES ASSUME ~raced', (~started \/ pc["user"] \in StartSteps)' PROVE FALSE
      OBVIOUS
    <2>1. /\ pc[t] \in {"armed", "stopped"} /\ tctx[t] = ctx
          /\ started' = started /\ pc'["user"] = pc["user"]
      BY <1>2, GoroutinesDiffer DEF Lifecycle!TimerFires, Lifecycle!Goto
    <2>2. tctx[t] \in 1..starts
      BY <2>1
    <2>3. CASE ~started
      BY <2>1, <2>2, <2>3, LifecycleConstants
    <2>4. CASE started
      <3>1. tctx[t] < ctx
        BY <2>1, <2>4
      <3>. QED
        BY <2>1, <2>2, <2>4, <3>1, LifecycleConstants
    <2>. QED
      BY <2>3, <2>4
  <1>3. ASSUME NEW t \in Timers, Lifecycle!RefreshFails(t) PROVE (~raced' => Resting')
    <2>1. /\ pc[t] = "refresh" /\ t \in Lifecycle!Goroutines
          /\ UNCHANGED <<started, ctx, starts, networkOnline, pushOn, callbacks, stateSub, network,
                         Lifecycle!backends, local, raced>>
      BY <1>3, GoroutinesDiffer DEF Lifecycle!RefreshFails
    <2>2. CASE networkOnline
      <3>1. PICK u \in Timers : Arms(t, u)
        BY <1>3, <2>1, <2>2, Schedules DEF Lifecycle!RefreshFails
      <3>. QED
        BY <1>3, <2>1, <3>1, GoroutinesDiffer, LifecycleConstants
        DEF Arms, Lifecycle!HandlerRuns, Lifecycle!Busy, Lifecycle!backends
    <2>3. CASE ~networkOnline
      BY <1>3, <2>1, <2>3, GoroutinesDiffer, LifecycleConstants
      DEF Lifecycle!HandlerRuns, Lifecycle!Busy, Lifecycle!RefreshFails, Lifecycle!Goto,
          Lifecycle!backends
    <2>. QED
      BY <2>2, <2>3
  <1>4. CASE Lifecycle!Start
    BY <1>4, LifecycleConstants
    DEF Lifecycle!Start, Lifecycle!Goto, Lifecycle!client, Lifecycle!backends,
        Lifecycle!HandlerRuns, Lifecycle!Busy
  <1>5. CASE Lifecycle!CloseTakes
    BY <1>5, LifecycleConstants
    DEF Lifecycle!CloseTakes, Lifecycle!Stopped, Lifecycle!Busy, Lifecycle!HandlerRuns,
        Lifecycle!client, Lifecycle!backends
  <1>6. CASE Lifecycle!StartSubscribes
    BY <1>6, LifecycleConstants
    DEF Lifecycle!StartSubscribes, Lifecycle!client, Lifecycle!backends, Lifecycle!Goto,
        Lifecycle!Busy, Lifecycle!HandlerRuns
  <1>7. CASE Lifecycle!StartRoutes
    BY <1>7, LifecycleConstants
    DEF Lifecycle!StartRoutes, Lifecycle!client, Lifecycle!backends, Lifecycle!Goto,
        Lifecycle!Busy, Lifecycle!HandlerRuns
  <1>8. CASE Lifecycle!StartLAN
    BY <1>8, LifecycleConstants
    DEF Lifecycle!StartLAN, Lifecycle!client, Lifecycle!backends, Lifecycle!Goto,
        Lifecycle!Busy, Lifecycle!HandlerRuns
  <1>9. CASE Lifecycle!StartReadsStatus
    BY <1>9, LifecycleConstants
    DEF Lifecycle!StartReadsStatus, Lifecycle!client, Lifecycle!backends, Lifecycle!Goto,
        Lifecycle!Busy, Lifecycle!HandlerRuns
  <1>10. CASE Lifecycle!rollbackStart
    BY <1>10, LifecycleConstants
    DEF Lifecycle!rollbackStart, Lifecycle!Goto, Lifecycle!client, Lifecycle!backends,
        Lifecycle!HandlerRuns, Lifecycle!Busy
  <1>11. CASE Lifecycle!RollbackReleases
    BY <1>11, LifecycleConstants
    DEF Lifecycle!RollbackReleases, Lifecycle!client, Lifecycle!backends, Lifecycle!Goto,
        Lifecycle!Busy, Lifecycle!HandlerRuns
  <1>12. CASE Lifecycle!CloseReleases
    BY <1>12, LifecycleConstants
    DEF Lifecycle!CloseReleases, Lifecycle!client, Lifecycle!backends, Lifecycle!Goto,
        Lifecycle!Busy, Lifecycle!HandlerRuns
  <1>13. CASE Lifecycle!CloseOwnedPush
    BY <1>13, LifecycleConstants
    DEF Lifecycle!CloseOwnedPush, Lifecycle!client, Lifecycle!backends, Lifecycle!Goto,
        Lifecycle!Busy, Lifecycle!HandlerRuns
  <1>14. CASE Lifecycle!CloseLAN
    BY <1>14, LifecycleConstants
    DEF Lifecycle!CloseLAN, Lifecycle!client, Lifecycle!backends, Lifecycle!Goto,
        Lifecycle!Busy, Lifecycle!HandlerRuns
  <1>15. CASE Lifecycle!BrokerConnects
    BY <1>15, LifecycleConstants
    DEF Lifecycle!BrokerConnects, Lifecycle!ConnectionReports, Lifecycle!client, Lifecycle!Busy,
        Lifecycle!HandlerRuns
  <1>16. CASE Lifecycle!BrokerDisconnects
    BY <1>16, LifecycleConstants
    DEF Lifecycle!BrokerDisconnects, Lifecycle!ConnectionReports, Lifecycle!client,
        Lifecycle!Busy, Lifecycle!HandlerRuns
  <1>17. ASSUME NEW status \in BOOLEAN,
               Lifecycle!MonitorReports(status)
        PROVE  (~raced' => Resting')
    BY <1>17, LifecycleConstants
    DEF Lifecycle!MonitorReports, Lifecycle!client, Lifecycle!backends, Lifecycle!Goto,
        Lifecycle!Busy, Lifecycle!HandlerRuns
  <1>18. ASSUME NEW t \in Three, Lifecycle!NetworkUp(t) PROVE (~raced' => Resting')
    BY <1>18, LifecycleConstants
    DEF Lifecycle!NetworkUp, Lifecycle!client, Lifecycle!backends, Lifecycle!Goto,
        Lifecycle!Busy, Lifecycle!HandlerRuns
  <1>19. ASSUME NEW t \in Three, Lifecycle!EnsurePush(t) PROVE (~raced' => Resting')
    BY <1>19, LifecycleConstants
    DEF Lifecycle!EnsurePush, Lifecycle!client, Lifecycle!backends, Lifecycle!Goto,
        Lifecycle!Busy, Lifecycle!HandlerRuns
  <1>20. ASSUME NEW t \in Three, Lifecycle!StartPush(t) PROVE (~raced' => Resting')
    BY <1>20, LifecycleConstants
    DEF Lifecycle!StartPush, Lifecycle!client, Lifecycle!backends, Lifecycle!Goto,
        Lifecycle!Busy, Lifecycle!HandlerRuns
  <1>21. ASSUME NEW t \in Three, Lifecycle!NetworkDown(t) PROVE (~raced' => Resting')
    BY <1>21, LifecycleConstants
    DEF Lifecycle!NetworkDown, Lifecycle!Stopped, Lifecycle!client, Lifecycle!backends,
        Lifecycle!HandlerRuns, Lifecycle!Busy
  <1>22. ASSUME NEW t \in Three, Lifecycle!StopPush(t) PROVE (~raced' => Resting')
    BY <1>22, LifecycleConstants
    DEF Lifecycle!StopPush, Lifecycle!client, Lifecycle!backends, Lifecycle!Goto,
        Lifecycle!Busy, Lifecycle!HandlerRuns
  <1>23. ASSUME NEW t \in Three, Lifecycle!ClosePush(t) PROVE (~raced' => Resting')
    BY <1>23, LifecycleConstants
    DEF Lifecycle!ClosePush, Lifecycle!client, Lifecycle!backends, Lifecycle!Goto,
        Lifecycle!Busy, Lifecycle!HandlerRuns
  <1>24. ASSUME NEW t \in Three, Lifecycle!ConnectionLost(t) PROVE (~raced' => Resting')
    BY <1>24, LifecycleConstants
    DEF Lifecycle!ConnectionLost, Lifecycle!client, Lifecycle!backends, Lifecycle!Goto,
        Lifecycle!Busy, Lifecycle!HandlerRuns
  <1>25. ASSUME NEW t \in Three, Lifecycle!ConnectionMade(t) PROVE (~raced' => Resting')
    BY <1>25, LifecycleConstants
    DEF Lifecycle!ConnectionMade, Lifecycle!client, Lifecycle!backends, Lifecycle!Goto,
        Lifecycle!Busy, Lifecycle!HandlerRuns
  <1>26. ASSUME NEW t \in Timers, Lifecycle!TimerReturns(t) PROVE (~raced' => Resting')
    BY <1>26, LifecycleConstants
    DEF Lifecycle!TimerReturns, Lifecycle!client, Lifecycle!backends, Lifecycle!Goto,
        Lifecycle!Busy, Lifecycle!HandlerRuns
  <1>27. ASSUME NEW t \in Timers, Lifecycle!RefreshSucceeds(t) PROVE (~raced' => Resting')
    BY <1>27, LifecycleConstants
    DEF Lifecycle!RefreshSucceeds, Lifecycle!client, Lifecycle!backends, Lifecycle!Goto,
        Lifecycle!Busy, Lifecycle!HandlerRuns
  <1>28. CASE UNCHANGED lifecycle
    BY <1>28
    DEF lifecycle, Lifecycle!HandlerRuns, Lifecycle!Busy
  <1>. HIDE DEF LifecycleInv, LifecycleTypes, FlagTypes, SlotTypes, StepTypes, Undisturbed,
                Resting, TimersHaveContexts, OneRuns, TimerIsHeld, UserKnows, Three, Steps,
                NetworkSteps, StartSteps, CloseSteps, Lifecycle!Goroutines
  <1>. QED
    BY <1>1, <1>2, <1>3, <1>4, <1>5, <1>6, <1>7, <1>8, <1>9, <1>10, <1>11, <1>12, <1>13, <1>14,
       <1>15, <1>16, <1>17, <1>18, <1>19, <1>20, <1>21, <1>22, <1>23, <1>24, <1>25, <1>26,
       <1>27, <1>28
    DEF Lifecycle!Next, Lifecycle!UserStep, Lifecycle!HandlerStep, Lifecycle!TimerStep, Three

LEMMA NetworkSeenStep ==
  LifecycleInv /\ Undisturbed /\ [Lifecycle!Next]_lifecycle => (~raced' => NetworkSeen')
  <1>. SUFFICES ASSUME LifecycleInv, Undisturbed, [Lifecycle!Next]_lifecycle
                PROVE  (~raced' => NetworkSeen')
    OBVIOUS
  <1>. USE DEF LifecycleInv, LifecycleTypes, FlagTypes, SlotTypes, StepTypes, Undisturbed,
               NetworkSeen, OneRuns, UserKnows, Three, Steps, NetworkSteps, StartSteps,
               CloseSteps, Lifecycle!Goroutines
  <1>1. ASSUME NEW t \in Three, Lifecycle!Schedule(t) PROVE (~raced' => NetworkSeen')
    <2>1. pc[t] = "schedule" /\ t \in Lifecycle!Goroutines
      BY <1>1, GoroutinesDiffer DEF Lifecycle!Schedule
    <2>2. PICK u \in Timers : Arms(t, u)
      BY <1>1, <2>1, Schedules DEF Lifecycle!Schedule
    <2>3. UNCHANGED <<started, ctx, starts, networkOnline, pushOn, callbacks, stateSub, network,
                      Lifecycle!backends, local, raced>>
      BY <1>1 DEF Lifecycle!Schedule
    <2>. QED
      BY <1>1, <2>1, <2>2, <2>3, GoroutinesDiffer, LifecycleConstants
      DEF Arms, Lifecycle!HandlerRuns, Lifecycle!Busy, Lifecycle!backends
  <1>2. ASSUME NEW t \in Timers, Lifecycle!RefreshFails(t) PROVE (~raced' => NetworkSeen')
    <2>1. /\ pc[t] = "refresh" /\ t \in Lifecycle!Goroutines
          /\ UNCHANGED <<started, ctx, starts, networkOnline, pushOn, callbacks, stateSub, network,
                         Lifecycle!backends, local, raced>>
      BY <1>2, GoroutinesDiffer DEF Lifecycle!RefreshFails
    <2>2. CASE networkOnline
      <3>1. PICK u \in Timers : Arms(t, u)
        BY <1>2, <2>1, <2>2, Schedules DEF Lifecycle!RefreshFails
      <3>. QED
        BY <1>2, <2>1, <3>1, GoroutinesDiffer, LifecycleConstants
        DEF Arms, Lifecycle!HandlerRuns, Lifecycle!Busy, Lifecycle!backends
    <2>3. CASE ~networkOnline
      BY <1>2, <2>1, <2>3, GoroutinesDiffer, LifecycleConstants
      DEF Lifecycle!HandlerRuns, Lifecycle!Busy, Lifecycle!RefreshFails, Lifecycle!Goto,
          Lifecycle!backends
    <2>. QED
      BY <2>2, <2>3
  <1>3. CASE Lifecycle!Start
    BY <1>3, LifecycleConstants
    DEF Lifecycle!Start, Lifecycle!Goto, Lifecycle!client, Lifecycle!backends,
        Lifecycle!HandlerRuns, Lifecycle!Busy
  <1>4. CASE Lifecycle!CloseTakes
    BY <1>4, LifecycleConstants
    DEF Lifecycle!CloseTakes, Lifecycle!Stopped, Lifecycle!Busy, Lifecycle!HandlerRuns,
        Lifecycle!client, Lifecycle!backends
  <1>5. CASE Lifecycle!StartSubscribes
    BY <1>5, LifecycleConstants
    DEF Lifecycle!StartSubscribes, Lifecycle!client, Lifecycle!backends, Lifecycle!Goto,
        Lifecycle!Busy, Lifecycle!HandlerRuns
  <1>6. CASE Lifecycle!StartRoutes
    BY <1>6, LifecycleConstants
    DEF Lifecycle!StartRoutes, Lifecycle!client, Lifecycle!backends, Lifecycle!Goto,
        Lifecycle!Busy, Lifecycle!HandlerRuns
  <1>7. CASE Lifecycle!StartLAN
    BY <1>7, LifecycleConstants
    DEF Lifecycle!StartLAN, Lifecycle!client, Lifecycle!backends, Lifecycle!Goto,
        Lifecycle!Busy, Lifecycle!HandlerRuns
  <1>8. CASE Lifecycle!StartReadsStatus
    BY <1>8, LifecycleConstants
    DEF Lifecycle!StartReadsStatus, Lifecycle!client, Lifecycle!backends, Lifecycle!Goto,
        Lifecycle!Busy, Lifecycle!HandlerRuns
  <1>9. CASE Lifecycle!rollbackStart
    BY <1>9, LifecycleConstants
    DEF Lifecycle!rollbackStart, Lifecycle!Goto, Lifecycle!client, Lifecycle!backends,
        Lifecycle!HandlerRuns, Lifecycle!Busy
  <1>10. CASE Lifecycle!RollbackReleases
    BY <1>10, LifecycleConstants
    DEF Lifecycle!RollbackReleases, Lifecycle!client, Lifecycle!backends, Lifecycle!Goto,
        Lifecycle!Busy, Lifecycle!HandlerRuns
  <1>11. CASE Lifecycle!CloseReleases
    BY <1>11, LifecycleConstants
    DEF Lifecycle!CloseReleases, Lifecycle!client, Lifecycle!backends, Lifecycle!Goto,
        Lifecycle!Busy, Lifecycle!HandlerRuns
  <1>12. CASE Lifecycle!CloseOwnedPush
    BY <1>12, LifecycleConstants
    DEF Lifecycle!CloseOwnedPush, Lifecycle!client, Lifecycle!backends, Lifecycle!Goto,
        Lifecycle!Busy, Lifecycle!HandlerRuns
  <1>13. CASE Lifecycle!CloseLAN
    BY <1>13, LifecycleConstants
    DEF Lifecycle!CloseLAN, Lifecycle!client, Lifecycle!backends, Lifecycle!Goto,
        Lifecycle!Busy, Lifecycle!HandlerRuns
  <1>14. CASE Lifecycle!BrokerConnects
    BY <1>14, LifecycleConstants
    DEF Lifecycle!BrokerConnects, Lifecycle!ConnectionReports, Lifecycle!client, Lifecycle!Busy,
        Lifecycle!HandlerRuns
  <1>15. CASE Lifecycle!BrokerDisconnects
    BY <1>15, LifecycleConstants
    DEF Lifecycle!BrokerDisconnects, Lifecycle!ConnectionReports, Lifecycle!client,
        Lifecycle!Busy, Lifecycle!HandlerRuns
  <1>16. ASSUME NEW status \in BOOLEAN,
               Lifecycle!MonitorReports(status)
        PROVE  (~raced' => NetworkSeen')
    BY <1>16, LifecycleConstants
    DEF Lifecycle!MonitorReports, Lifecycle!client, Lifecycle!backends, Lifecycle!Goto,
        Lifecycle!Busy, Lifecycle!HandlerRuns
  <1>17. ASSUME NEW t \in Three, Lifecycle!NetworkUp(t) PROVE (~raced' => NetworkSeen')
    BY <1>17, LifecycleConstants
    DEF Lifecycle!NetworkUp, Lifecycle!client, Lifecycle!backends, Lifecycle!Goto,
        Lifecycle!Busy, Lifecycle!HandlerRuns
  <1>18. ASSUME NEW t \in Three, Lifecycle!EnsurePush(t) PROVE (~raced' => NetworkSeen')
    BY <1>18, LifecycleConstants
    DEF Lifecycle!EnsurePush, Lifecycle!client, Lifecycle!backends, Lifecycle!Goto,
        Lifecycle!Busy, Lifecycle!HandlerRuns
  <1>19. ASSUME NEW t \in Three, Lifecycle!StartPush(t) PROVE (~raced' => NetworkSeen')
    BY <1>19, LifecycleConstants
    DEF Lifecycle!StartPush, Lifecycle!client, Lifecycle!backends, Lifecycle!Goto,
        Lifecycle!Busy, Lifecycle!HandlerRuns
  <1>20. ASSUME NEW t \in Three, Lifecycle!NetworkDown(t) PROVE (~raced' => NetworkSeen')
    BY <1>20, LifecycleConstants
    DEF Lifecycle!NetworkDown, Lifecycle!Stopped, Lifecycle!client, Lifecycle!backends,
        Lifecycle!HandlerRuns, Lifecycle!Busy
  <1>21. ASSUME NEW t \in Three, Lifecycle!StopPush(t) PROVE (~raced' => NetworkSeen')
    BY <1>21, LifecycleConstants
    DEF Lifecycle!StopPush, Lifecycle!client, Lifecycle!backends, Lifecycle!Goto,
        Lifecycle!Busy, Lifecycle!HandlerRuns
  <1>22. ASSUME NEW t \in Three, Lifecycle!ClosePush(t) PROVE (~raced' => NetworkSeen')
    BY <1>22, LifecycleConstants
    DEF Lifecycle!ClosePush, Lifecycle!client, Lifecycle!backends, Lifecycle!Goto,
        Lifecycle!Busy, Lifecycle!HandlerRuns
  <1>23. ASSUME NEW t \in Three, Lifecycle!ConnectionLost(t) PROVE (~raced' => NetworkSeen')
    BY <1>23, LifecycleConstants
    DEF Lifecycle!ConnectionLost, Lifecycle!client, Lifecycle!backends, Lifecycle!Goto,
        Lifecycle!Busy, Lifecycle!HandlerRuns
  <1>24. ASSUME NEW t \in Three, Lifecycle!ConnectionMade(t) PROVE (~raced' => NetworkSeen')
    BY <1>24, LifecycleConstants
    DEF Lifecycle!ConnectionMade, Lifecycle!client, Lifecycle!backends, Lifecycle!Goto,
        Lifecycle!Busy, Lifecycle!HandlerRuns
  <1>25. ASSUME NEW t \in Timers, Lifecycle!TimerFires(t) PROVE (~raced' => NetworkSeen')
    BY <1>25, LifecycleConstants
    DEF Lifecycle!TimerFires, Lifecycle!client, Lifecycle!backends, Lifecycle!Goto,
        Lifecycle!Busy, Lifecycle!HandlerRuns
  <1>26. ASSUME NEW t \in Timers, Lifecycle!TimerReturns(t) PROVE (~raced' => NetworkSeen')
    BY <1>26, LifecycleConstants
    DEF Lifecycle!TimerReturns, Lifecycle!client, Lifecycle!backends, Lifecycle!Goto,
        Lifecycle!Busy, Lifecycle!HandlerRuns
  <1>27. ASSUME NEW t \in Timers, Lifecycle!RefreshSucceeds(t) PROVE (~raced' => NetworkSeen')
    BY <1>27, LifecycleConstants
    DEF Lifecycle!RefreshSucceeds, Lifecycle!client, Lifecycle!backends, Lifecycle!Goto,
        Lifecycle!Busy, Lifecycle!HandlerRuns
  <1>28. CASE UNCHANGED lifecycle
    BY <1>28
    DEF lifecycle, Lifecycle!HandlerRuns, Lifecycle!Busy
  <1>. HIDE DEF LifecycleInv, LifecycleTypes, FlagTypes, SlotTypes, StepTypes, Undisturbed,
                NetworkSeen, OneRuns, UserKnows, Three, Steps, NetworkSteps, StartSteps,
                CloseSteps, Lifecycle!Goroutines
  <1>. QED
    BY <1>1, <1>2, <1>3, <1>4, <1>5, <1>6, <1>7, <1>8, <1>9, <1>10, <1>11, <1>12, <1>13, <1>14,
       <1>15, <1>16, <1>17, <1>18, <1>19, <1>20, <1>21, <1>22, <1>23, <1>24, <1>25, <1>26,
       <1>27, <1>28
    DEF Lifecycle!Next, Lifecycle!UserStep, Lifecycle!HandlerStep, Lifecycle!TimerStep, Three

LEMMA PushSeenStep ==
  LifecycleInv /\ Undisturbed /\ [Lifecycle!Next]_lifecycle => (~raced' => PushSeen')
  <1>. SUFFICES ASSUME LifecycleInv, Undisturbed, [Lifecycle!Next]_lifecycle
                PROVE  (~raced' => PushSeen')
    OBVIOUS
  <1>. USE DEF LifecycleInv, LifecycleTypes, FlagTypes, SlotTypes, StepTypes, Undisturbed,
               PushSeen, OneRuns, UserKnows, PushIsThere, Three, Steps, NetworkSteps,
               StartSteps, CloseSteps, Lifecycle!Goroutines
  <1>1. ASSUME NEW t \in Three, Lifecycle!Schedule(t) PROVE (~raced' => PushSeen')
    <2>1. pc[t] = "schedule" /\ t \in Lifecycle!Goroutines
      BY <1>1, GoroutinesDiffer DEF Lifecycle!Schedule
    <2>2. PICK u \in Timers : Arms(t, u)
      BY <1>1, <2>1, Schedules DEF Lifecycle!Schedule
    <2>3. UNCHANGED <<started, ctx, starts, networkOnline, pushOn, callbacks, stateSub, network,
                      Lifecycle!backends, local, raced>>
      BY <1>1 DEF Lifecycle!Schedule
    <2>. QED
      BY <1>1, <2>1, <2>2, <2>3, GoroutinesDiffer, LifecycleConstants
      DEF Arms, Lifecycle!HandlerRuns, Lifecycle!Busy, Lifecycle!backends
  <1>2. ASSUME NEW t \in Timers, Lifecycle!RefreshFails(t) PROVE (~raced' => PushSeen')
    <2>1. /\ pc[t] = "refresh" /\ t \in Lifecycle!Goroutines
          /\ UNCHANGED <<started, ctx, starts, networkOnline, pushOn, callbacks, stateSub, network,
                         Lifecycle!backends, local, raced>>
      BY <1>2, GoroutinesDiffer DEF Lifecycle!RefreshFails
    <2>2. CASE networkOnline
      <3>1. PICK u \in Timers : Arms(t, u)
        BY <1>2, <2>1, <2>2, Schedules DEF Lifecycle!RefreshFails
      <3>. QED
        BY <1>2, <2>1, <3>1, GoroutinesDiffer, LifecycleConstants
        DEF Arms, Lifecycle!HandlerRuns, Lifecycle!Busy, Lifecycle!backends
    <2>3. CASE ~networkOnline
      BY <1>2, <2>1, <2>3, GoroutinesDiffer, LifecycleConstants
      DEF Lifecycle!HandlerRuns, Lifecycle!Busy, Lifecycle!RefreshFails, Lifecycle!Goto,
          Lifecycle!backends
    <2>. QED
      BY <2>2, <2>3
  <1>3. CASE Lifecycle!Start
    BY <1>3, LifecycleConstants
    DEF Lifecycle!Start, Lifecycle!Goto, Lifecycle!client, Lifecycle!backends,
        Lifecycle!HandlerRuns, Lifecycle!Busy
  <1>4. CASE Lifecycle!CloseTakes
    BY <1>4, LifecycleConstants
    DEF Lifecycle!CloseTakes, Lifecycle!Stopped, Lifecycle!Busy, Lifecycle!HandlerRuns,
        Lifecycle!client, Lifecycle!backends
  <1>5. CASE Lifecycle!StartSubscribes
    BY <1>5, LifecycleConstants
    DEF Lifecycle!StartSubscribes, Lifecycle!client, Lifecycle!backends, Lifecycle!Goto,
        Lifecycle!Busy, Lifecycle!HandlerRuns
  <1>6. CASE Lifecycle!StartRoutes
    BY <1>6, LifecycleConstants
    DEF Lifecycle!StartRoutes, Lifecycle!client, Lifecycle!backends, Lifecycle!Goto,
        Lifecycle!Busy, Lifecycle!HandlerRuns
  <1>7. CASE Lifecycle!StartLAN
    BY <1>7, LifecycleConstants
    DEF Lifecycle!StartLAN, Lifecycle!client, Lifecycle!backends, Lifecycle!Goto,
        Lifecycle!Busy, Lifecycle!HandlerRuns
  <1>8. CASE Lifecycle!StartReadsStatus
    BY <1>8, LifecycleConstants
    DEF Lifecycle!StartReadsStatus, Lifecycle!client, Lifecycle!backends, Lifecycle!Goto,
        Lifecycle!Busy, Lifecycle!HandlerRuns
  <1>9. CASE Lifecycle!rollbackStart
    BY <1>9, LifecycleConstants
    DEF Lifecycle!rollbackStart, Lifecycle!Goto, Lifecycle!client, Lifecycle!backends,
        Lifecycle!HandlerRuns, Lifecycle!Busy
  <1>10. CASE Lifecycle!RollbackReleases
    BY <1>10, LifecycleConstants
    DEF Lifecycle!RollbackReleases, Lifecycle!client, Lifecycle!backends, Lifecycle!Goto,
        Lifecycle!Busy, Lifecycle!HandlerRuns
  <1>11. CASE Lifecycle!CloseReleases
    BY <1>11, LifecycleConstants
    DEF Lifecycle!CloseReleases, Lifecycle!client, Lifecycle!backends, Lifecycle!Goto,
        Lifecycle!Busy, Lifecycle!HandlerRuns
  <1>12. CASE Lifecycle!CloseOwnedPush
    BY <1>12, LifecycleConstants
    DEF Lifecycle!CloseOwnedPush, Lifecycle!client, Lifecycle!backends, Lifecycle!Goto,
        Lifecycle!Busy, Lifecycle!HandlerRuns
  <1>13. CASE Lifecycle!CloseLAN
    BY <1>13, LifecycleConstants
    DEF Lifecycle!CloseLAN, Lifecycle!client, Lifecycle!backends, Lifecycle!Goto,
        Lifecycle!Busy, Lifecycle!HandlerRuns
  <1>14. CASE Lifecycle!BrokerConnects
    BY <1>14, LifecycleConstants
    DEF Lifecycle!BrokerConnects, Lifecycle!ConnectionReports, Lifecycle!client, Lifecycle!Busy,
        Lifecycle!HandlerRuns
  <1>15. CASE Lifecycle!BrokerDisconnects
    BY <1>15, LifecycleConstants
    DEF Lifecycle!BrokerDisconnects, Lifecycle!ConnectionReports, Lifecycle!client,
        Lifecycle!Busy, Lifecycle!HandlerRuns
  <1>16. ASSUME NEW status \in BOOLEAN,
               Lifecycle!MonitorReports(status)
        PROVE  (~raced' => PushSeen')
    BY <1>16, LifecycleConstants
    DEF Lifecycle!MonitorReports, Lifecycle!client, Lifecycle!backends, Lifecycle!Goto,
        Lifecycle!Busy, Lifecycle!HandlerRuns
  <1>17. ASSUME NEW t \in Three, Lifecycle!NetworkUp(t) PROVE (~raced' => PushSeen')
    BY <1>17, LifecycleConstants
    DEF Lifecycle!NetworkUp, Lifecycle!client, Lifecycle!backends, Lifecycle!Goto,
        Lifecycle!Busy, Lifecycle!HandlerRuns
  <1>18. ASSUME NEW t \in Three, Lifecycle!EnsurePush(t) PROVE (~raced' => PushSeen')
    BY <1>18, LifecycleConstants
    DEF Lifecycle!EnsurePush, Lifecycle!client, Lifecycle!backends, Lifecycle!Goto,
        Lifecycle!Busy, Lifecycle!HandlerRuns
  <1>19. ASSUME NEW t \in Three, Lifecycle!StartPush(t) PROVE (~raced' => PushSeen')
    BY <1>19, LifecycleConstants
    DEF Lifecycle!StartPush, Lifecycle!client, Lifecycle!backends, Lifecycle!Goto,
        Lifecycle!Busy, Lifecycle!HandlerRuns
  <1>20. ASSUME NEW t \in Three, Lifecycle!NetworkDown(t) PROVE (~raced' => PushSeen')
    BY <1>20, LifecycleConstants
    DEF Lifecycle!NetworkDown, Lifecycle!Stopped, Lifecycle!client, Lifecycle!backends,
        Lifecycle!HandlerRuns, Lifecycle!Busy
  <1>21. ASSUME NEW t \in Three, Lifecycle!StopPush(t) PROVE (~raced' => PushSeen')
    BY <1>21, LifecycleConstants
    DEF Lifecycle!StopPush, Lifecycle!client, Lifecycle!backends, Lifecycle!Goto,
        Lifecycle!Busy, Lifecycle!HandlerRuns
  <1>22. ASSUME NEW t \in Three, Lifecycle!ClosePush(t) PROVE (~raced' => PushSeen')
    BY <1>22, LifecycleConstants
    DEF Lifecycle!ClosePush, Lifecycle!client, Lifecycle!backends, Lifecycle!Goto,
        Lifecycle!Busy, Lifecycle!HandlerRuns
  <1>23. ASSUME NEW t \in Three, Lifecycle!ConnectionLost(t) PROVE (~raced' => PushSeen')
    BY <1>23, LifecycleConstants
    DEF Lifecycle!ConnectionLost, Lifecycle!client, Lifecycle!backends, Lifecycle!Goto,
        Lifecycle!Busy, Lifecycle!HandlerRuns
  <1>24. ASSUME NEW t \in Three, Lifecycle!ConnectionMade(t) PROVE (~raced' => PushSeen')
    BY <1>24, LifecycleConstants
    DEF Lifecycle!ConnectionMade, Lifecycle!client, Lifecycle!backends, Lifecycle!Goto,
        Lifecycle!Busy, Lifecycle!HandlerRuns
  <1>25. ASSUME NEW t \in Timers, Lifecycle!TimerFires(t) PROVE (~raced' => PushSeen')
    BY <1>25, LifecycleConstants
    DEF Lifecycle!TimerFires, Lifecycle!client, Lifecycle!backends, Lifecycle!Goto,
        Lifecycle!Busy, Lifecycle!HandlerRuns
  <1>26. ASSUME NEW t \in Timers, Lifecycle!TimerReturns(t) PROVE (~raced' => PushSeen')
    BY <1>26, LifecycleConstants
    DEF Lifecycle!TimerReturns, Lifecycle!client, Lifecycle!backends, Lifecycle!Goto,
        Lifecycle!Busy, Lifecycle!HandlerRuns
  <1>27. ASSUME NEW t \in Timers, Lifecycle!RefreshSucceeds(t) PROVE (~raced' => PushSeen')
    BY <1>27, LifecycleConstants
    DEF Lifecycle!RefreshSucceeds, Lifecycle!client, Lifecycle!backends, Lifecycle!Goto,
        Lifecycle!Busy, Lifecycle!HandlerRuns
  <1>28. CASE UNCHANGED lifecycle
    BY <1>28
    DEF lifecycle, Lifecycle!HandlerRuns, Lifecycle!Busy
  <1>. HIDE DEF LifecycleInv, LifecycleTypes, FlagTypes, SlotTypes, StepTypes, Undisturbed,
                PushSeen, OneRuns, UserKnows, PushIsThere, Three, Steps, NetworkSteps,
                StartSteps, CloseSteps, Lifecycle!Goroutines
  <1>. QED
    BY <1>1, <1>2, <1>3, <1>4, <1>5, <1>6, <1>7, <1>8, <1>9, <1>10, <1>11, <1>12, <1>13, <1>14,
       <1>15, <1>16, <1>17, <1>18, <1>19, <1>20, <1>21, <1>22, <1>23, <1>24, <1>25, <1>26,
       <1>27, <1>28
    DEF Lifecycle!Next, Lifecycle!UserStep, Lifecycle!HandlerStep, Lifecycle!TimerStep, Three

LEMMA FirstLifeStep ==
  LifecycleInv /\ Undisturbed /\ [Lifecycle!Next]_lifecycle => (~raced' => FirstLife')
  <1>. SUFFICES ASSUME LifecycleInv, Undisturbed, [Lifecycle!Next]_lifecycle
                PROVE  (~raced' => FirstLife')
    OBVIOUS
  <1>. USE DEF LifecycleInv, LifecycleTypes, FlagTypes, SlotTypes, StepTypes, Undisturbed,
               FirstLife, PushSeen, NetworkSeen, OneRuns, UserKnows, PushIsThere, Resting,
               Three, Steps, NetworkSteps, StartSteps, CloseSteps, Lifecycle!Goroutines
  <1>1. ASSUME NEW t \in Three, Lifecycle!Schedule(t) PROVE (~raced' => FirstLife')
    <2>1. pc[t] = "schedule" /\ t \in Lifecycle!Goroutines
      BY <1>1, GoroutinesDiffer DEF Lifecycle!Schedule
    <2>2. PICK u \in Timers : Arms(t, u)
      BY <1>1, <2>1, Schedules DEF Lifecycle!Schedule
    <2>3. UNCHANGED <<started, ctx, starts, networkOnline, pushOn, callbacks, stateSub, network,
                      Lifecycle!backends, local, raced>>
      BY <1>1 DEF Lifecycle!Schedule
    <2>. QED
      BY <1>1, <2>1, <2>2, <2>3, GoroutinesDiffer, LifecycleConstants
      DEF Arms, Lifecycle!HandlerRuns, Lifecycle!Busy, Lifecycle!backends
  <1>2. ASSUME NEW t \in Timers, Lifecycle!RefreshFails(t) PROVE (~raced' => FirstLife')
    <2>1. /\ pc[t] = "refresh" /\ t \in Lifecycle!Goroutines
          /\ UNCHANGED <<started, ctx, starts, networkOnline, pushOn, callbacks, stateSub, network,
                         Lifecycle!backends, local, raced>>
      BY <1>2, GoroutinesDiffer DEF Lifecycle!RefreshFails
    <2>2. CASE networkOnline
      <3>1. PICK u \in Timers : Arms(t, u)
        BY <1>2, <2>1, <2>2, Schedules DEF Lifecycle!RefreshFails
      <3>. QED
        BY <1>2, <2>1, <3>1, GoroutinesDiffer, LifecycleConstants
        DEF Arms, Lifecycle!HandlerRuns, Lifecycle!Busy, Lifecycle!backends
    <2>3. CASE ~networkOnline
      BY <1>2, <2>1, <2>3, GoroutinesDiffer, LifecycleConstants
      DEF Lifecycle!HandlerRuns, Lifecycle!Busy, Lifecycle!RefreshFails, Lifecycle!Goto,
          Lifecycle!backends
    <2>. QED
      BY <2>2, <2>3
  <1>3. CASE Lifecycle!Start
    BY <1>3, LifecycleConstants
    DEF Lifecycle!Start, Lifecycle!Goto, Lifecycle!client, Lifecycle!backends,
        Lifecycle!HandlerRuns, Lifecycle!Busy
  <1>4. CASE Lifecycle!CloseTakes
    BY <1>4, LifecycleConstants
    DEF Lifecycle!CloseTakes, Lifecycle!Stopped, Lifecycle!Busy, Lifecycle!HandlerRuns,
        Lifecycle!client, Lifecycle!backends
  <1>5. CASE Lifecycle!StartSubscribes
    BY <1>5, LifecycleConstants
    DEF Lifecycle!StartSubscribes, Lifecycle!client, Lifecycle!backends, Lifecycle!Goto,
        Lifecycle!Busy, Lifecycle!HandlerRuns
  <1>6. CASE Lifecycle!StartRoutes
    BY <1>6, LifecycleConstants
    DEF Lifecycle!StartRoutes, Lifecycle!client, Lifecycle!backends, Lifecycle!Goto,
        Lifecycle!Busy, Lifecycle!HandlerRuns
  <1>7. CASE Lifecycle!StartLAN
    BY <1>7, LifecycleConstants
    DEF Lifecycle!StartLAN, Lifecycle!client, Lifecycle!backends, Lifecycle!Goto,
        Lifecycle!Busy, Lifecycle!HandlerRuns
  <1>8. CASE Lifecycle!StartReadsStatus
    BY <1>8, LifecycleConstants
    DEF Lifecycle!StartReadsStatus, Lifecycle!client, Lifecycle!backends, Lifecycle!Goto,
        Lifecycle!Busy, Lifecycle!HandlerRuns
  <1>9. CASE Lifecycle!rollbackStart
    BY <1>9, LifecycleConstants
    DEF Lifecycle!rollbackStart, Lifecycle!Goto, Lifecycle!client, Lifecycle!backends,
        Lifecycle!HandlerRuns, Lifecycle!Busy
  <1>10. CASE Lifecycle!RollbackReleases
    BY <1>10, LifecycleConstants
    DEF Lifecycle!RollbackReleases, Lifecycle!client, Lifecycle!backends, Lifecycle!Goto,
        Lifecycle!Busy, Lifecycle!HandlerRuns
  <1>11. CASE Lifecycle!CloseReleases
    BY <1>11, LifecycleConstants
    DEF Lifecycle!CloseReleases, Lifecycle!client, Lifecycle!backends, Lifecycle!Goto,
        Lifecycle!Busy, Lifecycle!HandlerRuns
  <1>12. CASE Lifecycle!CloseOwnedPush
    BY <1>12, LifecycleConstants
    DEF Lifecycle!CloseOwnedPush, Lifecycle!client, Lifecycle!backends, Lifecycle!Goto,
        Lifecycle!Busy, Lifecycle!HandlerRuns
  <1>13. CASE Lifecycle!CloseLAN
    BY <1>13, LifecycleConstants
    DEF Lifecycle!CloseLAN, Lifecycle!client, Lifecycle!backends, Lifecycle!Goto,
        Lifecycle!Busy, Lifecycle!HandlerRuns
  <1>14. CASE Lifecycle!BrokerConnects
    BY <1>14, LifecycleConstants
    DEF Lifecycle!BrokerConnects, Lifecycle!ConnectionReports, Lifecycle!client, Lifecycle!Busy,
        Lifecycle!HandlerRuns
  <1>15. CASE Lifecycle!BrokerDisconnects
    BY <1>15, LifecycleConstants
    DEF Lifecycle!BrokerDisconnects, Lifecycle!ConnectionReports, Lifecycle!client,
        Lifecycle!Busy, Lifecycle!HandlerRuns
  <1>16. ASSUME NEW status \in BOOLEAN,
               Lifecycle!MonitorReports(status)
        PROVE  (~raced' => FirstLife')
    BY <1>16, LifecycleConstants
    DEF Lifecycle!MonitorReports, Lifecycle!client, Lifecycle!backends, Lifecycle!Goto,
        Lifecycle!Busy, Lifecycle!HandlerRuns
  <1>17. ASSUME NEW t \in Three, Lifecycle!NetworkUp(t) PROVE (~raced' => FirstLife')
    BY <1>17, LifecycleConstants
    DEF Lifecycle!NetworkUp, Lifecycle!client, Lifecycle!backends, Lifecycle!Goto,
        Lifecycle!Busy, Lifecycle!HandlerRuns
  <1>18. ASSUME NEW t \in Three, Lifecycle!EnsurePush(t) PROVE (~raced' => FirstLife')
    BY <1>18, LifecycleConstants
    DEF Lifecycle!EnsurePush, Lifecycle!client, Lifecycle!backends, Lifecycle!Goto,
        Lifecycle!Busy, Lifecycle!HandlerRuns
  <1>19. ASSUME NEW t \in Three, Lifecycle!StartPush(t) PROVE (~raced' => FirstLife')
    BY <1>19, LifecycleConstants
    DEF Lifecycle!StartPush, Lifecycle!client, Lifecycle!backends, Lifecycle!Goto,
        Lifecycle!Busy, Lifecycle!HandlerRuns
  <1>20. ASSUME NEW t \in Three, Lifecycle!NetworkDown(t) PROVE (~raced' => FirstLife')
    BY <1>20, LifecycleConstants
    DEF Lifecycle!NetworkDown, Lifecycle!Stopped, Lifecycle!client, Lifecycle!backends,
        Lifecycle!HandlerRuns, Lifecycle!Busy
  <1>21. ASSUME NEW t \in Three, Lifecycle!StopPush(t) PROVE (~raced' => FirstLife')
    BY <1>21, LifecycleConstants
    DEF Lifecycle!StopPush, Lifecycle!client, Lifecycle!backends, Lifecycle!Goto,
        Lifecycle!Busy, Lifecycle!HandlerRuns
  <1>22. ASSUME NEW t \in Three, Lifecycle!ClosePush(t) PROVE (~raced' => FirstLife')
    BY <1>22, LifecycleConstants
    DEF Lifecycle!ClosePush, Lifecycle!client, Lifecycle!backends, Lifecycle!Goto,
        Lifecycle!Busy, Lifecycle!HandlerRuns
  <1>23. ASSUME NEW t \in Three, Lifecycle!ConnectionLost(t) PROVE (~raced' => FirstLife')
    BY <1>23, LifecycleConstants
    DEF Lifecycle!ConnectionLost, Lifecycle!client, Lifecycle!backends, Lifecycle!Goto,
        Lifecycle!Busy, Lifecycle!HandlerRuns
  <1>24. ASSUME NEW t \in Three, Lifecycle!ConnectionMade(t) PROVE (~raced' => FirstLife')
    BY <1>24, LifecycleConstants
    DEF Lifecycle!ConnectionMade, Lifecycle!client, Lifecycle!backends, Lifecycle!Goto,
        Lifecycle!Busy, Lifecycle!HandlerRuns
  <1>25. ASSUME NEW t \in Timers, Lifecycle!TimerFires(t) PROVE (~raced' => FirstLife')
    BY <1>25, LifecycleConstants
    DEF Lifecycle!TimerFires, Lifecycle!client, Lifecycle!backends, Lifecycle!Goto,
        Lifecycle!Busy, Lifecycle!HandlerRuns
  <1>26. ASSUME NEW t \in Timers, Lifecycle!TimerReturns(t) PROVE (~raced' => FirstLife')
    BY <1>26, LifecycleConstants
    DEF Lifecycle!TimerReturns, Lifecycle!client, Lifecycle!backends, Lifecycle!Goto,
        Lifecycle!Busy, Lifecycle!HandlerRuns
  <1>27. ASSUME NEW t \in Timers, Lifecycle!RefreshSucceeds(t) PROVE (~raced' => FirstLife')
    BY <1>27, LifecycleConstants
    DEF Lifecycle!RefreshSucceeds, Lifecycle!client, Lifecycle!backends, Lifecycle!Goto,
        Lifecycle!Busy, Lifecycle!HandlerRuns
  <1>28. CASE UNCHANGED lifecycle
    BY <1>28
    DEF lifecycle, Lifecycle!HandlerRuns, Lifecycle!Busy
  <1>. HIDE DEF LifecycleInv, LifecycleTypes, FlagTypes, SlotTypes, StepTypes, Undisturbed,
                FirstLife, PushSeen, NetworkSeen, OneRuns, UserKnows, PushIsThere, Resting,
                Three, Steps, NetworkSteps, StartSteps, CloseSteps, Lifecycle!Goroutines
  <1>. QED
    BY <1>1, <1>2, <1>3, <1>4, <1>5, <1>6, <1>7, <1>8, <1>9, <1>10, <1>11, <1>12, <1>13, <1>14,
       <1>15, <1>16, <1>17, <1>18, <1>19, <1>20, <1>21, <1>22, <1>23, <1>24, <1>25, <1>26,
       <1>27, <1>28
    DEF Lifecycle!Next, Lifecycle!UserStep, Lifecycle!HandlerStep, Lifecycle!TimerStep, Three

LEMMA RacedStays ==
  [Lifecycle!Next]_lifecycle => (~raced' => ~raced)
  <1>. SUFFICES ASSUME [Lifecycle!Next]_lifecycle PROVE (~raced' => ~raced)
    OBVIOUS
  <1>1. CASE Lifecycle!Start \/ Lifecycle!CloseTakes \/ Lifecycle!StartSubscribes \/
             Lifecycle!StartRoutes
    BY <1>1
    DEF Lifecycle!Start, Lifecycle!CloseTakes, Lifecycle!StartSubscribes, Lifecycle!StartRoutes
  <1>2. CASE Lifecycle!StartLAN \/ Lifecycle!StartReadsStatus \/ Lifecycle!rollbackStart \/
             Lifecycle!RollbackReleases
    BY <1>2
    DEF Lifecycle!StartLAN, Lifecycle!StartReadsStatus, Lifecycle!rollbackStart,
        Lifecycle!RollbackReleases
  <1>3. CASE Lifecycle!CloseReleases \/ Lifecycle!CloseOwnedPush \/ Lifecycle!CloseLAN \/
             Lifecycle!BrokerConnects
    BY <1>3
    DEF Lifecycle!CloseReleases, Lifecycle!CloseOwnedPush, Lifecycle!CloseLAN,
        Lifecycle!BrokerConnects, Lifecycle!ConnectionReports
  <1>4. CASE Lifecycle!BrokerDisconnects
    BY <1>4
    DEF Lifecycle!BrokerDisconnects, Lifecycle!ConnectionReports
  <1>5. ASSUME NEW status \in BOOLEAN,
               Lifecycle!MonitorReports(status)
        PROVE  (~raced' => ~raced)
    BY <1>5
    DEF Lifecycle!MonitorReports
  <1>6. ASSUME NEW t \in Three,
               Lifecycle!NetworkUp(t) \/ Lifecycle!EnsurePush(t) \/ Lifecycle!StartPush(t) \/
               Lifecycle!Schedule(t)
        PROVE  (~raced' => ~raced)
    BY <1>6
    DEF Lifecycle!NetworkUp, Lifecycle!EnsurePush, Lifecycle!StartPush, Lifecycle!Schedule
  <1>7. ASSUME NEW t \in Three,
               Lifecycle!NetworkDown(t) \/ Lifecycle!StopPush(t) \/ Lifecycle!ClosePush(t) \/
               Lifecycle!ConnectionLost(t)
        PROVE  (~raced' => ~raced)
    BY <1>7
    DEF Lifecycle!NetworkDown, Lifecycle!StopPush, Lifecycle!ClosePush, Lifecycle!ConnectionLost
  <1>8. ASSUME NEW t \in Three, Lifecycle!ConnectionMade(t) PROVE (~raced' => ~raced)
    BY <1>8
    DEF Lifecycle!ConnectionMade
  <1>9. ASSUME NEW t \in Timers,
               Lifecycle!TimerFires(t) \/ Lifecycle!TimerReturns(t) \/
               Lifecycle!RefreshSucceeds(t) \/ Lifecycle!RefreshFails(t)
        PROVE  (~raced' => ~raced)
    BY <1>9
    DEF Lifecycle!TimerFires, Lifecycle!TimerReturns, Lifecycle!RefreshSucceeds,
        Lifecycle!RefreshFails
  <1>10. CASE UNCHANGED lifecycle
    BY <1>10
    DEF lifecycle
  <1>. QED
    BY <1>1, <1>2, <1>3, <1>4, <1>5, <1>6, <1>7, <1>8, <1>9, <1>10
    DEF Lifecycle!Next, Lifecycle!UserStep, Lifecycle!HandlerStep, Lifecycle!TimerStep, Three

-----------------------------------------------------------------------------
(* The client *)

LEMMA LifecycleStep == LifecycleInv /\ [Lifecycle!Next]_lifecycle => LifecycleInv'
<1>. SUFFICES ASSUME LifecycleInv, [Lifecycle!Next]_lifecycle PROVE LifecycleInv'
  OBVIOUS
<1>1. LifecycleTypes'
  BY FlagTypesStep, SlotTypesStep, StepTypesStep DEF LifecycleTypes
<1>2. UserKnows' /\ PushIsThere' /\ TimerIsHeld'
  BY UserKnowsStep, PushIsThereStep, TimerIsHeldStep
<1>3. ASSUME ~raced' PROVE Undisturbed'
  <2>1. Undisturbed
    BY <1>3, RacedStays DEF LifecycleInv
  <2>. QED
    BY <1>3, <2>1, NeverPanics, ContextsStep, OneRunsStep, RestingStep, NetworkSeenStep,
       PushSeenStep, FirstLifeStep
    DEF Undisturbed
<1>. QED
  BY <1>1, <1>2, <1>3 DEF LifecycleInv

-----------------------------------------------------------------------------
(* The push subscriptions *)

BindingSteps == {"idle", "list", "next", "close", "forget", "subscribe", "commit"}
Backed == [sub : Bindings, source : Pushers]
Works == [pc : BindingSteps, todo : SUBSET Bindings, sub : Bindings \cup {None},
          src : Pushers \cup {NoPusher}, handle : Handles \cup {None}]

BindingTypes ==
  /\ pushSource \in Pushers \cup {NoPusher}
  /\ phase \in [Bindings -> {"new", "making", "open", "closed"}]
  /\ rec \in [Bindings -> [source : Pushers \cup {NoPusher}, active : Handles \cup {None}]]
  /\ live \in [Handles -> Backed \cup {None}]
  /\ binds \in [Binders -> Works]
  /\ {ended, crashed} \subseteq BOOLEAN /\ rebound \subseteq Bindings /\ refused \subseteq Bindings

Serves(h, s) == live[h] # None /\ live[h].sub = s
AtWork(t, s) == binds[t].pc \in {"close", "forget", "subscribe", "commit"} /\ binds[t].sub = s
Planned(t, s) == s \in binds[t].todo

\* A goroutine that has no rebind to make has none planned; one that makes a rebind knows of what.
BindersKnow ==
  \A t \in Binders :
    /\ binds[t].pc \in {"idle", "list"} => binds[t].todo = {}
    /\ binds[t].pc \in {"close", "forget", "subscribe", "commit"} => binds[t].sub \in Bindings

\* A subscription that is not made yet, or was closed, is not bound by anyone.
OnlyRegistered ==
  \A s \in Bindings :
    /\ phase[s] = "new" => s \notin rebound
    /\ phase[s] = "new" \/ (phase[s] = "closed" /\ s \notin rebound) =>
         \A t \in Binders : ~AtWork(t, s) /\ ~Planned(t, s)

OneAtATime ==
  \A s \in Bindings \ rebound : \A t, u \in Binders : AtWork(t, s) /\ AtWork(u, s) => t = u

\* Between rebinds the backend subscription recorded is the only one, at the source recorded.
RestingIsBound ==
  \A s \in Bindings \ rebound : (\A t \in Binders : ~AtWork(t, s)) /\ phase[s] # "closed" =>
    /\ \A h \in Handles : Serves(h, s) <=> h = rec[s].active
    /\ \A h \in Handles : Serves(h, s) => live[h].source = rec[s].source
    /\ rec[s].source # NoPusher /\ s \notin refused => rec[s].active # None

ClosedIsFree ==
  \A s \in Bindings \ rebound : phase[s] = "closed" => \A h \in Handles : ~Serves(h, s)

\* During a rebind the old backend subscription is closed before the new one is made.
RebindIsOrderly ==
  \A s \in Bindings \ rebound, t \in Binders : AtWork(t, s) =>
    /\ binds[t].pc = "close" =>
         rec[s].active # None /\ \A h \in Handles : Serves(h, s) <=> h = rec[s].active
    /\ binds[t].pc \in {"forget", "subscribe"} => \A h \in Handles : ~Serves(h, s)
    /\ binds[t].pc \in {"subscribe", "commit"} => rec[s].active = None
    /\ binds[t].pc = "commit" =>
         /\ \A h \in Handles : Serves(h, s) <=> h = binds[t].handle
         /\ \A h \in Handles : Serves(h, s) => live[h].source = binds[t].src
         /\ binds[t].src # NoPusher /\ s \notin refused => binds[t].handle # None

\* The source a subscription is bound to, or is about to be, is the current one, unless a goroutine
\* has still to bind it again.
Expected(s, src) == src = pushSource \/ \E t \in Binders : binds[t].pc = "list" \/ Planned(t, s)
SourceIsFollowed ==
  \A s \in Bindings \ rebound : phase[s] \in {"making", "open"} =>
    /\ (\A t \in Binders : ~AtWork(t, s)) => Expected(s, rec[s].source)
    /\ \A t \in Binders : AtWork(t, s) => Expected(s, binds[t].src)

OnlyReboundCrash == crashed => rebound # {}

BindingInv ==
  /\ BindingTypes /\ BindersKnow /\ OnlyRegistered /\ OneAtATime /\ RestingIsBound /\ ClosedIsFree
  /\ RebindIsOrderly /\ SourceIsFollowed /\ OnlyReboundCrash
LEMMA BindingStarts == Binding!Init => BindingInv
  <1>. SUFFICES ASSUME Binding!Init PROVE BindingInv
    OBVIOUS
  <1>1. Binding!Quiet \in Works /\ {FALSE} \subseteq BOOLEAN
    BY DEF Binding!Quiet, Works, BindingSteps
  <1>2. BindingTypes
    BY <1>1 DEF Binding!Init, BindingTypes
  <1>3. \A t \in Binders : binds[t].pc = "idle" /\ binds[t].todo = {}
    BY DEF Binding!Init, Binding!Quiet
  <1>. QED
    BY <1>2, <1>3, BindingConstants
    DEF Binding!Init, BindingInv, BindersKnow, OnlyRegistered, OneAtATime, RestingIsBound,
        ClosedIsFree, RebindIsOrderly, SourceIsFollowed, OnlyReboundCrash, Serves, AtWork, Planned,
        Expected, BindingConstants

\* What closing the old backend subscription does: whatever else serves goes on.
LEMMA CloseOldReleases ==
  ASSUME BindingTypes, BindersKnow, NEW t \in Binders, Binding!CloseOld(t)
  PROVE  /\ UNCHANGED <<pushSource, phase, rec, ended, rebound, refused>>
         /\ binds[t].pc = "close" /\ binds[t].sub \in Bindings
         /\ binds'[t].pc = "forget" /\ binds'[t].sub = binds[t].sub /\ binds'[t].todo = binds[t].todo
         /\ \A u \in Binders \ {t} : binds'[u] = binds[u]
         /\ \A h \in Handles, s \in Bindings :
              /\ Serves(h, s)' <=> Serves(h, s) /\ ~(s = binds[t].sub /\ h = rec[s].active)
              /\ Serves(h, s)' => live'[h].source = live[h].source
  <1>1. /\ binds[t].pc = "close" /\ binds' = [binds EXCEPT ![t].pc = "forget"]
        /\ UNCHANGED <<pushSource, phase, rec, ended, rebound, refused>>
    BY DEF Binding!CloseOld
  <1>2. binds[t].sub \in Bindings
    BY <1>1 DEF BindersKnow
  <1>3. /\ binds'[t].pc = "forget" /\ binds'[t].sub = binds[t].sub /\ binds'[t].todo = binds[t].todo
        /\ \A u \in Binders \ {t} : binds'[u] = binds[u]
    BY <1>1 DEF BindingTypes, Works
  <1>4. live' = Binding!Release(rec[binds[t].sub].active, binds[t].sub)
    BY DEF Binding!CloseOld
  <1>5. \A h \in Handles :
          live'[h] = IF Serves(h, binds[t].sub) /\ h = rec[binds[t].sub].active THEN None ELSE live[h]
    BY <1>4 DEF Binding!Release, Binding!HandleOf, Serves, BindingTypes
  <1>6. \A h \in Handles, s \in Bindings :
          /\ Serves(h, s)' <=> Serves(h, s) /\ ~(s = binds[t].sub /\ h = rec[s].active)
          /\ Serves(h, s)' => live'[h].source = live[h].source
    <2>. SUFFICES ASSUME NEW h \in Handles, NEW s \in Bindings
                  PROVE  /\ Serves(h, s)' <=> Serves(h, s) /\ ~(s = binds[t].sub /\ h = rec[s].active)
                         /\ Serves(h, s)' => live'[h].source = live[h].source
      OBVIOUS
    <2>1. CASE Serves(h, binds[t].sub) /\ h = rec[binds[t].sub].active
      BY <1>5, <2>1 DEF Serves
    <2>2. CASE ~(Serves(h, binds[t].sub) /\ h = rec[binds[t].sub].active)
      BY <1>5, <2>2 DEF Serves
    <2>. QED
      BY <2>1, <2>2
  <1>. QED
    BY <1>1, <1>2, <1>3, <1>6

\* What beginning with the next subscription does: t is at work on s alone, or passes over it.
LEMMA ReadSourceBegins ==
  ASSUME BindingTypes, NEW t \in Binders, NEW s \in Bindings, Binding!ReadSource(t, s)
  PROVE  /\ UNCHANGED <<pushSource, phase, rec, live, ended, refused, crashed>>
         /\ binds[t].pc = "next" /\ s \in binds[t].todo
         /\ binds'[t].todo = binds[t].todo \ {s} /\ binds'[t].sub = s
         /\ binds'[t].src = pushSource /\ binds'[t].handle = None
         /\ binds'[t].pc = IF rec[s].source = pushSource THEN "next"
                           ELSE IF rec[s].active = None THEN "subscribe" ELSE "close"
         /\ \A u \in Binders \ {t} : binds'[u] = binds[u]
         /\ rebound \subseteq rebound'
         /\ \A u \in Binders : AtWork(u, s) => s \in rebound'
  <1>. DEFINE w == [binds[t] EXCEPT
         !.todo = @ \ {s}, !.sub = s, !.src = pushSource, !.handle = None,
         !.pc = IF rec[s].source = pushSource THEN "next"
                ELSE IF rec[s].active = None THEN "subscribe" ELSE "close"]
  <1>1. binds' = [binds EXCEPT ![t] = w]
    BY DEF Binding!ReadSource, BindingTypes
  <1>2. /\ w.todo = binds[t].todo \ {s} /\ w.sub = s /\ w.src = pushSource /\ w.handle = None
        /\ w.pc = IF rec[s].source = pushSource THEN "next"
                  ELSE IF rec[s].active = None THEN "subscribe" ELSE "close"
    BY DEF BindingTypes, Works
  <1>3. \A u \in Binders : AtWork(u, s) => s \in Binding!RebindingNow
    BY DEF AtWork, Binding!RebindingNow, Binding!Rebinding
  <1>4. rebound \subseteq rebound' /\ \A u \in Binders : AtWork(u, s) => s \in rebound'
    BY <1>3 DEF Binding!ReadSource
  <1>5. /\ UNCHANGED <<pushSource, phase, rec, live, ended, refused, crashed>>
        /\ binds[t].pc = "next" /\ s \in binds[t].todo
    BY DEF Binding!ReadSource
  <1>. HIDE DEF w
  <1>6. binds'[t] = w /\ \A u \in Binders \ {t} : binds'[u] = binds[u]
    BY <1>1 DEF BindingTypes
  <1>. QED
    BY <1>2, <1>4, <1>5, <1>6

LEMMA BindingTypeStep ==
  BindingTypes /\ BindersKnow /\ [Binding!Next]_binding => BindingTypes'
  <1>. SUFFICES ASSUME BindingTypes, BindersKnow, [Binding!Next]_binding PROVE BindingTypes'
    OBVIOUS
  <1>1. ASSUME NEW t \in Binders, NEW new \in Pushers \cup {NoPusher},
               Binding!PushSourceChanged(t, new)
        PROVE  BindingTypes'
    <2>. DEFINE w == [binds[t] EXCEPT !.pc = "list"]
    <2>1. w \in Works
      BY ZenonT(60) DEF BindingTypes, Works, BindingSteps
    <2>2. binds' = [binds EXCEPT ![t] = w]
      BY <1>1 DEF Binding!PushSourceChanged, BindingTypes
    <2>3. UNCHANGED <<phase, rec, live, ended, rebound, refused, crashed>>
      BY <1>1 DEF Binding!PushSourceChanged
    <2>. HIDE DEF w
    <2>4. pushSource' \in Pushers \cup {NoPusher}
      BY <1>1 DEF Binding!PushSourceChanged
    <2>. QED
      BY <2>1, <2>2, <2>3, <2>4 DEF BindingTypes
  <1>2. ASSUME NEW t \in Binders, NEW s \in Bindings,
               Binding!Subscribe(t, s)
        PROVE  BindingTypes'
    <2>. DEFINE w == [binds[t] EXCEPT !.pc = "next", !.todo = {s}]
    <2>1. w \in Works
      BY <1>2, BindingConstants, ZenonT(60)
      DEF BindingTypes, BindersKnow, Works, BindingSteps, BindingConstants, Binding!Subscribe
    <2>2. binds' = [binds EXCEPT ![t] = w]
      BY <1>2 DEF Binding!Subscribe, BindingTypes
    <2>3. UNCHANGED <<pushSource, rec, live, ended, rebound, refused, crashed>>
      BY <1>2 DEF Binding!Subscribe
    <2>. HIDE DEF w
    <2>4. phase' = [phase EXCEPT ![s] = "making"]
      BY <1>2 DEF Binding!Subscribe
    <2>. QED
      BY <2>1, <2>2, <2>3, <2>4 DEF BindingTypes
  <1>3. ASSUME NEW t \in Binders, Binding!rebindSubscriptionsForDevice(t) PROVE BindingTypes'
    <2>. DEFINE w == [binds[t] EXCEPT !.pc = "next", !.todo = Binding!Registered]
    <2>1. w \in Works
      BY <1>3, BindingConstants, ZenonT(60)
      DEF BindingTypes, BindersKnow, Works, BindingSteps, BindingConstants,
          Binding!rebindSubscriptionsForDevice, Binding!Registered
    <2>2. binds' = [binds EXCEPT ![t] = w]
      BY <1>3 DEF Binding!rebindSubscriptionsForDevice, BindingTypes
    <2>3. UNCHANGED <<pushSource, phase, rec, live, ended, rebound, refused, crashed>>
      BY <1>3 DEF Binding!rebindSubscriptionsForDevice
    <2>. HIDE DEF w
    <2>. QED
      BY <2>1, <2>2, <2>3 DEF BindingTypes
  <1>4. ASSUME NEW t \in Binders, Binding!Return(t) PROVE BindingTypes'
    <2>1. binds' = [binds EXCEPT ![t] = Binding!Quiet] /\ Binding!Quiet \in Works
      BY <1>4 DEF Binding!Return, Binding!Quiet, Works, BindingSteps
    <2>2. phase' \in [Bindings -> {"new", "making", "open", "closed"}]
      BY <1>4 DEF Binding!Return, BindingTypes
    <2>3. UNCHANGED <<pushSource, rec, live, ended, rebound, refused, crashed>>
      BY <1>4 DEF Binding!Return
    <2>. QED
      BY <2>1, <2>2, <2>3 DEF BindingTypes
  <1>5. ASSUME NEW t \in Binders, NEW s \in Bindings,
               Binding!ReadSource(t, s)
        PROVE  BindingTypes'
    <2>. DEFINE then == IF rec[s].source = pushSource THEN "next"
                        ELSE IF rec[s].active = None THEN "subscribe" ELSE "close"
                w == [binds[t] EXCEPT !.todo = binds[t].todo \ {s}, !.sub = s, !.src = pushSource,
                                      !.handle = None, !.pc = then]
    <2>1. w \in Works
      BY ZenonT(60) DEF BindingTypes, Works, BindingSteps
    <2>2. binds' = [binds EXCEPT ![t] = w]
      BY <1>5 DEF Binding!ReadSource, BindingTypes
    <2>3. UNCHANGED <<pushSource, phase, rec, live, ended, refused, crashed>>
      BY <1>5 DEF Binding!ReadSource
    <2>4. rebound' \subseteq Bindings
      BY <1>5 DEF Binding!ReadSource, BindingTypes
    <2>. HIDE DEF w
    <2>. QED
      BY <2>1, <2>2, <2>3, <2>4 DEF BindingTypes
  <1>6. ASSUME NEW t \in Binders, Binding!CloseOld(t) PROVE BindingTypes'
    <2>. DEFINE w == [binds[t] EXCEPT !.pc = "forget"]
    <2>1. w \in Works
      BY ZenonT(60) DEF BindingTypes, Works, BindingSteps
    <2>2. binds' = [binds EXCEPT ![t] = w]
      BY <1>6 DEF Binding!CloseOld, BindingTypes
    <2>3. UNCHANGED <<pushSource, phase, rec, ended, rebound, refused>>
      BY <1>6 DEF Binding!CloseOld
    <2>. HIDE DEF w
    <2>4. live' \in [Handles -> Backed \cup {None}] /\ {crashed'} \subseteq BOOLEAN
      BY <1>6 DEF Binding!CloseOld, Binding!Release, BindingTypes
    <2>. QED
      BY <2>1, <2>2, <2>3, <2>4 DEF BindingTypes
  <1>7. ASSUME NEW t \in Binders, Binding!ForgetOld(t) PROVE BindingTypes'
    <2>. DEFINE w == [binds[t] EXCEPT !.pc = "subscribe"]
    <2>1. w \in Works
      BY ZenonT(60) DEF BindingTypes, Works, BindingSteps
    <2>2. binds' = [binds EXCEPT ![t] = w]
      BY <1>7 DEF Binding!ForgetOld, BindingTypes
    <2>3. UNCHANGED <<pushSource, phase, live, ended, rebound, refused, crashed>>
      BY <1>7 DEF Binding!ForgetOld
    <2>. HIDE DEF w
    <2>4. rec' \in [Bindings -> [source : Pushers \cup {NoPusher}, active : Handles \cup {None}]]
      BY <1>7 DEF Binding!ForgetOld, BindingTypes
    <2>. QED
      BY <2>1, <2>2, <2>3, <2>4 DEF BindingTypes
  <1>8. ASSUME NEW t \in Binders, Binding!SubscribeFromSource(t) PROVE BindingTypes'
    <2>1. PICK h \in Handles \cup {None} :
            /\ binds' = [binds EXCEPT ![t] = [binds[t] EXCEPT !.pc = "commit", !.handle = h]]
            /\ \/ live' = live
               \/ /\ binds[t].src # NoPusher /\ h \in Handles
                  /\ live' = [live EXCEPT ![h] = [sub |-> binds[t].sub, source |-> binds[t].src]]
      BY <1>8 DEF Binding!SubscribeFromSource, BindingTypes
    <2>2. [binds[t] EXCEPT !.pc = "commit", !.handle = h] \in Works
      BY DEF BindingTypes, Works, BindingSteps
    <2>3. binds[t].sub \in Bindings /\ binds[t].src \in Pushers \cup {NoPusher}
      BY <1>8 DEF Binding!SubscribeFromSource, BindersKnow, BindingTypes, Works
    <2>4. live' \in [Handles -> Backed \cup {None}]
      BY <2>1, <2>3 DEF BindingTypes, Backed
    <2>5. UNCHANGED <<pushSource, phase, rec, ended, rebound, crashed>> /\ refused' \subseteq Bindings
      BY <1>8, <2>3 DEF Binding!SubscribeFromSource, BindingTypes
    <2>. QED
      BY <2>1, <2>2, <2>4, <2>5 DEF BindingTypes
  <1>9. ASSUME NEW t \in Binders, Binding!Commit(t) PROVE BindingTypes'
    <2>. DEFINE w == [binds[t] EXCEPT !.pc = "next"]
    <2>1. w \in Works
      BY ZenonT(60) DEF BindingTypes, Works, BindingSteps
    <2>2. binds' = [binds EXCEPT ![t] = w]
      BY <1>9 DEF Binding!Commit, BindingTypes
    <2>3. UNCHANGED <<pushSource, phase, live, ended, rebound, refused, crashed>>
      BY <1>9 DEF Binding!Commit
    <2>. HIDE DEF w
    <2>4. rec' \in [Bindings -> [source : Pushers \cup {NoPusher}, active : Handles \cup {None}]]
      BY <1>9 DEF Binding!Commit, BindingTypes, Works
    <2>. QED
      BY <2>1, <2>2, <2>3, <2>4 DEF BindingTypes
  <1>10. ASSUME NEW s \in Bindings, Binding!Unsubscribe(s) PROVE BindingTypes'
    BY <1>10, BindingConstants
    DEF Binding!Unsubscribe, Binding!Release, Binding!HandleOf, Binding!Rebinding,
        Binding!RebindingNow, BindingTypes, BindingSteps, Works, Backed, BindersKnow,
        BindingConstants
  <1>11. CASE Binding!CloseClient
    BY <1>11, BindingConstants
    DEF Binding!CloseClient, Binding!Rebinding, Binding!RebindingNow, Binding!Registered,
        Binding!HandleOf, BindingTypes, BindingSteps, Works, Backed, BindersKnow,
        BindingConstants
  <1>12. CASE UNCHANGED binding
    BY <1>12
    DEF binding, BindingTypes, BindingSteps, Works, Backed, BindersKnow, BindingConstants
  <1>. QED
    BY <1>1, <1>2, <1>3, <1>4, <1>5, <1>6, <1>7, <1>8, <1>9, <1>10, <1>11, <1>12
    DEF Binding!Next, Binding!Step

LEMMA BindersStep ==
  BindingTypes /\ BindersKnow /\ [Binding!Next]_binding => BindersKnow'
  <1>. SUFFICES ASSUME BindingTypes, BindersKnow, [Binding!Next]_binding PROVE BindersKnow'
    OBVIOUS
  <1>1. ASSUME NEW t \in Binders, NEW new \in Pushers \cup {NoPusher},
               Binding!PushSourceChanged(t, new)
        PROVE  BindersKnow'
    BY <1>1, BindingConstants
    DEF Binding!PushSourceChanged, BindingTypes, BindingSteps, Works, Backed, BindersKnow,
        BindingConstants
  <1>2. ASSUME NEW t \in Binders, NEW s \in Bindings, Binding!Subscribe(t, s) PROVE BindersKnow'
    BY <1>2, BindingConstants
    DEF Binding!Subscribe, BindingTypes, BindingSteps, Works, Backed, BindersKnow,
        BindingConstants
  <1>3. ASSUME NEW t \in Binders, NEW s \in Bindings,
               Binding!ReadSource(t, s)
        PROVE  BindersKnow'
    BY <1>3, BindingConstants
    DEF Binding!ReadSource, Binding!Rebinding, Binding!RebindingNow, BindingTypes, BindingSteps,
        Works, Backed, BindersKnow, BindingConstants
  <1>4. ASSUME NEW t \in Binders, Binding!rebindSubscriptionsForDevice(t) PROVE BindersKnow'
    BY <1>4, BindingConstants
    DEF Binding!rebindSubscriptionsForDevice, Binding!Registered, BindingTypes, BindingSteps,
        Works, Backed, BindersKnow, BindingConstants
  <1>5. ASSUME NEW t \in Binders, Binding!Return(t) PROVE BindersKnow'
    BY <1>5, BindingConstants
    DEF Binding!Return, Binding!Quiet, BindingTypes, BindingSteps, Works, Backed, BindersKnow,
        BindingConstants
  <1>6. ASSUME NEW t \in Binders, Binding!CloseOld(t) PROVE BindersKnow'
    BY <1>6, BindingConstants
    DEF Binding!CloseOld, Binding!Release, Binding!HandleOf, BindingTypes, BindingSteps, Works,
        Backed, BindersKnow, BindingConstants
  <1>7. ASSUME NEW t \in Binders, Binding!ForgetOld(t) PROVE BindersKnow'
    BY <1>7, BindingConstants
    DEF Binding!ForgetOld, BindingTypes, BindingSteps, Works, Backed, BindersKnow,
        BindingConstants
  <1>8. ASSUME NEW t \in Binders, Binding!SubscribeFromSource(t) PROVE BindersKnow'
    BY <1>8, BindingConstants
    DEF Binding!SubscribeFromSource, BindingTypes, BindingSteps, Works, Backed, BindersKnow,
        BindingConstants
  <1>9. ASSUME NEW t \in Binders, Binding!Commit(t) PROVE BindersKnow'
    BY <1>9, BindingConstants
    DEF Binding!Commit, BindingTypes, BindingSteps, Works, Backed, BindersKnow, BindingConstants
  <1>10. ASSUME NEW s \in Bindings, Binding!Unsubscribe(s) PROVE BindersKnow'
    BY <1>10, BindingConstants
    DEF Binding!Unsubscribe, Binding!Release, Binding!HandleOf, Binding!Rebinding,
        Binding!RebindingNow, BindingTypes, BindingSteps, Works, Backed, BindersKnow,
        BindingConstants
  <1>11. CASE Binding!CloseClient
    BY <1>11, BindingConstants
    DEF Binding!CloseClient, Binding!Rebinding, Binding!RebindingNow, Binding!Registered,
        Binding!HandleOf, BindingTypes, BindingSteps, Works, Backed, BindersKnow,
        BindingConstants
  <1>12. CASE UNCHANGED binding
    BY <1>12
    DEF binding, BindingTypes, BindingSteps, Works, Backed, BindersKnow, BindingConstants
  <1>. QED
    BY <1>1, <1>2, <1>3, <1>4, <1>5, <1>6, <1>7, <1>8, <1>9, <1>10, <1>11, <1>12
    DEF Binding!Next, Binding!Step

LEMMA RegisteredStep ==
  BindingTypes /\ BindersKnow /\ OnlyRegistered /\ [Binding!Next]_binding => OnlyRegistered'
  <1>. SUFFICES ASSUME BindingTypes, BindersKnow, OnlyRegistered, [Binding!Next]_binding
                PROVE  OnlyRegistered'
    OBVIOUS
  <1>1. ASSUME NEW t \in Binders, NEW new \in Pushers \cup {NoPusher},
               Binding!PushSourceChanged(t, new)
        PROVE  OnlyRegistered'
    BY <1>1, BindingConstants
    DEF Binding!PushSourceChanged, BindingTypes, BindingSteps, Works, Backed, BindersKnow,
        OnlyRegistered, AtWork, Planned, BindingConstants
  <1>2. ASSUME NEW t \in Binders, NEW s \in Bindings,
               Binding!Subscribe(t, s)
        PROVE  OnlyRegistered'
    BY <1>2, BindingConstants
    DEF Binding!Subscribe, BindingTypes, BindingSteps, Works, Backed, BindersKnow,
        OnlyRegistered, AtWork, Planned, BindingConstants
  <1>3. ASSUME NEW t \in Binders, NEW s \in Bindings,
               Binding!ReadSource(t, s)
        PROVE  OnlyRegistered'
    BY <1>3, BindingConstants
    DEF Binding!ReadSource, Binding!Rebinding, Binding!RebindingNow, BindingTypes, BindingSteps,
        Works, Backed, BindersKnow, OnlyRegistered, AtWork, Planned, BindingConstants
  <1>4. ASSUME NEW t \in Binders, Binding!rebindSubscriptionsForDevice(t) PROVE OnlyRegistered'
    BY <1>4, BindingConstants
    DEF Binding!rebindSubscriptionsForDevice, Binding!Registered, BindingTypes, BindingSteps,
        Works, Backed, BindersKnow, OnlyRegistered, AtWork, Planned, BindingConstants
  <1>5. ASSUME NEW t \in Binders, Binding!Return(t) PROVE OnlyRegistered'
    BY <1>5, BindingConstants
    DEF Binding!Return, Binding!Quiet, BindingTypes, BindingSteps, Works, Backed, BindersKnow,
        OnlyRegistered, AtWork, Planned, BindingConstants
  <1>6. ASSUME NEW t \in Binders, Binding!CloseOld(t) PROVE OnlyRegistered'
    BY <1>6, BindingConstants
    DEF Binding!CloseOld, Binding!Release, Binding!HandleOf, BindingTypes, BindingSteps, Works,
        Backed, BindersKnow, OnlyRegistered, AtWork, Planned, BindingConstants
  <1>7. ASSUME NEW t \in Binders, Binding!ForgetOld(t) PROVE OnlyRegistered'
    BY <1>7, BindingConstants
    DEF Binding!ForgetOld, BindingTypes, BindingSteps, Works, Backed, BindersKnow,
        OnlyRegistered, AtWork, Planned, BindingConstants
  <1>8. ASSUME NEW t \in Binders, Binding!SubscribeFromSource(t) PROVE OnlyRegistered'
    BY <1>8, BindingConstants, SMTT(30)
    DEF Binding!SubscribeFromSource, BindingTypes, BindingSteps, Works, Backed, BindersKnow,
        OnlyRegistered, AtWork, Planned, BindingConstants
  <1>9. ASSUME NEW t \in Binders, Binding!Commit(t) PROVE OnlyRegistered'
    BY <1>9, BindingConstants
    DEF Binding!Commit, BindingTypes, BindingSteps, Works, Backed, BindersKnow, OnlyRegistered,
        AtWork, Planned, BindingConstants
  <1>10. ASSUME NEW s \in Bindings, Binding!Unsubscribe(s) PROVE OnlyRegistered'
    BY <1>10, BindingConstants
    DEF Binding!Unsubscribe, Binding!Release, Binding!HandleOf, Binding!Rebinding,
        Binding!RebindingNow, BindingTypes, BindingSteps, Works, Backed, BindersKnow,
        OnlyRegistered, AtWork, Planned, BindingConstants
  <1>11. CASE Binding!CloseClient
    BY <1>11, BindingConstants
    DEF Binding!CloseClient, Binding!Rebinding, Binding!RebindingNow, Binding!Registered,
        Binding!HandleOf, BindingTypes, BindingSteps, Works, Backed, BindersKnow,
        OnlyRegistered, AtWork, Planned, BindingConstants
  <1>12. CASE UNCHANGED binding
    BY <1>12
    DEF binding, BindingTypes, BindingSteps, Works, Backed, BindersKnow, OnlyRegistered, AtWork,
        Planned, BindingConstants
  <1>. QED
    BY <1>1, <1>2, <1>3, <1>4, <1>5, <1>6, <1>7, <1>8, <1>9, <1>10, <1>11, <1>12
    DEF Binding!Next, Binding!Step

LEMMA OneStep ==
  BindingTypes /\ BindersKnow /\ OneAtATime /\ [Binding!Next]_binding => OneAtATime'
  <1>. SUFFICES ASSUME BindingTypes, BindersKnow, OneAtATime, [Binding!Next]_binding
                PROVE  OneAtATime'
    OBVIOUS
  <1>1. ASSUME NEW t \in Binders, NEW new \in Pushers \cup {NoPusher},
               Binding!PushSourceChanged(t, new)
        PROVE  OneAtATime'
    BY <1>1, BindingConstants
    DEF Binding!PushSourceChanged, BindingTypes, BindingSteps, Works, Backed, BindersKnow,
        OneAtATime, AtWork, Planned, BindingConstants
  <1>2. ASSUME NEW t \in Binders, NEW s \in Bindings, Binding!Subscribe(t, s) PROVE OneAtATime'
    BY <1>2, BindingConstants
    DEF Binding!Subscribe, BindingTypes, BindingSteps, Works, Backed, BindersKnow, OneAtATime,
        AtWork, Planned, BindingConstants
  <1>3. ASSUME NEW t \in Binders, NEW s \in Bindings, Binding!ReadSource(t, s) PROVE OneAtATime'
    BY <1>3, BindingConstants
    DEF Binding!ReadSource, Binding!Rebinding, Binding!RebindingNow, BindingTypes, BindingSteps,
        Works, Backed, BindersKnow, OneAtATime, AtWork, Planned, BindingConstants
  <1>4. ASSUME NEW t \in Binders, Binding!rebindSubscriptionsForDevice(t) PROVE OneAtATime'
    BY <1>4, BindingConstants
    DEF Binding!rebindSubscriptionsForDevice, Binding!Registered, BindingTypes, BindingSteps,
        Works, Backed, BindersKnow, OneAtATime, AtWork, Planned, BindingConstants
  <1>5. ASSUME NEW t \in Binders, Binding!Return(t) PROVE OneAtATime'
    BY <1>5, BindingConstants
    DEF Binding!Return, Binding!Quiet, BindingTypes, BindingSteps, Works, Backed, BindersKnow,
        OneAtATime, AtWork, Planned, BindingConstants
  <1>6. ASSUME NEW t \in Binders, Binding!CloseOld(t) PROVE OneAtATime'
    BY <1>6, BindingConstants
    DEF Binding!CloseOld, Binding!Release, Binding!HandleOf, BindingTypes, BindingSteps, Works,
        Backed, BindersKnow, OneAtATime, AtWork, Planned, BindingConstants
  <1>7. ASSUME NEW t \in Binders, Binding!ForgetOld(t) PROVE OneAtATime'
    BY <1>7, BindingConstants
    DEF Binding!ForgetOld, BindingTypes, BindingSteps, Works, Backed, BindersKnow, OneAtATime,
        AtWork, Planned, BindingConstants
  <1>8. ASSUME NEW t \in Binders, Binding!SubscribeFromSource(t) PROVE OneAtATime'
    BY <1>8, BindingConstants
    DEF Binding!SubscribeFromSource, BindingTypes, BindingSteps, Works, Backed, BindersKnow,
        OneAtATime, AtWork, Planned, BindingConstants
  <1>9. ASSUME NEW t \in Binders, Binding!Commit(t) PROVE OneAtATime'
    BY <1>9, BindingConstants
    DEF Binding!Commit, BindingTypes, BindingSteps, Works, Backed, BindersKnow, OneAtATime,
        AtWork, Planned, BindingConstants
  <1>10. ASSUME NEW s \in Bindings, Binding!Unsubscribe(s) PROVE OneAtATime'
    BY <1>10, BindingConstants
    DEF Binding!Unsubscribe, Binding!Release, Binding!HandleOf, Binding!Rebinding,
        Binding!RebindingNow, BindingTypes, BindingSteps, Works, Backed, BindersKnow,
        OneAtATime, AtWork, Planned, BindingConstants
  <1>11. CASE Binding!CloseClient
    BY <1>11, BindingConstants
    DEF Binding!CloseClient, Binding!Rebinding, Binding!RebindingNow, Binding!Registered,
        Binding!HandleOf, BindingTypes, BindingSteps, Works, Backed, BindersKnow, OneAtATime,
        AtWork, Planned, BindingConstants
  <1>12. CASE UNCHANGED binding
    BY <1>12
    DEF binding, BindingTypes, BindingSteps, Works, Backed, BindersKnow, OneAtATime, AtWork,
        Planned, BindingConstants
  <1>. QED
    BY <1>1, <1>2, <1>3, <1>4, <1>5, <1>6, <1>7, <1>8, <1>9, <1>10, <1>11, <1>12
    DEF Binding!Next, Binding!Step

\* What subscribing at a backend changes: the one handle of the one subscription under rebind.
LEMMA SubscribesOne ==
  ASSUME BindingTypes, BindersKnow, NEW t \in Binders, Binding!SubscribeFromSource(t)
  PROVE  /\ binds[t].pc = "subscribe" /\ binds[t].sub \in Bindings
         /\ UNCHANGED <<phase, rec, rebound>>
         /\ binds'[t].pc = "commit" /\ binds'[t].sub = binds[t].sub /\ binds'[t].src = binds[t].src
         /\ \A x \in Binders : x # t => binds'[x] = binds[x]
         /\ \A x \in Binders, s \in Bindings : AtWork(x, s)' <=> AtWork(x, s)
         /\ \A h \in Handles, s \in Bindings : s # binds[t].sub =>
              /\ Serves(h, s)' <=> Serves(h, s)
              /\ Serves(h, s) => live'[h].source = live[h].source
         /\ \A s \in Bindings : s # binds[t].sub => (s \in refused' <=> s \in refused)
         /\ (\A h \in Handles : ~Serves(h, binds[t].sub)) =>
              /\ \A h \in Handles : (Serves(h, binds[t].sub)' <=> h = binds'[t].handle)
              /\ \A h \in Handles : Serves(h, binds[t].sub)' => live'[h].source = binds[t].src
         /\ binds[t].src # NoPusher /\ binds[t].sub \notin refused' => binds'[t].handle # None
  <1>. DEFINE s == binds[t].sub
  <1>1. binds[t].pc = "subscribe" /\ UNCHANGED <<phase, rec, rebound>>
    BY DEF Binding!SubscribeFromSource
  <1>2. s \in Bindings
    BY <1>1 DEF BindersKnow
  <1>3. PICK h \in Handles \cup {None} :
          /\ binds' = [binds EXCEPT ![t] = [binds[t] EXCEPT !.pc = "commit", !.handle = h]]
          /\ \/ /\ live' = live /\ h = None
                /\ binds[t].src # NoPusher => refused' = refused \cup {s}
             \/ /\ h \in Handles /\ live[h] = None /\ binds[t].src # NoPusher
                /\ live' = [live EXCEPT ![h] = [sub |-> s, source |-> binds[t].src]]
    BY DEF Binding!SubscribeFromSource, BindingTypes
  <1>4. refused' \in {refused \ {s}, refused \cup {s}}
    BY DEF Binding!SubscribeFromSource
  <1>5. /\ binds'[t].pc = "commit" /\ binds'[t].sub = s /\ binds'[t].src = binds[t].src
        /\ binds'[t].handle = h /\ \A x \in Binders : x # t => binds'[x] = binds[x]
    BY <1>3 DEF BindingTypes, Works
  <1>6. ASSUME NEW x \in Binders, NEW y \in Bindings PROVE AtWork(x, y)' <=> AtWork(x, y)
    BY <1>5, <1>1 DEF AtWork
  <1>7. ASSUME NEW k \in Handles PROVE k # h => live'[k] = live[k]
    BY <1>3 DEF BindingTypes
  <1>8. CASE live' = live /\ h = None /\ (binds[t].src # NoPusher => refused' = refused \cup {s})
    <2>1. binds[t].src # NoPusher => s \in refused'
      BY <1>8
    <2>. QED
      BY <1>1, <1>2, <1>4, <1>5, <1>6, <1>8, <2>1, BindingConstants DEF Serves, BindingConstants
  <1>9. CASE h \in Handles /\ live[h] = None /\ binds[t].src # NoPusher
             /\ live' = [live EXCEPT ![h] = [sub |-> s, source |-> binds[t].src]]
    <2>1. live'[h] = [sub |-> s, source |-> binds[t].src]
      BY <1>9 DEF BindingTypes
    <2>2. live'[h] # None
      <3>2. live'[h] \in Backed
        BY <2>1, <1>9, <1>2 DEF Backed, BindingTypes, Works
      <3>. QED
        BY <3>2, BindingConstants DEF Backed, BindingConstants
    <2>3. h # None
      BY <1>9, BindingConstants DEF BindingConstants
    <2>4. \A k \in Handles : Serves(k, s)' <=> (k = h \/ (k # h /\ Serves(k, s)))
      BY <2>1, <2>2, <1>7, <1>5 DEF Serves
    <2>5. \A k \in Handles, y \in Bindings : y # s =>
            (Serves(k, y)' <=> Serves(k, y)) /\ (Serves(k, y) => live'[k].source = live[k].source)
      BY <2>1, <2>2, <1>7, <1>9 DEF Serves
    <2>. QED
      BY <1>1, <1>2, <1>4, <1>5, <1>6, <2>1, <2>3, <2>4, <2>5
  <1>. QED
    BY <1>3, <1>8, <1>9

LEMMA ClosedStep ==
  BindingTypes /\ BindersKnow /\ OnlyRegistered /\ OneAtATime /\ RestingIsBound /\
  ClosedIsFree /\ RebindIsOrderly /\ [Binding!Next]_binding =>
    ClosedIsFree'
  <1>. SUFFICES ASSUME BindingTypes, BindersKnow, OnlyRegistered, OneAtATime, RestingIsBound,
                       ClosedIsFree, RebindIsOrderly, [Binding!Next]_binding
                PROVE  ClosedIsFree'
    OBVIOUS
  <1>1. ASSUME NEW t \in Binders, Binding!SubscribeFromSource(t) PROVE ClosedIsFree'
    <2>1. BindingTypes /\ BindersKnow
      OBVIOUS
    <2>0. PICK s \in Bindings : s = binds[t].sub
      BY <2>1, <1>1, SubscribesOne
    <2>2. /\ binds[t].pc = "subscribe"
          /\ UNCHANGED <<phase, rec, rebound>>
          /\ binds'[t].pc = "commit" /\ binds'[t].sub = s /\ binds'[t].src = binds[t].src
          /\ \A x \in Binders : x # t => binds'[x] = binds[x]
      BY <2>0, <2>1, <1>1, SubscribesOne
    <2>3. /\ \A x \in Binders, y \in Bindings : AtWork(x, y)' <=> AtWork(x, y)
          /\ \A h \in Handles, y \in Bindings : y # s =>
               /\ Serves(h, y)' <=> Serves(h, y)
               /\ Serves(h, y) => live'[h].source = live[h].source
          /\ \A y \in Bindings : y # s => (y \in refused' <=> y \in refused)
      BY <2>0, <2>1, <1>1, SubscribesOne
    <2>4. AtWork(t, s)
      BY <2>0, <2>2 DEF AtWork
    <2>5. s \notin rebound => phase[s] # "closed"
      BY <2>2, <2>4 DEF OnlyRegistered
    <2>. QED
      BY <2>2, <2>3, <2>5 DEF ClosedIsFree
  <1>2. ASSUME NEW t \in Binders, NEW new \in Pushers \cup {NoPusher},
               Binding!PushSourceChanged(t, new)
        PROVE  ClosedIsFree'
    BY <1>2, BindingConstants
    DEF Binding!PushSourceChanged, BindingTypes, BindingSteps, Works, Backed, BindersKnow,
        OnlyRegistered, OneAtATime, RestingIsBound, ClosedIsFree, RebindIsOrderly, Serves,
        AtWork, Planned, BindingConstants
  <1>3. ASSUME NEW t \in Binders, NEW s \in Bindings,
               Binding!Subscribe(t, s)
        PROVE  ClosedIsFree'
    BY <1>3, BindingConstants
    DEF Binding!Subscribe, BindingTypes, BindingSteps, Works, Backed, BindersKnow,
        OnlyRegistered, OneAtATime, RestingIsBound, ClosedIsFree, RebindIsOrderly, Serves,
        AtWork, Planned, BindingConstants
  <1>4. ASSUME NEW t \in Binders, NEW s \in Bindings,
               Binding!ReadSource(t, s)
        PROVE  ClosedIsFree'
    BY <1>4, BindingConstants
    DEF Binding!ReadSource, Binding!Rebinding, Binding!RebindingNow, BindingTypes, BindingSteps,
        Works, Backed, BindersKnow, OnlyRegistered, OneAtATime, RestingIsBound, ClosedIsFree,
        RebindIsOrderly, Serves, AtWork, Planned, BindingConstants
  <1>5. ASSUME NEW t \in Binders, Binding!rebindSubscriptionsForDevice(t) PROVE ClosedIsFree'
    BY <1>5, BindingConstants
    DEF Binding!rebindSubscriptionsForDevice, Binding!Registered, BindingTypes, BindingSteps,
        Works, Backed, BindersKnow, OnlyRegistered, OneAtATime, RestingIsBound, ClosedIsFree,
        RebindIsOrderly, Serves, AtWork, Planned, BindingConstants
  <1>6. ASSUME NEW t \in Binders, Binding!Return(t) PROVE ClosedIsFree'
    BY <1>6, BindingConstants
    DEF Binding!Return, Binding!Quiet, BindingTypes, BindingSteps, Works, Backed, BindersKnow,
        OnlyRegistered, OneAtATime, RestingIsBound, ClosedIsFree, RebindIsOrderly, Serves,
        AtWork, Planned, BindingConstants
  <1>7. ASSUME NEW t \in Binders, Binding!CloseOld(t) PROVE ClosedIsFree'
    BY <1>7, BindingConstants
    DEF Binding!CloseOld, Binding!Release, Binding!HandleOf, BindingTypes, BindingSteps, Works,
        Backed, BindersKnow, OnlyRegistered, OneAtATime, RestingIsBound, ClosedIsFree,
        RebindIsOrderly, Serves, AtWork, Planned, BindingConstants
  <1>8. ASSUME NEW t \in Binders, Binding!ForgetOld(t) PROVE ClosedIsFree'
    BY <1>8, BindingConstants
    DEF Binding!ForgetOld, BindingTypes, BindingSteps, Works, Backed, BindersKnow,
        OnlyRegistered, OneAtATime, RestingIsBound, ClosedIsFree, RebindIsOrderly, Serves,
        AtWork, Planned, BindingConstants
  <1>9. ASSUME NEW t \in Binders, Binding!Commit(t) PROVE ClosedIsFree'
    BY <1>9, BindingConstants
    DEF Binding!Commit, BindingTypes, BindingSteps, Works, Backed, BindersKnow, OnlyRegistered,
        OneAtATime, RestingIsBound, ClosedIsFree, RebindIsOrderly, Serves, AtWork, Planned,
        BindingConstants
  <1>10. ASSUME NEW s \in Bindings, Binding!Unsubscribe(s) PROVE ClosedIsFree'
    BY <1>10, BindingConstants
    DEF Binding!Unsubscribe, Binding!Release, Binding!HandleOf, Binding!Rebinding,
        Binding!RebindingNow, BindingTypes, BindingSteps, Works, Backed, BindersKnow,
        OnlyRegistered, OneAtATime, RestingIsBound, ClosedIsFree, RebindIsOrderly, Serves,
        AtWork, Planned, BindingConstants
  <1>11. CASE Binding!CloseClient
    BY <1>11, BindingConstants
    DEF Binding!CloseClient, Binding!Rebinding, Binding!RebindingNow, Binding!Registered,
        Binding!HandleOf, BindingTypes, BindingSteps, Works, Backed, BindersKnow,
        OnlyRegistered, OneAtATime, RestingIsBound, ClosedIsFree, RebindIsOrderly, Serves,
        AtWork, Planned, BindingConstants
  <1>12. CASE UNCHANGED binding
    BY <1>12
    DEF binding, BindingTypes, BindingSteps, Works, Backed, BindersKnow, OnlyRegistered,
        OneAtATime, RestingIsBound, ClosedIsFree, RebindIsOrderly, Serves, AtWork, Planned,
        BindingConstants
  <1>. QED
    BY <1>1, <1>2, <1>3, <1>4, <1>5, <1>6, <1>7, <1>8, <1>9, <1>10, <1>11, <1>12
    DEF Binding!Next, Binding!Step

LEMMA OrderlyStep ==
  BindingTypes /\ BindersKnow /\ OnlyRegistered /\ OneAtATime /\ RestingIsBound /\
  ClosedIsFree /\ RebindIsOrderly /\ [Binding!Next]_binding =>
    RebindIsOrderly'
  <1>. SUFFICES ASSUME BindingTypes, BindersKnow, OnlyRegistered, OneAtATime, RestingIsBound,
                       ClosedIsFree, RebindIsOrderly, [Binding!Next]_binding
                PROVE  RebindIsOrderly'
    OBVIOUS
  <1>1. ASSUME NEW t \in Binders, Binding!rebindSubscriptionsForDevice(t) PROVE RebindIsOrderly'
    <2>1. binds[t].pc = "list" /\ UNCHANGED <<phase, rec, live, rebound, refused>>
      BY <1>1 DEF Binding!rebindSubscriptionsForDevice
    <2>2. /\ binds'[t].pc = "next"
          /\ \A x \in Binders : x # t => binds'[x] = binds[x]
      BY <1>1 DEF Binding!rebindSubscriptionsForDevice, BindingTypes, Works
    <2>3. \A x \in Binders, y \in Bindings : AtWork(x, y) => x # t
      BY <2>1 DEF AtWork
    <2>4. \A x \in Binders, y \in Bindings : AtWork(x, y)' <=> AtWork(x, y)
      BY <2>1, <2>2 DEF AtWork
    <2>5. \A h \in Handles, y \in Bindings : Serves(h, y)' <=> Serves(h, y)
      BY <2>1 DEF Serves
    <2>. QED
      BY <2>1, <2>2, <2>3, <2>4, <2>5 DEF RebindIsOrderly
  <1>2. ASSUME NEW t \in Binders, Binding!SubscribeFromSource(t) PROVE RebindIsOrderly'
    <2>1. BindingTypes /\ BindersKnow
      OBVIOUS
    <2>0. PICK s \in Bindings : s = binds[t].sub
      BY <2>1, <1>2, SubscribesOne
    <2>2. /\ binds[t].pc = "subscribe"
          /\ UNCHANGED <<phase, rec, rebound>>
          /\ binds'[t].pc = "commit" /\ binds'[t].sub = s /\ binds'[t].src = binds[t].src
          /\ \A x \in Binders : x # t => binds'[x] = binds[x]
      BY <2>0, <2>1, <1>2, SubscribesOne
    <2>3. /\ \A x \in Binders, y \in Bindings : AtWork(x, y)' <=> AtWork(x, y)
          /\ \A h \in Handles, y \in Bindings : y # s =>
               /\ Serves(h, y)' <=> Serves(h, y)
               /\ Serves(h, y) => live'[h].source = live[h].source
          /\ \A y \in Bindings : y # s => (y \in refused' <=> y \in refused)
      BY <2>0, <2>1, <1>2, SubscribesOne
    <2>4. AtWork(t, s)
      BY <2>0, <2>2 DEF AtWork
    <2>5. s \notin rebound => rec[s].active = None /\ \A h \in Handles : ~Serves(h, s)
      BY <2>2, <2>4 DEF RebindIsOrderly
    <2>6. /\ (\A h \in Handles : ~Serves(h, s)) =>
               /\ \A h \in Handles : (Serves(h, s)' <=> h = binds'[t].handle)
               /\ \A h \in Handles : Serves(h, s)' => live'[h].source = binds'[t].src
          /\ binds'[t].src # NoPusher /\ s \notin refused' => binds'[t].handle # None
      BY <2>0, <2>1, <2>2, <1>2, SubscribesOne
    <2>7. \A x \in Binders : AtWork(x, s) /\ s \notin rebound => x = t
      BY <2>4, <2>2 DEF OneAtATime
    <2>8. \A x \in Binders, y \in Bindings : AtWork(x, y) /\ y # s => x # t
      BY <2>0 DEF AtWork
    <2>. SUFFICES ASSUME NEW y \in Bindings, y \notin rebound, NEW x \in Binders, AtWork(x, y)
                  PROVE  /\ binds'[x].pc = "close" =>
                              rec[y].active # None /\ \A h \in Handles : Serves(h, y)' <=> h = rec[y].active
                         /\ binds'[x].pc \in {"forget", "subscribe"} => \A h \in Handles : ~Serves(h, y)'
                         /\ binds'[x].pc \in {"subscribe", "commit"} => rec[y].active = None
                         /\ binds'[x].pc = "commit" =>
                              /\ \A h \in Handles : Serves(h, y)' <=> h = binds'[x].handle
                              /\ \A h \in Handles : Serves(h, y)' => live'[h].source = binds'[x].src
                              /\ binds'[x].src # NoPusher /\ y \notin refused' => binds'[x].handle # None
      BY <2>2, <2>3 DEF RebindIsOrderly
    <2>9. CASE y = s
      <3>1. x = t /\ rec[s].active = None /\ \A h \in Handles : ~Serves(h, s)
        BY <2>9, <2>5, <2>7
      <3>2. /\ \A h \in Handles : (Serves(h, s)' <=> h = binds'[t].handle)
            /\ \A h \in Handles : Serves(h, s)' => live'[h].source = binds'[t].src
        BY <2>6, <3>1
      <3>. QED
        BY <2>9, <2>2, <2>6, <3>1, <3>2
    <2>10. CASE y # s
      <3>1. x # t /\ binds'[x] = binds[x]
        BY <2>10, <2>2, <2>8
      <3>. QED
        BY <2>10, <3>1, <2>3 DEF RebindIsOrderly
    <2>. QED
      BY <2>9, <2>10
  <1>3. ASSUME NEW t \in Binders, NEW new \in Pushers \cup {NoPusher},
               Binding!PushSourceChanged(t, new)
        PROVE  RebindIsOrderly'
    BY <1>3, BindingConstants
    DEF Binding!PushSourceChanged, BindingTypes, BindingSteps, Works, Backed, BindersKnow,
        OnlyRegistered, OneAtATime, RestingIsBound, ClosedIsFree, RebindIsOrderly, Serves,
        AtWork, Planned, BindingConstants
  <1>4. ASSUME NEW t \in Binders, NEW s \in Bindings,
               Binding!Subscribe(t, s)
        PROVE  RebindIsOrderly'
    BY <1>4, BindingConstants
    DEF Binding!Subscribe, BindingTypes, BindingSteps, Works, Backed, BindersKnow,
        OnlyRegistered, OneAtATime, RestingIsBound, ClosedIsFree, RebindIsOrderly, Serves,
        AtWork, Planned, BindingConstants
  <1>5. ASSUME NEW t \in Binders, NEW s \in Bindings,
               Binding!ReadSource(t, s)
        PROVE  RebindIsOrderly'
    <2>1. \A x \in Bindings, u \in Binders : u # t => (AtWork(u, x)' <=> AtWork(u, x))
      BY <1>5, ReadSourceBegins DEF AtWork
    <2>2. \A x \in Bindings : AtWork(t, x)' => x = s /\ binds'[t].pc \in {"subscribe", "close"}
      BY <1>5, ReadSourceBegins DEF AtWork
    <2>3. \A x \in Bindings, h \in Handles : Serves(h, x)' <=> Serves(h, x)
      BY <1>5, ReadSourceBegins DEF Serves
    <2>4. s \notin rebound' => \A u \in Binders : ~AtWork(u, s)
      BY <1>5, ReadSourceBegins
    <2>5. AtWork(t, s)' /\ s \notin rebound' => phase[s] # "closed"
      BY <1>5, <2>4, ReadSourceBegins DEF OnlyRegistered, Planned
    <2>6. AtWork(t, s)' /\ s \notin rebound' =>
            \A h \in Handles : Serves(h, s) <=> h = rec[s].active
      BY <1>5, <2>4, <2>5, ReadSourceBegins DEF RestingIsBound
    <2>7. \A h \in Handles : h # None
      BY BindingConstants DEF BindingConstants
    <2>. QED
      BY <1>5, <2>1, <2>2, <2>3, <2>6, <2>7, ReadSourceBegins DEF RebindIsOrderly
  <1>6. ASSUME NEW t \in Binders, Binding!Return(t) PROVE RebindIsOrderly'
    BY <1>6, BindingConstants
    DEF Binding!Return, Binding!Quiet, BindingTypes, BindingSteps, Works, Backed, BindersKnow,
        OnlyRegistered, OneAtATime, RestingIsBound, ClosedIsFree, RebindIsOrderly, Serves,
        AtWork, Planned, BindingConstants
  <1>7. ASSUME NEW t \in Binders, Binding!CloseOld(t) PROVE RebindIsOrderly'
    BY <1>7, CloseOldReleases DEF OneAtATime, RebindIsOrderly, RestingIsBound, AtWork
  <1>8. ASSUME NEW t \in Binders, Binding!ForgetOld(t) PROVE RebindIsOrderly'
    BY <1>8, BindingConstants
    DEF Binding!ForgetOld, BindingTypes, BindingSteps, Works, Backed, BindersKnow,
        OnlyRegistered, OneAtATime, RestingIsBound, ClosedIsFree, RebindIsOrderly, Serves,
        AtWork, Planned, BindingConstants
  <1>9. ASSUME NEW t \in Binders, Binding!Commit(t) PROVE RebindIsOrderly'
    BY <1>9, BindingConstants
    DEF Binding!Commit, BindingTypes, BindingSteps, Works, Backed, BindersKnow, OnlyRegistered,
        OneAtATime, RestingIsBound, ClosedIsFree, RebindIsOrderly, Serves, AtWork, Planned,
        BindingConstants
  <1>10. ASSUME NEW s \in Bindings, Binding!Unsubscribe(s) PROVE RebindIsOrderly'
    BY <1>10, BindingConstants
    DEF Binding!Unsubscribe, Binding!Release, Binding!HandleOf, Binding!Rebinding,
        Binding!RebindingNow, BindingTypes, BindingSteps, Works, Backed, BindersKnow,
        OnlyRegistered, OneAtATime, RestingIsBound, ClosedIsFree, RebindIsOrderly, Serves,
        AtWork, Planned, BindingConstants
  <1>11. CASE Binding!CloseClient
    BY <1>11, BindingConstants
    DEF Binding!CloseClient, Binding!Rebinding, Binding!RebindingNow, Binding!Registered,
        Binding!HandleOf, BindingTypes, BindingSteps, Works, Backed, BindersKnow,
        OnlyRegistered, OneAtATime, RestingIsBound, ClosedIsFree, RebindIsOrderly, Serves,
        AtWork, Planned, BindingConstants
  <1>12. CASE UNCHANGED binding
    BY <1>12
    DEF binding, BindingTypes, BindingSteps, Works, Backed, BindersKnow, OnlyRegistered,
        OneAtATime, RestingIsBound, ClosedIsFree, RebindIsOrderly, Serves, AtWork, Planned,
        BindingConstants
  <1>. QED
    BY <1>1, <1>2, <1>3, <1>4, <1>5, <1>6, <1>7, <1>8, <1>9, <1>10, <1>11, <1>12
    DEF Binding!Next, Binding!Step

LEMMA BoundStep ==
  BindingTypes /\ BindersKnow /\ OnlyRegistered /\ OneAtATime /\ RestingIsBound /\
  ClosedIsFree /\ RebindIsOrderly /\ [Binding!Next]_binding =>
    RestingIsBound'
  <1>. SUFFICES ASSUME BindingTypes, BindersKnow, OnlyRegistered, OneAtATime, RestingIsBound,
                       ClosedIsFree, RebindIsOrderly, [Binding!Next]_binding
                PROVE  RestingIsBound'
    OBVIOUS
  <1>1. ASSUME NEW t \in Binders, NEW s \in Bindings,
               Binding!Subscribe(t, s)
        PROVE  RestingIsBound'
    <2>1. \A x \in Binders, y \in Bindings : AtWork(x, y)' <=> AtWork(x, y)
      BY <1>1 DEF Binding!Subscribe, AtWork, BindingTypes, Works
    <2>2. \A h \in Handles, y \in Bindings : Serves(h, y)' <=> Serves(h, y)
      BY <1>1 DEF Binding!Subscribe, Serves
    <2>3. UNCHANGED <<rec, live, rebound, refused>>
      BY <1>1 DEF Binding!Subscribe
    <2>4. \A y \in Bindings : phase'[y] # "closed" => phase[y] # "closed"
      BY <1>1 DEF Binding!Subscribe, BindingTypes
    <2>. QED
      BY <2>1, <2>2, <2>3, <2>4 DEF RestingIsBound
  <1>2. ASSUME NEW t \in Binders, Binding!rebindSubscriptionsForDevice(t) PROVE RestingIsBound'
    <2>1. binds[t].pc = "list" /\ UNCHANGED <<phase, rec, live, rebound, refused>>
      BY <1>2 DEF Binding!rebindSubscriptionsForDevice
    <2>2. /\ binds'[t].pc = "next"
          /\ \A x \in Binders : x # t => binds'[x] = binds[x]
      BY <1>2 DEF Binding!rebindSubscriptionsForDevice, BindingTypes, Works
    <2>3. \A x \in Binders, y \in Bindings : AtWork(x, y) => x # t
      BY <2>1 DEF AtWork
    <2>4. \A x \in Binders, y \in Bindings : AtWork(x, y)' <=> AtWork(x, y)
      BY <2>1, <2>2 DEF AtWork
    <2>5. \A h \in Handles, y \in Bindings : Serves(h, y)' <=> Serves(h, y)
      BY <2>1 DEF Serves
    <2>. QED
      BY <2>1, <2>2, <2>3, <2>4, <2>5 DEF RestingIsBound
  <1>3. ASSUME NEW t \in Binders, NEW s \in Bindings,
               Binding!ReadSource(t, s)
        PROVE  RestingIsBound'
    <2>1. /\ binds[t].pc = "next"
          /\ \A x \in Binders : x # t => binds'[x] = binds[x]
          /\ UNCHANGED <<phase, rec, live, refused>> /\ binds'[t].sub = s
      BY <1>3 DEF Binding!ReadSource, BindingTypes, Works
    <2>2. \A y \in Bindings \ rebound' : y \notin rebound
      BY <1>3 DEF Binding!ReadSource
    <2>3. \A x \in Binders, y \in Bindings : AtWork(x, y) => AtWork(x, y)'
      BY <2>1 DEF AtWork
    <2>4. \A h \in Handles, y \in Bindings : Serves(h, y)' <=> Serves(h, y)
      BY <2>1 DEF Serves
    <2>. QED
      BY <2>1, <2>2, <2>3, <2>4 DEF RestingIsBound
  <1>4. ASSUME NEW t \in Binders, Binding!SubscribeFromSource(t) PROVE RestingIsBound'
    <2>1. BindingTypes /\ BindersKnow
      OBVIOUS
    <2>0. PICK s \in Bindings : s = binds[t].sub
      BY <2>1, <1>4, SubscribesOne
    <2>2. /\ binds[t].pc = "subscribe"
          /\ UNCHANGED <<phase, rec, rebound>>
          /\ binds'[t].pc = "commit" /\ binds'[t].sub = s /\ binds'[t].src = binds[t].src
          /\ \A x \in Binders : x # t => binds'[x] = binds[x]
      BY <2>0, <2>1, <1>4, SubscribesOne
    <2>3. /\ \A x \in Binders, y \in Bindings : AtWork(x, y)' <=> AtWork(x, y)
          /\ \A h \in Handles, y \in Bindings : y # s =>
               /\ Serves(h, y)' <=> Serves(h, y)
               /\ Serves(h, y) => live'[h].source = live[h].source
          /\ \A y \in Bindings : y # s => (y \in refused' <=> y \in refused)
      BY <2>0, <2>1, <1>4, SubscribesOne
    <2>4. AtWork(t, s)
      BY <2>0, <2>2 DEF AtWork
    <2>5. \A y \in Bindings : (\A x \in Binders : ~AtWork(x, y)') => y # s
      BY <2>3, <2>4, <2>2
    <2>. QED
      BY <2>2, <2>3, <2>5 DEF RestingIsBound
  <1>5. ASSUME NEW t \in Binders, NEW new \in Pushers \cup {NoPusher},
               Binding!PushSourceChanged(t, new)
        PROVE  RestingIsBound'
    BY <1>5, BindingConstants
    DEF Binding!PushSourceChanged, BindingTypes, BindingSteps, Works, Backed, BindersKnow,
        OnlyRegistered, OneAtATime, RestingIsBound, ClosedIsFree, RebindIsOrderly, Serves,
        AtWork, Planned, BindingConstants
  <1>6. ASSUME NEW t \in Binders, Binding!Return(t) PROVE RestingIsBound'
    BY <1>6, BindingConstants
    DEF Binding!Return, Binding!Quiet, BindingTypes, BindingSteps, Works, Backed, BindersKnow,
        OnlyRegistered, OneAtATime, RestingIsBound, ClosedIsFree, RebindIsOrderly, Serves,
        AtWork, Planned, BindingConstants
  <1>7. ASSUME NEW t \in Binders, Binding!CloseOld(t) PROVE RestingIsBound'
    BY <1>7, CloseOldReleases DEF OneAtATime, RebindIsOrderly, RestingIsBound, AtWork
  <1>8. ASSUME NEW t \in Binders, Binding!ForgetOld(t) PROVE RestingIsBound'
    BY <1>8, BindingConstants
    DEF Binding!ForgetOld, BindingTypes, BindingSteps, Works, Backed, BindersKnow,
        OnlyRegistered, OneAtATime, RestingIsBound, ClosedIsFree, RebindIsOrderly, Serves,
        AtWork, Planned, BindingConstants
  <1>9. ASSUME NEW t \in Binders, Binding!Commit(t) PROVE RestingIsBound'
    BY <1>9, BindingConstants
    DEF Binding!Commit, BindingTypes, BindingSteps, Works, Backed, BindersKnow, OnlyRegistered,
        OneAtATime, RestingIsBound, ClosedIsFree, RebindIsOrderly, Serves, AtWork, Planned,
        BindingConstants
  <1>10. ASSUME NEW s \in Bindings, Binding!Unsubscribe(s) PROVE RestingIsBound'
    BY <1>10, BindingConstants
    DEF Binding!Unsubscribe, Binding!Release, Binding!HandleOf, Binding!Rebinding,
        Binding!RebindingNow, BindingTypes, BindingSteps, Works, Backed, BindersKnow,
        OnlyRegistered, OneAtATime, RestingIsBound, ClosedIsFree, RebindIsOrderly, Serves,
        AtWork, Planned, BindingConstants
  <1>11. CASE Binding!CloseClient
    BY <1>11, BindingConstants
    DEF Binding!CloseClient, Binding!Rebinding, Binding!RebindingNow, Binding!Registered,
        Binding!HandleOf, BindingTypes, BindingSteps, Works, Backed, BindersKnow,
        OnlyRegistered, OneAtATime, RestingIsBound, ClosedIsFree, RebindIsOrderly, Serves,
        AtWork, Planned, BindingConstants
  <1>12. CASE UNCHANGED binding
    BY <1>12
    DEF binding, BindingTypes, BindingSteps, Works, Backed, BindersKnow, OnlyRegistered,
        OneAtATime, RestingIsBound, ClosedIsFree, RebindIsOrderly, Serves, AtWork, Planned,
        BindingConstants
  <1>. QED
    BY <1>1, <1>2, <1>3, <1>4, <1>5, <1>6, <1>7, <1>8, <1>9, <1>10, <1>11, <1>12
    DEF Binding!Next, Binding!Step

LEMMA FollowedStep ==
  BindingTypes /\ BindersKnow /\ OnlyRegistered /\ OneAtATime /\ SourceIsFollowed /\
  [Binding!Next]_binding =>
    SourceIsFollowed'
  <1>. SUFFICES ASSUME BindingTypes, BindersKnow, OnlyRegistered, OneAtATime, SourceIsFollowed,
                       [Binding!Next]_binding
                PROVE  SourceIsFollowed'
    OBVIOUS
  <1>1. ASSUME NEW t \in Binders, Binding!Return(t) PROVE SourceIsFollowed'
    <2>1. binds[t].pc = "next" /\ binds[t].todo = {}
      BY <1>1 DEF Binding!Return
    <2>2. /\ binds'[t].pc = "idle" /\ \A x \in Binders : x # t => binds'[x] = binds[x]
      BY <1>1 DEF Binding!Return, Binding!Quiet, BindingTypes
    <2>3. \A x \in Binders, y \in Bindings : AtWork(x, y)' <=> AtWork(x, y)
      BY <2>1, <2>2 DEF AtWork
    <2>4. \A x \in Binders, y \in Bindings : AtWork(x, y) => x # t
      BY <2>1 DEF AtWork
    <2>5. UNCHANGED <<pushSource, rec, rebound>>
      BY <1>1 DEF Binding!Return
    <2>6. \A y \in Bindings : phase'[y] \in {"making", "open"} => phase[y] \in {"making", "open"}
      BY <1>1 DEF Binding!Return, BindingTypes
    <2>7. \A y \in Bindings, c \in Pushers \cup {NoPusher} : Expected(y, c) => Expected(y, c)'
      BY <2>1, <2>2, <2>5 DEF Expected, Planned
    <2>8. /\ \A y \in Bindings : rec[y].source \in Pushers \cup {NoPusher}
          /\ \A x \in Binders : binds[x].src \in Pushers \cup {NoPusher}
      BY DEF BindingTypes, Works
    <2>. QED
      BY <2>2, <2>3, <2>4, <2>5, <2>6, <2>7, <2>8 DEF SourceIsFollowed
  <1>2. ASSUME NEW t \in Binders, NEW s \in Bindings,
               Binding!ReadSource(t, s)
        PROVE  SourceIsFollowed'
    <2>1. /\ binds[t].pc = "next" /\ s \in binds[t].todo
          /\ \A x \in Binders : x # t => binds'[x] = binds[x]
          /\ UNCHANGED <<pushSource, phase, rec>>
      BY <1>2 DEF Binding!ReadSource, BindingTypes
    <2>2. /\ binds'[t].sub = s /\ binds'[t].src = pushSource /\ binds'[t].todo = binds[t].todo \ {s}
          /\ binds'[t].pc = "next" => rec[s].source = pushSource
          /\ binds'[t].pc \in {"next", "close", "subscribe"}
      BY <1>2 DEF Binding!ReadSource, BindingTypes, Works
    <2>3. /\ \A y \in Bindings \ rebound' : y \notin rebound
          /\ s \notin rebound' => \A x \in Binders : ~AtWork(x, s)
      BY <1>2, <2>1 DEF Binding!ReadSource, Binding!RebindingNow, Binding!Rebinding, AtWork
    <2>4. \A y \in Bindings : y # s => \A x \in Binders : AtWork(x, y)' <=> AtWork(x, y)
      BY <2>1, <2>2 DEF AtWork
    <2>5. \A y \in Bindings : y # s => \A x \in Binders : AtWork(x, y) => x # t
      BY <2>1 DEF AtWork
    <2>6. \A y \in Bindings : y # s => \A c \in Pushers \cup {NoPusher} :
            Expected(y, c) => Expected(y, c)'
      BY <2>1, <2>2 DEF Expected, Planned
    <2>7. /\ \A y \in Bindings : rec[y].source \in Pushers \cup {NoPusher}
          /\ \A x \in Binders : binds[x].src \in Pushers \cup {NoPusher}
      BY DEF BindingTypes, Works
    <2>8. SUFFICES ASSUME NEW y \in Bindings, y \notin rebound', phase[y] \in {"making", "open"}
                   PROVE  /\ (\A x \in Binders : ~AtWork(x, y)') => Expected(y, rec[y].source)'
                          /\ \A x \in Binders : AtWork(x, y)' => Expected(y, binds[x].src)'
      BY <2>1 DEF SourceIsFollowed
    <2>9. CASE y # s
      BY <2>1, <2>3, <2>4, <2>5, <2>6, <2>7, <2>8, <2>9 DEF SourceIsFollowed
    <2>10. CASE y = s
      <3>1. \A x \in Binders : x # t => ~AtWork(x, s)'
        BY <2>1, <2>3, <2>8, <2>10 DEF AtWork
      <3>2. Expected(s, pushSource)'
        BY <2>1 DEF Expected
      <3>3. ~AtWork(t, s)' => rec[s].source = pushSource
        BY <2>2 DEF AtWork
      <3>4. binds'[t].src = pushSource
        BY <2>2
      <3>. QED
        BY <2>1, <2>10, <3>1, <3>2, <3>3, <3>4
    <2>. QED
      BY <2>9, <2>10
  <1>3. ASSUME NEW t \in Binders, Binding!SubscribeFromSource(t) PROVE SourceIsFollowed'
    <2>1. BindingTypes /\ BindersKnow
      OBVIOUS
    <2>2. /\ \A x \in Binders, y \in Bindings : AtWork(x, y)' <=> AtWork(x, y)
          /\ UNCHANGED <<phase, rec, rebound>>
      BY <2>1, <1>3, SubscribesOne
    <2>3. /\ binds[t].pc = "subscribe" /\ binds'[t].pc = "commit" /\ binds'[t].src = binds[t].src
          /\ \A x \in Binders : x # t => binds'[x] = binds[x]
      BY <2>1, <1>3, SubscribesOne
    <2>4. binds'[t].todo = binds[t].todo /\ pushSource' = pushSource
      BY <1>3 DEF Binding!SubscribeFromSource, BindingTypes, Works
    <2>5. \A y \in Bindings, c \in Pushers \cup {NoPusher} : Expected(y, c) => Expected(y, c)'
      BY <2>3, <2>4 DEF Expected, Planned
    <2>6. /\ \A y \in Bindings : rec[y].source \in Pushers \cup {NoPusher}
          /\ \A x \in Binders : binds[x].src \in Pushers \cup {NoPusher}
          /\ \A x \in Binders : binds'[x].src = binds[x].src
      BY <2>3 DEF BindingTypes, Works
    <2>. QED
      BY <2>2, <2>5, <2>6 DEF SourceIsFollowed
  <1>4. ASSUME NEW t \in Binders, NEW new \in Pushers \cup {NoPusher},
               Binding!PushSourceChanged(t, new)
        PROVE  SourceIsFollowed'
    BY <1>4, BindingConstants
    DEF Binding!PushSourceChanged, BindingTypes, BindingSteps, Works, Backed, BindersKnow,
        OnlyRegistered, OneAtATime, SourceIsFollowed, Expected, AtWork, Planned,
        BindingConstants
  <1>5. ASSUME NEW t \in Binders, NEW s \in Bindings,
               Binding!Subscribe(t, s)
        PROVE  SourceIsFollowed'
    BY <1>5, BindingConstants
    DEF Binding!Subscribe, BindingTypes, BindingSteps, Works, Backed, BindersKnow,
        OnlyRegistered, OneAtATime, SourceIsFollowed, Expected, AtWork, Planned,
        BindingConstants
  <1>6. ASSUME NEW t \in Binders,
               Binding!rebindSubscriptionsForDevice(t)
        PROVE  SourceIsFollowed'
    BY <1>6, BindingConstants
    DEF Binding!rebindSubscriptionsForDevice, Binding!Registered, BindingTypes, BindingSteps,
        Works, Backed, BindersKnow, OnlyRegistered, OneAtATime, SourceIsFollowed, Expected,
        AtWork, Planned, BindingConstants
  <1>7. ASSUME NEW t \in Binders, Binding!CloseOld(t) PROVE SourceIsFollowed'
    BY <1>7, BindingConstants
    DEF Binding!CloseOld, Binding!Release, Binding!HandleOf, BindingTypes, BindingSteps, Works,
        Backed, BindersKnow, OnlyRegistered, OneAtATime, SourceIsFollowed, Expected, AtWork,
        Planned, BindingConstants
  <1>8. ASSUME NEW t \in Binders, Binding!ForgetOld(t) PROVE SourceIsFollowed'
    BY <1>8, BindingConstants
    DEF Binding!ForgetOld, BindingTypes, BindingSteps, Works, Backed, BindersKnow,
        OnlyRegistered, OneAtATime, SourceIsFollowed, Expected, AtWork, Planned,
        BindingConstants
  <1>9. ASSUME NEW t \in Binders, Binding!Commit(t) PROVE SourceIsFollowed'
    BY <1>9, BindingConstants
    DEF Binding!Commit, BindingTypes, BindingSteps, Works, Backed, BindersKnow, OnlyRegistered,
        OneAtATime, SourceIsFollowed, Expected, AtWork, Planned, BindingConstants
  <1>10. ASSUME NEW s \in Bindings, Binding!Unsubscribe(s) PROVE SourceIsFollowed'
    BY <1>10, BindingConstants
    DEF Binding!Unsubscribe, Binding!Release, Binding!HandleOf, Binding!Rebinding,
        Binding!RebindingNow, BindingTypes, BindingSteps, Works, Backed, BindersKnow,
        OnlyRegistered, OneAtATime, SourceIsFollowed, Expected, AtWork, Planned,
        BindingConstants
  <1>11. CASE Binding!CloseClient
    BY <1>11, BindingConstants
    DEF Binding!CloseClient, Binding!Rebinding, Binding!RebindingNow, Binding!Registered,
        Binding!HandleOf, BindingTypes, BindingSteps, Works, Backed, BindersKnow,
        OnlyRegistered, OneAtATime, SourceIsFollowed, Expected, AtWork, Planned,
        BindingConstants
  <1>12. CASE UNCHANGED binding
    BY <1>12
    DEF binding, BindingTypes, BindingSteps, Works, Backed, BindersKnow, OnlyRegistered,
        OneAtATime, SourceIsFollowed, Expected, AtWork, Planned, BindingConstants
  <1>. QED
    BY <1>1, <1>2, <1>3, <1>4, <1>5, <1>6, <1>7, <1>8, <1>9, <1>10, <1>11, <1>12
    DEF Binding!Next, Binding!Step

LEMMA CrashStep ==
  BindingTypes /\ BindersKnow /\ RebindIsOrderly /\ OnlyReboundCrash /\ [Binding!Next]_binding =>
    OnlyReboundCrash'
  <1>. SUFFICES ASSUME BindingTypes, BindersKnow, RebindIsOrderly, OnlyReboundCrash,
                       [Binding!Next]_binding
                PROVE  OnlyReboundCrash'
    OBVIOUS
  <1>1. ASSUME NEW t \in Binders, NEW new \in Pushers \cup {NoPusher},
               Binding!PushSourceChanged(t, new)
        PROVE  OnlyReboundCrash'
    BY <1>1, BindingConstants
    DEF Binding!PushSourceChanged, BindingTypes, BindingSteps, Works, Backed, BindersKnow,
        RebindIsOrderly, OnlyReboundCrash, Serves, AtWork, Planned, BindingConstants
  <1>2. ASSUME NEW t \in Binders, NEW s \in Bindings,
               Binding!Subscribe(t, s)
        PROVE  OnlyReboundCrash'
    BY <1>2, BindingConstants
    DEF Binding!Subscribe, BindingTypes, BindingSteps, Works, Backed, BindersKnow,
        RebindIsOrderly, OnlyReboundCrash, Serves, AtWork, Planned, BindingConstants
  <1>3. ASSUME NEW t \in Binders, NEW s \in Bindings,
               Binding!ReadSource(t, s)
        PROVE  OnlyReboundCrash'
    BY <1>3, BindingConstants
    DEF Binding!ReadSource, Binding!Rebinding, Binding!RebindingNow, BindingTypes, BindingSteps,
        Works, Backed, BindersKnow, RebindIsOrderly, OnlyReboundCrash, Serves, AtWork, Planned,
        BindingConstants
  <1>4. ASSUME NEW t \in Binders,
               Binding!rebindSubscriptionsForDevice(t)
        PROVE  OnlyReboundCrash'
    BY <1>4, BindingConstants
    DEF Binding!rebindSubscriptionsForDevice, Binding!Registered, BindingTypes, BindingSteps,
        Works, Backed, BindersKnow, RebindIsOrderly, OnlyReboundCrash, Serves, AtWork, Planned,
        BindingConstants
  <1>5. ASSUME NEW t \in Binders, Binding!Return(t) PROVE OnlyReboundCrash'
    BY <1>5, BindingConstants
    DEF Binding!Return, Binding!Quiet, BindingTypes, BindingSteps, Works, Backed, BindersKnow,
        RebindIsOrderly, OnlyReboundCrash, Serves, AtWork, Planned, BindingConstants
  <1>6. ASSUME NEW t \in Binders, Binding!CloseOld(t) PROVE OnlyReboundCrash'
    BY <1>6, BindingConstants
    DEF Binding!CloseOld, Binding!Release, Binding!HandleOf, BindingTypes, BindingSteps, Works,
        Backed, BindersKnow, RebindIsOrderly, OnlyReboundCrash, Serves, AtWork, Planned,
        BindingConstants
  <1>7. ASSUME NEW t \in Binders, Binding!ForgetOld(t) PROVE OnlyReboundCrash'
    BY <1>7, BindingConstants
    DEF Binding!ForgetOld, BindingTypes, BindingSteps, Works, Backed, BindersKnow,
        RebindIsOrderly, OnlyReboundCrash, Serves, AtWork, Planned, BindingConstants
  <1>8. ASSUME NEW t \in Binders, Binding!SubscribeFromSource(t) PROVE OnlyReboundCrash'
    BY <1>8, BindingConstants
    DEF Binding!SubscribeFromSource, BindingTypes, BindingSteps, Works, Backed, BindersKnow,
        RebindIsOrderly, OnlyReboundCrash, Serves, AtWork, Planned, BindingConstants
  <1>9. ASSUME NEW t \in Binders, Binding!Commit(t) PROVE OnlyReboundCrash'
    BY <1>9, BindingConstants
    DEF Binding!Commit, BindingTypes, BindingSteps, Works, Backed, BindersKnow, RebindIsOrderly,
        OnlyReboundCrash, Serves, AtWork, Planned, BindingConstants
  <1>10. ASSUME NEW s \in Bindings, Binding!Unsubscribe(s) PROVE OnlyReboundCrash'
    BY <1>10, BindingConstants
    DEF Binding!Unsubscribe, Binding!Release, Binding!HandleOf, Binding!Rebinding,
        Binding!RebindingNow, BindingTypes, BindingSteps, Works, Backed, BindersKnow,
        RebindIsOrderly, OnlyReboundCrash, Serves, AtWork, Planned, BindingConstants
  <1>11. CASE Binding!CloseClient
    BY <1>11, BindingConstants
    DEF Binding!CloseClient, Binding!Rebinding, Binding!RebindingNow, Binding!Registered,
        Binding!HandleOf, BindingTypes, BindingSteps, Works, Backed, BindersKnow,
        RebindIsOrderly, OnlyReboundCrash, Serves, AtWork, Planned, BindingConstants
  <1>12. CASE UNCHANGED binding
    BY <1>12
    DEF binding, BindingTypes, BindingSteps, Works, Backed, BindersKnow, RebindIsOrderly,
        OnlyReboundCrash, Serves, AtWork, Planned, BindingConstants
  <1>. QED
    BY <1>1, <1>2, <1>3, <1>4, <1>5, <1>6, <1>7, <1>8, <1>9, <1>10, <1>11, <1>12
    DEF Binding!Next, Binding!Step

LEMMA BindingStep == BindingInv /\ [Binding!Next]_binding => BindingInv'
  BY BindingTypeStep, BindersStep, RegisteredStep, OneStep, ClosedStep, OrderlyStep, BoundStep,
     FollowedStep, CrashStep DEF BindingInv

LEMMA BindingInvEnds == BindingInv => Binding!TypeOK /\ BindingEnds
  <1>. SUFFICES ASSUME BindingInv PROVE Binding!TypeOK /\ BindingEnds
    OBVIOUS
  <1>1. Binding!TypeOK
    BY DEF BindingInv, BindingTypes, Binding!TypeOK, Works, BindingSteps, Backed
  <1>2. Binding!AllIdle => \A t \in Binders, s \in Bindings :
          ~AtWork(t, s) /\ ~Planned(t, s) /\ binds[t].pc # "list"
    BY DEF BindingInv, BindersKnow, Binding!AllIdle, AtWork, Planned
  <1>3. \A s \in Bindings, h \in Handles : h \in Binding!HandleOf(s) <=> Serves(h, s)
    BY DEF Binding!HandleOf, Serves
  <1>4. ASSUME Binding!AllIdle, NEW s \in Bindings \ rebound, phase[s] = "closed"
        PROVE  Binding!HandleOf(s) = {}
    BY <1>4, <1>3 DEF BindingInv, ClosedIsFree, Binding!HandleOf
  <1>5. ASSUME Binding!AllIdle, NEW s \in Bindings \ rebound, phase[s] = "open"
        PROVE  /\ rec[s].source = pushSource
               /\ Binding!HandleOf(s) = {rec[s].active} \ {None}
               /\ \A h \in Binding!HandleOf(s) : live[h].source = pushSource
               /\ pushSource # NoPusher /\ s \notin refused => Binding!HandleOf(s) # {}
    <2>1. rec[s].source = pushSource
      BY <1>2, <1>5 DEF BindingInv, SourceIsFollowed, Expected
    <2>2. /\ \A h \in Handles : Serves(h, s) <=> h = rec[s].active
          /\ \A h \in Handles : Serves(h, s) => live[h].source = rec[s].source
          /\ rec[s].source # NoPusher /\ s \notin refused => rec[s].active # None
      BY <1>2, <1>5 DEF BindingInv, RestingIsBound
    <2>3. rec[s].active \in Handles \cup {None}
      BY DEF BindingInv, BindingTypes
    <2>4. Binding!HandleOf(s) \subseteq Handles
      BY DEF Binding!HandleOf
    <2>5. Binding!HandleOf(s) = {rec[s].active} \ {None}
      BY <1>3, <2>2, <2>3, <2>4, BindingConstants DEF BindingConstants
    <2>. QED
      BY <1>3, <2>1, <2>2, <2>3, <2>4, <2>5
  <1>6. crashed => rebound # {}
    BY DEF BindingInv, OnlyReboundCrash
  <1>. QED
    BY <1>1, <1>4, <1>5, <1>6 DEF BindingEnds, Binding!BindingSettles, Binding!CloseReleases

-----------------------------------------------------------------------------
(* The client as a whole *)

LEMMA RegistryInvSettles == RegistryInv => TypeOK /\ RegistrySettles
<1>. SUFFICES ASSUME RegistryInv PROVE TypeOK /\ RegistrySettles
  OBVIOUS
<1>1. TypeOK
  BY DEF RegistryInv, IInv
<1>2. ASSUME AllIdle, ~overlapped, NEW d \in stateSubs PROVE seen[d] = devices[d].state
  <2>1. \A u \in Threads : work[u].notices[d] = <<>>
    BY <1>1, <1>2 DEF AllIdle, RegistryInv, NoticesAreDelivered, TypeOK
  <2>. QED
    BY <1>2, <2>1 DEF RegistryInv, Settling, TheOthersKnow
<1>3. ASSUME AllIdle, ~overlapped PROVE LANAgrees /\ GatewaysFollow
  BY <1>3 DEF AllIdle, RegistryInv, Settling, LANFollows, Fresh, Applies
<1>. QED
  BY <1>1, <1>2, <1>3
  DEF RegistrySettles, SubscriberSettles, BackendViewsSettle, LANAgrees, GatewaysFollow, AllIdle

LEMMA LifecycleInvSettles == LifecycleInv => Lifecycle!TypeOK /\ LifecycleSettles
<1>. SUFFICES ASSUME LifecycleInv PROVE Lifecycle!TypeOK /\ LifecycleSettles
  OBVIOUS
<1>1. Lifecycle!TypeOK
  BY DEF LifecycleInv, LifecycleTypes, FlagTypes, SlotTypes, StepTypes, Lifecycle!TypeOK, Steps,
         NetworkSteps, StartSteps, CloseSteps
<1>2. Lifecycle!ViewsSettle
  BY LifecycleConstants
  DEF LifecycleInv, Undisturbed, NetworkSeen, PushSeen, FirstLife, StartSteps, CloseSteps,
      Lifecycle!ViewsSettle, Lifecycle!AllIdle, Lifecycle!Busy
<1>3. Lifecycle!StoppedIsReleased
  BY DEF LifecycleInv, Undisturbed, UserKnows, Resting, Lifecycle!StoppedIsReleased,
         Lifecycle!Busy
<1>. QED
  BY <1>1, <1>2, <1>3 DEF LifecycleSettles

\* The registry, the lifecycle and the push subscriptions of the client keep their invariants: what
\* subscribers, gateways and the LAN client were told is what the entries say or is about to be,
\* every goroutine holds what its place in Start, Close or a handler requires, and a subscription
\* is served by what it records (client.go).
THEOREM ClientIsSound == MCSpec => [](RegistryInv /\ LifecycleInv /\ BindingInv)
<1>1. MCInit => RegistryInv /\ LifecycleInv /\ BindingInv
  BY RegistryInit, LifecycleInit, BindingStarts DEF MCInit
<1>2. /\ RegistryInv /\ LifecycleInv /\ BindingInv
      /\ [MCNext]_<<part, vars, lifecycle, binding>>
      => (RegistryInv /\ LifecycleInv /\ BindingInv)'
  <2>. SUFFICES ASSUME RegistryInv, LifecycleInv, BindingInv,
                       [MCNext]_<<part, vars, lifecycle, binding>>
                PROVE  RegistryInv' /\ LifecycleInv' /\ BindingInv'
    OBVIOUS
  <2>1. [Next]_vars /\ [Lifecycle!Next]_lifecycle /\ [Binding!Next]_binding
    BY DEF MCNext
  <2>. QED
    BY <2>1, RegistryStep, LifecycleStep, BindingStep
<1>. QED
  BY <1>1, <1>2, PTL DEF MCSpec

\* The variables of the client always have their types.
THEOREM ClientTypeCorrect == MCSpec => []ClientTypeOK
<1>1. RegistryInv /\ LifecycleInv /\ BindingInv => ClientTypeOK
  BY RegistryInvSettles, LifecycleInvSettles, BindingInvEnds DEF ClientTypeOK
<1>. QED
  BY <1>1, ClientIsSound, PTL

\* Handlers that did not overlap leave a subscriber with the state of the device and each entry
\* with what its backends last listed (client.go).
THEOREM RegistryStaysSettled == MCSpec => []RegistrySettles
<1>1. RegistryInv => RegistrySettles
  BY RegistryInvSettles
<1>. QED
  BY <1>1, ClientIsSound, PTL

\* However often the client is started, fails to start and is closed, its views of network, push
\* and refresh agree once calls are over, and a stopped client leaves nothing running (client.go).
THEOREM LifecycleStaysSettled == MCSpec => []LifecycleSettles
<1>1. LifecycleInv => LifecycleSettles
  BY LifecycleInvSettles
<1>. QED
  BY <1>1, ClientIsSound, PTL

\* With any number of goroutines rebinding any subscriptions, once they are over an open
\* subscription has exactly the one backend subscription that it records, at the current source, a
\* closed one has none, and nil is never closed: unless its rebinds overlapped (client.go).
THEOREM BindingsStayBound == MCSpec => []BindingEnds
<1>1. BindingInv => BindingEnds
  BY BindingInvEnds
<1>. QED
  BY <1>1, ClientIsSound, PTL

=============================================================================
