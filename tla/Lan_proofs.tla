------------------------- MODULE Lan_proofs -------------------------
(***************************************************************************)
(* The LAN client of MCLan, for every choice of intervals, thresholds,     *)
(* interfaces, durations and bounds: a device that falls silent is         *)
(* declared offline within SilenceBound, the variables have their types    *)
(* and LanIsTidy.  The models have no variable in common: each has its     *)
(* own inductive invariant.                                                *)
(***************************************************************************)
EXTENDS MCLan, TLAPS

\* The parts of the state the bound rests on.
Counters ==
  /\ online \in BOOLEAN
  /\ retryCount \in Nat /\ keepalive \in Nat /\ nextProbe \in Nat /\ silent \in Nat

\* An online device has retries left, and each used retry has bought it at
\* most one fast interval beyond the keepalive; whether a scan is running or not.
SilenceBudget ==
  online => /\ retryCount <= Offline - 1
            /\ silent + nextProbe <= KMax + retryCount * Fast

IInv == Counters /\ SilenceBudget

-----------------------------------------------------------------------------
(* Arithmetic *)

\* More retries cost more fast intervals.
LEMMA TimesMonotone == \A m, n, f \in Nat : m <= n => m * f <= n * f
  <1>1. SUFFICES ASSUME NEW m \in Nat, NEW n \in Nat, NEW f \in Nat, m <= n
                 PROVE  m * f <= n * f
    OBVIOUS
  <1>2. PICK d \in Nat : n = m + d
    <2>1. n - m \in Nat /\ n = m + (n - m)
      BY <1>1
    <2>. QED
      BY <2>1
  <1>3. n * f = m * f + d * f
    BY <1>2
  <1>4. m * f \in Nat /\ d * f \in Nat
    OBVIOUS
  <1>. QED
    BY <1>3, <1>4

\* One more retry costs one more fast interval.
LEMMA OneMore == \A n, f \in Nat : (n + 1) * f = n * f + f /\ n * f \in Nat
  OBVIOUS

\* A tick that ages the silence brings the probe nearer.
LEMMA TickArithmetic ==
  ASSUME NEW s \in Nat, NEW p \in Nat, NEW sNext \in Nat, NEW pNext \in Nat, NEW b \in Nat,
         sNext <= s + 1, pNext = p - 1, s + p <= b
  PROVE  sNext + pNext <= b
  OBVIOUS

LEMMA KeepaliveBounded ==
  ASSUME keepalive \in Nat, online \in BOOLEAN
  PROVE  nextKeepalive \in Nat /\ nextKeepalive <= KMax
  BY KeepaliveConstants DEF nextKeepalive, AtMost

-----------------------------------------------------------------------------
(* The two handlers *)

\* A step that says nothing of the device, or that it is offline.
Quiet ==
  /\ UNCHANGED <<retryCount, keepalive, nextProbe, silent, history, suppressed, changes>>
  /\ online' = online \/ online' = FALSE

\* Whoever takes it, a step records a success or a failure, or says nothing of the device.
LEMMA KindsOfStep ==
  ASSUME [Next]_vars
  PROVE  recordPingSuccess \/ recordPingFailure \/ Quiet \/ Tick
  <1>. USE DEF Quiet, probing, flapping, device
  <1>1. CASE Scan \/ startRuntime \/ stopRuntime \/ markAllDevicesOffline \/ ControlChanges \/
             DeviceChanges \/ UNCHANGED vars
    BY <1>1
    DEF Scan, startRuntime, stopRuntime, markAllDevicesOffline, ControlChanges, DeviceChanges, vars
  <1>2. CASE PingAnswered \/ PingTimesOut
    BY <1>2 DEF PingAnswered, PingTimesOut
  <1>3. ASSUME NEW c \in Callers, CallerStep(c)
        PROVE  recordPingSuccess \/ recordPingFailure \/ Quiet
    <2>1. CASE Record(c)
      BY <2>1 DEF Record
    <2>2. CASE ensureEnabled(c) \/ CallReturns(c) \/ PacketArrives(c)
      BY <2>2 DEF ensureEnabled, CallReturns, PacketArrives
    <2>. QED
      BY <1>3, <2>1, <2>2 DEF CallerStep
  <1>. QED
    BY <1>1, <1>2, <1>3 DEF Next

\* A success starts a new budget, whether or not the device comes online.
LEMMA SuccessKeepsBudget ==
  ASSUME IInv, recordPingSuccess
  PROVE  IInv'
  <1>1. nextKeepalive \in Nat /\ nextKeepalive <= KMax
    BY KeepaliveBounded DEF IInv, Counters
  <1>2. /\ retryCount' = 0 /\ keepalive' = nextKeepalive
        /\ nextProbe' = nextKeepalive /\ silent' = 0
    BY DEF recordPingSuccess
  <1>3. online' \in BOOLEAN
    <2>1. CASE online
      BY <2>1 DEF recordPingSuccess, IInv, Counters
    <2>2. CASE ~online
      BY <2>2 DEF recordPingSuccess, ComeOnline, IInv, Counters
    <2>. QED
      BY <2>1, <2>2
  <1>4. Counters'
    BY <1>1, <1>2, <1>3 DEF IInv, Counters
  <1>5. SilenceBudget'
    <2>1. 0 * Fast = 0 /\ Offline - 1 >= 0
      BY KeepaliveConstants
    <2>. QED
      BY <1>1, <1>2, <2>1, KeepaliveConstants DEF SilenceBudget
  <1>. QED
    BY <1>4, <1>5 DEF IInv

\* A failure spends one retry, or declares the device offline.
LEMMA FailureKeepsBudget ==
  ASSUME IInv, recordPingFailure
  PROVE  IInv'
  <1>1. retryCount \in Nat /\ silent \in Nat /\ nextProbe \in Nat /\ silent' = silent
    BY DEF IInv, Counters, recordPingFailure
  <1>2. CASE online /\ retryCount + 1 >= Offline
    <2>1. /\ online' = FALSE /\ retryCount' = 0
          /\ keepalive' = KMin /\ nextProbe' = KMin
      BY <1>2 DEF recordPingFailure
    <2>2. Counters'
      BY <1>1, <2>1, KeepaliveConstants DEF IInv, Counters
    <2>. QED
      BY <2>1, <2>2 DEF IInv, SilenceBudget
  <1>3. CASE ~(online /\ retryCount + 1 >= Offline)
    <2>1. /\ retryCount' = AtMost(retryCount + 1, Offline)
          /\ nextProbe' = Fast /\ keepalive' = keepalive /\ online' = online
      BY <1>3 DEF recordPingFailure
    <2>2. retryCount' \in Nat
      BY <1>1, <2>1, KeepaliveConstants DEF AtMost
    <2>3. Counters'
      BY <1>1, <2>1, <2>2, KeepaliveConstants DEF IInv, Counters
    <2>4. SilenceBudget'
      <3>1. SUFFICES ASSUME online'
                     PROVE  /\ retryCount' <= Offline - 1
                            /\ silent' + nextProbe' <= KMax + retryCount' * Fast
        BY DEF SilenceBudget
      <3>2. online /\ retryCount + 1 < Offline
        BY <1>1, <1>3, <2>1, <3>1, KeepaliveConstants
      <3>3. retryCount' = retryCount + 1
        BY <1>1, <2>1, <3>2, KeepaliveConstants DEF AtMost
      <3>4. silent + nextProbe <= KMax + retryCount * Fast
        BY <3>2 DEF IInv, SilenceBudget
      <3>5. (retryCount + 1) * Fast = retryCount * Fast + Fast /\ retryCount * Fast \in Nat
        BY <1>1, OneMore, KeepaliveConstants
      <3>6. silent' + nextProbe' <= KMax + retryCount' * Fast
        BY <1>1, <2>1, <3>3, <3>4, <3>5, KeepaliveConstants
      <3>. QED
        BY <1>1, <3>2, <3>3, <3>6, KeepaliveConstants
    <2>. QED
      BY <2>3, <2>4 DEF IInv
  <1>. QED
    BY <1>2, <1>3

-----------------------------------------------------------------------------
(* The invariant *)

LEMMA InitIInv == Init => IInv
  <1>1. Init => online \in BOOLEAN
    BY Zenon DEF Init
  <1>2. Init => retryCount \in Nat /\ keepalive \in Nat /\ nextProbe \in Nat /\ silent \in Nat
    BY DEF Init
  <1>3. Init => SilenceBudget
    BY Zenon DEF Init, SilenceBudget
  <1>. QED
    BY <1>1, <1>2, <1>3 DEF IInv, Counters

LEMMA StepIInv == IInv /\ [Next]_vars => IInv'
  <1>. SUFFICES ASSUME IInv, [Next]_vars PROVE IInv'
    OBVIOUS
  <1>. USE DEF IInv, Counters
  <1>1. CASE recordPingSuccess
    BY <1>1, SuccessKeepsBudget
  <1>2. CASE recordPingFailure
    BY <1>2, FailureKeepsBudget
  <1>3. CASE Quiet
    <2>1. /\ online' = online \/ online' = FALSE
          /\ UNCHANGED <<retryCount, keepalive, nextProbe, silent>>
      BY <1>3 DEF Quiet
    <2>2. Counters'
      BY <2>1
    <2>3. online' \in BOOLEAN
      BY <2>1, Zenon
    <2>4. SilenceBudget'
      <3>1. CASE online' = online
        BY <2>1, <3>1 DEF SilenceBudget
      <3>2. CASE online' = FALSE
        BY <3>2 DEF SilenceBudget
      <3>. QED
        BY <2>1, <3>1, <3>2
    <2>. QED
      BY <2>2, <2>3, <2>4
  <1>4. CASE Tick
    <2>1. /\ online' = online /\ retryCount' = retryCount /\ keepalive' = keepalive
          /\ nextProbe' = Less(nextProbe) /\ (Scanning => nextProbe > 0)
          /\ silent' = IF Scanning THEN AtMost(silent + 1, SilenceBound + 1) ELSE silent
      BY <1>4 DEF Tick
    <2>2. SilenceBound \in Nat
      <3>1. Offline - 1 \in Nat /\ Fast \in Nat /\ KMax \in Nat
        BY KeepaliveConstants
      <3>2. (Offline - 1) * Fast \in Nat
        BY <3>1
      <3>. QED
        BY <3>1, <3>2 DEF SilenceBound
    <2>3. /\ nextProbe' \in Nat /\ nextProbe' <= nextProbe
          /\ nextProbe > 0 => nextProbe' = nextProbe - 1
      BY <2>1 DEF Less
    <2>4. silent' \in Nat /\ silent' <= silent + 1 /\ (~Scanning => silent' = silent)
      BY <2>1, <2>2 DEF AtMost
    <2>5. SilenceBudget'
      <3>1. SUFFICES ASSUME online
                     PROVE  /\ retryCount <= Offline - 1
                            /\ silent' + nextProbe' <= KMax + retryCount * Fast
        BY <2>1 DEF SilenceBudget
      <3>2. silent + nextProbe <= KMax + retryCount * Fast /\ retryCount * Fast \in Nat
        BY <3>1, OneMore, KeepaliveConstants DEF SilenceBudget
      <3>3. silent \in Nat /\ nextProbe \in Nat
        OBVIOUS
      <3>4. PICK budget \in Nat : budget = KMax + retryCount * Fast
        BY <3>2, KeepaliveConstants
      <3>5. silent + nextProbe <= budget
        BY <3>2, <3>4
      <3>6. silent' + nextProbe' <= budget
        <4>1. CASE Scanning
          BY <2>1, <2>3, <2>4, <3>3, <3>4, <3>5, <4>1, TickArithmetic
        <4>2. CASE ~Scanning
          BY <2>3, <2>4, <3>3, <3>4, <3>5, <4>2
        <4>. QED
          BY <4>1, <4>2
      <3>. QED
        BY <3>1, <3>4, <3>6 DEF SilenceBudget
    <2>. QED
      BY <2>1, <2>3, <2>4, <2>5
  <1>. QED
    BY <1>1, <1>2, <1>3, <1>4, KindsOfStep

\* The budget is an inductive invariant of the keepalive.
THEOREM BudgetIsKept == Spec => []IInv
  BY InitIInv, StepIInv, PTL DEF Spec

\* Whatever the intervals and however many callers and packets, a device that stays online was
\* heard from within KMax and Offline - 1 fast retries of scanning, also when a caller put it
\* online while no scan was running (recordPingFailure, scanDevices, Ping, handleRuntimePacket).
THEOREM SilenceIsAlwaysDetected == Spec => []SilenceIsDetected
  <1>1. IInv => SilenceIsDetected
    <2>1. SUFFICES ASSUME IInv, online PROVE silent <= SilenceBound
      BY DEF SilenceIsDetected
    <2>2. retryCount \in Nat /\ Offline - 1 \in Nat /\ Fast \in Nat /\ retryCount <= Offline - 1
      BY <2>1, KeepaliveConstants DEF IInv, Counters, SilenceBudget
    <2>3. retryCount * Fast <= (Offline - 1) * Fast
      BY <2>2, TimesMonotone
    <2>4. retryCount * Fast \in Nat /\ (Offline - 1) * Fast \in Nat
      BY <2>2
    <2>. QED
      BY <2>1, <2>3, <2>4, KeepaliveConstants
      DEF IInv, Counters, SilenceBudget, SilenceBound
  <1>. QED
    BY <1>1, BudgetIsKept, PTL
-----------------------------------------------------------------------------
(* The types of the keepalive, and its two histories *)

Flags == {online, ping, answers} \subseteq BOOLEAN
Roles ==
  /\ control \in {"disabled", "gateway", "allowed"}
  /\ runtime \in {"stopped", "running", "stopping"}
  /\ caller \in [Callers -> {"idle", "waiting", "answered", "failed"}]
Numbers ==
  /\ retryCount \in 0..Offline /\ keepalive \in {0} \cup KMin..KMax
  /\ nextProbe \in 0..(KMax + Fast) /\ suppressed \in 0..Resume
  /\ silent \in 0..(SilenceBound + 1)
Histories ==
  /\ history \in [1..Unstable -> 0..Window]
  /\ changes \in [1..(Unstable + 1) -> 0..Window]

\* Every change that was told is a transition: the k-th latest of these is at least as recent as
\* the k-th latest of those.
ChangesAreCounted ==
  /\ \A k \in 1..Unstable : history[k] <= changes[k]
  /\ \A j, k \in 1..Unstable : j <= k => history[j] <= history[k]
  /\ changes[Unstable + 1] = Window
  /\ online => changes[Unstable] = Window

FlapInv == Flags /\ Roles /\ Numbers /\ Histories /\ ChangesAreCounted

LEMMA FlapTypes == FlapInv => TypeOK /\ FlappingIsDamped
  BY DEF FlapInv, Flags, Roles, Numbers, Histories, ChangesAreCounted, TypeOK, FlappingIsDamped

\* What Happen and pruneTransitionHistory return.
LEMMA AgesOf ==
  ASSUME NEW n \in Nat, NEW ages \in [1..n -> 0..Window]
  PROVE  /\ Happen(ages) \in [1..n -> 0..Window]
         /\ \A k \in 1..n : Happen(ages)[k] = IF k = 1 THEN 0 ELSE ages[k - 1]
         /\ pruneTransitionHistory(ages) \in [1..n -> 0..Window]
         /\ \A k \in 1..n : pruneTransitionHistory(ages)[k] = AtMost(ages[k] + 1, Window)
  <1>1. Window \in Nat
    BY KeepaliveConstants
  <1>2. DOMAIN ages = 1..n
    OBVIOUS
  <1>3. \A k \in 1..n : (IF k = 1 THEN 0 ELSE ages[k - 1]) \in 0..Window
    BY <1>1
  <1>4. \A k \in 1..n : AtMost(ages[k] + 1, Window) \in 0..Window
    BY <1>1 DEF AtMost
  <1>5. Happen(ages) = [k \in 1..n |-> IF k = 1 THEN 0 ELSE ages[k - 1]]
    BY <1>2 DEF Happen
  <1>6. pruneTransitionHistory(ages) = [k \in 1..n |-> AtMost(ages[k] + 1, Window)]
    BY <1>2 DEF pruneTransitionHistory
  <1>. QED
    BY <1>3, <1>4, <1>5, <1>6

\* The constants, as the leaves use them.
LEMMA FlapConstants ==
  /\ Unstable \in Nat /\ Unstable >= 1 /\ Window \in Nat /\ Window >= 1 /\ Resume \in Nat
  /\ Offline \in Nat /\ Offline >= 1 /\ KMin \in Nat /\ KMax \in Nat /\ KMin <= KMax /\ Fast \in Nat
  /\ SilenceBound \in Nat
  <1>1. Offline - 1 \in Nat /\ Fast \in Nat /\ KMax \in Nat
    BY KeepaliveConstants
  <1>2. (Offline - 1) * Fast \in Nat
    BY <1>1
  <1>3. SilenceBound \in Nat
    BY <1>1, <1>2 DEF SilenceBound
  <1>. QED
    BY <1>3, KeepaliveConstants
\* The same of the two histories.
LEMMA HistoryAges ==
  ASSUME Histories
  PROVE  /\ Happen(history) \in [1..Unstable -> 0..Window]
         /\ \A k \in 1..Unstable : Happen(history)[k] = IF k = 1 THEN 0 ELSE history[k - 1]
         /\ pruneTransitionHistory(history) \in [1..Unstable -> 0..Window]
         /\ \A k \in 1..Unstable : pruneTransitionHistory(history)[k] = AtMost(history[k] + 1, Window)
  <1>1. Unstable \in Nat /\ history \in [1..Unstable -> 0..Window]
    BY FlapConstants DEF Histories
  <1>. QED
    BY <1>1, AgesOf, Zenon

LEMMA ChangesAges ==
  ASSUME Histories
  PROVE  /\ Happen(changes) \in [1..(Unstable + 1) -> 0..Window]
         /\ \A k \in 1..(Unstable + 1) : Happen(changes)[k] = IF k = 1 THEN 0 ELSE changes[k - 1]
         /\ pruneTransitionHistory(changes) \in [1..(Unstable + 1) -> 0..Window]
         /\ \A k \in 1..(Unstable + 1) : pruneTransitionHistory(changes)[k] = AtMost(changes[k] + 1, Window)
  <1>1. Unstable + 1 \in Nat /\ changes \in [1..(Unstable + 1) -> 0..Window]
    BY FlapConstants DEF Histories
  <1>. QED
    BY <1>1, AgesOf, Zenon

\* What happens now is put before the rest.
LEMMA LatestFirst ==
  ASSUME Histories, \A j, k \in 1..Unstable : j <= k => history[j] <= history[k],
         history' = Happen(history)
  PROVE  \A j, k \in 1..Unstable : j <= k => history'[j] <= history'[k]
  <1>. USE FlapConstants
  <1>1. \A k \in 1..Unstable : history'[k] = IF k = 1 THEN 0 ELSE history[k - 1]
    BY HistoryAges
  <1>2. \A k \in 1..Unstable : history'[k] \in 0..Window
    BY HistoryAges
  <1>3. SUFFICES ASSUME NEW j \in 1..Unstable, NEW k \in 1..Unstable, j <= k
                 PROVE  history'[j] <= history'[k]
    OBVIOUS
  <1>4. CASE j = 1
    BY <1>1, <1>2, <1>4
  <1>5. CASE j # 1
    <2>1. j - 1 \in 1..Unstable /\ k - 1 \in 1..Unstable /\ k # 1 /\ j - 1 <= k - 1
      BY <1>3, <1>5
    <2>2. history[j - 1] <= history[k - 1]
      BY <2>1
    <2>. QED
      BY <1>1, <1>5, <2>1, <2>2
  <1>. QED
    BY <1>4, <1>5

\* A transition nobody is told of: a recovery that is held back.
LEMMA HeldBack ==
  ASSUME Histories, ChangesAreCounted, history' = Happen(history), changes' = changes, ~online'
  PROVE  Histories' /\ ChangesAreCounted'
  <1>. USE FlapConstants
  <1>1. /\ history' \in [1..Unstable -> 0..Window]
        /\ \A k \in 1..Unstable : history'[k] = IF k = 1 THEN 0 ELSE history[k - 1]
    BY HistoryAges
  <1>2. \A k \in 1..Unstable : history[k] \in 0..Window /\ changes[k] \in 0..Window
    BY DEF Histories
  <1>3. \A k \in 1..Unstable : history'[k] \in 0..Window /\ history'[k] <= history[k]
    <2>1. TAKE k \in 1..Unstable
    <2>2. CASE k = 1
      BY <1>1, <1>2, <2>2
    <2>3. CASE k # 1
      <3>1. k - 1 \in 1..Unstable /\ k - 1 <= k
        BY <2>3
      <3>2. history[k - 1] <= history[k]
        BY <3>1 DEF ChangesAreCounted
      <3>. QED
        BY <1>1, <1>2, <2>3, <3>1, <3>2
    <2>. QED
      BY <2>2, <2>3
  <1>4. \A k \in 1..Unstable : history'[k] <= changes'[k]
    <2>1. \A k \in 1..Unstable : history[k] <= changes[k]
      BY DEF ChangesAreCounted
    <2>. QED
      BY <1>2, <1>3, <2>1
  <1>5. \A j, k \in 1..Unstable : j <= k => history'[j] <= history'[k]
    BY LatestFirst DEF ChangesAreCounted
  <1>. QED
    BY <1>1, <1>4, <1>5 DEF Histories, ChangesAreCounted

\* A transition that is told: there was room for one more.
LEMMA Told ==
  ASSUME Histories, ChangesAreCounted, history' = Happen(history), changes' = Happen(changes),
         changes[Unstable] = Window,
         online' => ~isUnstableOnlineRecovery(Happen(history))
  PROVE  Histories' /\ ChangesAreCounted'
  <1>. USE FlapConstants
  <1>1. /\ history' \in [1..Unstable -> 0..Window]
        /\ \A k \in 1..Unstable : history'[k] = IF k = 1 THEN 0 ELSE history[k - 1]
    BY HistoryAges
  <1>2. /\ changes' \in [1..(Unstable + 1) -> 0..Window]
        /\ \A k \in 1..(Unstable + 1) : changes'[k] = IF k = 1 THEN 0 ELSE changes[k - 1]
    BY ChangesAges
  <1>3. \A k \in 1..Unstable : history[k] \in 0..Window /\ changes[k] \in 0..Window
    BY DEF Histories
  <1>4. \A k \in 1..Unstable : history'[k] <= changes'[k]
    <2>1. TAKE k \in 1..Unstable
    <2>2. CASE k = 1
      BY <1>1, <1>2, <2>2
    <2>3. CASE k # 1
      <3>1. k - 1 \in 1..Unstable
        BY <2>3
      <3>2. history[k - 1] <= changes[k - 1]
        BY <3>1 DEF ChangesAreCounted
      <3>. QED
        BY <1>1, <1>2, <2>3, <3>2
    <2>. QED
      BY <2>2, <2>3
  <1>5. \A j, k \in 1..Unstable : j <= k => history'[j] <= history'[k]
    BY LatestFirst DEF ChangesAreCounted
  <1>6. changes'[Unstable + 1] = Window
    BY <1>2
  <1>7. online' => changes'[Unstable] = Window
    <2>1. SUFFICES ASSUME online' PROVE changes'[Unstable] = Window
      OBVIOUS
    <2>2. ~(history'[Unstable] < Window)
      BY <2>1 DEF isUnstableOnlineRecovery
    <2>3. history'[Unstable] \in 0..Window /\ changes'[Unstable] \in 0..Window
      BY <1>1, <1>2
    <2>. QED
      BY <1>4, <2>2, <2>3
  <1>. QED
    BY <1>1, <1>2, <1>4, <1>5, <1>6, <1>7 DEF Histories, ChangesAreCounted

\* With no room for a recovery there was no room before it either.
LEMMA RoomBefore ==
  ASSUME Histories, ChangesAreCounted, ~isUnstableOnlineRecovery(Happen(history))
  PROVE  changes[Unstable] = Window
  <1>. USE FlapConstants
  <1>1. \A k \in 1..Unstable : Happen(history)[k] = IF k = 1 THEN 0 ELSE history[k - 1]
    BY HistoryAges
  <1>2. \A k \in 1..Unstable : history[k] \in 0..Window /\ changes[k] \in 0..Window
    BY DEF Histories
  <1>3. ~(Happen(history)[Unstable] < Window)
    BY DEF isUnstableOnlineRecovery
  <1>4. Unstable # 1 /\ Unstable - 1 \in 1..Unstable
    BY <1>1, <1>3
  <1>5. history[Unstable - 1] >= Window
    BY <1>1, <1>2, <1>3, <1>4
  <1>6. history[Unstable - 1] <= history[Unstable] /\ history[Unstable] <= changes[Unstable]
    BY <1>4 DEF ChangesAreCounted
  <1>. QED
    BY <1>2, <1>4, <1>5, <1>6

\* Time passes for both.
LEMMA BothAge ==
  ASSUME Histories, ChangesAreCounted, online' = online,
         history' = pruneTransitionHistory(history), changes' = pruneTransitionHistory(changes)
  PROVE  Histories' /\ ChangesAreCounted'
  <1>. USE FlapConstants
  <1>1. /\ history' \in [1..Unstable -> 0..Window]
        /\ \A k \in 1..Unstable : history'[k] = AtMost(history[k] + 1, Window)
    BY HistoryAges
  <1>2. /\ changes' \in [1..(Unstable + 1) -> 0..Window]
        /\ \A k \in 1..(Unstable + 1) : changes'[k] = AtMost(changes[k] + 1, Window)
    BY ChangesAges
  <1>3. \A a, b \in 0..Window : a <= b => AtMost(a + 1, Window) <= AtMost(b + 1, Window)
    BY DEF AtMost
  <1>4. AtMost(Window + 1, Window) = Window
    BY DEF AtMost
  <1>5. \A k \in 1..Unstable : history[k] \in 0..Window /\ changes[k] \in 0..Window
    BY DEF Histories
  <1>6. \A k \in 1..Unstable : history'[k] <= changes'[k]
    <2>1. TAKE k \in 1..Unstable
    <2>2. history[k] <= changes[k]
      BY DEF ChangesAreCounted
    <2>3. history'[k] = AtMost(history[k] + 1, Window) /\ changes'[k] = AtMost(changes[k] + 1, Window)
      BY <1>1, <1>2
    <2>. QED
      BY <1>3, <1>5, <2>2, <2>3
  <1>7. \A j, k \in 1..Unstable : j <= k => history'[j] <= history'[k]
    BY <1>1, <1>3, <1>5 DEF ChangesAreCounted
  <1>8. changes'[Unstable + 1] = Window /\ (online' => changes'[Unstable] = Window)
    BY <1>2, <1>4 DEF ChangesAreCounted
  <1>. QED
    BY <1>1, <1>2, <1>6, <1>7, <1>8 DEF Histories, ChangesAreCounted

\* Neither changes, and a device that is online was so before.
LEMMA NothingHappens ==
  ASSUME Histories, ChangesAreCounted, history' = history, changes' = changes, online' => online
  PROVE  Histories' /\ ChangesAreCounted'
  BY DEF Histories, ChangesAreCounted

LEMMA InitFlap == Init => FlapInv
  <1>. SUFFICES ASSUME Init PROVE FlapInv
    OBVIOUS
  <1>. USE FlapConstants
  <1>1. Flags
    <2>1. online = FALSE /\ ping = FALSE /\ answers \in BOOLEAN
      BY Zenon DEF Init
    <2>2. online \in BOOLEAN /\ ping \in BOOLEAN /\ answers \in BOOLEAN
      BY <2>1, Zenon
    <2>. QED
      BY <2>2, Zenon DEF Flags
  <1>6. Roles
    BY DEF Init, Roles
  <1>2. Numbers
    BY DEF Init, Numbers
  <1>3. history = [k \in 1..Unstable |-> Window] /\ changes = [k \in 1..(Unstable + 1) |-> Window]
    BY DEF Init
  <1>4. Histories
    BY <1>3 DEF Histories
  <1>5. ChangesAreCounted
    BY <1>3 DEF Init, ChangesAreCounted
  <1>. QED
    BY <1>1, <1>2, <1>4, <1>5, <1>6 DEF FlapInv

\* Who is at what.
LEMMA RolesStep == Roles /\ [Next]_vars => Roles'
  <1>. SUFFICES ASSUME Roles, [Next]_vars PROVE Roles'
    OBVIOUS
  <1>. USE DEF Roles, others
  <1>1. CASE Scan \/ PingAnswered \/ PingTimesOut \/ Tick \/ UNCHANGED vars
    BY <1>1 DEF Scan, PingAnswered, PingTimesOut, Tick, vars
  <1>2. CASE startRuntime \/ stopRuntime \/ markAllDevicesOffline
    BY <1>2 DEF startRuntime, stopRuntime, markAllDevicesOffline
  <1>3. CASE ControlChanges \/ DeviceChanges
    BY <1>3 DEF ControlChanges, DeviceChanges
  <1>4. ASSUME NEW c \in Callers, CallerStep(c) PROVE Roles'
    BY <1>4 DEF CallerStep, ensureEnabled, CallReturns, PacketArrives, Record, At
  <1>. QED
    BY <1>1, <1>2, <1>3, <1>4 DEF Next

\* The two flags the handlers do not set.
LEMMA FlagsStep ==
  ASSUME Flags, [Next]_vars
  PROVE  ping' \in BOOLEAN /\ answers' \in BOOLEAN
  <1>1. ping \in BOOLEAN /\ answers \in BOOLEAN /\ (~answers) \in BOOLEAN
    <2>1. ping \in BOOLEAN /\ answers \in BOOLEAN
      BY Zenon DEF Flags
    <2>2. (~answers) \in BOOLEAN
      BY <2>1
    <2>. QED
      BY <2>1, <2>2
  <1>2. CASE Scan \/ PingAnswered \/ PingTimesOut
    BY <1>1, <1>2 DEF Scan, PingAnswered, PingTimesOut, others
  <1>3. CASE startRuntime \/ stopRuntime \/ markAllDevicesOffline
    BY <1>1, <1>3 DEF startRuntime, stopRuntime, markAllDevicesOffline, others
  <1>4. CASE ControlChanges \/ DeviceChanges \/ Tick \/ UNCHANGED vars
    BY <1>1, <1>4 DEF ControlChanges, DeviceChanges, Tick, vars, others
  <1>5. ASSUME NEW c \in Callers, CallerStep(c) PROVE ping' = ping /\ answers' = answers
    BY <1>5 DEF CallerStep, ensureEnabled, CallReturns, PacketArrives, Record
  <1>. QED
    BY <1>1, <1>2, <1>3, <1>4, <1>5 DEF Next

\* The two handlers.
LEMMA SuccessKeepsFlap ==
  ASSUME FlapInv, recordPingSuccess, Roles', ping' \in BOOLEAN, answers' \in BOOLEAN
  PROVE  FlapInv'
  <1>. USE FlapConstants
  <1>1. online \in BOOLEAN
    BY Zenon DEF FlapInv, Flags
  <1>2. nextKeepalive \in KMin..KMax
    <2>1. CASE keepalive = 0 \/ ~online
      BY <2>1 DEF nextKeepalive
    <2>2. CASE keepalive # 0 /\ online
      BY <2>2 DEF nextKeepalive, AtMost, FlapInv, Numbers
    <2>. QED
      BY <2>1, <2>2
  <1>3. /\ retryCount' = 0 /\ silent' = 0
        /\ keepalive' = nextKeepalive /\ nextProbe' = nextKeepalive
    BY DEF recordPingSuccess
  <1>4. CASE online \/ suppressed > 0
    <2>1. online' = online /\ history' = history /\ suppressed' = suppressed /\ changes' = changes
      BY <1>4 DEF recordPingSuccess, ComeOnline
    <2>2. Flags'
      BY <1>1, <2>1, Zenon DEF Flags
    <2>3. Numbers'
      BY <1>2, <1>3, <2>1 DEF FlapInv, Numbers
    <2>. QED
      BY <2>1, <2>2, <2>3, NothingHappens DEF FlapInv
  <1>5. CASE ~online /\ ~(suppressed > 0) /\ isUnstableOnlineRecovery(Happen(history))
    <2>1. online' = online /\ history' = Happen(history) /\ suppressed' = Resume /\ changes' = changes
      BY <1>5 DEF recordPingSuccess, ComeOnline
    <2>2. Flags'
      BY <1>1, <2>1, Zenon DEF Flags
    <2>3. Numbers'
      BY <1>2, <1>3, <2>1 DEF FlapInv, Numbers
    <2>. QED
      BY <1>5, <2>1, <2>2, <2>3, HeldBack DEF FlapInv
  <1>6. CASE ~online /\ ~(suppressed > 0) /\ ~isUnstableOnlineRecovery(Happen(history))
    <2>1. online' = TRUE /\ history' = Happen(history) /\ suppressed' = 0 /\ changes' = Happen(changes)
      BY <1>6 DEF recordPingSuccess, ComeOnline, Emit
    <2>2. Flags'
      BY <2>1, Zenon DEF Flags
    <2>3. Numbers'
      BY <1>2, <1>3, <2>1 DEF FlapInv, Numbers
    <2>. QED
      BY <1>6, <2>1, <2>2, <2>3, RoomBefore, Told DEF FlapInv
  <1>. QED
    BY <1>4, <1>5, <1>6

LEMMA FailureKeepsFlap ==
  ASSUME FlapInv, recordPingFailure, Roles', ping' \in BOOLEAN, answers' \in BOOLEAN
  PROVE  FlapInv'
  <1>. USE FlapConstants
  <1>1. online \in BOOLEAN
    BY Zenon DEF FlapInv, Flags
  <1>2. suppressed' = suppressed /\ silent' = silent
    BY DEF recordPingFailure
  <1>3. CASE online /\ retryCount + 1 >= Offline
    <2>1. /\ history' = Happen(history) /\ changes' = Happen(changes) /\ online' = FALSE
          /\ retryCount' = 0 /\ keepalive' = KMin /\ nextProbe' = KMin
      BY <1>3 DEF recordPingFailure, Emit
    <2>2. Flags'
      BY <2>1, Zenon DEF Flags
    <2>3. Numbers'
      BY <1>2, <2>1 DEF FlapInv, Numbers
    <2>4. changes[Unstable] = Window
      BY <1>3 DEF FlapInv, ChangesAreCounted
    <2>. QED
      BY <2>1, <2>2, <2>3, <2>4, Told DEF FlapInv
  <1>4. CASE ~(online /\ retryCount + 1 >= Offline)
    <2>1. /\ history' = history /\ changes' = changes /\ online' = online
          /\ retryCount' = AtMost(retryCount + 1, Offline) /\ keepalive' = keepalive
          /\ nextProbe' = Fast
      BY <1>4 DEF recordPingFailure
    <2>2. Flags'
      BY <1>1, <2>1, Zenon DEF Flags
    <2>3. retryCount' \in 0..Offline
      BY <2>1 DEF AtMost, FlapInv, Numbers
    <2>4. Numbers'
      BY <1>2, <2>1, <2>3 DEF FlapInv, Numbers
    <2>. QED
      BY <2>1, <2>2, <2>4, NothingHappens DEF FlapInv
  <1>. QED
    BY <1>3, <1>4

LEMMA StepFlap == FlapInv /\ [Next]_vars => FlapInv'
  <1>. SUFFICES ASSUME FlapInv, [Next]_vars PROVE FlapInv'
    OBVIOUS
  <1>. USE FlapConstants
  <1>1. Roles' /\ ping' \in BOOLEAN /\ answers' \in BOOLEAN
    BY RolesStep, FlagsStep DEF FlapInv
  <1>2. CASE Quiet
    <2>1. online' \in BOOLEAN
      BY <1>2, Zenon DEF Quiet, FlapInv, Flags
    <2>2. Flags'
      BY <1>1, <2>1, Zenon DEF Flags
    <2>3. Numbers' /\ history' = history /\ changes' = changes /\ (online' => online)
      BY <1>2 DEF Quiet, FlapInv, Numbers
    <2>. QED
      BY <1>1, <2>2, <2>3, NothingHappens DEF FlapInv
  <1>3. CASE recordPingSuccess \/ recordPingFailure
    BY <1>1, <1>3, SuccessKeepsFlap, FailureKeepsFlap
  <1>4. CASE Tick
    <2>1. /\ nextProbe' = Less(nextProbe) /\ suppressed' = Less(suppressed)
          /\ silent' = IF Scanning THEN AtMost(silent + 1, SilenceBound + 1) ELSE silent
          /\ retryCount' = retryCount /\ keepalive' = keepalive
          /\ history' = pruneTransitionHistory(history)
          /\ changes' = pruneTransitionHistory(changes)
          /\ online' = online
      BY <1>4 DEF Tick
    <2>2. Flags'
      BY <1>1, <2>1, Zenon DEF FlapInv, Flags
    <2>3. Numbers'
      BY <2>1 DEF FlapInv, Numbers, Less, AtMost
    <2>. QED
      BY <1>1, <2>1, <2>2, <2>3, BothAge DEF FlapInv
  <1>. QED
    BY <1>2, <1>3, <1>4, KindsOfStep
-----------------------------------------------------------------------------
(* Push subscriptions of a device *)

PushFlags == {known, pushAvailable, wildcardSupported, subscribeEnabled, needsPush, raced} \subseteq BOOLEAN
PushLoops ==
  /\ reader \in [Loops -> {"idle", "update", "sync", "subscribe", "reply"}]
  /\ probe \in [Loops -> Seconds \cup {0}] /\ ts \in [Loops -> Seconds \cup {0}]
PushRest ==
  /\ now \in Seconds /\ deviceTS \in Seconds \cup {0} /\ lastSubscribeTS \in Seconds \cup {0}
  /\ user \in {"idle", "unsubscribe", "sent", "done"}

\* Push is available since a subscription, which has a timestamp.
AvailableIsTimed == pushAvailable => lastSubscribeTS # 0 /\ Push!HasSubscription

InFlight(l) == reader[l] \in {"subscribe", "reply"}
InFlightIsTimed == \A l \in Loops : InFlight(l) => ts[l] # 0 /\ Push!HasSubscription

\* From the moment dispatch is off no subscribe begins, and push that was available is being ended.
OffIsEnforced ==
  ~subscribeEnabled /\ ~raced =>
    /\ \A l \in Loops : ~InFlight(l)
    /\ pushAvailable => user # "idle"

PushInv == PushFlags /\ PushLoops /\ PushRest /\ AvailableIsTimed /\ InFlightIsTimed /\ OffIsEnforced

LEMMA PushProperties == PushInv => Push!TypeOK /\ Push!OffIsOff
  <1>. SUFFICES ASSUME PushInv PROVE Push!TypeOK /\ Push!OffIsOff
    OBVIOUS
  <1>1. Push!TypeOK
    <2>1. PushFlags /\ AvailableIsTimed
      BY DEF PushInv
    <2>2. /\ now \in Seconds /\ {deviceTS, lastSubscribeTS} \subseteq Seconds \cup {0}
          /\ reader \in [Loops -> {"idle", "update", "sync", "subscribe", "reply"}]
          /\ {probe, ts} \subseteq [Loops -> Seconds \cup {0}]
          /\ user \in {"idle", "unsubscribe", "sent", "done"}
      BY DEF PushInv, PushLoops, PushRest
    <2>. QED
      BY <2>1, <2>2, Zenon DEF PushFlags, AvailableIsTimed, Push!TypeOK
  <1>2. Push!OffIsOff
    <2>1. raced \in BOOLEAN
      BY Zenon DEF PushInv, PushFlags
    <2>. QED
      BY <2>1, Zenon DEF PushInv, OffIsEnforced, Push!OffIsOff, Push!Quiet
  <1>. QED
    BY <1>1, <1>2

LEMMA InitPush == Push!Init => PushInv
  <1>. SUFFICES ASSUME Push!Init PROVE PushInv
    OBVIOUS
  <1>1. PushFlags
    BY Zenon DEF Push!Init, PushFlags
  <1>2. PushLoops /\ PushRest
    BY DEF Push!Init, PushLoops, PushRest
  <1>3. AvailableIsTimed /\ OffIsEnforced
    BY Zenon DEF Push!Init, AvailableIsTimed, OffIsEnforced
  <1>4. InFlightIsTimed
    BY DEF Push!Init, InFlightIsTimed, InFlight
  <1>. QED
    BY <1>1, <1>2, <1>3, <1>4 DEF PushInv

\* A loop that moves on without a subscribe, and leaves the state alone.
LEMMA LoopMoves ==
  ASSUME PushInv, NEW l \in Loops, NEW step \in {"idle", "update", "sync"},
         reader' = [reader EXCEPT ![l] = step],
         probe' \in [Loops -> Seconds \cup {0}],
         ts' \in [Loops -> Seconds \cup {0}],
         \A m \in Loops \ {l} : ts'[m] = ts[m],
         UNCHANGED <<capable, subscribeEnabled, raced, user>>
  PROVE  PushLoops' /\ InFlightIsTimed' /\ (\A m \in Loops : InFlight(m)' => InFlight(m))
  <1>1. PushLoops'
    BY DEF PushInv, PushLoops
  <1>2. \A m \in Loops : InFlight(m)' => m # l /\ InFlight(m)
    BY DEF PushInv, PushLoops, InFlight
  <1>3. InFlightIsTimed'
    BY <1>2 DEF PushInv, InFlightIsTimed, Push!HasSubscription
  <1>. QED
    BY <1>1, <1>2, <1>3

\* The loops stay where they are.
LEMMA LoopsRest ==
  ASSUME PushInv, reader' = reader, probe' = probe, ts' = ts, capable' = capable
  PROVE  PushLoops' /\ InFlightIsTimed' /\ (\A m \in Loops : InFlight(m)' = InFlight(m))
  BY DEF PushInv, PushLoops, InFlight, InFlightIsTimed, Push!HasSubscription

LEMMA PushStep == PushInv /\ [Push!Next]_pushing => PushInv'
  <1>. SUFFICES ASSUME PushInv, [Push!Next]_pushing PROVE PushInv'
    OBVIOUS
  <1>. USE DEF PushInv
  <1>1. /\ known \in BOOLEAN /\ pushAvailable \in BOOLEAN /\ wildcardSupported \in BOOLEAN
        /\ subscribeEnabled \in BOOLEAN /\ needsPush \in BOOLEAN /\ raced \in BOOLEAN
    BY Zenon DEF PushFlags
  <1>2. ASSUME NEW l \in Loops, Push!ProbeSent(l) PROVE PushInv'
    <2>1. /\ reader' = [reader EXCEPT ![l] = "update"] /\ probe' = [probe EXCEPT ![l] = deviceTS]
          /\ UNCHANGED <<capable, deviceTS, now, pushAvailable, wildcardSupported, lastSubscribeTS>>
          /\ UNCHANGED <<known, subscribeEnabled, needsPush, ts, user, raced>>
      BY <1>2 DEF Push!ProbeSent, Push!Goto, Push!device, Push!state, Push!options
    <2>2. probe' \in [Loops -> Seconds \cup {0}] /\ ts' \in [Loops -> Seconds \cup {0}]
      BY <2>1 DEF PushLoops, PushRest
    <2>3. PushLoops' /\ InFlightIsTimed' /\ (\A m \in Loops : InFlight(m)' => InFlight(m))
      BY <2>1, <2>2, LoopMoves
    <2>4. PushFlags' /\ PushRest' /\ AvailableIsTimed'
      BY <2>1 DEF PushFlags, PushRest, AvailableIsTimed, Push!HasSubscription
    <2>5. OffIsEnforced'
      BY <2>1, <2>3 DEF OffIsEnforced
    <2>. QED
      BY <2>3, <2>4, <2>5
  <1>3. ASSUME NEW l \in Loops, Push!updateProbeState(l) PROVE PushInv'
    <2>1. /\ reader' = [reader EXCEPT ![l] = "sync"]
          /\ UNCHANGED <<capable, deviceTS, now, lastSubscribeTS>>
          /\ UNCHANGED <<known, subscribeEnabled, needsPush, probe, ts, user, raced>>
      BY <1>3 DEF Push!updateProbeState, Push!Goto, Push!device, Push!options
    <2>2. /\ wildcardSupported' \in BOOLEAN /\ pushAvailable' \in BOOLEAN
          /\ pushAvailable' => pushAvailable
      BY <1>1, <1>3, Zenon DEF Push!updateProbeState, Push!Wildcard
    <2>3. probe' \in [Loops -> Seconds \cup {0}] /\ ts' \in [Loops -> Seconds \cup {0}]
      BY <2>1 DEF PushLoops
    <2>4. PushLoops' /\ InFlightIsTimed' /\ (\A m \in Loops : InFlight(m)' => InFlight(m))
      BY <2>1, <2>3, LoopMoves
    <2>5. PushFlags'
      BY <1>1, <2>1, <2>2, Zenon DEF PushFlags
    <2>6. PushRest' /\ AvailableIsTimed'
      BY <2>1, <2>2 DEF PushRest, AvailableIsTimed, Push!HasSubscription
    <2>7. OffIsEnforced'
      BY <2>1, <2>2, <2>4 DEF OffIsEnforced
    <2>. QED
      BY <2>4, <2>5, <2>6, <2>7
  <1>4. ASSUME NEW l \in Loops, Push!syncDeviceSubscription(l) PROVE PushInv'
    <2>1. /\ UNCHANGED <<capable, deviceTS, now, pushAvailable, wildcardSupported, lastSubscribeTS>>
          /\ UNCHANGED <<known, subscribeEnabled, needsPush, user, raced>>
      BY <1>4 DEF Push!syncDeviceSubscription, Push!device, Push!state, Push!options
    <2>2. PushFlags' /\ PushRest' /\ AvailableIsTimed'
      BY <2>1 DEF PushFlags, PushRest, AvailableIsTimed, Push!HasSubscription
    <2>3. CASE Push!WantsPush(l)
      <3>1. /\ reader' = [reader EXCEPT ![l] = "subscribe"] /\ ts' = [ts EXCEPT ![l] = now]
            /\ probe' = probe
        BY <1>4, <2>3 DEF Push!syncDeviceSubscription, Push!Goto
      <3>2. Push!HasSubscription /\ subscribeEnabled
        BY <2>3, Zenon DEF Push!WantsPush
      <3>3. PushLoops'
        BY <3>1 DEF PushLoops, PushRest
      <3>4. now # 0
        BY LanConstants DEF PushRest
      <3>5. ts'[l] = now /\ \A m \in Loops \ {l} : ts'[m] = ts[m] /\ reader'[m] = reader[m]
        BY <3>1 DEF PushLoops
      <3>6. InFlightIsTimed'
        BY <2>1, <3>2, <3>4, <3>5 DEF InFlightIsTimed, InFlight, Push!HasSubscription
      <3>7. OffIsEnforced'
        BY <2>1, <3>2 DEF OffIsEnforced
      <3>. QED
        BY <2>2, <3>3, <3>6, <3>7
    <2>4. CASE ~Push!WantsPush(l)
      <3>1. /\ reader' = [reader EXCEPT ![l] = "idle"] /\ probe' = [probe EXCEPT ![l] = 0]
            /\ ts' = [ts EXCEPT ![l] = 0]
        BY <1>4, <2>4 DEF Push!syncDeviceSubscription, Push!Return, Push!Goto
      <3>2. probe' \in [Loops -> Seconds \cup {0}] /\ ts' \in [Loops -> Seconds \cup {0}]
        BY <3>1 DEF PushLoops
      <3>3. \A m \in Loops \ {l} : ts'[m] = ts[m]
        BY <3>1 DEF PushLoops
      <3>4. PushLoops' /\ InFlightIsTimed' /\ (\A m \in Loops : InFlight(m)' => InFlight(m))
        BY <2>1, <3>1, <3>2, <3>3, LoopMoves
      <3>5. OffIsEnforced'
        BY <2>1, <3>4 DEF OffIsEnforced
      <3>. QED
        BY <2>2, <3>4, <3>5
    <2>. QED
      BY <2>3, <2>4
  <1>5. ASSUME NEW l \in Loops, Push!DeviceSubscribes(l) PROVE PushInv'
    <2>1. /\ reader[l] = "subscribe" /\ deviceTS' = ts[l] /\ reader' = [reader EXCEPT ![l] = "reply"]
          /\ UNCHANGED <<capable, now, pushAvailable, wildcardSupported, lastSubscribeTS>>
          /\ UNCHANGED <<known, subscribeEnabled, needsPush, probe, ts, user, raced>>
      BY <1>5 DEF Push!DeviceSubscribes, Push!Goto, Push!state, Push!options
    <2>2. PushLoops'
      BY <2>1 DEF PushLoops
    <2>3. \A m \in Loops : InFlight(m)' => InFlight(m)
      BY <2>1 DEF PushLoops, InFlight
    <2>4. PushFlags' /\ PushRest' /\ AvailableIsTimed'
      BY <2>1 DEF PushFlags, PushLoops, PushRest, AvailableIsTimed, Push!HasSubscription
    <2>5. InFlightIsTimed' /\ OffIsEnforced'
      BY <2>1, <2>3 DEF InFlightIsTimed, OffIsEnforced, Push!HasSubscription
    <2>. QED
      BY <2>2, <2>4, <2>5
  <1>6. ASSUME NEW l \in Loops, Push!SubscribeFails(l) \/ Push!subscribeDevice(l) PROVE PushInv'
    <2>1. /\ reader' = [reader EXCEPT ![l] = "idle"] /\ probe' = [probe EXCEPT ![l] = 0]
          /\ ts' = [ts EXCEPT ![l] = 0]
          /\ UNCHANGED <<capable, deviceTS, now, known, subscribeEnabled, needsPush, user, raced>>
      BY <1>6 DEF Push!SubscribeFails, Push!subscribeDevice, Push!Return, Push!Goto,
                  Push!device, Push!options
    <2>2. probe' \in [Loops -> Seconds \cup {0}] /\ ts' \in [Loops -> Seconds \cup {0}]
      BY <2>1 DEF PushLoops
    <2>3. \A m \in Loops \ {l} : ts'[m] = ts[m]
      BY <2>1 DEF PushLoops
    <2>4. PushLoops' /\ InFlightIsTimed' /\ (\A m \in Loops : InFlight(m)' => InFlight(m))
      BY <2>1, <2>2, <2>3, LoopMoves
    <2>5. CASE Push!SubscribeFails(l)
      <3>1. UNCHANGED <<pushAvailable, wildcardSupported, lastSubscribeTS>>
        BY <2>5 DEF Push!SubscribeFails, Push!state
      <3>2. PushFlags' /\ PushRest' /\ AvailableIsTimed'
        BY <2>1, <3>1 DEF PushFlags, PushRest, AvailableIsTimed, Push!HasSubscription
      <3>3. OffIsEnforced'
        BY <2>1, <2>4, <3>1 DEF OffIsEnforced
      <3>. QED
        BY <2>4, <3>2, <3>3
    <2>6. CASE Push!subscribeDevice(l)
      <3>1. /\ InFlight(l) /\ pushAvailable' = TRUE /\ wildcardSupported' = TRUE
            /\ lastSubscribeTS' = ts[l]
        BY <2>6 DEF Push!subscribeDevice, InFlight
      <3>2. ts[l] # 0 /\ ts[l] \in Seconds \cup {0} /\ Push!HasSubscription
        BY <3>1 DEF InFlightIsTimed, PushLoops
      <3>3. PushFlags'
        BY <1>1, <2>1, <3>1, Zenon DEF PushFlags
      <3>4. PushRest' /\ AvailableIsTimed'
        BY <2>1, <3>1, <3>2 DEF PushRest, AvailableIsTimed, Push!HasSubscription
      <3>5. OffIsEnforced'
        BY <2>1, <3>1 DEF OffIsEnforced
      <3>. QED
        BY <2>4, <3>3, <3>4, <3>5
    <2>. QED
      BY <1>6, <2>5, <2>6
  <1>7. ASSUME NEW enable \in BOOLEAN, Push!SetSubscribeOption(enable) PROVE PushInv'
    <2>1. /\ subscribeEnabled' = enable
          /\ user' = IF ~enable /\ pushAvailable THEN "unsubscribe" ELSE "idle"
          /\ UNCHANGED <<capable, deviceTS, now, pushAvailable, wildcardSupported, lastSubscribeTS>>
          /\ UNCHANGED <<known, needsPush, reader, probe, ts>>
      BY <1>7 DEF Push!SetSubscribeOption, Push!device, Push!state, Push!loops
    <2>2. /\ raced' \in BOOLEAN
          /\ ~enable /\ ~raced' => \A l \in Loops : ~InFlight(l)
      BY <1>7, Zenon DEF Push!SetSubscribeOption, Push!SubscribeInFlight, InFlight
    <2>3. PushLoops' /\ InFlightIsTimed' /\ (\A m \in Loops : InFlight(m)' = InFlight(m))
      BY <2>1, LoopsRest
    <2>4. PushFlags'
      BY <1>1, <1>7, <2>1, <2>2, Zenon DEF PushFlags
    <2>5. PushRest' /\ AvailableIsTimed'
      BY <2>1 DEF PushRest, AvailableIsTimed, Push!HasSubscription
    <2>6. OffIsEnforced'
      BY <1>7, <2>1, <2>2, <2>3 DEF OffIsEnforced
    <2>. QED
      BY <2>3, <2>4, <2>5, <2>6
  <1>8. ASSUME Push!UserStep PROVE PushInv'
    <2>1. UNCHANGED <<capable, now, known, subscribeEnabled, needsPush, reader, probe, ts,
                      raced, wildcardSupported, lastSubscribeTS>>
      BY <1>8 DEF Push!UserStep, Push!UnsubscribeSent, Push!DeviceUnsubscribes,
                  Push!UnsubscribeDone, Push!device, Push!state, Push!options, Push!loops
    <2>2. PushLoops' /\ InFlightIsTimed' /\ (\A m \in Loops : InFlight(m)' = InFlight(m))
      BY <2>1, LoopsRest
    <2>3. /\ pushAvailable' \in {FALSE, pushAvailable}
          /\ pushAvailable' => pushAvailable /\ user' # "idle"
          /\ deviceTS' \in {0, deviceTS} /\ user' \in {"idle", "sent", "done"}
      <3>1. CASE Push!UnsubscribeSent
        BY <3>1 DEF Push!UnsubscribeSent, Push!device, Push!state
      <3>2. CASE Push!DeviceUnsubscribes
        BY <3>2 DEF Push!DeviceUnsubscribes, Push!state
      <3>3. CASE Push!UnsubscribeDone
        BY <3>3 DEF Push!UnsubscribeDone, Push!device
      <3>. QED
        BY <1>8, <3>1, <3>2, <3>3 DEF Push!UserStep
    <2>4. PushFlags'
      BY <1>1, <2>1, <2>3, Zenon DEF PushFlags
    <2>5. PushRest' /\ AvailableIsTimed'
      BY <2>1, <2>3 DEF PushRest, AvailableIsTimed, Push!HasSubscription
    <2>6. OffIsEnforced'
      BY <2>1, <2>2, <2>3 DEF OffIsEnforced
    <2>. QED
      BY <2>2, <2>4, <2>5, <2>6
  <1>9. ASSUME Push!SubscribersChange \/ Push!AddDevice \/ Push!DeviceRestarts \/ Push!SecondPasses
               \/ UNCHANGED pushing
        PROVE  PushInv'
    <2>1. UNCHANGED <<capable, subscribeEnabled, reader, probe, ts, user, raced, pushAvailable,
                      wildcardSupported, lastSubscribeTS>>
      BY <1>9 DEF Push!SubscribersChange, Push!AddDevice, Push!DeviceRestarts, Push!SecondPasses,
                  pushing, Push!device, Push!state, Push!options, Push!loops
    <2>2. /\ known' \in {TRUE, known} /\ needsPush' \in {needsPush, ~needsPush}
          /\ deviceTS' \in {0, deviceTS} /\ now' \in Seconds
      <3>1. CASE Push!SubscribersChange
        BY <3>1 DEF Push!SubscribersChange, Push!device, PushRest
      <3>2. CASE Push!AddDevice
        BY <3>2 DEF Push!AddDevice, Push!device, PushRest
      <3>3. CASE Push!DeviceRestarts
        BY <3>3 DEF Push!DeviceRestarts, Push!options, PushRest
      <3>4. CASE Push!SecondPasses
        BY <3>4 DEF Push!SecondPasses, Push!options, PushRest
      <3>5. CASE UNCHANGED pushing
        BY <3>5 DEF pushing, PushRest
      <3>. QED
        BY <1>9, <3>1, <3>2, <3>3, <3>4, <3>5
    <2>3. PushLoops' /\ InFlightIsTimed' /\ (\A m \in Loops : InFlight(m)' = InFlight(m))
      BY <2>1, LoopsRest
    <2>4. PushFlags'
      BY <1>1, <2>1, <2>2, Zenon DEF PushFlags
    <2>5. PushRest' /\ AvailableIsTimed'
      BY <2>1, <2>2 DEF PushRest, AvailableIsTimed, Push!HasSubscription
    <2>6. OffIsEnforced'
      BY <2>1, <2>3 DEF OffIsEnforced
    <2>. QED
      BY <2>3, <2>4, <2>5, <2>6
  <1>10. ASSUME Push!DeleteDevices PROVE PushInv'
    <2>1. /\ known' = FALSE /\ pushAvailable' = FALSE /\ wildcardSupported' = FALSE /\ lastSubscribeTS' = 0
          /\ UNCHANGED <<capable, deviceTS, now, subscribeEnabled, needsPush, reader, probe, ts, user, raced>>
      BY <1>10 DEF Push!DeleteDevices, Push!device, Push!loops
    <2>2. PushLoops' /\ InFlightIsTimed' /\ (\A m \in Loops : InFlight(m)' = InFlight(m))
      BY <2>1, LoopsRest
    <2>3. PushFlags'
      BY <1>1, <2>1, Zenon DEF PushFlags
    <2>4. PushRest' /\ AvailableIsTimed'
      BY <2>1 DEF PushRest, AvailableIsTimed
    <2>5. OffIsEnforced'
      BY <2>1, <2>2 DEF OffIsEnforced
    <2>. QED
      BY <2>2, <2>3, <2>4, <2>5
  <1>. QED
    BY <1>2, <1>3, <1>4, <1>5, <1>6, <1>7, <1>8, <1>9, <1>10 DEF Push!Next, Push!HandlerStep
-----------------------------------------------------------------------------
(* Intervals and broadcasts *)

LEMMA LeastOfTwo ==
  ASSUME NEW a \in Nat, NEW b \in Nat
  PROVE  Intervals!Min({a, b}) \in Nat /\ Intervals!Min({a, b}) <= a /\ Intervals!Min({a, b}) <= b
  <1>1. \E x \in {a, b} : \A y \in {a, b} : x <= y
    <2>1. CASE a <= b
      BY <2>1
    <2>2. CASE b <= a
      BY <2>2
    <2>. QED
      BY <2>1, <2>2
  <1>. QED
    BY <1>1 DEF Intervals!Min

LEMMA LeastOfThree ==
  ASSUME NEW a \in Nat, NEW b \in Nat, NEW c \in Nat
  PROVE  Intervals!Min({a, b, c}) \in Nat /\ Intervals!Min({a, b, c}) <= c
  <1>1. \E x \in {a, b, c} : \A y \in {a, b, c} : x <= y
    <2>1. CASE a <= b /\ a <= c
      BY <2>1
    <2>2. CASE b <= a /\ b <= c
      BY <2>2
    <2>3. CASE c <= a /\ c <= b
      BY <2>3
    <2>. QED
      BY <2>1, <2>2, <2>3
  <1>. QED
    BY <1>1 DEF Intervals!Min

\* The longest the present interval may be.
Present == IF backoff = 0 THEN Intervals!BroadcastMax ELSE backoff

\* While the next broadcast is not yet due, the silence and the time until then make up the present
\* interval at most; once it is due, only the scan is awaited.
SilenceIsCounted ==
  /\ ~interfaces => silence = 0
  /\ interfaces => IF untilNext = 0 THEN silence + untilScan <= Present + Intervals!ScanTick
                   ELSE silence + untilNext <= Present

ScheduleTypes ==
  /\ config \in [Intervals!Intervals -> Nat] /\ interfaces \in BOOLEAN
  /\ untilScan \in 0..Intervals!ScanTick
  /\ backoff \in 0..Intervals!BroadcastMax /\ untilNext \in 0..Intervals!BroadcastMax
  /\ silence \in Nat

ScheduleInv == ScheduleTypes /\ SilenceIsCounted

\* What is derived from any configuration.
LEMMA DerivedLimits ==
  ASSUME config \in [Intervals!Intervals -> Nat]
  PROVE  /\ Intervals!BroadcastMin \in Nat /\ Intervals!BroadcastMax \in Nat /\ Intervals!ScanTick \in Nat
         /\ Intervals!LimitsInOrder
  <1>1. /\ config["probe"] \in Nat /\ config["fast"] \in Nat
        /\ config["keepaliveMin"] \in Nat /\ config["keepaliveMax"] \in Nat
        /\ config["broadcastMin"] \in Nat /\ config["broadcastMax"] \in Nat
    BY DEF Intervals!Intervals
  <1>2. FastLimit \in Nat
    BY LanConstants
  <1>3. Intervals!KeepaliveMin \in Nat
    BY <1>1 DEF Intervals!KeepaliveMin, Intervals!OrElse
  <1>4. Intervals!KeepaliveMin <= Intervals!KeepaliveMax
    <2>1. Intervals!OrElse(config["keepaliveMax"], 4 * Intervals!KeepaliveMin) \in Nat
      BY <1>1, <1>3 DEF Intervals!OrElse
    <2>. QED
      BY <1>3, <2>1 DEF Intervals!KeepaliveMax, Intervals!AtLeast
  <1>5. /\ Intervals!BroadcastMin \in Nat /\ Intervals!BroadcastMax \in Nat
        /\ Intervals!BroadcastMin <= Intervals!BroadcastMax
    BY <1>1 DEF Intervals!BroadcastMin, Intervals!BroadcastMax, Intervals!AtLeast
  <1>6. Intervals!FastRetry \in Nat
    BY <1>1, <1>2, LeastOfTwo DEF Intervals!FastRetry, Intervals!OrElse
  <1>7. Intervals!ScanTick \in Nat /\ Intervals!ScanTick <= Intervals!BroadcastMin
    BY <1>1, <1>5, <1>6, LeastOfThree DEF Intervals!ScanTick
  <1>. QED
    BY <1>4, <1>5, <1>7 DEF Intervals!LimitsInOrder

\* They stay what they are.
LEMMA DerivedStay ==
  ASSUME config' = config
  PROVE  /\ Intervals!BroadcastMax' = Intervals!BroadcastMax
         /\ Intervals!ScanTick' = Intervals!ScanTick
  BY DEF Intervals!BroadcastMax, Intervals!BroadcastMin, Intervals!ScanTick, Intervals!FastRetry

\* The next interval is within the limits.
LEMMA NextWithinLimits == ScheduleInv => Intervals!NextBackoff \in 0..Intervals!BroadcastMax
  <1>. SUFFICES ASSUME ScheduleInv PROVE Intervals!NextBackoff \in 0..Intervals!BroadcastMax
    OBVIOUS
  <1>1. /\ Intervals!BroadcastMin \in Nat /\ Intervals!BroadcastMax \in Nat
        /\ Intervals!BroadcastMin <= Intervals!BroadcastMax
    BY DerivedLimits DEF ScheduleInv, ScheduleTypes, Intervals!LimitsInOrder
  <1>2. CASE backoff = 0
    BY <1>1, <1>2 DEF Intervals!NextBackoff
  <1>3. CASE backoff # 0
    <2>1. backoff \in Nat
      BY DEF ScheduleInv, ScheduleTypes
    <2>2. Intervals!AtLeast(2 * backoff, Intervals!BroadcastMin) \in Nat
      BY <1>1, <2>1 DEF Intervals!AtLeast
    <2>. QED
      BY <1>1, <1>3, <2>2, LeastOfTwo DEF Intervals!NextBackoff
  <1>. QED
    BY <1>2, <1>3

LEMMA ScheduleProperties ==
  ScheduleInv => Intervals!TypeOK /\ Intervals!BroadcastsKeepComing /\ Intervals!LimitsInOrder
  <1>. SUFFICES ASSUME ScheduleInv
                PROVE  Intervals!TypeOK /\ Intervals!BroadcastsKeepComing /\ Intervals!LimitsInOrder
    OBVIOUS
  <1>1. Intervals!TypeOK
    BY Zenon DEF ScheduleInv, ScheduleTypes, Intervals!TypeOK
  <1>2. /\ Intervals!BroadcastMax \in Nat /\ Intervals!ScanTick \in Nat /\ Intervals!LimitsInOrder
    BY DerivedLimits DEF ScheduleInv, ScheduleTypes
  <1>3. /\ silence \in Nat /\ untilScan \in Nat /\ untilNext \in Nat /\ backoff \in Nat
    BY DEF ScheduleInv, ScheduleTypes
  <1>4. Intervals!BroadcastsKeepComing
    BY <1>2, <1>3 DEF ScheduleInv, SilenceIsCounted, Present, Intervals!BroadcastsKeepComing
  <1>. QED
    BY <1>1, <1>2, <1>4

LEMMA InitSchedule == Intervals!Init => ScheduleInv
  <1>. SUFFICES ASSUME Intervals!Init PROVE ScheduleInv
    OBVIOUS
  <1>1. config \in [Intervals!Intervals -> Nat]
    <2>1. PICK chosen \in [Intervals!Intervals -> Durations] : config = Intervals!Configured(chosen)
      BY DEF Intervals!Init
    <2>2. \A i \in Intervals!Intervals : chosen[i] \in Nat
      BY LanConstants
    <2>3. \A i \in Intervals!Intervals : Defaults[i] \in Nat
      BY DEF Defaults, Intervals!Intervals
    <2>4. \A i \in Intervals!Intervals : (IF chosen[i] > 0 THEN chosen[i] ELSE Defaults[i]) \in Nat
      BY <2>2, <2>3
    <2>. QED
      BY <2>1, <2>4 DEF Intervals!Configured
  <1>2. Intervals!BroadcastMax \in Nat /\ Intervals!ScanTick \in Nat
    BY <1>1, DerivedLimits
  <1>3. interfaces \in BOOLEAN /\ untilScan = 0 /\ backoff = 0 /\ untilNext = 0 /\ silence = 0
    BY DEF Intervals!Init
  <1>. QED
    BY <1>1, <1>2, <1>3 DEF ScheduleInv, ScheduleTypes, SilenceIsCounted, Present

LEMMA ScheduleStep == ScheduleInv /\ [Intervals!Next]_schedule => ScheduleInv'
  <1>. SUFFICES ASSUME ScheduleInv, [Intervals!Next]_schedule PROVE ScheduleInv'
    OBVIOUS
  <1>1. config' = config
    BY DEF Intervals!Next, Intervals!Tick, Intervals!Scan, Intervals!UpdateInterfaces, schedule
  <1>2. PICK most \in Nat : most = Intervals!BroadcastMax
    BY DerivedLimits DEF ScheduleInv, ScheduleTypes
  <1>3. PICK tick \in Nat : tick = Intervals!ScanTick
    BY DerivedLimits DEF ScheduleInv, ScheduleTypes
  <1>4. Intervals!BroadcastMax' = most /\ Intervals!ScanTick' = tick
    BY <1>1, <1>2, <1>3, DerivedStay
  <1>5. /\ config \in [Intervals!Intervals -> Nat] /\ interfaces \in BOOLEAN
        /\ untilScan \in 0..tick /\ backoff \in 0..most /\ untilNext \in 0..most /\ silence \in Nat
    BY <1>2, <1>3 DEF ScheduleInv, ScheduleTypes
  <1>6. /\ ~interfaces => silence = 0
        /\ interfaces /\ untilNext = 0 => silence + untilScan <= (IF backoff = 0 THEN most ELSE backoff) + tick
        /\ interfaces /\ untilNext # 0 => silence + untilNext <= (IF backoff = 0 THEN most ELSE backoff)
    BY <1>2, <1>3 DEF ScheduleInv, SilenceIsCounted, Present
  <1>7. SUFFICES
        /\ interfaces' \in BOOLEAN /\ untilScan' \in 0..tick
        /\ backoff' \in 0..most /\ untilNext' \in 0..most /\ silence' \in Nat
        /\ ~interfaces' => silence' = 0
        /\ interfaces' /\ untilNext' = 0
             => silence' + untilScan' <= (IF backoff' = 0 THEN most ELSE backoff') + tick
        /\ interfaces' /\ untilNext' # 0 => silence' + untilNext' <= (IF backoff' = 0 THEN most ELSE backoff')
    BY <1>1, <1>4, <1>5 DEF ScheduleInv, ScheduleTypes, SilenceIsCounted, Present
  <1>8. CASE Intervals!Tick
    BY <1>5, <1>6, <1>8 DEF Intervals!Tick, Intervals!Decrease
  <1>9. CASE Intervals!Scan
    <2>1. Intervals!NextBackoff \in 0..most
      BY <1>2, NextWithinLimits
    <2>2. untilScan' = tick /\ interfaces' = interfaces
      BY <1>3, <1>9 DEF Intervals!Scan
    <2>3. CASE interfaces /\ untilNext = 0
      <3>1. PICK next \in 0..most : backoff' = next /\ untilNext' = next /\ silence' = 0
        BY <1>9, <2>1, <2>3 DEF Intervals!Scan
      <3>2. /\ untilNext' = 0 => silence' + untilScan' <= (IF backoff' = 0 THEN most ELSE backoff') + tick
            /\ untilNext' # 0 => silence' + untilNext' <= (IF backoff' = 0 THEN most ELSE backoff')
        <4>1. 0 + tick <= most + tick /\ 0 + next <= next
          OBVIOUS
        <4>. QED
          BY <2>2, <3>1, <4>1
      <3>3. untilScan' \in 0..tick
        BY <2>2
      <3>. QED
        BY <1>5, <2>2, <3>1, <3>2, <3>3
    <2>4. CASE ~(interfaces /\ untilNext = 0)
      <3>1. backoff' = backoff /\ untilNext' = untilNext /\ silence' = silence
        BY <1>9, <2>4 DEF Intervals!Scan
      <3>. QED
        BY <1>5, <1>6, <2>2, <2>4, <3>1
    <2>. QED
      BY <2>3, <2>4
  <1>10. CASE \E some \in BOOLEAN : Intervals!UpdateInterfaces(some)
    <2>1. PICK some \in BOOLEAN : Intervals!UpdateInterfaces(some)
      BY <1>10
    <2>2. /\ interfaces' \in BOOLEAN /\ (interfaces' => some)
          /\ backoff' = 0 /\ untilNext' = 0 /\ untilScan' = untilScan
          /\ silence' = IF some THEN silence ELSE 0
      BY <2>1 DEF Intervals!UpdateInterfaces
    <2>3. ~interfaces' => silence' = 0
      BY <2>1 DEF Intervals!UpdateInterfaces
    <2>4. silence + untilScan <= most + tick
      BY <1>5, <1>6
    <2>5. silence' \in Nat /\ silence' + untilScan' <= most + tick
      BY <1>5, <2>2, <2>4
    <2>. QED
      BY <1>5, <2>2, <2>3, <2>5
  <1>11. CASE UNCHANGED schedule
    BY <1>5, <1>6, <1>11 DEF schedule
  <1>. QED
    BY <1>8, <1>9, <1>10, <1>11 DEF Intervals!Next
-----------------------------------------------------------------------------
(* The sockets of the transport *)

\* The parts of the transport's types.
EventTypes == addressed \subseteq Interfaces /\ events \in 0..MaxChanges
LockTypes ==
  /\ cMu \in {"free", "starter"} /\ tMu \in {"free"} \cup Transport!Threads
  /\ clientIfs \subseteq Interfaces /\ transportIfs \subseteq Interfaces
  /\ pc \in [Transport!Threads -> {"idle", "bind", "listen", "sync", "undo", "cancel", "close",
                                   "closing", "transport"}]
FlagTypes ==
  running \in BOOLEAN /\ sub \in BOOLEAN /\ handler \in BOOLEAN /\ took \in BOOLEAN /\ disturbed \in BOOLEAN
SocketTypes ==
  /\ socket \in [Transport!Sockets -> {"none", "open", "closed"}]
  /\ loop \in [Transport!Sockets -> {"none", "reading", "handling"}]
  /\ context \in [Transport!Sockets -> {"run", "background", "ended"}]

TransportTypes == EventTypes /\ LockTypes /\ FlagTypes /\ SocketTypes

LEMMA TransportTypeOK == TransportTypes => Transport!TypeOK
  BY Zenon DEF TransportTypes, EventTypes, LockTypes, FlagTypes, SocketTypes, Transport!TypeOK

LEMMA InitTransportTypes == Transport!Init => TransportTypes
  <1>. SUFFICES ASSUME Transport!Init PROVE TransportTypes
    OBVIOUS
  <1>1. EventTypes
    BY LanConstants DEF Transport!Init, EventTypes
  <1>2. LockTypes
    BY DEF Transport!Init, LockTypes
  <1>3. FlagTypes
    BY Zenon DEF Transport!Init, FlagTypes
  <1>4. SocketTypes
    BY DEF Transport!Init, SocketTypes
  <1>. QED
    BY <1>1, <1>2, <1>3, <1>4 DEF TransportTypes

LEMMA TransportMembers ==
  /\ Transport!Main \in Transport!Sockets /\ Interfaces \subseteq Transport!Sockets
  /\ Transport!Main \notin Interfaces
  /\ \A s \in Transport!Sockets : s = Transport!Main \/ s \in Interfaces
  /\ {"starter", "stopper", "updater"} = Transport!Threads
  BY LanConstants DEF Transport!Sockets, Transport!Threads

LEMMA CountTypes == EventTypes /\ Transport!Count => events' \in 0..MaxChanges
  BY LanConstants DEF EventTypes, Transport!Count

\* The steps of the threads, by what they change.
LEMMA EventTypesStep == TransportTypes /\ [Transport!Next]_transport => EventTypes'
  <1>. SUFFICES ASSUME TransportTypes, [Transport!Next]_transport PROVE EventTypes'
    OBVIOUS
  <1>1. EventTypes
    BY DEF TransportTypes
  <1>2. ASSUME NEW i \in Interfaces, Transport!AddressChanges(i) PROVE EventTypes'
    BY <1>1, <1>2, CountTypes DEF EventTypes, Transport!AddressChanges
  <1>3. ASSUME Transport!Count, addressed' = addressed PROVE EventTypes'
    BY <1>1, <1>3, CountTypes DEF EventTypes
  <1>4. ASSUME addressed' = addressed, events' = events PROVE EventTypes'
    BY <1>1, <1>4 DEF EventTypes
  <1>5. CASE Transport!startRuntime \/ Transport!stopRuntime
    BY <1>3, <1>5 DEF Transport!startRuntime, Transport!stopRuntime
  <1>6. ASSUME NEW s \in Transport!Sockets, Transport!PacketArrives(s) PROVE EventTypes'
    BY <1>3, <1>6 DEF Transport!PacketArrives
  <1>7. ASSUME NEW names \in SUBSET Interfaces, Transport!UpdateInterfaces(names) PROVE EventTypes'
    BY <1>3, <1>7 DEF Transport!UpdateInterfaces
  <1>8. CASE Transport!StartStep \/ Transport!StopStep \/ Transport!TransportUpdates
    BY <1>4, <1>8 DEF Transport!StartStep, Transport!StopStep, Transport!TransportUpdates,
       Transport!Bind, Transport!Listen, Transport!UndoCloses, Transport!UndoWaits, Transport!Cancel,
       Transport!CloseListener, Transport!CloseOne, Transport!CloseWaits, Transport!Closed
  <1>9. ASSUME NEW t \in {"starter", "updater"}, Transport!ThreadStep(t) PROVE EventTypes'
    BY <1>4, <1>9 DEF Transport!ThreadStep, Transport!SyncOpens, Transport!SyncFails,
       Transport!SyncCloses, Transport!SyncWaits, Transport!SyncEnds
  <1>10. ASSUME NEW s \in Transport!Sockets, Transport!LoopStep(s) PROVE EventTypes'
    BY <1>4, <1>10 DEF Transport!LoopStep, Transport!Handled, Transport!LoopEnds
  <1>11. CASE UNCHANGED transport
    BY <1>4, <1>11 DEF transport
  <1>. QED
    BY <1>2, <1>5, <1>6, <1>7, <1>8, <1>9, <1>10, <1>11 DEF Transport!Next, Transport!Progress
LEMMA GotoKeeps ==
  ASSUME NEW t \in Transport!Threads,
         NEW step \in {"idle", "bind", "listen", "sync", "undo", "cancel", "close", "closing", "transport"},
         LockTypes, Transport!Goto(t, step)
  PROVE  pc' \in [Transport!Threads -> {"idle", "bind", "listen", "sync", "undo", "cancel", "close",
                                        "closing", "transport"}]
  BY DEF LockTypes, Transport!Goto

LEMMA LockTypesStep == TransportTypes /\ [Transport!Next]_transport => LockTypes'
  <1>. SUFFICES ASSUME TransportTypes, [Transport!Next]_transport PROVE LockTypes'
    OBVIOUS
  <1>1. LockTypes
    BY DEF TransportTypes
  <1>2. \A t \in {"starter", "stopper", "updater"} : t \in Transport!Threads
    BY TransportMembers
  <1>3. ASSUME clientIfs' \subseteq Interfaces, transportIfs' \subseteq Interfaces,
               cMu' \in {cMu, "free", "starter"}, tMu' \in {tMu, "free"} \cup Transport!Threads,
               NEW t \in Transport!Threads,
               NEW step \in {"idle", "bind", "listen", "sync", "undo", "cancel", "close", "closing", "transport"},
               Transport!Goto(t, step)
        PROVE  LockTypes'
    BY <1>1, <1>3, GotoKeeps DEF LockTypes
  <1>4. ASSUME cMu' = cMu, tMu' = tMu, pc' = pc, clientIfs' = clientIfs, transportIfs' = transportIfs
        PROVE  LockTypes'
    BY <1>1, <1>4 DEF LockTypes
  <1>. USE DEF Transport!lists, Transport!mutexes
  <1>5. ASSUME NEW i \in Interfaces, Transport!AddressChanges(i) PROVE LockTypes'
    BY <1>4, <1>5 DEF Transport!AddressChanges
  <1>6. ASSUME NEW s \in Transport!Sockets, Transport!PacketArrives(s) \/ Transport!LoopStep(s) PROVE LockTypes'
    BY <1>4, <1>6
    DEF Transport!PacketArrives, Transport!LoopStep, Transport!Handled, Transport!LoopEnds
  <1>7. CASE Transport!startRuntime
    BY <1>1, <1>2, <1>3, <1>7 DEF Transport!startRuntime, LockTypes
  <1>8. CASE Transport!Bind
    <2>1. CASE Transport!Goto("starter", "listen") /\ UNCHANGED <<running, cMu, disturbed>>
      BY <1>1, <1>2, <1>3, <1>8, <2>1 DEF Transport!Bind, LockTypes
    <2>2. CASE Transport!NotStarted
      BY <1>1, <1>2, <1>3, <1>8, <2>2 DEF Transport!Bind, Transport!NotStarted, LockTypes
    <2>. QED
      BY <1>8, <2>1, <2>2 DEF Transport!Bind
  <1>9. CASE Transport!Listen
    BY <1>1, <1>2, <1>3, <1>9 DEF Transport!Listen, LockTypes
  <1>10. CASE Transport!UndoCloses
    BY <1>4, <1>10 DEF Transport!UndoCloses
  <1>11. CASE Transport!UndoWaits
    BY <1>1, <1>2, <1>3, <1>11 DEF Transport!UndoWaits, Transport!NotStarted, LockTypes
  <1>12. CASE Transport!stopRuntime
    BY <1>1, <1>2, <1>3, <1>12 DEF Transport!stopRuntime, LockTypes
  <1>13. CASE Transport!Cancel
    BY <1>1, <1>2, <1>3, <1>13 DEF Transport!Cancel, LockTypes
  <1>14. CASE Transport!CloseListener
    BY <1>1, <1>2, <1>3, <1>14 DEF Transport!CloseListener, LockTypes
  <1>15. CASE Transport!CloseOne \/ Transport!CloseWaits
    BY <1>4, <1>15 DEF Transport!CloseOne, Transport!CloseWaits
  <1>16. CASE Transport!Closed
    BY <1>1, <1>2, <1>3, <1>16 DEF Transport!Closed, LockTypes
  <1>17. ASSUME NEW names \in SUBSET Interfaces, Transport!UpdateInterfaces(names) PROVE LockTypes'
    BY <1>1, <1>2, <1>3, <1>17 DEF Transport!UpdateInterfaces, LockTypes
  <1>18. CASE Transport!TransportUpdates
    <2>1. CASE handler
      BY <1>1, <1>2, <1>3, <1>18, <2>1 DEF Transport!TransportUpdates, LockTypes
    <2>2. CASE ~handler
      BY <1>1, <1>2, <1>3, <1>18, <2>2 DEF Transport!TransportUpdates, LockTypes
    <2>. QED
      BY <2>1, <2>2
  <1>19. ASSUME NEW t \in {"starter", "updater"}, Transport!ThreadStep(t) PROVE LockTypes'
    <2>1. CASE Transport!SyncOpens(t) \/ Transport!SyncCloses(t) \/ Transport!SyncWaits(t)
      BY <1>4, <2>1 DEF Transport!SyncOpens, Transport!SyncCloses, Transport!SyncWaits
    <2>2. CASE Transport!SyncFails(t)
      BY <1>1, <1>2, <1>3, <2>2 DEF Transport!SyncFails, LockTypes
    <2>3. CASE Transport!SyncEnds(t)
      BY <1>1, <1>2, <1>3, <2>3 DEF Transport!SyncEnds, LockTypes
    <2>. QED
      BY <1>19, <2>1, <2>2, <2>3 DEF Transport!ThreadStep
  <1>20. CASE UNCHANGED transport
    BY <1>4, <1>20 DEF transport
  <1>. QED
    BY <1>5, <1>6, <1>7, <1>8, <1>9, <1>10, <1>11, <1>12, <1>13, <1>14, <1>15, <1>16, <1>17, <1>18,
       <1>19, <1>20
    DEF Transport!Next, Transport!Progress, Transport!StartStep, Transport!StopStep

LEMMA FlagTypesStep == TransportTypes /\ [Transport!Next]_transport => FlagTypes'
  <1>. SUFFICES ASSUME TransportTypes, [Transport!Next]_transport PROVE FlagTypes'
    OBVIOUS
  <1>1. FlagTypes
    BY DEF TransportTypes
  <1>. USE DEF FlagTypes, Transport!flags
  <1>2. ASSUME NEW i \in Interfaces, Transport!AddressChanges(i) PROVE FlagTypes'
    BY <1>1, <1>2 DEF Transport!AddressChanges
  <1>3. ASSUME NEW s \in Transport!Sockets, Transport!PacketArrives(s) \/ Transport!LoopStep(s) PROVE FlagTypes'
    BY <1>1, <1>3
    DEF Transport!PacketArrives, Transport!LoopStep, Transport!Handled, Transport!LoopEnds
  <1>4. CASE Transport!startRuntime
    BY <1>1, <1>4, Zenon DEF Transport!startRuntime, Transport!Overlaps
  <1>5. CASE Transport!Bind \/ Transport!UndoWaits
    BY <1>1, <1>5 DEF Transport!Bind, Transport!UndoWaits, Transport!NotStarted
  <1>6. CASE Transport!Listen \/ Transport!UndoCloses
    BY <1>1, <1>6 DEF Transport!Listen, Transport!UndoCloses
  <1>7. CASE Transport!stopRuntime
    BY <1>1, <1>7, Zenon DEF Transport!stopRuntime, Transport!Overlaps
  <1>8. CASE Transport!Cancel \/ Transport!CloseListener \/ Transport!CloseOne \/ Transport!CloseWaits
    BY <1>1, <1>8
    DEF Transport!Cancel, Transport!CloseListener, Transport!CloseOne, Transport!CloseWaits
  <1>9. CASE Transport!Closed
    BY <1>1, <1>9 DEF Transport!Closed
  <1>10. ASSUME NEW names \in SUBSET Interfaces, Transport!UpdateInterfaces(names) PROVE FlagTypes'
    BY <1>1, <1>10, Zenon DEF Transport!UpdateInterfaces, Transport!Overlaps
  <1>11. CASE Transport!TransportUpdates
    BY <1>1, <1>11 DEF Transport!TransportUpdates
  <1>12. ASSUME NEW t \in {"starter", "updater"}, Transport!ThreadStep(t) PROVE FlagTypes'
    BY <1>1, <1>12 DEF Transport!ThreadStep, Transport!SyncOpens, Transport!SyncFails,
       Transport!SyncCloses, Transport!SyncWaits, Transport!SyncEnds
  <1>13. CASE UNCHANGED transport
    BY <1>1, <1>13 DEF transport
  <1>. QED
    BY <1>2, <1>3, <1>4, <1>5, <1>6, <1>7, <1>8, <1>9, <1>10, <1>11, <1>12, <1>13
    DEF Transport!Next, Transport!Progress, Transport!StartStep, Transport!StopStep

LEMMA SocketTypesStep == TransportTypes /\ [Transport!Next]_transport => SocketTypes'
  <1>. SUFFICES ASSUME TransportTypes, [Transport!Next]_transport PROVE SocketTypes'
    OBVIOUS
  <1>1. SocketTypes
    BY DEF TransportTypes
  <1>2. ASSUME NEW s \in Transport!Sockets, NEW new \in {"none", "open", "closed"},
               socket' = [socket EXCEPT ![s] = new], loop' = loop, context' = context
        PROVE  SocketTypes'
    BY <1>1, <1>2 DEF SocketTypes
  <1>3. ASSUME NEW s \in Transport!Sockets, NEW new \in {"none", "reading", "handling"},
               loop' = [loop EXCEPT ![s] = new], socket' = socket, context' = context
        PROVE  SocketTypes'
    BY <1>1, <1>3 DEF SocketTypes
  <1>4. ASSUME NEW s \in Transport!Sockets, NEW ctx \in {"run", "background"}, Transport!Open(s, ctx)
        PROVE  SocketTypes'
    BY <1>1, <1>4 DEF SocketTypes, Transport!Open
  <1>5. ASSUME socket' = socket, loop' = loop, context' = context PROVE SocketTypes'
    BY <1>1, <1>5 DEF SocketTypes
  <1>6. ASSUME socket' = socket, loop' = loop, context' = Transport!Cancelled PROVE SocketTypes'
    BY <1>1, <1>6 DEF SocketTypes, Transport!Cancelled
  <1>7. Transport!Main \in Transport!Sockets /\ Interfaces \subseteq Transport!Sockets
    BY TransportMembers
  <1>. USE DEF Transport!sockets
  <1>8. ASSUME NEW i \in Interfaces, Transport!AddressChanges(i) PROVE SocketTypes'
    BY <1>5, <1>8 DEF Transport!AddressChanges
  <1>9. ASSUME NEW s \in Transport!Sockets, Transport!PacketArrives(s) \/ Transport!LoopStep(s) PROVE SocketTypes'
    BY <1>3, <1>9
    DEF Transport!PacketArrives, Transport!LoopStep, Transport!Handled, Transport!LoopEnds
  <1>10. CASE Transport!startRuntime \/ Transport!stopRuntime \/ Transport!Bind \/ Transport!CloseListener
              \/ Transport!TransportUpdates
    BY <1>5, <1>10 DEF Transport!startRuntime, Transport!stopRuntime, Transport!Bind,
                       Transport!CloseListener, Transport!TransportUpdates
  <1>11. CASE Transport!Listen
    BY <1>4, <1>7, <1>11 DEF Transport!Listen
  <1>12. CASE Transport!UndoCloses
    BY <1>2, <1>7, <1>12 DEF Transport!UndoCloses
  <1>13. CASE Transport!UndoWaits \/ Transport!Cancel
    BY <1>6, <1>13 DEF Transport!UndoWaits, Transport!Cancel
  <1>14. CASE Transport!CloseOne
    <2>1. PICK s \in Transport!Closable : socket' = [socket EXCEPT ![s] = "closed"]
      BY <1>14 DEF Transport!CloseOne
    <2>2. s \in Transport!Sockets
      BY <1>7 DEF Transport!Closable
    <2>. QED
      BY <1>2, <1>14, <2>1, <2>2 DEF Transport!CloseOne
  <1>15. CASE Transport!CloseWaits
    BY <1>2, <1>7, <1>15 DEF Transport!CloseWaits
  <1>16. CASE Transport!Closed
    BY <1>2, <1>7, <1>16 DEF Transport!Closed
  <1>17. ASSUME NEW names \in SUBSET Interfaces, Transport!UpdateInterfaces(names) PROVE SocketTypes'
    BY <1>5, <1>17 DEF Transport!UpdateInterfaces
  <1>18. ASSUME NEW t \in {"starter", "updater"}, Transport!ThreadStep(t) PROVE SocketTypes'
    <2>1. CASE Transport!SyncOpens(t)
      <3>1. PICK i \in Transport!Missing \cap addressed :
              Transport!Open(i, IF t = "starter" THEN "run" ELSE "background")
        BY <2>1 DEF Transport!SyncOpens
      <3>2. i \in Transport!Sockets
        BY <1>7 DEF TransportTypes, EventTypes
      <3>. QED
        BY <1>4, <3>1, <3>2
    <2>2. CASE Transport!SyncFails(t) \/ Transport!SyncEnds(t)
      BY <1>5, <2>2 DEF Transport!SyncFails, Transport!SyncEnds
    <2>3. CASE Transport!SyncCloses(t)
      BY <1>2, <1>7, <2>3 DEF Transport!SyncCloses, Transport!Surplus
    <2>4. CASE Transport!SyncWaits(t)
      BY <1>2, <1>7, <2>4 DEF Transport!SyncWaits, Transport!Surplus
    <2>. QED
      BY <1>18, <2>1, <2>2, <2>3, <2>4 DEF Transport!ThreadStep
  <1>19. CASE UNCHANGED transport
    BY <1>5, <1>19 DEF transport
  <1>. QED
    BY <1>8, <1>9, <1>10, <1>11, <1>12, <1>13, <1>14, <1>15, <1>16, <1>17, <1>18, <1>19
    DEF Transport!Next, Transport!Progress, Transport!StartStep, Transport!StopStep

LEMMA TransportTypesStep == TransportTypes /\ [Transport!Next]_transport => TransportTypes'
  BY EventTypesStep, LockTypesStep, FlagTypesStep, SocketTypesStep DEF TransportTypes
\* The socket of the port and one for each interface of the list are open, and no other.
OpenFor(ifs) ==
  \A s \in Transport!Sockets : socket[s] = IF s = Transport!Main \/ s \in ifs THEN "open" ELSE "none"
NoneOpen == \A s \in Transport!Sockets : socket[s] = "none"
NoneIsRead == \A s \in Transport!Sockets : socket[s] = "none" => loop[s] = "none"
OpenIsServed == \A s \in Transport!Sockets : socket[s] = "open" => loop[s] # "none" /\ context[s] # "ended"

\* The transport between two calls.
Stands ==
  /\ sub = running /\ handler = running
  /\ running => OpenFor(transportIfs) /\ OpenIsServed
  /\ ~running => NoneOpen

\* What each place of an undisturbed call implies; there is one call at a time.
Orderly ==
  /\ \E t \in Transport!Threads : \A u \in Transport!Threads \ {t} : pc[u] = "idle"
  /\ pc["starter"] \in {"idle", "bind", "listen", "sync"}
  /\ pc["stopper"] \in {"idle", "cancel", "close", "closing"}
  /\ pc["updater"] \in {"idle", "transport", "sync"}
  /\ NoneIsRead
  /\ pc["updater"] # "transport" => clientIfs = transportIfs
  /\ pc["starter"] = "idle" /\ pc["stopper"] = "idle" /\ pc["updater"] # "sync" => Stands
  /\ pc["starter"] \in {"bind", "listen"} => running /\ ~sub /\ ~handler /\ NoneOpen
  /\ pc["starter"] = "sync" =>
       /\ running /\ ~sub /\ handler /\ OpenIsServed /\ socket[Transport!Main] = "open"
       /\ \A i \in Interfaces : socket[i] # "closed" /\ (socket[i] = "open" => i \in transportIfs)
  /\ pc["stopper"] = "cancel" => ~running /\ ~sub /\ took
  /\ pc["stopper"] \in {"close", "closing"} => ~running /\ ~sub
  /\ pc["updater"] = "sync" =>
       /\ running /\ sub /\ handler /\ OpenIsServed /\ socket[Transport!Main] = "open"
       /\ \A i \in transportIfs : socket[i] # "closed"

TransportInv == TransportTypes /\ (~disturbed => Orderly)

LEMMA TransportProperties == TransportInv => Transport!TypeOK /\ Transport!SocketsFollow
  <1>. SUFFICES ASSUME TransportInv PROVE Transport!TypeOK /\ Transport!SocketsFollow
    OBVIOUS
  <1>1. Transport!TypeOK
    BY TransportTypeOK DEF TransportInv
  <1>2. ASSUME Transport!Undisturbed
        PROVE  /\ clientIfs = transportIfs
               /\ {s \in Transport!Sockets : socket[s] # "none"} =
                    IF running THEN {Transport!Main} \cup clientIfs ELSE {}
               /\ \A s \in Transport!Sockets : (loop[s] = "none") <=> (socket[s] = "none")
    <2>1. Orderly /\ pc["starter"] = "idle" /\ pc["stopper"] = "idle" /\ pc["updater"] = "idle"
      BY <1>2, TransportMembers DEF TransportInv, Transport!Undisturbed, Transport!Quiet
    <2>2. clientIfs = transportIfs /\ Stands /\ NoneIsRead
      BY <2>1 DEF Orderly
    <2>3. clientIfs \subseteq Interfaces
      BY DEF TransportInv, TransportTypes, LockTypes
    <2>4. CASE running
      <3>1. OpenFor(clientIfs) /\ OpenIsServed
        BY <2>2, <2>4 DEF Stands
      <3>2. {s \in Transport!Sockets : socket[s] # "none"} = {Transport!Main} \cup clientIfs
        BY <2>3, <3>1, TransportMembers DEF OpenFor
      <3>3. \A s \in Transport!Sockets : (loop[s] = "none") <=> (socket[s] = "none")
        BY <2>2, <3>1 DEF OpenFor, OpenIsServed, NoneIsRead
      <3>. QED
        BY <2>2, <2>4, <3>2, <3>3
    <2>5. CASE ~running
      BY <2>2, <2>5 DEF Stands, NoneOpen, NoneIsRead
    <2>. QED
      BY <2>4, <2>5
  <1>. QED
    BY <1>1, <1>2 DEF Transport!SocketsFollow

LEMMA InitTransport == Transport!Init => TransportInv
  <1>. SUFFICES ASSUME Transport!Init PROVE TransportInv
    OBVIOUS
  <1>1. /\ \A s \in Transport!Sockets : socket[s] = "none" /\ loop[s] = "none"
        /\ \A t \in Transport!Threads : pc[t] = "idle"
        /\ ~running /\ ~sub /\ ~handler /\ clientIfs = transportIfs
        /\ running = FALSE /\ sub = FALSE /\ handler = FALSE
    BY DEF Transport!Init
  <1>2. pc["starter"] = "idle" /\ pc["stopper"] = "idle" /\ pc["updater"] = "idle"
    BY <1>1, TransportMembers
  <1>3. NoneIsRead /\ Stands
    BY <1>1 DEF NoneIsRead, Stands, NoneOpen
  <1>4. \E t \in Transport!Threads : \A u \in Transport!Threads \ {t} : pc[u] = "idle"
    BY <1>1, TransportMembers
  <1>5. Orderly
    BY <1>1, <1>2, <1>3, <1>4 DEF Orderly
  <1>. QED
    BY <1>5, InitTransportTypes DEF TransportInv

\* Steps of the loops, and of the interfaces.
LEMMA LoopsKeepOrder ==
  ASSUME Orderly,
         UNCHANGED <<pc, running, sub, handler, took, clientIfs, transportIfs, socket, context>>,
         \A s \in Transport!Sockets : loop'[s] = "none" =>
           loop[s] = "none" \/ socket[s] = "closed" \/ context[s] = "ended",
         \A s \in Transport!Sockets : socket[s] = "none" => loop'[s] = "none"
  PROVE  Orderly'
  <1>1. NoneIsRead' /\ (OpenIsServed => OpenIsServed') /\ (NoneOpen => NoneOpen')
    BY DEF Orderly, NoneIsRead, OpenIsServed, NoneOpen
  <1>2. OpenFor(transportIfs) => OpenFor(transportIfs)'
    BY DEF OpenFor
  <1>3. Stands => Stands'
    BY <1>1, <1>2 DEF Stands
  <1>. QED
    BY <1>1, <1>3 DEF Orderly

\* Threads that start alone, and go on alone.
LEMMA StaysAlone ==
  ASSUME TransportTypes, NEW t \in Transport!Threads, NEW step, Transport!Goto(t, step),
         pc[t] # "idle", Orderly
  PROVE  /\ \A u \in Transport!Threads \ {t} : pc[u] = "idle" /\ pc'[u] = "idle"
         /\ pc'[t] = step
  <1>1. PICK only \in Transport!Threads : \A u \in Transport!Threads \ {only} : pc[u] = "idle"
    BY DEF Orderly
  <1>2. only = t
    BY <1>1
  <1>. QED
    BY <1>1, <1>2 DEF Transport!Goto, TransportTypes, LockTypes

LEMMA StartsAlone ==
  ASSUME TransportTypes, NEW t \in Transport!Threads, NEW step, Transport!Goto(t, step),
         pc[t] = "idle", ~Transport!Overlaps(t)
  PROVE  /\ \A u \in Transport!Threads : pc[u] = "idle"
         /\ \A u \in Transport!Threads \ {t} : pc'[u] = "idle"
         /\ pc'[t] = step
  BY DEF Transport!Goto, Transport!Overlaps, TransportTypes, LockTypes
LEMMA TransportStep == TransportInv /\ [Transport!Next]_transport => TransportInv'
  <1>. SUFFICES ASSUME TransportInv, [Transport!Next]_transport PROVE TransportInv'
    OBVIOUS
  <1>1. TransportTypes /\ TransportTypes'
    BY TransportTypesStep DEF TransportInv
  <1>. SUFFICES ASSUME ~disturbed' PROVE Orderly'
    BY <1>1 DEF TransportInv
  <1>2. ASSUME ~disturbed PROVE Orderly
    BY <1>2 DEF TransportInv
  <1>3. /\ "starter" \in Transport!Threads /\ "stopper" \in Transport!Threads
        /\ "updater" \in Transport!Threads
        /\ \A t \in Transport!Threads : t \in {"starter", "stopper", "updater"}
        /\ "starter" # "stopper" /\ "starter" # "updater" /\ "stopper" # "updater"
    BY TransportMembers
  <1>4. /\ Transport!Main \in Transport!Sockets /\ Interfaces \subseteq Transport!Sockets
        /\ Transport!Main \notin Interfaces
        /\ \A s \in Transport!Sockets : s = Transport!Main \/ s \in Interfaces
    BY TransportMembers
  <1>5. /\ clientIfs \subseteq Interfaces /\ transportIfs \subseteq Interfaces
        /\ socket \in [Transport!Sockets -> {"none", "open", "closed"}]
        /\ loop \in [Transport!Sockets -> {"none", "reading", "handling"}]
        /\ context \in [Transport!Sockets -> {"run", "background", "ended"}]
    BY <1>1 DEF TransportTypes, LockTypes, SocketTypes
  <1>. USE DEF Transport!flags, Transport!lists, Transport!sockets, Transport!mutexes
  <1>6. ASSUME NEW i \in Interfaces, Transport!AddressChanges(i) PROVE Orderly'
    <2>1. Orderly
      BY <1>2, <1>6 DEF Transport!AddressChanges
    <2>2. /\ UNCHANGED <<pc, running, sub, handler, took, clientIfs, transportIfs, socket, context>>
          /\ loop' = loop
      BY <1>6 DEF Transport!AddressChanges
    <2>. QED
      BY <2>1, <2>2, LoopsKeepOrder DEF Orderly, NoneIsRead
  <1>7. ASSUME NEW s \in Transport!Sockets, Transport!PacketArrives(s) \/ Transport!LoopStep(s) PROVE Orderly'
    <2>1. Orderly
      BY <1>2, <1>7
      DEF Transport!PacketArrives, Transport!LoopStep, Transport!Handled, Transport!LoopEnds
    <2>2. UNCHANGED <<pc, running, sub, handler, took, clientIfs, transportIfs, socket, context>>
      BY <1>7 DEF Transport!PacketArrives, Transport!LoopStep, Transport!Handled, Transport!LoopEnds
    <2>3. NoneIsRead
      BY <2>1 DEF Orderly
    <2>4. /\ \A r \in Transport!Sockets : loop'[r] = "none" =>
               loop[r] = "none" \/ socket[r] = "closed" \/ context[r] = "ended"
          /\ \A r \in Transport!Sockets : socket[r] = "none" => loop'[r] = "none"
      <3>1. CASE Transport!PacketArrives(s)
        BY <1>5, <2>3, <3>1 DEF Transport!PacketArrives, NoneIsRead
      <3>2. CASE Transport!Handled(s)
        BY <1>5, <2>3, <3>2 DEF Transport!Handled, NoneIsRead
      <3>3. CASE Transport!LoopEnds(s)
        BY <1>5, <2>3, <3>3 DEF Transport!LoopEnds, NoneIsRead
      <3>. QED
        BY <1>7, <3>1, <3>2, <3>3 DEF Transport!LoopStep
    <2>. QED
      BY <2>1, <2>2, <2>4, LoopsKeepOrder
  <1>8. CASE Transport!startRuntime
    <2>1. /\ pc["starter"] = "idle" /\ Transport!Goto("starter", "bind") /\ ~running
          /\ ~disturbed /\ ~Transport!Overlaps("starter") /\ running' = TRUE
          /\ UNCHANGED <<clientIfs, transportIfs, sub, handler, socket, loop, context>>
      BY <1>8 DEF Transport!startRuntime
    <2>2. Orderly /\ pc["updater"] = "idle" /\ pc["stopper"] = "idle"
          /\ pc'["starter"] = "bind" /\ \A u \in Transport!Threads \ {"starter"} : pc'[u] = "idle"
      BY <1>1, <1>2, <1>3, <2>1, StartsAlone
    <2>3. Stands /\ NoneIsRead /\ clientIfs = transportIfs
      BY <2>1, <2>2 DEF Orderly
    <2>4. ~sub /\ ~handler /\ NoneOpen
      BY <2>1, <2>3 DEF Stands
    <2>5. NoneOpen' /\ NoneIsRead'
      BY <2>1, <2>3, <2>4 DEF NoneOpen, NoneIsRead
    <2>. QED
      BY <1>3, <2>1, <2>2, <2>3, <2>4, <2>5 DEF Orderly
  <1>9. CASE Transport!Bind
    <2>1. /\ pc["starter"] = "bind" /\ Transport!Goto("starter", "listen") /\ ~disturbed
          /\ UNCHANGED <<clientIfs, transportIfs, running, sub, handler, socket, loop, context>>
      BY <1>9 DEF Transport!Bind, Transport!NotStarted
    <2>2. /\ Orderly /\ \A u \in Transport!Threads \ {"starter"} : pc[u] = "idle" /\ pc'[u] = "idle"
          /\ pc'["starter"] = "listen"
      BY <1>1, <1>2, <1>3, <2>1, StaysAlone
    <2>3. running /\ ~sub /\ ~handler /\ NoneOpen /\ NoneIsRead /\ clientIfs = transportIfs
      BY <1>3, <2>1, <2>2 DEF Orderly
    <2>4. NoneOpen' /\ NoneIsRead'
      BY <2>1, <2>3 DEF NoneOpen, NoneIsRead
    <2>. QED
      BY <1>3, <2>1, <2>2, <2>3, <2>4 DEF Orderly
  <1>10. CASE Transport!Listen
    <2>1. /\ pc["starter"] = "listen" /\ Transport!Goto("starter", "sync") /\ ~disturbed
          /\ UNCHANGED <<clientIfs, transportIfs, running, sub>> /\ handler' = TRUE
          /\ Transport!Open(Transport!Main, "run")
      BY <1>10 DEF Transport!Listen
    <2>2. /\ Orderly /\ \A u \in Transport!Threads \ {"starter"} : pc[u] = "idle" /\ pc'[u] = "idle"
          /\ pc'["starter"] = "sync"
      BY <1>1, <1>2, <1>3, <2>1, StaysAlone
    <2>3. running /\ ~sub /\ NoneOpen /\ NoneIsRead /\ clientIfs = transportIfs
      BY <1>3, <2>1, <2>2 DEF Orderly
    <2>4. NoneIsRead' /\ OpenIsServed' /\ socket'[Transport!Main] = "open"
          /\ \A i \in Interfaces : socket'[i] = "none"
      BY <1>4, <1>5, <2>1, <2>3 DEF Transport!Open, NoneOpen, NoneIsRead, OpenIsServed
    <2>. QED
      BY <1>3, <2>1, <2>2, <2>3, <2>4 DEF Orderly
  <1>11. CASE Transport!UndoCloses \/ Transport!UndoWaits
    <2>1. pc["starter"] = "undo" /\ ~disturbed
      BY <1>11 DEF Transport!UndoCloses, Transport!UndoWaits, Transport!NotStarted
    <2>. QED
      BY <1>2, <2>1 DEF Orderly
  <1>12. CASE Transport!stopRuntime
    <2>1. /\ pc["stopper"] = "idle" /\ Transport!Goto("stopper", "cancel") /\ (running \/ sub)
          /\ ~disturbed /\ ~Transport!Overlaps("stopper") /\ running' = FALSE /\ sub' = FALSE /\ took' = sub
          /\ UNCHANGED <<clientIfs, transportIfs, handler, socket, loop, context>>
      BY <1>12 DEF Transport!stopRuntime
    <2>2. Orderly /\ pc["starter"] = "idle" /\ pc["updater"] = "idle"
          /\ pc'["stopper"] = "cancel" /\ \A u \in Transport!Threads \ {"stopper"} : pc'[u] = "idle"
      BY <1>1, <1>2, <1>3, <2>1, StartsAlone
    <2>3. Stands /\ NoneIsRead /\ clientIfs = transportIfs
      BY <2>1, <2>2 DEF Orderly
    <2>4. took'
      BY <2>1, <2>3 DEF Stands
    <2>5. NoneIsRead'
      BY <2>1, <2>3 DEF NoneIsRead
    <2>. QED
      BY <1>3, <2>1, <2>2, <2>3, <2>4, <2>5 DEF Orderly
  <1>13. CASE Transport!Cancel
    <2>1. /\ pc["stopper"] = "cancel" /\ ~disturbed
          /\ Transport!Goto("stopper", IF took THEN "close" ELSE "idle")
          /\ UNCHANGED <<clientIfs, transportIfs, running, sub, handler, socket, loop>>
      BY <1>13 DEF Transport!Cancel
    <2>2. Orderly /\ took
      BY <1>2, <2>1 DEF Orderly
    <2>3. Transport!Goto("stopper", "close")
      BY <2>1, <2>2
    <2>4. /\ \A u \in Transport!Threads \ {"stopper"} : pc[u] = "idle" /\ pc'[u] = "idle"
          /\ pc'["stopper"] = "close"
      BY <1>1, <1>3, <2>1, <2>2, <2>3, StaysAlone
    <2>5. ~running /\ ~sub /\ NoneIsRead /\ clientIfs = transportIfs
      BY <1>3, <2>1, <2>2, <2>4 DEF Orderly
    <2>6. NoneIsRead'
      BY <2>1, <2>5 DEF NoneIsRead
    <2>. QED
      BY <1>3, <2>1, <2>4, <2>5, <2>6 DEF Orderly
  <1>14. CASE Transport!CloseListener
    <2>1. /\ pc["stopper"] = "close" /\ ~disturbed /\ Transport!Goto("stopper", "closing")
          /\ UNCHANGED <<clientIfs, transportIfs, running, sub, handler, socket, loop, context>>
      BY <1>14 DEF Transport!CloseListener
    <2>2. /\ Orderly /\ \A u \in Transport!Threads \ {"stopper"} : pc[u] = "idle" /\ pc'[u] = "idle"
          /\ pc'["stopper"] = "closing"
      BY <1>1, <1>2, <1>3, <2>1, StaysAlone
    <2>3. ~running /\ ~sub /\ NoneIsRead /\ clientIfs = transportIfs
      BY <1>3, <2>1, <2>2 DEF Orderly
    <2>4. NoneIsRead'
      BY <2>1, <2>3 DEF NoneIsRead
    <2>. QED
      BY <1>3, <2>1, <2>2, <2>3, <2>4 DEF Orderly
  <1>15. CASE Transport!CloseOne \/ Transport!CloseWaits
    <2>1. /\ pc["stopper"] = "closing" /\ ~disturbed /\ pc' = pc
          /\ UNCHANGED <<clientIfs, transportIfs, running, sub, handler, loop, context>>
      BY <1>15 DEF Transport!CloseOne, Transport!CloseWaits
    <2>2. /\ Orderly
      BY <1>2, <2>1
    <2>3. \A u \in Transport!Threads \ {"stopper"} : pc[u] = "idle"
      BY <1>3, <2>1, <2>2 DEF Orderly
    <2>4. ~running /\ ~sub /\ NoneIsRead /\ clientIfs = transportIfs
      BY <1>3, <2>1, <2>2, <2>3 DEF Orderly
    <2>5. NoneIsRead'
      <3>1. CASE Transport!CloseOne
        BY <1>5, <2>1, <2>4, <3>1 DEF Transport!CloseOne, NoneIsRead
      <3>2. CASE Transport!CloseWaits
        BY <1>5, <2>1, <2>4, <3>2 DEF Transport!CloseWaits, Transport!Waited, NoneIsRead
      <3>. QED
        BY <1>15, <3>1, <3>2
    <2>. QED
      BY <1>3, <2>1, <2>2, <2>3, <2>4, <2>5 DEF Orderly
  <1>16. CASE Transport!Closed
    <2>1. /\ pc["stopper"] = "closing" /\ ~disturbed /\ Transport!Goto("stopper", "idle")
          /\ UNCHANGED <<clientIfs, transportIfs, running, sub, loop, context>>
          /\ handler' = FALSE /\ socket' = [socket EXCEPT ![Transport!Main] = "none"]
          /\ Transport!Closable = {}
          /\ \A s \in Transport!Sockets : socket[s] = "closed" => s = Transport!Main /\ Transport!Waited(s)
      BY <1>16 DEF Transport!Closed
    <2>2. /\ Orderly /\ \A u \in Transport!Threads \ {"stopper"} : pc[u] = "idle" /\ pc'[u] = "idle"
          /\ pc'["stopper"] = "idle"
      BY <1>1, <1>2, <1>3, <2>1, StaysAlone
    <2>3. ~running /\ ~sub /\ NoneIsRead /\ clientIfs = transportIfs
      BY <1>3, <2>1, <2>2 DEF Orderly
    <2>4. \A s \in Transport!Sockets : socket[s] # "open"
      <3>1. {i \in Interfaces : socket[i] = "open"} = {}
        BY <2>1 DEF Transport!Closable
      <3>2. socket[Transport!Main] # "open"
        BY <2>1, <3>1 DEF Transport!Closable
      <3>. QED
        BY <1>4, <3>1, <3>2
    <2>5. \A s \in Transport!Sockets : socket'[s] = "none" /\ loop[s] = "none"
      BY <1>4, <1>5, <2>1, <2>3, <2>4 DEF NoneIsRead, Transport!Waited
    <2>6. NoneIsRead' /\ Stands'
      BY <2>1, <2>3, <2>5, <1>1 DEF NoneIsRead, Stands, NoneOpen, TransportTypes, FlagTypes
    <2>. QED
      BY <1>3, <2>1, <2>2, <2>3, <2>6 DEF Orderly
  <1>17. ASSUME NEW names \in SUBSET Interfaces, Transport!UpdateInterfaces(names) PROVE Orderly'
    <2>1. /\ pc["updater"] = "idle" /\ Transport!Goto("updater", "transport")
          /\ ~disturbed /\ ~Transport!Overlaps("updater")
          /\ UNCHANGED <<transportIfs, running, sub, handler, socket, loop, context>>
      BY <1>17 DEF Transport!UpdateInterfaces
    <2>2. Orderly /\ pc["starter"] = "idle" /\ pc["stopper"] = "idle"
          /\ pc'["updater"] = "transport" /\ \A u \in Transport!Threads \ {"updater"} : pc'[u] = "idle"
      BY <1>1, <1>2, <1>3, <2>1, StartsAlone
    <2>3. Stands /\ NoneIsRead
      BY <2>1, <2>2 DEF Orderly
    <2>4. Stands' /\ NoneIsRead'
      BY <2>1, <2>3 DEF Stands, OpenFor, OpenIsServed, NoneOpen, NoneIsRead
    <2>. QED
      BY <1>3, <2>1, <2>2, <2>4 DEF Orderly
  <1>18. CASE Transport!TransportUpdates
    <2>1. /\ pc["updater"] = "transport" /\ ~disturbed /\ transportIfs' = clientIfs /\ clientIfs' = clientIfs
          /\ UNCHANGED <<running, sub, handler, socket, loop, context>>
          /\ Transport!Goto("updater", IF handler THEN "sync" ELSE "idle")
      BY <1>18 DEF Transport!TransportUpdates
    <2>2. /\ Orderly /\ \A u \in Transport!Threads \ {"updater"} : pc[u] = "idle" /\ pc'[u] = "idle"
          /\ pc'["updater"] = IF handler THEN "sync" ELSE "idle"
      BY <1>1, <1>2, <1>3, <2>1, StaysAlone
    <2>3. Stands /\ NoneIsRead
      BY <1>3, <2>1, <2>2 DEF Orderly
    <2>4. NoneIsRead'
      BY <2>1, <2>3 DEF NoneIsRead
    <2>5. CASE handler
      <3>1. running /\ sub /\ OpenFor(transportIfs) /\ OpenIsServed
        BY <2>3, <2>5 DEF Stands
      <3>2. OpenIsServed' /\ socket'[Transport!Main] = "open" /\ \A s \in Transport!Sockets : socket'[s] # "closed"
        BY <1>4, <2>1, <3>1 DEF OpenFor, OpenIsServed
      <3>3. \A i \in transportIfs' : socket'[i] # "closed"
        BY <1>4, <1>5, <2>1, <3>2
      <3>. QED
        BY <1>3, <2>1, <2>2, <2>4, <2>5, <3>1, <3>2, <3>3 DEF Orderly
    <2>6. CASE ~handler
      <3>1. Stands'
        BY <2>1, <2>3, <2>6 DEF Stands, NoneOpen
      <3>. QED
        BY <1>3, <2>1, <2>2, <2>4, <2>6, <3>1 DEF Orderly
    <2>. QED
      BY <2>5, <2>6
  <1>19. ASSUME NEW t \in {"starter", "updater"}, Transport!ThreadStep(t) PROVE Orderly'
    <2>1. pc[t] = "sync" /\ ~disturbed /\ t \in Transport!Threads
      BY <1>3, <1>19 DEF Transport!ThreadStep, Transport!SyncOpens, Transport!SyncFails,
         Transport!SyncCloses, Transport!SyncWaits, Transport!SyncEnds
    <2>2. Orderly /\ \A u \in Transport!Threads \ {t} : pc[u] = "idle"
      BY <1>2, <2>1 DEF Orderly
    <2>3. /\ running /\ handler /\ clientIfs = transportIfs /\ NoneIsRead /\ OpenIsServed
          /\ socket[Transport!Main] = "open"
          /\ \A i \in transportIfs : socket[i] # "closed"
          /\ t = "starter" => ~sub /\ \A i \in Interfaces : socket[i] # "closed" /\ (socket[i] = "open" => i \in transportIfs)
          /\ t = "updater" => sub
      BY <1>3, <1>5, <2>1, <2>2 DEF Orderly
    \* A synchronisation goes on.
    <2>4. ASSUME UNCHANGED <<pc, running, sub, handler, clientIfs, transportIfs>>,
                 NoneIsRead', OpenIsServed', socket'[Transport!Main] = "open",
                 \A i \in transportIfs : socket'[i] # "closed",
                 t = "starter" => \A i \in Interfaces : socket'[i] # "closed" /\ (socket'[i] = "open" => i \in transportIfs)
          PROVE  Orderly'
      <3>1. CASE t = "starter"
        BY <1>3, <2>1, <2>2, <2>3, <2>4, <3>1 DEF Orderly
      <3>2. CASE t = "updater"
        BY <1>3, <2>1, <2>2, <2>3, <2>4, <3>2 DEF Orderly
      <3>. QED
        BY <3>1, <3>2
    <2>5. CASE Transport!SyncOpens(t)
      <3>1. PICK i \in Transport!Missing \cap addressed :
              Transport!Open(i, IF t = "starter" THEN "run" ELSE "background")
        BY <2>5 DEF Transport!SyncOpens
      <3>2. i \in transportIfs /\ i \in Transport!Sockets /\ i # Transport!Main
        BY <1>4, <1>5, <3>1 DEF Transport!Missing
      <3>3. /\ UNCHANGED <<pc, running, sub, handler, clientIfs, transportIfs>>
            /\ socket' = [socket EXCEPT ![i] = "open"] /\ loop' = [loop EXCEPT ![i] = "reading"]
            /\ context' = [context EXCEPT ![i] = IF t = "starter" THEN "run" ELSE "background"]
        BY <2>5, <3>1 DEF Transport!SyncOpens, Transport!Open
      <3>4. NoneIsRead' /\ OpenIsServed'
        BY <1>5, <2>3, <3>2, <3>3 DEF NoneIsRead, OpenIsServed
      <3>5. \A s \in Transport!Sockets : socket'[s] = IF s = i THEN "open" ELSE socket[s]
        BY <1>5, <3>3
      <3>. QED
        BY <1>4, <1>5, <2>3, <2>4, <3>2, <3>3, <3>4, <3>5
    <2>6. CASE Transport!SyncFails(t)
      BY <2>6 DEF Transport!SyncFails
    <2>7. CASE Transport!SyncCloses(t) \/ Transport!SyncWaits(t)
      <3>1. PICK i \in Transport!Surplus, new \in {"none", "closed"} :
              /\ socket' = [socket EXCEPT ![i] = new]
              /\ new = "none" => Transport!Waited(i)
        BY <2>7 DEF Transport!SyncCloses, Transport!SyncWaits
      <3>2. i \in Interfaces \ transportIfs /\ socket[i] # "none" /\ i \in Transport!Sockets /\ i # Transport!Main
        BY <1>4, <3>1 DEF Transport!Surplus
      <3>3. UNCHANGED <<pc, running, sub, handler, clientIfs, transportIfs, loop, context>>
        BY <2>7 DEF Transport!SyncCloses, Transport!SyncWaits
      <3>4. t = "updater"
        BY <1>5, <2>3, <3>2
      <3>5. NoneIsRead' /\ OpenIsServed'
        BY <1>5, <2>3, <3>1, <3>2, <3>3 DEF NoneIsRead, OpenIsServed, Transport!Waited
      <3>6. \A s \in Transport!Sockets : s # i => socket'[s] = socket[s]
        BY <1>5, <3>1
      <3>. QED
        BY <1>4, <1>5, <2>3, <2>4, <3>2, <3>3, <3>4, <3>5, <3>6
    <2>8. CASE Transport!SyncEnds(t)
      <3>1. /\ Transport!Missing = {} /\ Transport!Surplus = {} /\ Transport!Goto(t, "idle")
            /\ sub' = (IF t = "starter" THEN TRUE ELSE sub)
            /\ UNCHANGED <<running, handler, clientIfs, transportIfs, socket, loop, context>>
        BY <2>8 DEF Transport!SyncEnds
      <3>2. \A u \in Transport!Threads : pc'[u] = "idle"
        BY <1>1, <2>1, <2>2, <3>1, StaysAlone
      <3>3. /\ \A i \in transportIfs : socket[i] = "open"
            /\ \A i \in Interfaces \ transportIfs : socket[i] = "none"
        BY <1>4, <1>5, <2>3, <3>1 DEF Transport!Missing, Transport!Surplus
      <3>4. OpenFor(transportIfs)'
        BY <1>4, <1>5, <2>3, <3>1, <3>3 DEF OpenFor
      <3>5. OpenIsServed' /\ NoneIsRead'
        BY <2>3, <3>1 DEF OpenIsServed, NoneIsRead
      <3>6. sub' /\ running' /\ handler'
        BY <2>3, <3>1
      <3>7. Stands'
        BY <1>1, <3>4, <3>5, <3>6 DEF Stands, TransportTypes, FlagTypes
      <3>. QED
        BY <1>3, <2>3, <3>1, <3>2, <3>5, <3>7 DEF Orderly
    <2>. QED
      BY <1>19, <2>5, <2>6, <2>7, <2>8 DEF Transport!ThreadStep
  <1>20. CASE UNCHANGED transport
    <2>1. /\ Orderly /\ loop' = loop
          /\ UNCHANGED <<pc, running, sub, handler, took, clientIfs, transportIfs, socket, context>>
      BY <1>2, <1>20 DEF transport
    <2>. QED
      BY <2>1, LoopsKeepOrder DEF Orderly, NoneIsRead
  <1>. QED
    BY <1>6, <1>7, <1>8, <1>9, <1>10, <1>11, <1>12, <1>13, <1>14, <1>15, <1>16, <1>17, <1>18,
       <1>19, <1>20
    DEF Transport!Next, Transport!Progress, Transport!StartStep, Transport!StopStep

-----------------------------------------------------------------------------
(* The composition *)

LanInv == IInv /\ FlapInv /\ PushInv /\ TransportInv /\ ScheduleInv

\* The inductive invariant of the LAN client: that of each of its parts.
THEOREM LanIsSound == MCSpec => []LanInv
  <1>1. MCInit => LanInv
    BY InitIInv, InitFlap, InitPush, InitTransport, InitSchedule DEF MCInit, LanInv
  <1>2. LanInv /\ [MCNext]_<<part, vars, pushing, transport, schedule>> => LanInv'
    <2>. SUFFICES ASSUME LanInv, [MCNext]_<<part, vars, pushing, transport, schedule>> PROVE LanInv'
      OBVIOUS
    <2>1. [Next]_vars /\ [Push!Next]_pushing /\ [Transport!Next]_transport /\ [Intervals!Next]_schedule
      BY DEF MCNext
    <2>. QED
      BY <2>1, StepIInv, StepFlap, PushStep, TransportStep, ScheduleStep DEF LanInv
  <1>. QED
    BY <1>1, <1>2, PTL DEF MCSpec

\* The variables keep their types, for any intervals, interfaces, read loops and bounds.
THEOREM LanTypeCorrect == MCSpec => []LanTypeOK
  <1>1. LanInv => LanTypeOK
    BY FlapTypes, PushProperties, TransportProperties, ScheduleProperties DEF LanInv, LanTypeOK
  <1>. QED
    BY <1>1, LanIsSound, PTL

\* However a device flaps, dispatch is switched, interfaces and runtime change: subscribers are
\* disturbed at most Unstable times per window, push that is off stays off, the sockets are those
\* of the interfaces, and broadcasts keep coming (recordPingSuccess, SetSubscribeOption,
\* UpdateInterfaces, broadcastTargetsLocked).
THEOREM LanStaysTidy == MCSpec => []LanIsTidy
  <1>1. LanInv => LanIsTidy
    BY FlapTypes, PushProperties, TransportProperties, ScheduleProperties DEF LanInv, LanIsTidy
  <1>. QED
    BY <1>1, LanIsSound, PTL
=============================================================================
