----------------------------- MODULE LanKeepalive -----------------------------
(***************************************************************************)
(* The keepalive of one device of LANClient (lan.go): adaptive probes, the *)
(* retries before a device is declared offline, and the suppression of     *)
(* devices that keep coming and going.                                     *)
(*                                                                         *)
(* One tick of time is one scan interval.  Points in time are kept as the  *)
(* ticks that have passed since or remain until them, capped where the     *)
(* code no longer distinguishes them, so that the state space is finite    *)
(* without a bound on time.                                                *)
(*                                                                         *)
(* The scan is one goroutine of the runtime.  Beside it callers ping the   *)
(* device or send it requests, and packets of it are handled: they pass a  *)
(* check, and what they learn is recorded later, whatever the runtime has  *)
(* become.  Starts and stops that overlap are in LanControl.               *)
(***************************************************************************)
EXTENDS Naturals

CONSTANTS
  Callers,     \* goroutines of callers and of handlers of packets (bound)
  KMin, KMax,  \* KeepaliveIntervalMin and KeepaliveIntervalMax
  Fast,        \* FastRetryInterval
  Window,      \* UnstableWindow
  Resume,      \* UnstableResumeDelay
  Unstable,    \* UnstableTransitionThreshold
  Offline,     \* OfflineThreshold
  PingProves   \* LANTransport.Ping succeeds only if the device answered; the default
               \* transport, udpLANTransport, returns once the probe is written

ASSUME KeepaliveConstants ==
  /\ {KMin, KMax, Fast, Window, Resume, Unstable, Offline} \subseteq Nat \ {0}
  /\ KMin <= KMax
  /\ PingProves \in BOOLEAN

VARIABLES
  control,    \* "disabled" (c.enabled is false), "gateway" (centralGatewayPresent), or "allowed"
  runtime,    \* "stopped", "running", or "stopping": cancelled, its scan not yet over
  caller,     \* what each of Callers is at: "idle", "waiting", "answered" or "failed"
  online,     \* state.online
  retryCount, \* state.retryCount, capped at Offline
  keepalive,  \* state.keepaliveInterval; 0 before the first success
  nextProbe,  \* ticks until state.nextProbe
  history,    \* state.transitionHistory: the ages of the Unstable latest transitions,
              \* latest first, Window for those that are pruned or never were
  suppressed, \* ticks until state.suppressOnlineUntil
  ping,       \* the scan waits for the device's answer
  answers,    \* the device: it answers probes and sends packets
  silent,     \* history: ticks of a running scan since the last recorded success
  changes     \* history: the ages of the latest state changes told to subscribers, as in history,
              \* one more of them

probing == <<retryCount, keepalive, nextProbe>>
flapping == <<history, suppressed, changes>>
device == <<online, probing, flapping, silent>>
others == <<control, caller, answers>>
vars == <<control, runtime, caller, online, retryCount, keepalive, nextProbe, history,
          suppressed, ping, answers, silent, changes>>

\* scanDevices probes the devices; while it is disabled it returns at once.
Scanning == runtime = "running" /\ control # "disabled"

\* The longest a device may be silent before it is declared offline.
SilenceBound == KMax + (Offline - 1) * Fast

AtMost(n, bound) == IF n > bound THEN bound ELSE n
Less(n) == IF n = 0 THEN 0 ELSE n - 1

\* Something happens now: it is the latest.
Happen(ages) == [k \in DOMAIN ages |-> IF k = 1 THEN 0 ELSE ages[k - 1]]
\* A tick later; what is as old as the window is pruned.
pruneTransitionHistory(ages) == [k \in DOMAIN ages |-> AtMost(ages[k] + 1, Window)]
\* There are Unstable transitions within the window.
isUnstableOnlineRecovery(ages) == ages[Unstable] < Window

Init ==
  /\ control = "allowed" /\ runtime = "stopped" /\ caller = [c \in Callers |-> "idle"]
  /\ online = FALSE /\ retryCount = 0 /\ keepalive = 0 /\ nextProbe = 0
  /\ history = [k \in 1..Unstable |-> Window] /\ suppressed = 0
  /\ ping = FALSE /\ answers \in BOOLEAN
  /\ silent = 0 /\ changes = [k \in 1..(Unstable + 1) |-> Window]

-----------------------------------------------------------------------------
(* recordPingSuccess and recordPingFailure *)

Emit == changes' = Happen(changes)

\* Mutation of nextKeepalive: the interval doubles without a limit.
nextKeepaliveUnlimited ==
  IF keepalive = 0 \/ ~online THEN KMin
  ELSE IF 2 * keepalive < KMin THEN KMin ELSE 2 * keepalive

nextKeepalive ==
  IF keepalive = 0 \/ ~online THEN KMin
  ELSE IF 2 * keepalive < KMin THEN KMin ELSE AtMost(2 * keepalive, KMax)

\* An offline device comes back: at once, or later if it was unstable lately.
ComeOnline ==
  IF suppressed > 0 THEN UNCHANGED <<online, history, suppressed, changes>>
  ELSE /\ history' = Happen(history)
       /\ IF isUnstableOnlineRecovery(Happen(history))
            THEN suppressed' = Resume /\ UNCHANGED <<online, changes>>
            ELSE suppressed' = 0 /\ online' = TRUE /\ Emit

recordPingSuccess ==
  /\ retryCount' = 0
  /\ keepalive' = nextKeepalive /\ nextProbe' = nextKeepalive
  /\ silent' = 0
  /\ IF online THEN UNCHANGED <<online, history, suppressed, changes>> ELSE ComeOnline

\* Mutation of recordPingFailure: going offline is not remembered as a transition.
recordPingFailureForgetful ==
  /\ IF online /\ retryCount + 1 >= Offline
       THEN /\ online' = FALSE /\ Emit
            /\ retryCount' = 0 /\ keepalive' = KMin /\ nextProbe' = KMin
       ELSE /\ retryCount' = AtMost(retryCount + 1, Offline)
            /\ nextProbe' = Fast
            /\ UNCHANGED <<online, changes, keepalive>>
  /\ UNCHANGED <<history, suppressed, silent>>

\* Mutation of recordPingFailure: one failure too many is allowed.
recordPingFailureLate ==
  /\ IF online /\ retryCount + 1 > Offline
       THEN /\ history' = Happen(history)
            /\ online' = FALSE /\ Emit
            /\ retryCount' = 0 /\ keepalive' = KMin /\ nextProbe' = KMin
       ELSE /\ retryCount' = AtMost(retryCount + 1, Offline)
            /\ nextProbe' = Fast
            /\ UNCHANGED <<history, online, changes, keepalive>>
  /\ UNCHANGED <<suppressed, silent>>

recordPingFailure ==
  /\ IF online /\ retryCount + 1 >= Offline
       THEN /\ history' = Happen(history)
            /\ online' = FALSE /\ Emit
            /\ retryCount' = 0 /\ keepalive' = KMin /\ nextProbe' = KMin
       ELSE /\ retryCount' = AtMost(retryCount + 1, Offline)
            /\ nextProbe' = Fast
            /\ UNCHANGED <<history, online, changes, keepalive>>
  /\ UNCHANGED <<suppressed, silent>>

-----------------------------------------------------------------------------
(* The scan *)

\* What LANTransport.Ping may return.
PingMaySucceed == answers \/ ~PingProves
PingMayFail == ~answers

\* Mutation of Scan: only online devices are probed.
ScanOnlineOnly ==
  /\ runtime # "stopped" /\ control # "disabled" /\ ~ping /\ nextProbe = 0 /\ online
  /\ ping' = TRUE
  /\ UNCHANGED <<runtime, device, others>>

\* scanDevices pings a device whose next probe is due; a runtime that was cancelled may scan
\* once more.
Scan ==
  /\ runtime # "stopped" /\ control # "disabled" /\ ~ping /\ nextProbe = 0
  /\ ping' = TRUE
  /\ UNCHANGED <<runtime, device, others>>

\* The ping of the scan ends within the tick: RequestTimeout is shorter.
PingAnswered ==
  /\ ping /\ PingMaySucceed /\ ping' = FALSE
  /\ recordPingSuccess
  /\ UNCHANGED <<runtime, others>>

\* Mutation of PingTimesOut: the timeout only schedules the next probe.
PingTimesOutUncounted ==
  /\ ping /\ PingMayFail /\ ping' = FALSE
  /\ nextProbe' = Fast
  /\ UNCHANGED <<runtime, online, retryCount, keepalive, flapping, silent, others>>

\* The device did not answer in time, or the runtime's context was cancelled.
PingTimesOut ==
  /\ ping /\ (PingMayFail \/ runtime = "stopping") /\ ping' = FALSE
  /\ recordPingFailure
  /\ UNCHANGED <<runtime, others>>

-----------------------------------------------------------------------------
(* Callers and packets *)

At(c, step) == caller' = [caller EXCEPT ![c] = step]

\* Ping, GetProp, SetProp and InvokeAction look at the flags alone: they may be called with
\* no runtime, as before the first Start.
ensureEnabled(c) ==
  /\ caller[c] = "idle" /\ control = "allowed"
  /\ At(c, "waiting")
  /\ UNCHANGED <<control, runtime, device, ping, answers>>

\* The transport returns: Ping records a failure too, the others only give it to their caller.
CallReturns(c) ==
  /\ caller[c] = "waiting"
  /\ \/ PingMaySucceed /\ At(c, "answered")
     \/ PingMayFail /\ (At(c, "failed") \/ At(c, "idle"))
  /\ UNCHANGED <<control, runtime, device, ping, answers>>

\* handleRuntimePacket: the listener ends after the scan; what it has read is handled later.
PacketArrives(c) ==
  /\ caller[c] = "idle" /\ runtime # "stopped" /\ answers
  /\ At(c, "answered")
  /\ UNCHANGED <<control, runtime, device, ping, answers>>

\* Mutation of Record: the failure of a caller's ping postpones the probe, uncounted.
RecordUncounted(c) ==
  /\ caller[c] \in {"answered", "failed"} /\ At(c, "idle")
  /\ IF caller[c] = "answered" THEN recordPingSuccess
     ELSE nextProbe' = Fast /\ UNCHANGED <<online, retryCount, keepalive, flapping, silent>>
  /\ UNCHANGED <<control, runtime, ping, answers>>

Record(c) ==
  /\ caller[c] \in {"answered", "failed"} /\ At(c, "idle")
  /\ IF caller[c] = "answered" THEN recordPingSuccess ELSE recordPingFailure
  /\ UNCHANGED <<control, runtime, ping, answers>>

-----------------------------------------------------------------------------
(* The runtime *)

startRuntime ==
  /\ runtime = "stopped" /\ runtime' = "running"
  /\ UNCHANGED <<device, ping, others>>

\* Close, a vote or a central gateway cancels the runtime, if there is one, ...
stopRuntime ==
  /\ runtime = "running" /\ runtime' = "stopping"
  /\ UNCHANGED <<device, ping, others>>

\* ... waits for its scan and marks the device offline; that is no transition of the device's own.
markAllDevicesOffline ==
  /\ runtime # "running" /\ ~ping
  /\ runtime' = "stopped" /\ online' = FALSE
  /\ UNCHANGED <<probing, flapping, silent, ping, others>>

\* The same calls set the flags, before the runtime starts or stops or after it.
ControlChanges ==
  /\ control' \in {"disabled", "gateway", "allowed"} \ {control}
  /\ UNCHANGED <<runtime, caller, device, ping, answers>>

-----------------------------------------------------------------------------
(* The environment *)

DeviceChanges ==
  /\ answers' = ~answers
  /\ UNCHANGED <<control, runtime, caller, device, ping>>

\* Time passes once the scan of this tick is over.
Tick ==
  /\ ~ping /\ (Scanning => nextProbe > 0)
  /\ nextProbe' = Less(nextProbe) /\ suppressed' = Less(suppressed)
  /\ history' = pruneTransitionHistory(history)
  /\ changes' = pruneTransitionHistory(changes)
  /\ silent' = IF Scanning THEN AtMost(silent + 1, SilenceBound + 1) ELSE silent
  /\ UNCHANGED <<runtime, online, retryCount, keepalive, ping, others>>

CallerStep(c) == ensureEnabled(c) \/ CallReturns(c) \/ PacketArrives(c) \/ Record(c)

Next ==
  \/ Scan \/ PingAnswered \/ PingTimesOut
  \/ \E c \in Callers : CallerStep(c)
  \/ startRuntime \/ stopRuntime \/ markAllDevicesOffline \/ ControlChanges
  \/ DeviceChanges \/ Tick

Spec == Init /\ [][Next]_vars

\* The scan goroutine runs, its pings end, and time passes; no caller has to call or to return,
\* and nobody has to start or stop the runtime.
FairSpec == Spec /\ WF_vars(Scan) /\ WF_vars(PingAnswered \/ PingTimesOut) /\ WF_vars(Tick)

-----------------------------------------------------------------------------
(* Properties *)

TypeOK ==
  /\ control \in {"disabled", "gateway", "allowed"}
  /\ runtime \in {"stopped", "running", "stopping"}
  /\ caller \in [Callers -> {"idle", "waiting", "answered", "failed"}]
  /\ {online, ping, answers} \subseteq BOOLEAN
  /\ retryCount \in 0..Offline /\ keepalive \in {0} \cup KMin..KMax
  /\ nextProbe \in 0..(KMax + Fast) /\ suppressed \in 0..Resume
  /\ history \in [1..Unstable -> 0..Window] /\ changes \in [1..(Unstable + 1) -> 0..Window]
  /\ silent \in 0..(SilenceBound + 1)

\* A device that falls silent is declared offline after a bounded time of scanning: one
\* keepalive interval and the fast retries, whatever probes, packets and caller's pings came
\* before, also those recorded while no scan was running or while one was being stopped.
SilenceIsDetected == online => silent <= SilenceBound

\* However a device flaps, its subscribers hear of at most Unstable changes
\* within Window: the suppression of online recoveries counts every change.
FlappingIsDamped == changes[Unstable + 1] = Window

\* A device that answers for good on a client that scans comes online for good, even after a
\* suppression.
AnsweringComesOnline == <>[](Scanning /\ answers) => <>[]online

\* A device that is silent for good on a client that scans goes offline for good, whatever a
\* caller still records of an answer it had before.
SilentGoesOffline == <>[](Scanning /\ ~answers) => <>[]~online

\* Expected of the code but not kept by it (README, "What the code does not keep"): a device
\* is online only while a scan watches it.  Callers put one online before Start and after Close.
OnlineIsWatched == online => runtime # "stopped"
=============================================================================
