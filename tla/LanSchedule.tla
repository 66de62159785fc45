----------------------------- MODULE LanSchedule -----------------------------
(***************************************************************************)
(* The intervals of LANClient (lan.go): what is configured, what is        *)
(* derived from it, and the broadcast probes, sent on every interface with *)
(* an interval that doubles, by a scan that runs once per scanTickInterval *)
(* while UpdateInterfaces may start it over.                               *)
(***************************************************************************)
EXTENDS Naturals, FiniteSetsExt

CONSTANTS
  Durations,  \* durations a user may set
  Defaults,   \* defaultLANRuntimeConfig, in the same unit: [Intervals -> Nat], 0 for none
  FastLimit   \* the retry interval of last resort, five seconds

Intervals == {"probe", "fast", "keepaliveMin", "keepaliveMax", "broadcastMin", "broadcastMax"}

VARIABLES
  config,     \* the LANRuntimeConfig of the client
  interfaces, \* c.broadcastIfs is not empty
  untilScan,  \* ticks until the scan goroutine's ticker fires
  backoff,    \* c.broadcastBackoff
  untilNext,  \* ticks until c.nextBroadcast, or 0 once it is past
  silence     \* history: ticks without a broadcast while there are interfaces

schedule == <<config, interfaces, untilScan, backoff, untilNext, silence>>

\* WithLANRuntimeConfig: only positive values replace the defaults.
Configured(user) == [i \in Intervals |-> IF user[i] > 0 THEN user[i] ELSE Defaults[i]]

AtLeast(x, least) == IF x < least THEN least ELSE x
OrElse(x, default) == IF x > 0 THEN x ELSE default
KeepaliveMin == OrElse(config["keepaliveMin"], config["probe"])
KeepaliveMax == AtLeast(OrElse(config["keepaliveMax"], 4 * KeepaliveMin), KeepaliveMin)
BroadcastMin == config["broadcastMin"]
\* Mutation of BroadcastMax: not raised to the minimum.
BroadcastMaxPlain == config["broadcastMax"]
BroadcastMax == AtLeast(config["broadcastMax"], BroadcastMin)
FastRetry == OrElse(config["fast"], Min({config["probe"], FastLimit}))
ScanTick == Min({config["probe"], FastRetry, BroadcastMin})

TypeOK ==
  /\ config \in [Intervals -> Nat] /\ interfaces \in BOOLEAN
  /\ untilScan \in 0..ScanTick /\ backoff \in 0..BroadcastMax /\ untilNext \in 0..BroadcastMax
  /\ silence \in Nat

Init ==
  /\ \E user \in [Intervals -> Durations] : config = Configured(user)
  /\ interfaces \in BOOLEAN /\ untilScan = 0 /\ backoff = 0 /\ untilNext = 0 /\ silence = 0

Decrease(n) == IF n = 0 THEN 0 ELSE n - 1

\* A tick of the clock, once the scan that is due has run.
Tick ==
  /\ untilScan > 0
  /\ untilScan' = untilScan - 1 /\ untilNext' = Decrease(untilNext)
  /\ silence' = IF interfaces THEN silence + 1 ELSE 0
  /\ UNCHANGED <<config, interfaces, backoff>>

\* Mutation of NextBackoff: it doubles without a limit.
NextBackoffUnlimited == IF backoff = 0 THEN BroadcastMin ELSE 2 * backoff
NextBackoff == IF backoff = 0 THEN BroadcastMin ELSE Min({AtLeast(2 * backoff, BroadcastMin), BroadcastMax})

\* broadcastTargetsLocked and broadcastScan: all interfaces, when it is time.
Scan ==
  /\ untilScan = 0 /\ untilScan' = ScanTick
  /\ IF interfaces /\ untilNext = 0
     THEN backoff' = NextBackoff /\ untilNext' = backoff' /\ silence' = 0
     ELSE UNCHANGED <<backoff, untilNext, silence>>
  /\ UNCHANGED <<config, interfaces>>

\* The next scan broadcasts at once.
UpdateInterfaces(some) ==
  /\ interfaces' = some /\ backoff' = 0 /\ untilNext' = 0
  /\ silence' = IF some THEN silence ELSE 0
  /\ UNCHANGED <<config, untilScan>>

Next == Tick \/ Scan \/ \E some \in BOOLEAN : UpdateInterfaces(some)

Spec == Init /\ [][Next]_schedule

-----------------------------------------------------------------------------
\* The interfaces are never left without a broadcast for longer than the present interval and
\* the scan that follows it, also when they were just replaced (lan.go broadcastTargetsLocked,
\* UpdateInterfaces, scanTickInterval).
BroadcastsKeepComing == interfaces => silence <= (IF backoff = 0 THEN BroadcastMax ELSE backoff) + ScanTick

\* No more than one probe interval per scan is missed, and the limits are in order
\* (keepaliveIntervalMax, broadcastIntervalMax).
LimitsInOrder == KeepaliveMin <= KeepaliveMax /\ BroadcastMin <= BroadcastMax /\ ScanTick <= BroadcastMin

-----------------------------------------------------------------------------
\* Expected of the code but not kept by it (README, "What the code does not keep"):
\* the scan runs often enough for the shortest keepalive that was asked for.
ScanMeetsKeepalive == ScanTick <= KeepaliveMin
=============================================================================
