-------------------------------- MODULE MCLan --------------------------------
(***************************************************************************)
(* TLC instance of LanKeepalive, LanPush, LanTransport and LanSchedule,    *)
(* four parts of LANClient.  They have no variable in common: each is      *)
(* checked with the others at rest.                                        *)
(***************************************************************************)
EXTENDS LanKeepalive, TLC

CONSTANTS Loops, Seconds, Disturbances, Interfaces, MaxChanges, Durations, FastLimit

VARIABLES part,
          capable, deviceTS, now, known, pushAvailable, wildcardSupported, lastSubscribeTS,
          subscribeEnabled, needsPush, reader, probe, ts, user, disturbances, raced,
          addressed, events, cMu, tMu, clientIfs, transportIfs, running, sub, handler,
          socket, loop, context, pc, took, disturbed,
          config, interfaces, untilScan, backoff, untilNext, silence

\* defaultLANRuntimeConfig with a probe interval longer than the broadcast's, as in the code.
Defaults == [i \in {"probe", "fast", "keepaliveMin", "keepaliveMax", "broadcastMin", "broadcastMax"} |->
               CASE i = "probe" -> 5 [] i = "broadcastMin" -> 2 [] i = "broadcastMax" -> 7 [] OTHER -> 0]

Push == INSTANCE LanPush WITH pc <- reader
Transport == INSTANCE LanTransport WITH changes <- events
Intervals == INSTANCE LanSchedule

\* Timestamps are positive, the socket of the port is none of the interfaces' and a user's
\* durations are natural numbers.
ASSUME LanConstants ==
  /\ Seconds \subseteq Nat \ {0}
  /\ Transport!Main \notin Interfaces
  /\ {MaxChanges, Disturbances, FastLimit} \subseteq Nat
  /\ Durations \subseteq Nat

pushing == <<capable, deviceTS, now, known, pushAvailable, wildcardSupported, lastSubscribeTS,
             subscribeEnabled, needsPush, reader, probe, ts, user, disturbances, raced>>
transport == <<addressed, events, cMu, tMu, clientIfs, transportIfs, running, sub, handler,
               socket, loop, context, pc, took, disturbed>>
schedule == <<config, interfaces, untilScan, backoff, untilNext, silence>>

MCInit ==
  /\ part \in {"keepalive", "push", "transport", "schedule"}
  /\ Init /\ Push!Init /\ Transport!Init /\ Intervals!Init
  \* One of the initial states of the parts at rest.
  /\ part # "keepalive" => ~answers
  /\ part # "push" => capable = "none" /\ now = 1 /\ ~needsPush
  /\ part # "transport" => addressed = {}
  /\ part # "schedule" => ~interfaces /\ config = Intervals!Configured(Defaults)

MCNext ==
  /\ UNCHANGED part
  /\ \/ part = "keepalive" /\ Next /\ UNCHANGED <<pushing, transport, schedule>>
     \/ part = "push" /\ Push!Next /\ UNCHANGED <<vars, transport, schedule>>
     \/ part = "transport" /\ Transport!Next /\ UNCHANGED <<vars, pushing, schedule>>
     \/ part = "schedule" /\ Intervals!Next /\ UNCHANGED <<vars, pushing, transport>>

\* The fairness of the models, each for its own part.
MCSpec ==
  /\ MCInit /\ [][MCNext]_<<part, vars, pushing, transport, schedule>>
  /\ WF_vars(part = "keepalive" /\ Scan) /\ WF_vars(part = "keepalive" /\ Tick)
  /\ WF_vars(part = "keepalive" /\ (PingAnswered \/ PingTimesOut))
  /\ WF_pushing(part = "push" /\ Push!UserStep)
  /\ WF_pushing(part = "push" /\ \E l \in Loops : Push!ProbeSent(l))
  /\ \A l \in Loops :
       /\ WF_pushing(part = "push" /\ Push!HandlerStep(l))
       /\ SF_pushing(part = "push" /\ Push!DeviceSubscribes(l))
       /\ SF_pushing(part = "push" /\ Push!subscribeDevice(l))
  /\ WF_transport(part = "transport" /\ Transport!Progress)

\* The variables of the models have their types.
LanTypeOK == TypeOK /\ Push!TypeOK /\ Transport!TypeOK /\ Intervals!TypeOK

\* A flapping device disturbs its subscribers at most Unstable times per window, push that is
\* switched off stays off, the sockets are those of the interfaces, broadcasts keep coming and the
\* intervals are in order (lan.go recordPingSuccess, SetSubscribeOption, UpdateInterfaces,
\* broadcastTargetsLocked, keepaliveIntervalMax).
LanIsTidy ==
  /\ FlappingIsDamped
  /\ Push!OffIsOff
  /\ Transport!SocketsFollow
  /\ Intervals!BroadcastsKeepComing /\ Intervals!LimitsInOrder

\* A device that answers comes online and one that does not goes offline, for good; push is
\* restored after disturbances; and the calls of the client return (lan.go scanDevices,
\* syncDeviceSubscription, startRuntime, stopRuntime).
LanSettles ==
  /\ part = "keepalive" => AnsweringComesOnline
  /\ part = "keepalive" => SilentGoesOffline
  /\ part = "push" => Push!PushIsRestored
  /\ part = "transport" => Transport!CallsEnd
=============================================================================
