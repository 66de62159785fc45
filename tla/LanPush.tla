-------------------------------- MODULE LanPush --------------------------------
(***************************************************************************)
(* The push subscription of one LAN device (lan.go): probes report the     *)
(* timestamp of the subscription the device holds, the client subscribes   *)
(* again when it is not its own, and SetSubscribeOption drops it.          *)
(*                                                                         *)
(* Probes are read by several goroutines, one per socket of the transport. *)
(* A timestamp is the second of the subscription; only equality matters,   *)
(* so the seconds nothing refers to any more are used again.               *)
(***************************************************************************)
EXTENDS Naturals

CONSTANTS
  Loops,        \* read loops of the transport
  Seconds,      \* timestamps of subscriptions, positive
  Disturbances  \* bound: restarts of the device, calls and subscriptions of the user

VARIABLES
  capable,    \* the device: "none", "plain" or "wildcard" subscriptions
  deviceTS,   \* the timestamp of the subscription the device holds, or 0
  now,        \* this second
  known,      \* the device is in c.devices
  pushAvailable, wildcardSupported, lastSubscribeTS, \* its lanDeviceState
  subscribeEnabled, needsPush, \* SetSubscribeOption, hasPushSubscriberLocked
  pc, probe, ts,   \* per read loop: step, the probe it read, the timestamp it subscribes with
  user,            \* SetSubscribeOption(false): "idle", "unsubscribe", "sent", "done"
  disturbances,    \* of the environment so far
  raced            \* history: a subscribe was in flight when the option was switched off

device == <<capable, deviceTS, now>>
state == <<pushAvailable, wildcardSupported, lastSubscribeTS>>
options == <<known, subscribeEnabled, needsPush>>
loops == <<pc, probe, ts>>
vars == <<device, state, options, loops, user, disturbances, raced>>

Init ==
  /\ capable \in {"none", "plain", "wildcard"} /\ deviceTS = 0 /\ now \in Seconds
  /\ known = TRUE /\ pushAvailable = FALSE /\ wildcardSupported = FALSE /\ lastSubscribeTS = 0
  /\ subscribeEnabled = TRUE /\ needsPush \in BOOLEAN
  /\ pc = [l \in Loops |-> "idle"] /\ probe = [l \in Loops |-> 0] /\ ts = [l \in Loops |-> 0]
  /\ user = "idle" /\ disturbances = 0 /\ raced = FALSE

Goto(l, step) == pc' = [pc EXCEPT ![l] = step]
\* A loop is done and refers to no timestamp any more.
Return(l) == Goto(l, "idle") /\ probe' = [probe EXCEPT ![l] = 0] /\ ts' = [ts EXCEPT ![l] = 0]

HasSubscription == capable # "none"
Wildcard == capable = "wildcard"

-----------------------------------------------------------------------------
(* A probe, from the device's reply to the end of its handler *)

\* The device answers a ping; the answer may be handled much later.
ProbeSent(l) ==
  /\ pc[l] = "idle" /\ known
  /\ probe' = [probe EXCEPT ![l] = deviceTS] /\ Goto(l, "update")
  /\ UNCHANGED <<device, state, options, ts, user, disturbances, raced>>

updateProbeState(l) ==
  /\ pc[l] = "update"
  /\ IF HasSubscription
       THEN /\ wildcardSupported' = Wildcard
            /\ pushAvailable' = (pushAvailable /\ lastSubscribeTS \in {0, probe[l]})
       ELSE UNCHANGED <<wildcardSupported, pushAvailable>>
  /\ Goto(l, "sync")
  /\ UNCHANGED <<device, lastSubscribeTS, options, probe, ts, user, disturbances, raced>>

\* Mutation of WantsPush: a timestamp is taken for a subscription.
WantsPushOnce(l) ==
  /\ HasSubscription /\ Wildcard
  /\ subscribeEnabled /\ needsPush
  /\ lastSubscribeTS = 0

WantsPush(l) ==
  /\ HasSubscription /\ Wildcard
  /\ subscribeEnabled /\ needsPush
  /\ ~(pushAvailable /\ lastSubscribeTS = probe[l])

\* syncDeviceSubscription decides under the lock, subscribeDevice sends after it.
syncDeviceSubscription(l) ==
  /\ pc[l] = "sync"
  /\ IF WantsPush(l)
       THEN Goto(l, "subscribe") /\ ts' = [ts EXCEPT ![l] = now] /\ UNCHANGED probe
       ELSE Return(l)
  /\ UNCHANGED <<device, state, options, user, disturbances, raced>>

\* The device takes the subscription, which replaces the one before.
DeviceSubscribes(l) ==
  /\ pc[l] = "subscribe" /\ known
  /\ deviceTS' = ts[l] /\ Goto(l, "reply")
  /\ UNCHANGED <<capable, now, state, options, probe, ts, user, disturbances, raced>>

\* miIO.sub fails: the device is unknown, the request or its reply is lost, or
\* the device answers with an error code.
SubscribeFails(l) ==
  /\ pc[l] \in {"subscribe", "reply"}
  /\ Return(l)
  /\ UNCHANGED <<device, state, options, user, disturbances, raced>>

\* subscribeDevice records the success; it looks at no option again.
subscribeDevice(l) ==
  /\ pc[l] = "reply"
  /\ pushAvailable' = TRUE /\ wildcardSupported' = TRUE /\ lastSubscribeTS' = ts[l]
  /\ Return(l)
  /\ UNCHANGED <<device, options, user, disturbances, raced>>

-----------------------------------------------------------------------------
(* Calls of the user *)

Disturb == disturbances < Disturbances /\ disturbances' = disturbances + 1

SubscribeInFlight == \E l \in Loops : pc[l] \in {"subscribe", "reply"}

\* SetSubscribeOption collects the devices with push before it returns to
\* unsubscribe them one by one.
SetSubscribeOption(enable) ==
  /\ user = "idle" /\ Disturb
  /\ subscribeEnabled' = enable
  /\ user' = IF ~enable /\ pushAvailable THEN "unsubscribe" ELSE "idle"
  /\ raced' = (~enable /\ SubscribeInFlight)
  /\ UNCHANGED <<device, state, known, needsPush, loops>>

\* unsubscribeDevice looks again before it sends.
UnsubscribeSent ==
  /\ user = "unsubscribe"
  /\ user' = IF pushAvailable THEN "sent" ELSE "idle"
  /\ UNCHANGED <<device, state, options, loops, disturbances, raced>>

\* The device drops the subscription, or the request is lost.
DeviceUnsubscribes ==
  /\ user = "sent"
  /\ deviceTS' \in {0, deviceTS}
  /\ user' = "done"
  /\ UNCHANGED <<capable, now, state, options, loops, disturbances, raced>>

\* Mutation of UnsubscribeDone: push stays available.
UnsubscribeDoneNot ==
  /\ user = "done" /\ user' = "idle"
  /\ UNCHANGED <<device, state, options, loops, disturbances, raced>>

\* Whatever the answer was, push is over.
UnsubscribeDone ==
  /\ user = "done" /\ user' = "idle"
  /\ pushAvailable' = FALSE
  /\ UNCHANGED <<device, wildcardSupported, lastSubscribeTS, options, loops, disturbances, raced>>

\* SubscribeProperty and SubscribeEvent, and the Close of the last one.
SubscribersChange ==
  /\ Disturb
  /\ needsPush' = ~needsPush
  /\ UNCHANGED <<device, state, known, subscribeEnabled, loops, user, raced>>

DeleteDevices ==
  /\ known /\ Disturb
  /\ known' = FALSE
  /\ pushAvailable' = FALSE /\ wildcardSupported' = FALSE /\ lastSubscribeTS' = 0
  /\ UNCHANGED <<device, subscribeEnabled, needsPush, loops, user, raced>>

\* AddDevice keeps the state it finds, a late subscribe may have left one.
AddDevice ==
  /\ ~known /\ known' = TRUE
  /\ UNCHANGED <<device, state, subscribeEnabled, needsPush, loops, user, disturbances, raced>>

-----------------------------------------------------------------------------
(* The device and time *)

DeviceRestarts ==
  /\ Disturb /\ deviceTS # 0
  /\ deviceTS' = 0
  /\ UNCHANGED <<capable, now, state, options, loops, user, raced>>

InUse == {now, deviceTS, lastSubscribeTS} \cup {probe[l] : l \in Loops} \cup {ts[l] : l \in Loops}

SecondPasses ==
  /\ \E second \in Seconds \ InUse : now' = second
  /\ UNCHANGED <<capable, deviceTS, state, options, loops, user, disturbances, raced>>

HandlerStep(l) ==
  \/ updateProbeState(l) \/ syncDeviceSubscription(l)
  \/ DeviceSubscribes(l) \/ SubscribeFails(l) \/ subscribeDevice(l)

UserStep == UnsubscribeSent \/ DeviceUnsubscribes \/ UnsubscribeDone

Next ==
  \/ \E l \in Loops : ProbeSent(l) \/ HandlerStep(l)
  \/ \E enable \in BOOLEAN : SetSubscribeOption(enable)
  \/ UserStep \/ SubscribersChange \/ DeleteDevices \/ AddDevice
  \/ DeviceRestarts \/ SecondPasses

Spec == Init /\ [][Next]_vars

\* The keepalive goes on probing, handlers end, and of the subscriptions that
\* are tried again and again some get through.
FairSpec ==
  /\ Spec /\ WF_vars(UserStep) /\ WF_vars(\E l \in Loops : ProbeSent(l))
  /\ \A l \in Loops : /\ WF_vars(HandlerStep(l))
                      /\ SF_vars(DeviceSubscribes(l)) /\ SF_vars(subscribeDevice(l))

-----------------------------------------------------------------------------
(* Properties *)

TypeOK ==
  /\ {known, pushAvailable, wildcardSupported, subscribeEnabled, needsPush, raced} \subseteq BOOLEAN
  /\ now \in Seconds /\ {deviceTS, lastSubscribeTS} \subseteq Seconds \cup {0}
  /\ pc \in [Loops -> {"idle", "update", "sync", "subscribe", "reply"}]
  /\ {probe, ts} \subseteq [Loops -> Seconds \cup {0}]
  /\ user \in {"idle", "unsubscribe", "sent", "done"}
  /\ pushAvailable => lastSubscribeTS # 0 /\ HasSubscription

Quiet == user = "idle" /\ \A l \in Loops : pc[l] = "idle"

\* Once dispatch is switched off and nothing is in flight, no push is reported
\* available, whatever probes and restarts came between, unless a subscribe
\* was already in flight when it was switched off.
OffIsOff == Quiet /\ ~subscribeEnabled /\ pushAvailable => raced

\* Expected of the code but not kept by it (README, "What the code does not keep"):
\* lan_test.go, after SetSubscribeOption(false): PushAvailable is false.
DisabledMeansOff == Quiet /\ ~subscribeEnabled => ~pushAvailable

OneProbeAtATime == \A k, l \in Loops : pc[k] # "idle" /\ pc[l] # "idle" => k = l

\* A device that can push and has subscribers ends up subscribed, and the
\* client knows which subscription it holds, after restarts of the device,
\* lost requests and options switched off and on, unless handlers of probes
\* overlap for ever (each may then undo the subscription of the other).
PushIsRestored ==
  <>[](Wildcard /\ known /\ subscribeEnabled /\ needsPush /\ OneProbeAtATime)
    => <>[](pushAvailable /\ lastSubscribeTS = deviceTS)
=============================================================================
