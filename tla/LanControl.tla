------------------------------ MODULE LanControl ------------------------------
(***************************************************************************)
(* What decides whether LANClient (lan.go) runs: the owner's Start and     *)
(* Close, the votes of VoteForLANControl and the central gateway seen by   *)
(* BindMIPSDiscovery.  Each call changes the flags under the mutex, starts *)
(* or stops the runtime afterwards, and tells subscribers last; calls of   *)
(* different goroutines interleave between those steps.                    *)
(***************************************************************************)
EXTENDS FiniteSets

CONSTANTS
  Voters,          \* keys of VoteForLANControl
  Runtimes,        \* identities of scan goroutines, reused once they ended
  None

ASSUME LanControlConstants == None \notin Runtimes

\* The goroutines that control LAN: the owner of the client, a voter, and the
\* discovery callback.
Threads == {"owner", "voter", "discovery"}

VARIABLES
  enabled, votes, gateway, \* c.enabled, c.lanVotes, c.centralGatewayPresent
  current,   \* the runtime whose cancel is c.runtimeCancel, or None
  listening, \* the runtime whose listener is c.listenSub, or None
  open,      \* the runtimes whose listener is open
  scanner,   \* [Runtimes -> state of the scan goroutine]
  online,    \* some device's state.online
  request,   \* a caller's request passed ensureEnabled and is in flight
  pc, took, tell, \* per thread: next step, what stopRuntime took, what to tell subscribers
  told,      \* what subscribers of SubscribeLANState were told last
  started,   \* what the last Start started
  disturbed  \* history: two calls overlapped, a call met a request in flight, or Listen failed

flags == <<enabled, votes, gateway>>
runtime == <<current, listening, open, scanner>>
threads == <<pc, took, tell>>
vars == <<flags, runtime, online, request, threads, told, started, disturbed>>

Allowed == enabled /\ ~gateway
Nothing == [runtime |-> None, listener |-> None]
Silence == {}  \* this call tells subscribers nothing

Init ==
  /\ enabled = TRUE /\ votes = [v \in Voters |-> FALSE] /\ gateway = FALSE
  /\ current = None /\ listening = None /\ open = {}
  /\ scanner = [r \in Runtimes |-> "none"]
  /\ online = FALSE /\ request = FALSE
  /\ pc = [t \in Threads |-> "idle"] /\ took = [t \in Threads |-> Nothing]
  /\ tell = [t \in Threads |-> Silence] /\ told = Silence
  /\ started = "none" /\ disturbed = FALSE

Alive(r) == scanner[r] # "none"
\* Nothing refers to the identity any more.
Unused(r) == /\ ~Alive(r) /\ r \notin open \cup {current, listening}
             /\ \A t \in Threads : r \notin {took[t].runtime, took[t].listener}
FreshRuntimes == {r \in Runtimes : Unused(r)}

Quiet == \A t \in Threads : pc[t] = "idle"

\* A goroutine makes its next control call.
CallBegins(t) == pc[t] = "idle" /\ disturbed' = (disturbed \/ ~Quiet \/ request)

Goto(t, step) == pc' = [pc EXCEPT ![t] = step]
Say(t, what) == tell' = [tell EXCEPT ![t] = what]
\* What setEnabled and setCentralGatewayPresent tell: only changes.
SayChange(t) == Say(t, IF Allowed' = Allowed THEN Silence ELSE {Allowed'})

-----------------------------------------------------------------------------
(* The calls, up to the unlock of the mutex *)

\* Mutation of VoteForLANControl: the gateway is not told.
VoteForLANControlAlone(v, vote) ==
  /\ CallBegins("voter")
  /\ votes' = [votes EXCEPT ![v] = vote]
  /\ enabled' = (\E w \in Voters : votes'[w])
  /\ gateway' = gateway
  /\ Say("voter", {enabled'}) /\ Goto("voter", IF Allowed' THEN "start" ELSE "stop")
  /\ UNCHANGED <<runtime, online, request, took, told, started>>

\* VoteForLANControl recomputes enabled from the votes and always tells.
VoteForLANControl(v, vote) ==
  /\ CallBegins("voter")
  /\ votes' = [votes EXCEPT ![v] = vote]
  /\ enabled' = (\E w \in Voters : votes'[w])
  /\ gateway' = gateway
  /\ Say("voter", {Allowed'}) /\ Goto("voter", IF Allowed' THEN "start" ELSE "stop")
  /\ UNCHANGED <<runtime, online, request, took, told, started>>

\* Mutation of setCentralGatewayPresent: the runtime is left alone.
setCentralGatewayPresentOnly(present) ==
  /\ CallBegins("discovery")
  /\ gateway # present
  /\ gateway' = present
  /\ UNCHANGED <<enabled, votes>>
  /\ SayChange("discovery") /\ Goto("discovery", "tell")
  /\ UNCHANGED <<runtime, online, request, took, told, started>>

setCentralGatewayPresent(present) ==
  /\ CallBegins("discovery")
  /\ gateway # present
  /\ gateway' = present
  /\ UNCHANGED <<enabled, votes>>
  /\ SayChange("discovery") /\ Goto("discovery", IF Allowed' THEN "start" ELSE "stop")
  /\ UNCHANGED <<runtime, online, request, took, told, started>>

\* Start: setEnabled(true), whatever the votes say.
Start ==
  /\ CallBegins("owner")
  /\ enabled' = TRUE /\ UNCHANGED <<votes, gateway>>
  /\ SayChange("owner") /\ Goto("owner", "tellStart")
  /\ UNCHANGED <<runtime, online, request, took, told, started>>

\* Close stops the runtime first and only then calls setEnabled(false).
Close ==
  /\ CallBegins("owner")
  /\ Goto("owner", "stop")
  /\ UNCHANGED <<flags, runtime, online, request, took, tell, told, started>>

\* The setEnabled(false) at the end of Close.
CloseDisables ==
  /\ pc["owner"] = "disable"
  /\ enabled' = FALSE /\ UNCHANGED <<votes, gateway>>
  /\ SayChange("owner") /\ Goto("owner", "tell")
  /\ UNCHANGED <<runtime, online, request, took, told, started, disturbed>>

-----------------------------------------------------------------------------
(* Their common tails *)

\* The subscribers of SubscribeLANState are called outside the mutex.
TellSubscribers(t) ==
  /\ pc[t] \in {"tell", "tellStart"}
  /\ told' = IF tell[t] = Silence THEN told ELSE tell[t]
  /\ Say(t, Silence) /\ Goto(t, IF pc[t] = "tell" THEN "idle" ELSE "readGateway")
  /\ UNCHANGED <<flags, runtime, online, request, took, started, disturbed>>

\* Start reads centralGatewayPresent again before it starts the runtime.
StartReadsGateway ==
  /\ pc["owner"] = "readGateway"
  /\ Goto("owner", IF gateway THEN "idle" ELSE "start")
  /\ started' = IF gateway THEN "ok" ELSE started
  /\ UNCHANGED <<flags, runtime, online, request, took, tell, told, disturbed>>

\* Mutation of RuntimeStarts: a running runtime is not noticed.
RuntimeStartsAgain(r) ==
  /\ current' = r /\ listening' = r /\ open' = open \cup {r}
  /\ scanner' = [scanner EXCEPT ![r] = "waiting"]

\* Listen under the mutex, then the scan goroutine.
RuntimeStarts(r) ==
  /\ current = None
  /\ current' = r /\ listening' = r /\ open' = open \cup {r}
  /\ scanner' = [scanner EXCEPT ![r] = "waiting"]

\* Its port may be in use, by the listener of a runtime that is still closing too.
ListenFails == current = None /\ UNCHANGED runtime

Report(t, result) == started' = IF t = "owner" THEN result ELSE started

\* startRuntime; only Start reports its error.
startRuntime(t) ==
  /\ pc[t] = "start"
  /\ \/ /\ current # None /\ UNCHANGED runtime
        /\ Report(t, "ok") /\ UNCHANGED disturbed
     \/ /\ \E r \in FreshRuntimes : RuntimeStarts(r)
        /\ Report(t, "ok") /\ UNCHANGED disturbed
     \/ /\ ListenFails
        /\ Report(t, "failed") /\ disturbed' = TRUE
  /\ Goto(t, IF t = "owner" THEN "idle" ELSE "tell")
  /\ UNCHANGED <<flags, online, request, took, tell, told>>

\* Mutation of stopRuntime: c.listenSub is kept.
stopRuntimeKeepsListener(t) ==
  /\ pc[t] = "stop"
  /\ took' = [took EXCEPT ![t] = [runtime |-> current, listener |-> listening]]
  /\ current' = None /\ UNCHANGED listening
  /\ Goto(t, IF current = None THEN "close" ELSE "cancel")
  /\ UNCHANGED <<flags, open, scanner, online, request, tell, told, started, disturbed>>

\* stopRuntime takes the cancel function and the listener under the mutex.
stopRuntime(t) ==
  /\ pc[t] = "stop"
  /\ took' = [took EXCEPT ![t] = [runtime |-> current, listener |-> listening]]
  /\ current' = None /\ listening' = None
  /\ Goto(t, IF current = None THEN "close" ELSE "cancel")
  /\ UNCHANGED <<flags, open, scanner, online, request, tell, told, started, disturbed>>

CancelRuntime(t) ==
  /\ pc[t] = "cancel"
  /\ LET r == took[t].runtime
     IN  scanner' = [scanner EXCEPT ![r] = IF @ = "waiting" THEN "cancelled" ELSE "pinging cancelled"]
  /\ Goto(t, "wait")
  /\ UNCHANGED <<flags, current, listening, open, online, request, took, tell, told, started, disturbed>>

\* runtimeWG.Wait: every scan goroutine has ended, the new ones too.
WaitForScan(t) ==
  /\ pc[t] = "wait"
  /\ \A r \in Runtimes : ~Alive(r)
  /\ Goto(t, "close")
  /\ UNCHANGED <<flags, runtime, online, request, took, tell, told, started, disturbed>>

\* listenSub.Close waits for the read loop, so no packet is handled later.
CloseListener(t) ==
  /\ pc[t] = "close"
  /\ open' = open \ {took[t].listener}
  /\ took' = [took EXCEPT ![t] = Nothing]
  /\ Goto(t, "mark")
  /\ UNCHANGED <<flags, current, listening, scanner, online, request, tell, told, started, disturbed>>

markAllDevicesOffline(t) ==
  /\ pc[t] = "mark"
  /\ online' = FALSE
  /\ Goto(t, IF t = "owner" THEN "disable" ELSE "tell")
  /\ UNCHANGED <<flags, runtime, request, took, tell, told, started, disturbed>>

-----------------------------------------------------------------------------
(* The scan goroutine, the listener and callers *)

\* The scan pings if LAN control is enabled; it does not look at the gateway.
scanDevices(r) ==
  /\ scanner[r] = "waiting" /\ enabled
  /\ scanner' = [scanner EXCEPT ![r] = "pinging"]
  /\ UNCHANGED <<flags, current, listening, open, online, request, threads, told, started, disturbed>>

\* A ping that ends, by its answer or by the cancelled context, is recorded.
PingEnds(r) ==
  /\ scanner[r] \in {"pinging", "pinging cancelled"}
  /\ scanner' = [scanner EXCEPT ![r] = IF @ = "pinging" THEN "waiting" ELSE "cancelled"]
  /\ online' \in BOOLEAN
  /\ UNCHANGED <<flags, current, listening, open, request, threads, told, started, disturbed>>

\* The goroutine sees its context done.
ScanEnds(r) ==
  /\ scanner[r] = "cancelled"
  /\ scanner' = [scanner EXCEPT ![r] = "none"]
  /\ UNCHANGED <<flags, current, listening, open, online, request, threads, told, started, disturbed>>

\* A packet of the device that the open listener reads.
handleRuntimePacket ==
  /\ open # {}
  /\ online' = TRUE
  /\ UNCHANGED <<flags, runtime, request, threads, told, started, disturbed>>

\* GetProp, SetProp, InvokeAction and Ping pass ensureEnabled ...
RequestBegins ==
  /\ ~request /\ Allowed
  /\ request' = TRUE /\ disturbed' = (disturbed \/ ~Quiet)
  /\ UNCHANGED <<flags, runtime, online, threads, told, started>>

\* ... and record a success when the reply is there.
RequestEnds ==
  /\ request /\ request' = FALSE
  /\ \/ online' = TRUE
     \/ online' = online
  /\ UNCHANGED <<flags, runtime, threads, told, started, disturbed>>

ThreadStep(t) ==
  \/ TellSubscribers(t) \/ startRuntime(t) \/ stopRuntime(t) \/ CancelRuntime(t)
  \/ WaitForScan(t) \/ CloseListener(t) \/ markAllDevicesOffline(t)

Next ==
  \/ \E v \in Voters, vote \in BOOLEAN : VoteForLANControl(v, vote)
  \/ \E present \in BOOLEAN : setCentralGatewayPresent(present)
  \/ Start \/ Close \/ CloseDisables \/ StartReadsGateway
  \/ \E t \in Threads : ThreadStep(t)
  \/ \E r \in Runtimes : scanDevices(r) \/ PingEnds(r) \/ ScanEnds(r)
  \/ handleRuntimePacket \/ RequestBegins \/ RequestEnds

Spec == Init /\ [][Next]_vars

-----------------------------------------------------------------------------
(* Properties *)

Steps == {"idle", "start", "stop", "cancel", "wait", "close", "mark", "disable", "tell",
          "tellStart", "readGateway"}

TypeOK ==
  /\ {enabled, gateway, online, request, disturbed} \subseteq BOOLEAN /\ votes \in [Voters -> BOOLEAN]
  /\ {current, listening} \subseteq Runtimes \cup {None} /\ open \subseteq Runtimes
  /\ scanner \in [Runtimes -> {"none", "waiting", "pinging", "cancelled", "pinging cancelled"}]
  /\ pc \in [Threads -> Steps] /\ tell \in [Threads -> SUBSET BOOLEAN]
  /\ took \in [Threads -> [runtime : Runtimes \cup {None}, listener : Runtimes \cup {None}]]
  /\ told \in SUBSET BOOLEAN
  /\ started \in {"none", "ok", "failed"}
  /\ (current = None) = (listening = None)

\* A scan goroutine that was not cancelled is the one stopRuntime would stop, or
\* one that a stopRuntime has taken and is about to cancel, and the same holds
\* for open listeners: nothing is leaked, however the calls overlap.
NothingLeaks ==
  /\ \A r \in Runtimes : scanner[r] \in {"waiting", "pinging"} =>
       r = current \/ \E t \in Threads : pc[t] = "cancel" /\ took[t].runtime = r
  /\ \A r \in open : r = listening \/ \E t \in Threads : took[t].listener = r

\* LAN control that is not allowed does nothing, once the calls have returned:
\* no scan runs, no listener is open and no device is shown online.
ForbiddenIsOff ==
  ~Allowed => /\ current = None /\ open = {} /\ ~online
              /\ \A r \in Runtimes : ~Alive(r)

\* LAN control that is allowed after a successful Start has a runtime.
StartedRuns == Allowed /\ started = "ok" => current # None

\* The runtime obeys Start, Close, the votes and the gateway, unless control
\* calls overlapped, a request was in flight during one, or Listen failed.
RuntimeObeys == Quiet /\ ~disturbed => ForbiddenIsOff /\ StartedRuns

\* Subscribers of SubscribeLANState that heard anything know the truth.
ToldTheTruth == Quiet /\ told # Silence /\ ~disturbed => told = {Allowed}
=============================================================================
