---------------------------- MODULE NetworkMonitor ----------------------------
(***************************************************************************)
(* The network monitor (network.go): a loop that is started and closed and *)
(* any number of callers of Refresh probe the targets, list the interfaces *)
(* and report the differences to subscribers outside the lock.             *)
(***************************************************************************)
EXTENDS Integers, Sequences, FiniteSets, SequencesExt

CONSTANTS
  Loops,      \* background loops, one per successful Start (bound)
  Users,      \* goroutines that call Refresh themselves
  Subs,       \* subscribers, each to the status and to the interfaces
  Targets,    \* addresses to probe
  Names,      \* interface names
  Hidden,     \* those of containers ("hassio", "docker...")
  AddrLists,  \* address lists an interface can have
  MaxChanges, \* bound on the changes of the network
  NoInfo      \* no such interface

Runs == Loops \cup Users

VARIABLES
  up,         \* environment: the targets that answer
  wires,      \* environment: the addresses of each interface
  changes,    \* environment: changes so far
  targets,    \* m.ipTargets and m.urlTargets
  status, interfaces,
  subs,       \* per subscriber: new, on, closed
  current,    \* the loop m.cancel belongs to, or none
  loop,       \* per loop: unused, running, ended
  cancelled,  \* the loops whose context is cancelled
  closers,    \* loops a Close waits for
  pc,         \* per refresh: idle, probe, list, commit, tell
  got,        \* per refresh: targets, then reachability; interfaces found
  calls,      \* per refresh: callbacks still to make
  heard, view,\* history: what each subscriber was told
  overlap     \* history: two refreshes reported at the same time

network == <<up, wires, changes>>
control == <<current, loop, cancelled, closers>>
state == <<targets, status, interfaces, subs>>
work == <<pc, got, calls>>
told == <<heard, view, overlap>>
monitor == <<network, control, state, work, told>>

NoLoop == "none"
Loopbacks == {"loopback"}
V4 == {"a", "b"} \* IPv4 addresses; "v6" is an IPv6 one
Infos == V4 \cup {NoInfo}
Nothing == [n \in Names |-> NoInfo]
NoResults == [asked |-> {}, reachable |-> FALSE, found |-> Nothing]

TypeOK ==
  /\ up \subseteq Targets /\ wires \in [Names -> AddrLists] /\ changes \in 0..MaxChanges
  /\ targets \subseteq Targets /\ status \in BOOLEAN /\ interfaces \in [Names -> Infos]
  /\ subs \in [Subs -> {"new", "on", "closed"}]
  /\ current \in Loops \cup {NoLoop} /\ loop \in [Loops -> {"unused", "running", "ended"}]
  /\ cancelled \subseteq Loops /\ closers \subseteq Loops
  /\ pc \in [Runs -> {"idle", "probe", "list", "commit", "tell"}]
  /\ got \in [Runs -> [asked : SUBSET Targets, reachable : BOOLEAN, found : [Names -> Infos]]]
  /\ \A r \in Runs : \A c \in calls[r] : c.sub \in Subs /\ c.kind \in {"status", "add", "update", "remove"}
  /\ heard \in [Subs -> BOOLEAN] /\ view \in [Subs -> [Names -> Infos]] /\ overlap \in BOOLEAN

Init ==
  /\ up = Targets /\ wires \in [Names -> AddrLists] /\ changes = 0
  /\ targets = Targets /\ status = FALSE /\ interfaces = Nothing
  /\ subs = [s \in Subs |-> "new"]
  /\ current = NoLoop /\ loop = [l \in Loops |-> "unused"] /\ cancelled = {} /\ closers = {}
  /\ pc = [r \in Runs |-> "idle"] /\ calls = [r \in Runs |-> {}]
  /\ got = [r \in Runs |-> NoResults]
  /\ heard = [s \in Subs |-> FALSE] /\ view = [s \in Subs |-> Nothing] /\ overlap = FALSE

-----------------------------------------------------------------------------
\* The network changes.
Change ==
  /\ changes < MaxChanges /\ changes' = changes + 1
  /\ \/ up' \in SUBSET Targets \ {up} /\ UNCHANGED wires
     \/ \E n \in Names, a \in AddrLists : a # wires[n] /\ wires' = [wires EXCEPT ![n] = a] /\ UNCHANGED up
  /\ UNCHANGED <<control, state, work, told>>

\* Mutation of AddressOf: an address that is not the loopback is taken for an IPv4 one.
AddressOfAny(list) ==
  LET i == SelectInSeq(list, LAMBDA a : a \notin Loopbacks) IN IF i = 0 THEN NoInfo ELSE list[i]

\* The first IPv4 address of an interface that is not the loopback.
AddressOf(list) ==
  LET i == SelectInSeq(list, LAMBDA a : a \in V4 \ Loopbacks) IN IF i = 0 THEN NoInfo ELSE list[i]

\* systemNetworkInspector: container interfaces are skipped.
Listed == [n \in Names |-> IF n \in Hidden THEN NoInfo ELSE AddressOf(wires[n])]

\* Start: a loop that was not closed stays, even if its context has ended.
Start ==
  /\ current = NoLoop
  /\ \E l \in Loops :
       /\ loop[l] = "unused"
       /\ current' = l /\ loop' = [loop EXCEPT ![l] = "running"]
       /\ pc' = [pc EXCEPT ![l] = "probe"] /\ got' = [got EXCEPT ![l].asked = targets]
  /\ UNCHANGED <<network, cancelled, closers, state, calls, told>>

\* Close forgets the loop, cancels it and waits for its end.
Close ==
  /\ current # NoLoop
  /\ cancelled' = cancelled \cup {current} /\ closers' = closers \cup {current}
  /\ current' = NoLoop
  /\ UNCHANGED <<network, loop, state, work, told>>

CloseReturns(l) ==
  /\ l \in closers /\ loop[l] = "ended" /\ closers' = closers \ {l}
  /\ UNCHANGED <<network, current, loop, cancelled, state, work, told>>

\* The caller of Start cancels its context.
ContextEnds(l) ==
  /\ loop[l] = "running" /\ l \notin cancelled /\ cancelled' = cancelled \cup {l}
  /\ UNCHANGED <<network, current, loop, closers, state, work, told>>

\* Mutation of LoopEnds: the loop looks at its context only while it lives.
LoopEndsUncancelled(l) ==
  /\ loop[l] = "running" /\ pc[l] = "idle" /\ l \in cancelled /\ current = l
  /\ loop' = [loop EXCEPT ![l] = "ended"]
  /\ UNCHANGED <<network, current, cancelled, closers, state, work, told>>

LoopEnds(l) ==
  /\ loop[l] = "running" /\ pc[l] = "idle" /\ l \in cancelled
  /\ loop' = [loop EXCEPT ![l] = "ended"]
  /\ UNCHANGED <<network, current, cancelled, closers, state, work, told>>

UpdateTargets(ts) ==
  /\ ts # targets /\ targets' = ts
  /\ UNCHANGED <<network, control, status, interfaces, subs, work, told>>

\* SubscribeStatus and SubscribeInterfaces; the caller reads Status and Interfaces with them.
Subscribe(s) ==
  /\ subs[s] = "new" /\ subs' = [subs EXCEPT ![s] = "on"]
  /\ heard' = [heard EXCEPT ![s] = status] /\ view' = [view EXCEPT ![s] = interfaces]
  /\ UNCHANGED <<network, control, targets, status, interfaces, work, overlap>>

Unsubscribe(s) ==
  /\ subs[s] = "on" /\ subs' = [subs EXCEPT ![s] = "closed"]
  /\ UNCHANGED <<network, control, targets, status, interfaces, work, told>>

-----------------------------------------------------------------------------
\* Refresh of a caller, and of the loop at a tick (also one that races the end of its context).
Refresh(r) ==
  /\ pc[r] = "idle" /\ (r \in Loops => loop[r] = "running")
  /\ pc' = [pc EXCEPT ![r] = "probe"] /\ got' = [got EXCEPT ![r].asked = targets]
  /\ UNCHANGED <<network, control, state, calls, told>>

\* Check probes every target; under a cancelled context all of them fail and it returns no error.
Probe(r) ==
  /\ pc[r] = "probe" /\ pc' = [pc EXCEPT ![r] = "list"]
  /\ \E ok \in {got[r].asked \cap up} \cup (IF r \in cancelled THEN {{}} ELSE {}) :
       got' = [got EXCEPT ![r] = [@ EXCEPT !.asked = {}, !.reachable = ok # {}]]
  /\ UNCHANGED <<network, control, state, calls, told>>

List(r) ==
  /\ pc[r] = "list" /\ pc' = [pc EXCEPT ![r] = "commit"]
  /\ got' = [got EXCEPT ![r].found = Listed]
  /\ UNCHANGED <<network, control, state, calls, told>>

\* An injected checker, or net.Interfaces, returns an error: the refresh ends.
RefreshFails(r) ==
  /\ pc[r] \in {"probe", "list"} /\ pc' = [pc EXCEPT ![r] = "idle"]
  /\ got' = [got EXCEPT ![r] = NoResults]
  /\ UNCHANGED <<network, control, state, calls, told>>

\* The differences between the interfaces known and found.
Event(n, old, new) ==
  IF old[n] = new[n] THEN {}
  ELSE IF old[n] = NoInfo THEN {[kind |-> "add", name |-> n, info |-> new[n]]}
  ELSE IF new[n] = NoInfo THEN {[kind |-> "remove", name |-> n, info |-> old[n]]}
  ELSE {[kind |-> "update", name |-> n, info |-> new[n]]}

Events(old, new) == UNION {Event(n, old, new) : n \in Names}

\* Mutation of Commit: removed interfaces are not reported.
CommitKeepsRemoved(r) ==
  LET new == got[r].found  on == {s \in Subs : subs[s] = "on"} IN
  /\ pc[r] = "commit" /\ pc' = [pc EXCEPT ![r] = "tell"]
  /\ status' = got[r].reachable /\ interfaces' = new
  /\ calls' = [calls EXCEPT ![r] =
       {[kind |-> "status", name |-> NoInfo, info |-> NoInfo, sub |-> s] :
          s \in IF status # got[r].reachable THEN on ELSE {}} \cup
       {[kind |-> e.kind, name |-> e.name, info |-> e.info, sub |-> s] :
          e \in {x \in Events(interfaces, new) : x.kind # "remove"}, s \in on}]
  /\ overlap' = (overlap \/ \E o \in Runs \ {r} : calls[o] # {})
  /\ UNCHANGED <<network, control, targets, subs, got, heard, view>>

\* Under the lock: install the new state and note whom to tell what.
Commit(r) ==
  LET new == got[r].found  on == {s \in Subs : subs[s] = "on"} IN
  /\ pc[r] = "commit" /\ pc' = [pc EXCEPT ![r] = "tell"]
  /\ status' = got[r].reachable /\ interfaces' = new
  /\ calls' = [calls EXCEPT ![r] =
       {[kind |-> "status", name |-> NoInfo, info |-> NoInfo, sub |-> s] :
          s \in IF status # got[r].reachable THEN on ELSE {}} \cup
       {[kind |-> e.kind, name |-> e.name, info |-> e.info, sub |-> s] :
          e \in Events(interfaces, new), s \in on}]
  /\ overlap' = (overlap \/ \E o \in Runs \ {r} : calls[o] # {})
  /\ UNCHANGED <<network, control, targets, subs, got, heard, view>>

\* One callback, without the lock: the status first, then the interfaces.
Tell(r) ==
  /\ pc[r] = "tell"
  /\ \E c \in calls[r] :
       /\ c.kind # "status" => \A o \in calls[r] : o.kind # "status"
       /\ calls' = [calls EXCEPT ![r] = @ \ {c}]
       /\ IF c.kind = "status" THEN heard' = [heard EXCEPT ![c.sub] = got[r].reachable] /\ UNCHANGED view
          ELSE view' = [view EXCEPT ![c.sub][c.name] = IF c.kind = "remove" THEN NoInfo ELSE c.info]
               /\ UNCHANGED heard
  /\ UNCHANGED <<network, control, state, pc, got, overlap>>

RefreshEnds(r) ==
  /\ pc[r] = "tell" /\ calls[r] = {} /\ pc' = [pc EXCEPT ![r] = "idle"]
  /\ got' = [got EXCEPT ![r] = NoResults]
  /\ UNCHANGED <<network, control, state, calls, told>>

RefreshStep(r) == Probe(r) \/ List(r) \/ RefreshFails(r) \/ Commit(r) \/ Tell(r) \/ RefreshEnds(r)

Next ==
  \/ Change \/ Start \/ Close
  \/ \E l \in Loops : CloseReturns(l) \/ ContextEnds(l) \/ LoopEnds(l)
  \/ \E ts \in {Targets, {}} : UpdateTargets(ts)
  \/ \E s \in Subs : Subscribe(s) \/ Unsubscribe(s)
  \/ \E r \in Runs : Refresh(r) \/ RefreshStep(r)

\* Callbacks and probes return; select takes the end of the context sooner or later,
\* although a tick may be ready too.
Fairness ==
  /\ \A r \in Runs : WF_monitor(RefreshStep(r))
  /\ \A l \in Loops : SF_monitor(LoopEnds(l)) /\ WF_monitor(CloseReturns(l))

Spec == Init /\ [][Next]_monitor /\ Fairness

-----------------------------------------------------------------------------
\* Whoever has subscribed, and is told of everything by refreshes that do not overlap, knows the
\* status and the interfaces once no callback is outstanding (Refresh).
SubscribersKnow ==
  (~overlap /\ \A r \in Runs : calls[r] = {}) =>
    \A s \in Subs : subs[s] = "on" => heard[s] = status /\ view[s] = interfaces

\* Close returns, also when its loop is in the middle of a refresh (Close, Start).
MonitorCloses == \A l \in Loops : l \in closers ~> l \notin closers

\* Expected of the code but not kept by it (README, "What the code does not keep"):
\* the subscribers learn the status and the interfaces in the order of the changes, also when a
\* caller's Refresh runs beside the loop's (network.go:262-271 runs after the lock).
RefreshesInOrder ==
  (\A r \in Runs : calls[r] = {}) =>
    \A s \in Subs : subs[s] = "on" => heard[s] = status /\ view[s] = interfaces

\* Expected of the code but not kept by it (README, "What the code does not keep"):
\* "Start begins periodic refreshes until the context is canceled or Close is called"
\* (network.go:130): with no loop left alive, Start can begin one.
StartBegins == current # NoLoop => loop[current] = "running"

\* Expected of the code but not kept by it (README, "What the code does not keep"):
\* a probe answers what the network answers, also when the end of the context cuts it off
\* (Check returns "unreachable" and no error for it, network.go:405-434).
CutOffIsNoAnswer ==
  [][\A r \in Runs : pc[r] = "probe" /\ pc'[r] = "list" =>
       got'[r].reachable = (got[r].asked \cap up # {})]_monitor
=============================================================================
