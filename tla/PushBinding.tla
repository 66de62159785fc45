----------------------------- MODULE PushBinding -----------------------------
(***************************************************************************)
(* How MIoTClient binds the property and event subscriptions of one device *)
(* to the backend that currently pushes for it (client.go).                *)
(*                                                                         *)
(* A subscription is bound when it is made and bound again whenever        *)
(* handleChanges sees the device's push source change.  A rebind reads the *)
(* current source, closes the old backend subscription, makes a new one    *)
(* and records both; only the first and the last of these hold client.mu,  *)
(* so rebinds of one subscription by several goroutines, the caller's      *)
(* Close of the subscription and the client's Close interleave.            *)
(***************************************************************************)
EXTENDS Naturals, FiniteSets

CONSTANTS
  Sources,  \* what can push for the device: the cloud, the LAN, a gateway
  NoSource, \* pushSource = ""
  Subs,     \* subscriptions, each made once
  Threads,  \* goroutines that may run at one time (bound)
  Handles,  \* backend subscriptions that may exist at one time (bound)
  None      \* a nil backend subscription

VARIABLES
  source,   \* entry.pushSource of the device
  phase,    \* of each subscription: "new", "making", "open", "closed"
  rec,      \* sub.source and sub.active of each subscription
  live,     \* the backends' side: which subscription and source a handle serves
  work,     \* what each goroutine is doing
  closed,   \* MIoTClient.Close has run
  raced,    \* history: subscriptions rebound by two goroutines at a time, or closed during a rebind
  failed,   \* history: subscriptions whose last backend subscribe failed
  panicked  \* sub.active was nil when its Close was called

vars == <<source, phase, rec, live, work, closed, raced, failed, panicked>>

Quiet == [pc |-> "idle", todo |-> {}, sub |-> None, src |-> NoSource, handle |-> None]
HandleOf(s) == {h \in Handles : live[h] # None /\ live[h].sub = s}

\* The subscriptions some goroutine is rebinding right now.
Rebinding(t) == IF work[t].pc \in {"close", "forget", "subscribe", "commit"} THEN {work[t].sub} ELSE {}
RebindingNow == UNION {Rebinding(t) : t \in Threads}

\* Closing backend subscription h of s; closing it again does nothing.
Release(h, s) == IF h \in HandleOf(s) THEN [live EXCEPT ![h] = None] ELSE live
Registered == {s \in Subs : phase[s] \in {"making", "open"}}

Init ==
  /\ source = NoSource
  /\ phase = [s \in Subs |-> "new"]
  /\ rec = [s \in Subs |-> [source |-> NoSource, active |-> None]]
  /\ live = [h \in Handles |-> None]
  /\ work = [t \in Threads |-> Quiet]
  /\ closed = FALSE /\ raced = {} /\ failed = {} /\ panicked = FALSE

-----------------------------------------------------------------------------
\* A handler changed the push source and will call rebindSubscriptionsForDevice.
PushSourceChanged(t, new) ==
  /\ work[t].pc = "idle" /\ source # new
  /\ source' = new
  /\ work' = [work EXCEPT ![t].pc = "list"]
  /\ UNCHANGED <<phase, rec, live, closed, raced, failed, panicked>>

\* rebindSubscriptionsForDevice collects the subscriptions registered now.
rebindSubscriptionsForDevice(t) ==
  /\ work[t].pc = "list"
  /\ work' = [work EXCEPT ![t].pc = "next", ![t].todo = Registered]
  /\ UNCHANGED <<source, phase, rec, live, closed, raced, failed, panicked>>

\* SubscribeProperty or SubscribeEvent: the subscription is registered ...
Subscribe(t, s) ==
  /\ work[t].pc = "idle" /\ phase[s] = "new"
  /\ phase' = [phase EXCEPT ![s] = "making"]
  /\ work' = [work EXCEPT ![t].pc = "next", ![t].todo = {s}]
  /\ UNCHANGED <<source, rec, live, closed, raced, failed, panicked>>

\* ... and handed to the caller when its first rebind is over.
Return(t) ==
  /\ work[t].pc = "next" /\ work[t].todo = {}
  /\ work' = [work EXCEPT ![t] = Quiet]
  /\ phase' = IF work[t].sub # None /\ phase[work[t].sub] = "making"
                THEN [phase EXCEPT ![work[t].sub] = "open"] ELSE phase
  /\ UNCHANGED <<source, rec, live, closed, raced, failed, panicked>>

\* rebindPropertySubscription: the source is read under the lock; sub.source and
\* sub.active are then tested without it.
ReadSource(t, s) ==
  /\ work[t].pc = "next" /\ s \in work[t].todo
  /\ work' = [work EXCEPT ![t].todo = @ \ {s}, ![t].sub = s,
                          ![t].src = source, ![t].handle = None,
                          ![t].pc = IF rec[s].source = source THEN "next"
                                    ELSE IF rec[s].active = None THEN "subscribe" ELSE "close"]
  /\ raced' = IF s \in RebindingNow THEN raced \cup {s} ELSE raced
  /\ UNCHANGED <<source, phase, rec, live, closed, failed, panicked>>

\* Mutation of CloseOld: the old backend subscription is not closed.
CloseOldForgetting(t) ==
  /\ work[t].pc = "close"
  /\ work' = [work EXCEPT ![t].pc = "forget"]
  /\ UNCHANGED <<source, phase, rec, live, closed, raced, failed, panicked>>

\* The old backend subscription is closed; sub.active is read again for that.
CloseOld(t) ==
  /\ work[t].pc = "close"
  /\ live' = Release(rec[work[t].sub].active, work[t].sub)
  /\ panicked' = (rec[work[t].sub].active = None)
  /\ work' = [work EXCEPT ![t].pc = "forget"]
  /\ UNCHANGED <<source, phase, rec, closed, raced, failed>>

\* sub.active = nil, whoever has set it meanwhile.
ForgetOld(t) ==
  /\ work[t].pc = "forget"
  /\ rec' = [rec EXCEPT ![work[t].sub].active = None]
  /\ work' = [work EXCEPT ![t].pc = "subscribe"]
  /\ UNCHANGED <<source, phase, live, closed, raced, failed, panicked>>

\* Mutation of SubscribeFromSource: an empty source is subscribed as well.
SubscribeFromAnySource(t) ==
  /\ work[t].pc = "subscribe"
  /\ \E h \in Handles :
       /\ live[h] = None
       /\ live' = [live EXCEPT ![h] = [sub |-> work[t].sub, source |-> work[t].src]]
       /\ work' = [work EXCEPT ![t].pc = "commit", ![t].handle = h]
  /\ UNCHANGED <<source, phase, rec, closed, raced, failed, panicked>>

\* subscribePropertyFromSource: no source gives nil, a backend may refuse.
SubscribeFromSource(t) ==
  /\ work[t].pc = "subscribe"
  /\ LET s == work[t].sub
         made(h) == /\ live[h] = None /\ \A r \in Subs : rec[r].active # h
                    /\ live' = [live EXCEPT ![h] = [sub |-> s, source |-> work[t].src]]
                    /\ work' = [work EXCEPT ![t].pc = "commit", ![t].handle = h]
                    /\ failed' = failed \ {s}
         nothing == /\ live' = live
                    /\ work' = [work EXCEPT ![t].pc = "commit", ![t].handle = None]
     IN  \/ work[t].src = NoSource /\ nothing /\ failed' = failed \ {s}
         \/ work[t].src # NoSource /\ \E h \in Handles : made(h)
         \/ work[t].src # NoSource /\ nothing /\ failed' = failed \cup {s}
  /\ UNCHANGED <<source, phase, rec, closed, raced, panicked>>

\* The source is recorded even when the backend refused.
Commit(t) ==
  /\ work[t].pc = "commit"
  /\ rec' = [rec EXCEPT ![work[t].sub] = [source |-> work[t].src, active |-> work[t].handle]]
  /\ work' = [work EXCEPT ![t].pc = "next"]
  /\ UNCHANGED <<source, phase, live, closed, raced, failed, panicked>>

\* Mutation of Unsubscribe: the backend subscription stays.
UnsubscribeOnlyHere(s) ==
  /\ phase[s] = "open"
  /\ phase' = [phase EXCEPT ![s] = "closed"]
  /\ raced' = IF s \in RebindingNow \cup UNION {work[t].todo : t \in Threads}
                THEN raced \cup {s} ELSE raced
  /\ UNCHANGED <<source, rec, live, work, closed, failed, panicked>>

\* Subscription.Close by the caller.
Unsubscribe(s) ==
  /\ phase[s] = "open"
  /\ phase' = [phase EXCEPT ![s] = "closed"]
  /\ live' = Release(rec[s].active, s)
  /\ raced' = IF s \in RebindingNow \cup UNION {work[t].todo : t \in Threads}
                THEN raced \cup {s} ELSE raced
  /\ UNCHANGED <<source, rec, work, closed, failed, panicked>>

\* MIoTClient.Close forgets every subscription and closes what it finds active.
CloseClient ==
  /\ ~closed
  /\ closed' = TRUE
  /\ phase' = [s \in Subs |-> IF s \in Registered THEN "closed" ELSE phase[s]]
  /\ live' = [h \in Handles |->
                IF \E s \in Registered : rec[s].active = h /\ h \in HandleOf(s)
                  THEN None ELSE live[h]]
  /\ raced' = raced \cup (Registered \cap (RebindingNow \cup UNION {work[t].todo : t \in Threads}))
  /\ UNCHANGED <<source, rec, work, failed, panicked>>

Step(t) ==
  \/ rebindSubscriptionsForDevice(t) \/ Return(t)
  \/ \E s \in Subs : ReadSource(t, s)
  \/ CloseOld(t) \/ ForgetOld(t) \/ SubscribeFromSource(t) \/ Commit(t)

\* A panic of a goroutine ends the process.
Next ==
  /\ ~panicked
  /\ \/ \E t \in Threads :
          \/ \E new \in Sources \cup {NoSource} : PushSourceChanged(t, new)
          \/ \E s \in Subs : Subscribe(t, s)
          \/ Step(t)
     \/ \E s \in Subs : Unsubscribe(s)
     \/ CloseClient

Spec == Init /\ [][Next]_vars

-----------------------------------------------------------------------------
(* Properties *)

TypeOK ==
  /\ source \in Sources \cup {NoSource}
  /\ phase \in [Subs -> {"new", "making", "open", "closed"}]
  /\ rec \in [Subs -> [source : Sources \cup {NoSource}, active : Handles \cup {None}]]
  /\ \A h \in Handles : live[h] = None \/ live[h] \in [sub : Subs, source : Sources]
  /\ \A t \in Threads :
       /\ work[t].pc \in {"idle", "list", "next", "close", "forget", "subscribe", "commit"}
       /\ work[t].todo \subseteq Subs /\ work[t].sub \in Subs \cup {None}
       /\ work[t].src \in Sources \cup {NoSource} /\ work[t].handle \in Handles \cup {None}
  /\ closed \in BOOLEAN /\ raced \subseteq Subs /\ failed \subseteq Subs /\ panicked \in BOOLEAN

AllIdle == \A t \in Threads : work[t].pc = "idle"

\* Once no rebind is running, an open subscription that no two goroutines
\* rebound at the same time is bound to the device's current push source: it
\* has exactly one backend subscription there, or none if there is no source or
\* the backend refused.  However often the source changed meanwhile, nothing
\* older is left behind. Nor does a rebind ever call Close on a nil subscription,
\* which ends the process.
BindingSettles ==
  /\ panicked => raced # {}
  /\ AllIdle => \A s \in Subs \ raced : phase[s] = "open" =>
      /\ rec[s].source = source
      /\ HandleOf(s) = {rec[s].active} \ {None}
      /\ \A h \in HandleOf(s) : live[h].source = source
      /\ source # NoSource /\ s \notin failed => HandleOf(s) # {}

\* A closed subscription leaves nothing at any backend, unless it was closed
\* while a rebind of it was under way or planned, or rebinds of it overlapped.
CloseReleases ==
  AllIdle => \A s \in Subs \ raced : phase[s] = "closed" => HandleOf(s) = {}

\* Expected of the code but not kept by it (README, "What the code does not keep"):
\* A Subscription is a cancelable handle: after its Close, and after every
\* running rebind has ended, no backend calls its handler any more.
ClosedIsCancelled ==
  AllIdle => \A s \in Subs : phase[s] = "closed" => HandleOf(s) = {}

\* Expected of the code but not kept by it (README, "What the code does not keep"):
\* A switch of source closes the old backend subscription: when no rebind is
\* running a subscription is live in at most one backend.
SwitchClosesOld ==
  AllIdle => \A s \in Subs : phase[s] = "open" => Cardinality(HandleOf(s)) <= 1

\* Expected of the code but not kept by it (README, "What the code does not keep"):
\* A subscription that SubscribeProperty returned is subscribed to the updates
\* of its device while the device has a push source.
ReturnedIsSubscribed ==
  AllIdle /\ source # NoSource => \A s \in Subs \ raced : phase[s] = "open" => HandleOf(s) # {}
=============================================================================
