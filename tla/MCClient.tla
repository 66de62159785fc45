------------------------------- MODULE MCClient -------------------------------
(***************************************************************************)
(* TLC instance of DeviceRegistry, ClientLifecycle and PushBinding, three  *)
(* parts of the client.  They have no variable in common: each is checked  *)
(* with the others at rest.                                                *)
(***************************************************************************)
EXTENDS DeviceRegistry, Naturals, TLC

CONSTANTS Timers, MaxStarts, None, Pushers, NoPusher, Bindings, Binders, Handles

\* The goroutines of the timers are none of the three others, and no timer is nil.
ASSUME LifecycleConstants ==
  /\ {"user", "net", "conn"} \cap Timers = {} /\ None \notin Timers
  /\ MaxStarts \in Nat \ {0}

\* A source, a subscription or a handle is not nil.
ASSUME BindingConstants ==
  /\ NoPusher \notin Pushers /\ None \notin Bindings /\ None \notin Handles
  /\ None \notin [sub : Bindings, source : Pushers]

VARIABLES part,
          started, ctx, starts, networkOnline, pushOn, timer, callbacks, stateSub, network, routes, lan, lanVote,
          push, connected, brokerSub, pc, local, tctx, panicked, raced,
          pushSource, phase, rec, live, binds, ended, rebound, refused, crashed

Lifecycle == INSTANCE ClientLifecycle
Binding == INSTANCE PushBinding WITH
             Sources <- Pushers, NoSource <- NoPusher, Subs <- Bindings, Threads <- Binders,
             source <- pushSource, work <- binds, closed <- ended, raced <- rebound,
             failed <- refused, panicked <- crashed

lifecycle == <<started, ctx, starts, networkOnline, pushOn, timer, callbacks, stateSub, network, routes, lan, lanVote,
               push, connected, brokerSub, pc, local, tctx, panicked, raced>>
binding == <<pushSource, phase, rec, live, binds, ended, rebound, refused, crashed>>

MCInit ==
  /\ part \in {"registry", "lifecycle", "binding"}
  /\ Init /\ Lifecycle!Init /\ Binding!Init
  /\ part # "lifecycle" => ~network

MCNext ==
  /\ UNCHANGED part
  /\ \/ part = "registry" /\ Next /\ UNCHANGED <<lifecycle, binding>>
     \/ part = "lifecycle" /\ Lifecycle!Next /\ UNCHANGED <<vars, binding>>
     \/ part = "binding" /\ Binding!Next /\ UNCHANGED <<vars, lifecycle>>

MCSpec == MCInit /\ [][MCNext]_<<part, vars, lifecycle, binding>>

\* The variables of the models have their types.
ClientTypeOK == TypeOK /\ Lifecycle!TypeOK /\ Binding!TypeOK

\* DeviceRegistry: handlers that do not overlap leave a subscriber with the state of the device
\* and the entry with what each backend last listed (client.go).
RegistrySettles == SubscriberSettles /\ BackendViewsSettle

\* ClientLifecycle: the views of the network, the push and the refresh agree once calls are over,
\* and a stopped client keeps nothing running (client.go Start, Close).
LifecycleSettles == Lifecycle!ViewsSettle /\ Lifecycle!StoppedIsReleased

\* PushBinding: once calls have ended a subscription is bound to the source it should have, and a
\* closed one holds no subscription of a backend (client.go rebindPropertySubscription, Close of a
\* subscription).
BindingEnds == Binding!BindingSettles /\ Binding!CloseReleases
=============================================================================
