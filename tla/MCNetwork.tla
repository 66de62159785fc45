------------------------------ MODULE MCNetwork ------------------------------
(***************************************************************************)
(* TLC instance of NetworkMonitor, GatewayDiscovery and HostDiscovery.     *)
(* They have no variable in common: each is checked with the others at     *)
(* rest.                                                                   *)
(***************************************************************************)
EXTENDS NetworkMonitor, TLC

CONSTANTS eth, gA, gB, Gateways, Versions, GroupOf, RolesOf, Browses, Starters, NoRecord,
          Net, Preferred, LocalHosts, Workers, Nobody

VARIABLES part, world, services, browsing, caller, browse, known, old, queue, telling, seen,
          crossed, steady, cameras, feeder, next, worker, host, probed, results, stopped, returned

Central == INSTANCE GatewayDiscovery WITH current <- browsing, view <- seen
Hosts == INSTANCE HostDiscovery WITH cancelled <- stopped

\* The address lists are sequences, and no loop is "none".
ASSUME MonitorConstants ==
  /\ AddrLists \subseteq Seq(STRING) /\ MaxChanges \in Nat /\ NoLoop \notin Loops
  /\ NoInfo \notin V4

\* A gateway has finitely many roles; no record is nil, no browse is "none".
ASSUME CentralConstants ==
  /\ NoRecord \notin Central!Records /\ Central!NoBrowse \notin Browses
  /\ \A g \in Gateways : IsFiniteSet(RolesOf[g])

\* A network has some number of addresses.
ASSUME HostConstants == Net \in Nat

centrals == <<world, services, browsing, caller, browse, known, old, queue, telling, seen, crossed, steady>>
scanning == <<cameras, feeder, next, worker, host, probed, results, stopped, returned>>

\* Addresses of an interface: an IPv6 one before the IPv4 one, another IPv4 one, or none of use.
SomeAddresses == {<<"v6", "a">>, <<"b">>, <<"loopback">>}

\* gA is plain; gB, of another group, is a primary gateway or not.
Group == gA :> "g1" @@ gB :> "g2"
Roles == gA :> {"primary"} @@ gB :> {"primary", "other"}

\* Two bounds on the tracker of gateways: one browse that ever starts and both gateways, or both
\* browses and gA alone.
Tracking == {"gateways", "rivals"}
Bounded ==
  /\ part = "gateways" => Cardinality({b \in Browses : browse'[b] # "unused"}) <= 1
  /\ part = "rivals" => world'[gB] = NoRecord

MCInit ==
  /\ part \in {"monitor", "gateways", "rivals", "hosts"}
  /\ Init /\ Central!Init /\ Hosts!Init
  \* One of the initial states of the environments.
  /\ wires = [n \in Names |-> <<"v6", "a">>]
  /\ part # "hosts" => cameras = {}

MCNext ==
  /\ UNCHANGED part
  /\ \/ part = "monitor" /\ Next /\ UNCHANGED <<centrals, scanning>>
     \/ part \in Tracking /\ Central!Next /\ Bounded /\ UNCHANGED <<monitor, scanning>>
     \/ part = "hosts" /\ Hosts!Next /\ UNCHANGED <<monitor, centrals>>

\* The fairness of the three models, each for its own part.
MCSpec ==
  /\ MCInit /\ [][MCNext]_<<part, monitor, centrals, scanning>>
  /\ \A r \in Runs : WF_monitor(part = "monitor" /\ RefreshStep(r))
  /\ \A l \in Loops :
       SF_monitor(part = "monitor" /\ LoopEnds(l)) /\ WF_monitor(part = "monitor" /\ CloseReturns(l))
  /\ \A b \in Browses :
       /\ SF_centrals(part \in Tracking /\ Central!Sweep(b))
       /\ WF_centrals(part \in Tracking /\ (Central!Notify(b) \/ \E r \in queue[b] : Central!Remove(b, r)))
       /\ \A g \in Gateways : WF_centrals(part \in Tracking /\ world[g] = NoRecord /\ Central!Expire(b, g))
  /\ WF_scanning(part = "hosts" /\ (Hosts!FeederStops \/ Hosts!FeederEnds \/ Hosts!Return))
  /\ WF_scanning(part = "hosts" /\ \E w \in Workers : Hosts!Take(w))
  /\ \A w \in Workers : WF_scanning(part = "hosts" /\ (Hosts!Probe(w) \/ Hosts!WorkerEnds(w)))

\* The variables of the models have their types.
NetworkTypeOK == TypeOK /\ Central!TypeOK /\ Hosts!TypeOK

\* The services are the valid records known, and a subscriber was told of them when nothing is left
\* to tell, unless two browses told of one group at a time (mdns.go handleEvent, mdns_zeroconf.go
\* Browse); an uncancelled scan returns every camera among the candidates (native_discovery.go,
\* discoverMiHomeCS2Hosts).
SearchesFind == Central!ServicesFollow /\ Hosts!ScanIsComplete

\* Close of the monitor returns (network.go), a gateway that has gone is removed
\* (mdns_zeroconf.go), the scan for cameras ends (native_discovery.go).
SearchesSettle ==
  /\ MonitorCloses
  /\ part \in Tracking => Central!GoneIsRemoved
  /\ part = "hosts" => Hosts!ScanEnds
=============================================================================
