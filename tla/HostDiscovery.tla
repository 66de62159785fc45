----------------------------- MODULE HostDiscovery -----------------------------
(***************************************************************************)
(* Scanning the camera's network for hosts that speak CS2                  *)
(* (camera/native_discovery.go): a feeder hands the candidate addresses to *)
(* workers over an unbuffered channel, each worker asks one host at a time *)
(* and the caller collects the answers until the feeder closes them.       *)
(***************************************************************************)
EXTENDS Naturals, FiniteSets

CONSTANTS
  Net,        \* size of the network: addresses 0..Net-1, the last one is the broadcast address
  Preferred,  \* the address asked before the scan
  LocalHosts, \* addresses of this machine seen up to the matching interface
  Workers,    \* miHomeCS2ProbeWorkers
  Nobody

Addresses == 0..(Net - 1)

VARIABLES
  cameras,    \* environment: the hosts that answer a search with a punch packet
  feeder,     \* offer, wait (for the workers), ended
  next,       \* the address it offers next
  worker,     \* per worker: idle, busy, ended
  host,       \* per worker: the host it asks
  probed,     \* history: hosts that were asked
  results,    \* resultCh, with what was received from it
  cancelled,  \* ctx
  returned    \* the caller has its answer

scan == <<feeder, next, worker, host, probed, results, returned>>
hosts == <<cameras, scan, cancelled>>

\* miHomeDiscoveryNetwork: the interface that holds the camera's address, and our own addresses.
Skipped == {Preferred} \cup LocalHosts

\* The candidates: neither the network's own address nor the broadcast one, nor known hosts.
Candidates == (Addresses \ {0, Net - 1}) \ Skipped

\* Mutation of After: the last candidate is never offered.
AfterShort(a) == LET rest == {c \in Candidates : c > a /\ c + 2 < Net} IN
  IF rest = {} THEN Net ELSE CHOOSE c \in rest : \A o \in rest : c <= o

\* The candidate after an address, in increasing order; Net when there is none left.
After(a) == LET rest == {c \in Candidates : c > a} IN
  IF rest = {} THEN Net ELSE CHOOSE c \in rest : \A o \in rest : c <= o

TypeOK ==
  /\ cameras \subseteq Addresses /\ feeder \in {"offer", "wait", "ended"}
  /\ next \in Candidates \cup {Net} /\ worker \in [Workers -> {"idle", "busy", "ended"}]
  /\ host \in [Workers -> Addresses \cup {Nobody}]
  /\ probed \subseteq Candidates /\ results \subseteq Candidates
  /\ cancelled \in BOOLEAN /\ returned \in BOOLEAN

Init ==
  /\ cameras \in SUBSET Addresses
  /\ feeder = "offer" /\ next = After(0)
  /\ worker = [w \in Workers |-> "idle"] /\ host = [w \in Workers |-> Nobody]
  /\ probed = {} /\ results = {} /\ cancelled = FALSE /\ returned = FALSE

\* A worker that waits takes the address offered.
Take(w) ==
  /\ feeder = "offer" /\ next < Net /\ worker[w] = "idle"
  /\ worker' = [worker EXCEPT ![w] = "busy"] /\ host' = [host EXCEPT ![w] = next]
  /\ next' = After(next)
  /\ UNCHANGED <<cameras, feeder, probed, results, cancelled, returned>>

\* Everything is handed out, or the context ends: select may take either when both are ready.
FeederStops ==
  /\ feeder = "offer" /\ (next = Net \/ cancelled) /\ feeder' = "wait"
  /\ UNCHANGED <<cameras, next, worker, host, probed, results, cancelled, returned>>

\* The host answers with a punch packet; under a context that has ended it is not heard.
Probe(w) ==
  /\ worker[w] = "busy"
  /\ worker' = [worker EXCEPT ![w] = "idle"] /\ host' = [host EXCEPT ![w] = Nobody]
  /\ probed' = probed \cup {host[w]}
  /\ \/ results' = results \cup ({host[w]} \cap cameras)
     \/ cancelled /\ UNCHANGED results
  /\ UNCHANGED <<cameras, feeder, next, cancelled, returned>>

\* workCh is closed.
WorkerEnds(w) ==
  /\ worker[w] = "idle" /\ feeder # "offer" /\ worker' = [worker EXCEPT ![w] = "ended"]
  /\ UNCHANGED <<cameras, feeder, next, host, probed, results, cancelled, returned>>

\* Mutation of FeederEnds: resultCh is closed before the workers have finished.
FeederEndsEarly ==
  /\ feeder = "wait" /\ feeder' = "ended"
  /\ UNCHANGED <<cameras, next, worker, host, probed, results, cancelled, returned>>

\* wg.Wait returns and resultCh is closed.
FeederEnds ==
  /\ feeder = "wait" /\ \A w \in Workers : worker[w] = "ended"
  /\ feeder' = "ended"
  /\ UNCHANGED <<cameras, next, worker, host, probed, results, cancelled, returned>>

Return ==
  /\ feeder = "ended" /\ ~returned /\ returned' = TRUE
  /\ UNCHANGED <<cameras, feeder, next, worker, host, probed, results, cancelled>>

Cancel == ~cancelled /\ cancelled' = TRUE /\ UNCHANGED <<cameras, scan>>

Next ==
  \/ FeederStops \/ FeederEnds \/ Return \/ Cancel
  \/ \E w \in Workers : Take(w) \/ Probe(w) \/ WorkerEnds(w)

\* The goroutines run, and a probe ends at its deadline at the latest.
Fairness ==
  /\ WF_hosts(FeederStops \/ FeederEnds \/ Return)
  /\ WF_hosts(\E w \in Workers : Take(w))
  /\ \A w \in Workers : WF_hosts(Probe(w) \/ WorkerEnds(w))

Spec == Init /\ [][Next]_hosts /\ Fairness

\* Without a cancellation the answer is every camera among the candidates, and no worker has an
\* answer left when the results are closed (it would send on a closed channel).
ScanIsComplete ==
  /\ returned /\ ~cancelled => results = cameras \cap Candidates
  /\ feeder = "ended" => \A w \in Workers : worker[w] = "ended"

\* The scan ends (discoverMiHomeCS2Hosts).
ScanEnds == <>returned
=============================================================================
