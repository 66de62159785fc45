---------------------------- MODULE CameraResolver ----------------------------
(***************************************************************************)
(* Resolving one camera to a session and opening its stream: a chain of an *)
(* HTTP resolver and a direct one (camera/session.go, session_resolver.go),*)
(* the resolver server with its sessions that are good for one stream and  *)
(* a short time, the backends it falls back on (library.go), and the media *)
(* clients they open (session_resolver_backend_mihome.go).                 *)
(***************************************************************************)
EXTENDS Naturals, Sequences, FiniteSets

CONSTANTS
  Users,     \* goroutines that resolve and stream
  Backends,  \* number of backends behind the fallback
  Tickets,   \* sessions of the server (bound)
  TTL        \* SessionTTL in ticks

VARIABLES
  preferred, \* fallbackSessionResolverBackend.preferred of the camera; 0 for none
  ticket,    \* the server's sessions: unused, stored, taken, pruned
  age,       \* ticks since a session was stored
  step,      \* where a user is
  via,       \* the resolver it is using: http, direct
  todo,      \* backends its request has still to try
  tried,     \* history: backends that refused its request
  clients,   \* per backend: media clients that are open
  served,    \* history: streams opened per session
  late       \* history: a stream was opened with an expired session

server == <<ticket, age>>
request == <<step, via, todo, tried>>
history == <<served, late>>
vars == <<preferred, server, request, clients, history>>

Backend == 1..Backends

TypeOK ==
  /\ preferred \in 0..Backends
  /\ ticket \in [Tickets -> {"unused", "stored", "taken", "pruned"}] /\ age \in [Tickets -> 0..TTL]
  /\ step \in [Users -> {"idle", "probe", "codec", "store", "open", "stream", "refused"}]
  /\ via \in [Users -> {"http", "direct"}]
  /\ \A u \in Users : todo[u] \in Seq(Backend) /\ Len(todo[u]) <= Backends
  /\ tried \in [Users -> SUBSET Backend] /\ clients \in [Backend -> Nat]
  /\ served \in [Tickets -> Nat] /\ late \in BOOLEAN

Init ==
  /\ preferred = 0 /\ late = FALSE
  /\ ticket = [s \in Tickets |-> "unused"] /\ age = [s \in Tickets |-> 0]
  /\ step = [u \in Users |-> "idle"] /\ via = [u \in Users |-> "http"]
  /\ todo = [u \in Users |-> << >>] /\ tried = [u \in Users |-> {}]
  /\ clients = [b \in Backend |-> 0] /\ served = [s \in Tickets |-> 0]

At(u, place) == step[u] = place
Goto(u, place) == step' = [step EXCEPT ![u] = place]

\* Mutation of BackendOrder: the preferred backend is the only one asked.
PreferredOnly(p) == IF p = 0 THEN [b \in Backend |-> b] ELSE <<p>>

\* The preferred backend first, then the others as they are.
BackendOrder(p) ==
  [i \in Backend |-> IF p = 0 \/ i > p THEN i ELSE IF i = 1 THEN p ELSE i - 1]

Ask(u, place) ==
  /\ Goto(u, place) /\ todo' = [todo EXCEPT ![u] = BackendOrder(preferred)]
  /\ tried' = [tried EXCEPT ![u] = {}]

OpenClient(b) == clients' = [clients EXCEPT ![b] = @ + 1]
CloseClient(b) == clients' = [clients EXCEPT ![b] = @ - 1]

\* A backend that refuses is not asked again by this request.
Refuse(u, place) ==
  /\ Goto(u, place) /\ todo' = [todo EXCEPT ![u] = Tail(@)]
  /\ tried' = [tried EXCEPT ![u] = @ \cup {Head(todo[u])}]

-----------------------------------------------------------------------------
(* The backends *)

\* openClient: session, cloud, device, vendor and the media client, in this order; the
\* client is open only if all of them succeed.
ProbeOpens(u) ==
  /\ At(u, "probe") /\ todo[u] # << >>
  /\ OpenClient(Head(todo[u])) /\ Goto(u, "codec")
  /\ UNCHANGED <<preferred, server, via, todo, tried, history>>

ProbeRefused(u) ==
  /\ At(u, "probe") /\ todo[u] # << >> /\ Refuse(u, "probe")
  /\ UNCHANGED <<preferred, server, via, clients, history>>

\* Mutation of CodecFails: the client of a probe without a codec stays open.
CodecFailsOpen(u) ==
  /\ At(u, "codec") /\ Refuse(u, "probe")
  /\ UNCHANGED <<preferred, server, via, clients, history>>

\* No packet names a codec in time, or the reads fail: the deferred calls close the client.
CodecFails(u) ==
  /\ At(u, "codec") /\ Refuse(u, "probe") /\ CloseClient(Head(todo[u]))
  /\ UNCHANGED <<preferred, server, via, history>>

\* The direct resolver hands its session to startDirectAnnexBStream, the other one
\* is the server's.
Codec(u) ==
  /\ At(u, "codec") /\ CloseClient(Head(todo[u])) /\ preferred' = Head(todo[u])
  /\ IF via[u] = "http" THEN Goto(u, "store") /\ UNCHANGED <<todo, tried>>
     ELSE /\ Goto(u, "open") /\ tried' = [tried EXCEPT ![u] = {}]
          /\ todo' = [todo EXCEPT ![u] = BackendOrder(preferred')]
  /\ UNCHANGED <<server, via, history>>

StreamOpens(u) ==
  /\ At(u, "open") /\ todo[u] # << >>
  /\ OpenClient(Head(todo[u])) /\ preferred' = Head(todo[u]) /\ Goto(u, "stream")
  /\ UNCHANGED <<server, via, todo, tried, history>>

StreamRefused(u) ==
  /\ At(u, "open") /\ todo[u] # << >> /\ Refuse(u, "open")
  /\ UNCHANGED <<preferred, server, via, clients, history>>

\* Mutation of StreamEnds: the client is released by the handler and by the stream.
StreamEndsTwice(u) ==
  /\ At(u, "stream") /\ clients' = [clients EXCEPT ![Head(todo[u])] = @ - 2] /\ Goto(u, "idle")
  /\ UNCHANGED <<preferred, server, via, todo, tried, history>>

\* Recv fails, the request is cancelled, or a frame cannot be written; the frames before
\* leave nothing behind.
StreamEnds(u) ==
  /\ At(u, "stream") /\ CloseClient(Head(todo[u])) /\ Goto(u, "idle")
  /\ UNCHANGED <<preferred, server, via, todo, tried, history>>

Exhausted(u) ==
  /\ step[u] \in {"probe", "open"} /\ todo[u] = << >> /\ Goto(u, "refused")
  /\ UNCHANGED <<preferred, server, via, todo, tried, clients, history>>

-----------------------------------------------------------------------------
(* The chain of resolvers *)

\* ResolverChain.Resolve begins with the HTTP resolver, whose request handleResolve
\* answers with a probe.
Resolve(u) ==
  /\ At(u, "idle") /\ via' = [via EXCEPT ![u] = "http"] /\ Ask(u, "probe")
  /\ UNCHANGED <<preferred, server, clients, history>>

\* The direct resolver is the last; with skipProbe it opens the stream at once.
ResolveDirectly(u) ==
  /\ via' = [via EXCEPT ![u] = "direct"]
  /\ \E place \in {"probe", "open"} : Ask(u, place)

\* The server refuses, its answer is lost or cannot be parsed: the next resolver.
HTTPFails(u) ==
  /\ step[u] \in {"refused", "idle"} /\ via[u] = "http" /\ ResolveDirectly(u)
  /\ UNCHANGED <<preferred, server, clients, history>>

GiveUp(u) ==
  /\ At(u, "refused") /\ Goto(u, "idle")
  /\ UNCHANGED <<preferred, server, via, todo, tried, clients, history>>

-----------------------------------------------------------------------------
(* The server's sessions *)

Pruned(s) == ticket[s] = "stored" /\ age[s] >= TTL
AfterPrune == [s \in Tickets |-> IF Pruned(s) THEN "pruned" ELSE ticket[s]]

\* A probe without a codec that the server knows stores nothing.
StoreSession(u) ==
  /\ At(u, "store") /\ Goto(u, "idle")
  /\ \/ \E s \in Tickets : ticket[s] = "unused" /\ ticket' = [AfterPrune EXCEPT ![s] = "stored"]
     \/ ticket' = ticket
  /\ UNCHANGED <<preferred, age, via, todo, tried, clients, history>>

\* Mutation of TakeSession: expired sessions are pruned only when one is stored.
TakeSessionUnpruned(u, s) ==
  /\ At(u, "idle") /\ ticket[s] = "stored"
  /\ ticket' = [ticket EXCEPT ![s] = "taken"]
  /\ via' = [via EXCEPT ![u] = "http"] /\ Ask(u, "open")
  /\ served' = [served EXCEPT ![s] = @ + 1] /\ late' = (late \/ age[s] >= TTL)
  /\ UNCHANGED <<preferred, age, clients>>

\* handleStream: a request with the id and the token of a session.
TakeSession(u, s) ==
  /\ At(u, "idle") /\ AfterPrune[s] = "stored"
  /\ ticket' = [AfterPrune EXCEPT ![s] = "taken"]
  /\ via' = [via EXCEPT ![u] = "http"] /\ Ask(u, "open")
  /\ served' = [served EXCEPT ![s] = @ + 1] /\ late' = (late \/ age[s] >= TTL)
  /\ UNCHANGED <<preferred, age, clients>>

\* Another id or token, or a session that is taken or expired, only prunes.
Unauthorized ==
  /\ ticket' = AfterPrune
  /\ UNCHANGED <<preferred, age, request, clients, history>>

Tick ==
  /\ age' = [s \in Tickets |-> IF ticket[s] = "stored" /\ age[s] < TTL THEN age[s] + 1 ELSE age[s]]
  /\ UNCHANGED <<preferred, ticket, request, clients, history>>

-----------------------------------------------------------------------------
Next ==
  \/ \E u \in Users :
       \/ Resolve(u) \/ HTTPFails(u) \/ GiveUp(u) \/ ProbeOpens(u) \/ ProbeRefused(u)
       \/ CodecFails(u) \/ Codec(u) \/ StreamOpens(u) \/ StreamRefused(u) \/ StreamEnds(u)
       \/ Exhausted(u) \/ StoreSession(u) \/ \E s \in Tickets : TakeSession(u, s)
  \/ Unauthorized \/ Tick

Spec == Init /\ [][Next]_vars

-----------------------------------------------------------------------------
(* Properties *)

\* A session that the server handed out opens one stream, before it expires, whoever
\* asks for it and however often (takeSession, pruneSessionsLocked).
ServedOnceInTime == ~late /\ \A s \in Tickets : served[s] <= 1

\* The media clients that are open are those of the probes and streams under way: a
\* backend that fails at any step, or after the client was opened, leaves none.
Using(u, b) == step[u] \in {"codec", "stream"} /\ Head(todo[u]) = b
ClientsAreClosed ==
  \A b \in Backend :
    clients[b] = Cardinality({u \in Users : Using(u, b)})

\* A request is refused only when every backend refused it, whatever other requests
\* made the preferred one meanwhile.
RefusedByAll == \A u \in Users : At(u, "refused") => tried[u] = Backend
=============================================================================
