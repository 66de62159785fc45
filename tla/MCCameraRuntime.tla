---------------------------- MODULE MCCameraRuntime ----------------------------
(***************************************************************************)
(* TLC instance of CameraRuntime, CameraCallbacks and CameraResolver, and  *)
(* of the safety of CameraWorker, NativePipeline, FrameStore and           *)
(* MissSession, whose liveness is checked by MCCameraSnapshot.  They have  *)
(* no variable in common: each is checked with the others at rest.         *)
(***************************************************************************)
EXTENDS CameraRuntime, Naturals, FiniteSets, TLC

CONSTANTS Emitters, Channels, Kinds, MaxId, AnyChannel, Users, Backends, Tickets, TTL,
          Callers, Pipelines, MaxRounds, None, Closers, Viewers, MaxVersion, Offered, NoTransport

VARIABLES part, nextCallback, callbacks, held, emission,
          preferred, ticket, age, step, via, todo, tried, clients, served, late,
          caller, attempt, lifecycle, target, once, startErr, closer, round, frame, waiters, woken, pipelines,
          run, closing, cancelled, client, codec, started, attempted, decoder, process, stopping,
          version, closed, viewer, after, awaited, shown,
          phase, wanted, sockets, transport, reading, deadline, net, answer, encrypt

tables == <<nextCallback, callbacks, held, emission>>
resolving == <<preferred, ticket, age, step, via, todo, tried, clients, served, late>>
snapshots == <<caller, attempt, lifecycle, target, once, startErr, closer, round, frame, waiters, woken, pipelines>>
pipe == <<run, closing, cancelled, client, codec, started, attempted, decoder, process, stopping>>
preview == <<version, closed, viewer, after, awaited, shown>>
opening == <<phase, wanted, sockets, transport, reading, deadline, net, answer, encrypt>>
runtimes == <<vars, tables, resolving>>
native == <<snapshots, pipe, preview, opening>>

Callbacks == INSTANCE CameraCallbacks
Resolver == INSTANCE CameraResolver
Worker == INSTANCE CameraWorker WITH pc <- caller
Pipeline == INSTANCE NativePipeline WITH session <- decoder, tried <- attempted
Store == INSTANCE FrameStore WITH channel <- awaited
Miss == INSTANCE MissSession

MCInit ==
  /\ part \in {"runtime", "callbacks", "resolver", "worker", "pipeline", "store", "miss"}
  /\ Init /\ Callbacks!Init /\ Resolver!Init
  /\ Worker!Init /\ Pipeline!Init /\ Store!Init /\ Miss!Init

MCNext ==
  /\ UNCHANGED part
  /\ \/ part = "runtime" /\ Next /\ UNCHANGED <<tables, resolving, native>>
     \/ part = "callbacks" /\ Callbacks!Next /\ UNCHANGED <<vars, resolving, native>>
     \/ part = "resolver" /\ Resolver!Next /\ UNCHANGED <<vars, tables, native>>
     \/ part = "worker" /\ Worker!Next /\ UNCHANGED <<runtimes, pipe, preview, opening>>
     \/ part = "pipeline" /\ Pipeline!Next /\ UNCHANGED <<runtimes, snapshots, preview, opening>>
     \/ part = "store" /\ Store!Next /\ UNCHANGED <<runtimes, snapshots, pipe, opening>>
     \/ part = "miss" /\ Miss!Next /\ UNCHANGED <<runtimes, snapshots, pipe, preview>>

MCSpec == MCInit /\ [][MCNext]_<<part, runtimes, native>>

\* No camera, session, caller, pipeline or transport is called by the name for none; bounds are
\* numbers, and users can be counted.
ASSUME CameraConstants ==
  /\ Absent \notin Instances \cup Sessions
  /\ None \notin Callers \cup Pipelines /\ NoTransport \notin {"udp", "tcp"}
  /\ {MaxId, Backends, TTL, MaxVersion, MaxRounds} \subseteq Nat /\ IsFiniteSet(Users)

\* The names are interchangeable: no property names a member.
Symmetry == Permutations(Threads) \cup Permutations(Sessions)

\* The variables of the models have their types.
RuntimeTypeOK ==
  /\ TypeOK /\ Callbacks!TypeOK /\ Resolver!TypeOK
  /\ Worker!TypeOK /\ Pipeline!TypeOK /\ Store!TypeOK /\ Miss!TypeOK

\* CameraRuntime: no session is lost, and a status shown is one the runtime has grounds for
\* (runtime.go Start, Stop, watchErrors).
SessionsAreKept == NothingIsLost /\ StatusIsFounded

\* CameraCallbacks: no registration or removal displaces another callback
\* (runtime.go, Register and Unregister of every kind).
RegistrationsLast == Callbacks!RegistrationsLast

\* CameraResolver: a session opens one stream, before it expires (session_resolver.go takeSession,
\* pruneSessionsLocked); no probe or stream leaves its media client open
\* (session_resolver_backend_mihome.go Probe, Close); and a request is refused only when every
\* backend refused it (library.go, fallbackSessionResolverBackend).
SessionsAreServed == Resolver!ServedOnceInTime /\ Resolver!ClientsAreClosed /\ Resolver!RefusedByAll

\* CameraWorker: every pipeline is owned and no waiter misses a frame (stream_manager.go
\* restartPipeline, GetSnapshot); NativePipeline: the decoder process has somebody to end it
\* (native_pipeline.go run, Close); FrameStore: no viewer's wake-up is lost (http.go Store,
\* WaitForUpdate); MissSession: a handshake, dial or authorization that fails leaves no socket
\* open, and the transport was offered and asked for (native_cs2.go, native_miss.go).
NothingIsLeftBehind ==
  /\ Worker!NoPipelineLeaks /\ Worker!NoFrameIsMissed
  /\ Pipeline!ProcessIsOwned /\ Store!WaitersAreWoken /\ Miss!SocketsAreOwned
=============================================================================
