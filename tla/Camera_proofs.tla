----------------------------- MODULE Camera_proofs -----------------------------
(***************************************************************************)
(* Proofs about MCCameraRuntime: the cameras and their sessions            *)
(* (CameraRuntime), the callbacks of a camera (CameraCallbacks), the       *)
(* resolving of a camera (CameraResolver), and its snapshots: the worker   *)
(* (CameraWorker), the pipeline (NativePipeline), the viewers (FrameStore) *)
(* and the connection (MissSession); for any number of users, sessions,    *)
(* callbacks, backends, callers and pipelines. The last part is about      *)
(* MCCs2Channel: a data channel of a connection (Cs2Channel) keeps what is *)
(* acknowledged and implements OrderedStream, for streams of any length.   *)
(***************************************************************************)
EXTENDS MCCameraRuntime, MCCs2Channel, Sequences, FiniteSetTheorems, SequenceTheorems,
        NaturalsInduction, WellFoundedInduction, TLAPS

(* The cameras and their sessions *)

\* A thread has a camera from its call of Start or Stop until it returns, and a session
\* in hand while it opens or closes one.
WorksOnOne ==
  \A t \in Threads :
    /\ pc[t] \notin {"idle", "destroy"} => on[t] \in Instances
    /\ pc[t] \in {"stream", "install"} => hand[t] \in Sessions
    /\ pc[t] \notin {"stream", "install", "close"} => hand[t] = Absent

\* Between TakeSession and the end of Stop there is no session, and no Start.
StoppedIsEmpty ==
  \A i \in Instances \ crossed, t \in Threads : on[t] = i /\ pc[t] \in {"close", "disconnect"} =>
    driver[i] = Absent /\ ~Starting(i)

\* Between Install and the end of Start there is a session.
StartedIsServed ==
  \A i \in Instances \ crossed, t \in Threads :
    on[t] = i /\ pc[t] = "connect" => driver[i] # Absent

Ending(i) == \E t \in Threads : on[t] = i /\ pc[t] \in {"close", "disconnect"}

\* What StatusIsFounded says holds already until the Stop has taken the session.
StatusOutsideCalls ==
  \A i \in Instances \ crossed : ~Starting(i) /\ ~Ending(i) =>
    /\ status[i] = "connected" => driver[i] # Absent
    /\ driver[i] # Absent => status[i] \in {"connected", "error"}

RuntimeInv ==
  /\ TypeOK /\ WorksOnOne /\ NothingIsLost
  /\ StoppedIsEmpty /\ StartedIsServed /\ StatusOutsideCalls

(* The callbacks *)

\* An id that is registered was given out.
IdsAreGivenOut == \A k \in DOMAIN callbacks : k[2] < nextCallback

CallbacksInv == Callbacks!TypeOK /\ IdsAreGivenOut /\ RegistrationsLast

(* The resolving of a camera *)

ResolverTypes ==
  /\ preferred \in 0..Backends
  /\ ticket \in [Tickets -> {"unused", "stored", "taken", "pruned"}] /\ age \in [Tickets -> 0..TTL]
  /\ step \in [Users -> {"idle", "probe", "codec", "store", "open", "stream", "refused"}]
  /\ via \in [Users -> {"http", "direct"}]
  /\ tried \in [Users -> SUBSET Resolver!Backend] /\ clients \in [Resolver!Backend -> Int]
  /\ served \in [Tickets -> Nat] /\ {late} \subseteq BOOLEAN

OrdersTyped ==
  /\ DOMAIN todo = Users
  /\ \A u \in Users : todo[u] \in Seq(Resolver!Backend) /\ Len(todo[u]) <= Backends

\* A session that nobody took has opened no stream.
TakenOnce ==
  /\ ~late
  /\ \A s \in Tickets :
       /\ served[s] <= 1
       /\ ticket[s] \in {"unused", "stored"} => served[s] = 0

\* A user that has a client open has a backend.
HasBackend == \A u \in Users : step[u] \in {"codec", "stream"} => todo[u] # << >>

\* A backend has refused the request or has still to be asked.
Remaining(u) == {todo[u][i] : i \in 1..Len(todo[u])}
NoneIsSkipped ==
  \A u \in Users :
    /\ step[u] \in {"probe", "codec", "open"} => tried[u] \cup Remaining(u) = Resolver!Backend
    /\ step[u] = "refused" => tried[u] = Resolver!Backend

\* Resolver!ClientsAreClosed.
UsersOf(b) == {u \in Users : Resolver!Using(u, b)}
ClientsAreCounted == \A b \in Resolver!Backend : clients[b] = Cardinality(UsersOf(b))

ResolverInv ==
  /\ ResolverTypes /\ OrdersTyped /\ TakenOnce /\ HasBackend /\ NoneIsSkipped
  /\ ClientsAreCounted

LEMMA RuntimeStarts == Init => RuntimeInv
  BY CameraConstants
  DEF Init, RuntimeInv, TypeOK, Status, WorksOnOne, NothingIsLost, Running, StoppedIsEmpty,
      StartedIsServed, StatusOutsideCalls, CameraConstants

LEMMA RuntimeTypeStep ==
  TypeOK /\ WorksOnOne /\ [Next]_vars => TypeOK'
  <1>. SUFFICES ASSUME TypeOK, WorksOnOne, [Next]_vars PROVE TypeOK'
    OBVIOUS
  <1>1. ASSUME NEW t \in Threads, NewCamera(t) PROVE TypeOK'
    BY <1>1, CameraConstants
    DEF NewCamera, At, threads, streams, history, TypeOK, Status, WorksOnOne, CameraConstants
  <1>2. ASSUME NEW t \in Threads, Close(t) PROVE TypeOK'
    BY <1>2, CameraConstants
    DEF Close, At, Goto, streams, history, TypeOK, Status, WorksOnOne, CameraConstants
  <1>3. ASSUME NEW t \in Threads, Destroy(t) PROVE TypeOK'
    BY <1>3, CameraConstants
    DEF Destroy, At, Goto, streams, history, TypeOK, Status, WorksOnOne, CameraConstants
  <1>4. ASSUME NEW t \in Threads, StartDecoder(t) PROVE TypeOK'
    BY <1>4, CameraConstants
    DEF StartDecoder, At, Goto, StartFails, UpdateStatus, Return, registry, TypeOK, Status,
        WorksOnOne, CameraConstants
  <1>5. ASSUME NEW t \in Threads, StartStream(t) PROVE TypeOK'
    BY <1>5, CameraConstants
    DEF StartStream, At, StreamOpened, StreamRefused, StartFails, UpdateStatus, Goto, Return,
        registry, history, TypeOK, Status, WorksOnOne, CameraConstants
  <1>6. ASSUME NEW t \in Threads, Install(t) PROVE TypeOK'
    BY <1>6, CameraConstants
    DEF Install, At, Goto, registry, streams, TypeOK, Status, WorksOnOne, CameraConstants
  <1>7. ASSUME NEW t \in Threads, Connect(t) PROVE TypeOK'
    BY <1>7, CameraConstants
    DEF Connect, At, Goto, Return, UpdateStatus, registry, streams, history, TypeOK, Status,
        WorksOnOne, CameraConstants
  <1>8. ASSUME NEW t \in Threads, TakeSession(t) PROVE TypeOK'
    BY <1>8, CameraConstants
    DEF TakeSession, At, Goto, registry, streams, TypeOK, Status, WorksOnOne, CameraConstants
  <1>9. ASSUME NEW t \in Threads, CloseSessions(t) PROVE TypeOK'
    BY <1>9, CameraConstants
    DEF CloseSessions, At, Goto, registry, history, TypeOK, Status, WorksOnOne, CameraConstants
  <1>10. ASSUME NEW t \in Threads, Disconnect(t) PROVE TypeOK'
    BY <1>10, CameraConstants
    DEF Disconnect, At, Goto, Return, UpdateStatus, registry, streams, history, TypeOK, Status,
        WorksOnOne, CameraConstants
  <1>11. ASSUME NEW t \in Threads, NEW i \in Instances, Start(t, i) PROVE TypeOK'
    BY <1>11, CameraConstants
    DEF Start, At, Goto, UpdateStatus, registry, streams, TypeOK, Status, WorksOnOne,
        CameraConstants
  <1>12. ASSUME NEW t \in Threads, NEW i \in Instances, Stop(t, i) PROVE TypeOK'
    BY <1>12, CameraConstants
    DEF Stop, At, Goto, registry, streams, history, TypeOK, Status, WorksOnOne, CameraConstants
  <1>13. ASSUME NEW s \in Sessions, ReportError(s) PROVE TypeOK'
    BY <1>13, CameraConstants
    DEF ReportError, registry, threads, history, TypeOK, Status, WorksOnOne, CameraConstants
  <1>14. ASSUME NEW s \in Sessions, StreamEnds(s) PROVE TypeOK'
    BY <1>14, CameraConstants
    DEF StreamEnds, registry, threads, history, TypeOK, Status, WorksOnOne, CameraConstants
  <1>15. ASSUME NEW s \in Sessions, DecodeFails(s) PROVE TypeOK'
    BY <1>15, CameraConstants
    DEF DecodeFails, UpdateStatus, registry, threads, history, TypeOK, Status, WorksOnOne,
        CameraConstants
  <1>16. ASSUME NEW s \in Sessions, Drained(s) PROVE TypeOK'
    BY <1>16, CameraConstants
    DEF Drained, registry, threads, history, TypeOK, Status, WorksOnOne, CameraConstants
  <1>17. ASSUME NEW s \in Sessions, WatchErrors(s) PROVE TypeOK'
    BY <1>17, CameraConstants
    DEF WatchErrors, UpdateStatus, registry, threads, history, TypeOK, Status, WorksOnOne,
        CameraConstants
  <1>18. CASE UNCHANGED vars
    BY <1>18
    DEF vars, registry, threads, streams, history, TypeOK, Status, WorksOnOne, CameraConstants
  <1>. QED
    BY <1>1, <1>2, <1>3, <1>4, <1>5, <1>6, <1>7, <1>8, <1>9, <1>10, <1>11, <1>12, <1>13, <1>14,
       <1>15, <1>16, <1>17, <1>18
    DEF Next

LEMMA WorksStep ==
  TypeOK /\ WorksOnOne /\ [Next]_vars => WorksOnOne'
  <1>. SUFFICES ASSUME TypeOK, WorksOnOne, [Next]_vars PROVE WorksOnOne'
    OBVIOUS
  <1>1. ASSUME NEW t \in Threads, NewCamera(t) PROVE WorksOnOne'
    BY <1>1, CameraConstants
    DEF NewCamera, At, threads, streams, history, TypeOK, WorksOnOne, CameraConstants
  <1>2. ASSUME NEW t \in Threads, Close(t) PROVE WorksOnOne'
    BY <1>2, CameraConstants
    DEF Close, At, Goto, streams, history, TypeOK, WorksOnOne, CameraConstants
  <1>3. ASSUME NEW t \in Threads, Destroy(t) PROVE WorksOnOne'
    BY <1>3, CameraConstants
    DEF Destroy, At, Goto, streams, history, TypeOK, WorksOnOne, CameraConstants
  <1>4. ASSUME NEW t \in Threads, StartDecoder(t) PROVE WorksOnOne'
    BY <1>4, CameraConstants
    DEF StartDecoder, At, Goto, StartFails, UpdateStatus, Return, registry, TypeOK, WorksOnOne,
        CameraConstants
  <1>5. ASSUME NEW t \in Threads, StartStream(t) PROVE WorksOnOne'
    BY <1>5, CameraConstants
    DEF StartStream, At, StreamOpened, StreamRefused, StartFails, UpdateStatus, Goto, Return,
        registry, history, TypeOK, WorksOnOne, CameraConstants
  <1>6. ASSUME NEW t \in Threads, Install(t) PROVE WorksOnOne'
    BY <1>6, CameraConstants
    DEF Install, At, Goto, registry, streams, TypeOK, WorksOnOne, CameraConstants
  <1>7. ASSUME NEW t \in Threads, Connect(t) PROVE WorksOnOne'
    BY <1>7, CameraConstants
    DEF Connect, At, Goto, Return, UpdateStatus, registry, streams, history, TypeOK, WorksOnOne,
        CameraConstants
  <1>8. ASSUME NEW t \in Threads, TakeSession(t) PROVE WorksOnOne'
    BY <1>8, CameraConstants
    DEF TakeSession, At, Goto, registry, streams, TypeOK, WorksOnOne, CameraConstants
  <1>9. ASSUME NEW t \in Threads, CloseSessions(t) PROVE WorksOnOne'
    BY <1>9, CameraConstants
    DEF CloseSessions, At, Goto, registry, history, TypeOK, WorksOnOne, CameraConstants
  <1>10. ASSUME NEW t \in Threads, Disconnect(t) PROVE WorksOnOne'
    BY <1>10, CameraConstants
    DEF Disconnect, At, Goto, Return, UpdateStatus, registry, streams, history, TypeOK,
        WorksOnOne, CameraConstants
  <1>11. ASSUME NEW t \in Threads, NEW i \in Instances, Start(t, i) PROVE WorksOnOne'
    BY <1>11, CameraConstants
    DEF Start, At, Goto, UpdateStatus, registry, streams, TypeOK, WorksOnOne, CameraConstants
  <1>12. ASSUME NEW t \in Threads, NEW i \in Instances, Stop(t, i) PROVE WorksOnOne'
    BY <1>12, CameraConstants
    DEF Stop, At, Goto, registry, streams, history, TypeOK, WorksOnOne, CameraConstants
  <1>13. ASSUME NEW s \in Sessions, ReportError(s) PROVE WorksOnOne'
    BY <1>13, CameraConstants
    DEF ReportError, registry, threads, history, TypeOK, WorksOnOne, CameraConstants
  <1>14. ASSUME NEW s \in Sessions, StreamEnds(s) PROVE WorksOnOne'
    BY <1>14, CameraConstants
    DEF StreamEnds, registry, threads, history, TypeOK, WorksOnOne, CameraConstants
  <1>15. ASSUME NEW s \in Sessions, DecodeFails(s) PROVE WorksOnOne'
    BY <1>15, CameraConstants
    DEF DecodeFails, UpdateStatus, registry, threads, history, TypeOK, WorksOnOne,
        CameraConstants
  <1>16. ASSUME NEW s \in Sessions, Drained(s) PROVE WorksOnOne'
    BY <1>16, CameraConstants
    DEF Drained, registry, threads, history, TypeOK, WorksOnOne, CameraConstants
  <1>17. ASSUME NEW s \in Sessions, WatchErrors(s) PROVE WorksOnOne'
    BY <1>17, CameraConstants
    DEF WatchErrors, UpdateStatus, registry, threads, history, TypeOK, WorksOnOne,
        CameraConstants
  <1>18. CASE UNCHANGED vars
    BY <1>18
    DEF vars, registry, threads, streams, history, TypeOK, WorksOnOne, CameraConstants
  <1>. QED
    BY <1>1, <1>2, <1>3, <1>4, <1>5, <1>6, <1>7, <1>8, <1>9, <1>10, <1>11, <1>12, <1>13, <1>14,
       <1>15, <1>16, <1>17, <1>18
    DEF Next

LEMMA LostStep ==
  TypeOK /\ WorksOnOne /\ NothingIsLost /\ [Next]_vars => NothingIsLost'
  <1>. SUFFICES ASSUME TypeOK, WorksOnOne, NothingIsLost, [Next]_vars PROVE NothingIsLost'
    OBVIOUS
  <1>1. ASSUME NEW t \in Threads, NewCamera(t) PROVE NothingIsLost'
    BY <1>1, CameraConstants
    DEF NewCamera, At, threads, streams, history, TypeOK, WorksOnOne, NothingIsLost, Running,
        CameraConstants
  <1>2. ASSUME NEW t \in Threads, Close(t) PROVE NothingIsLost'
    BY <1>2, CameraConstants
    DEF Close, At, Goto, streams, history, TypeOK, WorksOnOne, NothingIsLost, Running,
        CameraConstants
  <1>3. ASSUME NEW t \in Threads, Destroy(t) PROVE NothingIsLost'
    BY <1>3, CameraConstants
    DEF Destroy, At, Goto, streams, history, TypeOK, WorksOnOne, NothingIsLost, Running,
        CameraConstants
  <1>4. ASSUME NEW t \in Threads, StartDecoder(t) PROVE NothingIsLost'
    BY <1>4, CameraConstants
    DEF StartDecoder, At, Goto, StartFails, UpdateStatus, Return, registry, TypeOK, WorksOnOne,
        NothingIsLost, Running, CameraConstants
  <1>5. ASSUME NEW t \in Threads, StartStream(t) PROVE NothingIsLost'
    BY <1>5, CameraConstants
    DEF StartStream, At, StreamOpened, StreamRefused, StartFails, UpdateStatus, Goto, Return,
        registry, history, TypeOK, WorksOnOne, NothingIsLost, Running, CameraConstants
  <1>6. ASSUME NEW t \in Threads, Install(t) PROVE NothingIsLost'
    BY <1>6, CameraConstants
    DEF Install, At, Goto, registry, streams, TypeOK, WorksOnOne, NothingIsLost, Running,
        CameraConstants
  <1>7. ASSUME NEW t \in Threads, Connect(t) PROVE NothingIsLost'
    BY <1>7, CameraConstants
    DEF Connect, At, Goto, Return, UpdateStatus, registry, streams, history, TypeOK, WorksOnOne,
        NothingIsLost, Running, CameraConstants
  <1>8. ASSUME NEW t \in Threads, TakeSession(t) PROVE NothingIsLost'
    BY <1>8, CameraConstants
    DEF TakeSession, At, Goto, registry, streams, TypeOK, WorksOnOne, NothingIsLost, Running,
        CameraConstants
  <1>9. ASSUME NEW t \in Threads, CloseSessions(t) PROVE NothingIsLost'
    BY <1>9, CameraConstants
    DEF CloseSessions, At, Goto, registry, history, TypeOK, WorksOnOne, NothingIsLost, Running,
        CameraConstants
  <1>10. ASSUME NEW t \in Threads, Disconnect(t) PROVE NothingIsLost'
    BY <1>10, CameraConstants
    DEF Disconnect, At, Goto, Return, UpdateStatus, registry, streams, history, TypeOK,
        WorksOnOne, NothingIsLost, Running, CameraConstants
  <1>11. ASSUME NEW t \in Threads, NEW i \in Instances, Start(t, i) PROVE NothingIsLost'
    BY <1>11, CameraConstants
    DEF Start, At, Goto, UpdateStatus, registry, streams, TypeOK, WorksOnOne, NothingIsLost,
        Running, CameraConstants
  <1>12. ASSUME NEW t \in Threads, NEW i \in Instances, Stop(t, i) PROVE NothingIsLost'
    BY <1>12, CameraConstants
    DEF Stop, At, Goto, registry, streams, history, TypeOK, WorksOnOne, NothingIsLost, Running,
        CameraConstants
  <1>13. ASSUME NEW s \in Sessions, ReportError(s) PROVE NothingIsLost'
    BY <1>13, CameraConstants
    DEF ReportError, registry, threads, history, TypeOK, WorksOnOne, NothingIsLost, Running,
        CameraConstants
  <1>14. ASSUME NEW s \in Sessions, StreamEnds(s) PROVE NothingIsLost'
    BY <1>14, CameraConstants
    DEF StreamEnds, registry, threads, history, TypeOK, WorksOnOne, NothingIsLost, Running,
        CameraConstants
  <1>15. ASSUME NEW s \in Sessions, DecodeFails(s) PROVE NothingIsLost'
    BY <1>15, CameraConstants
    DEF DecodeFails, UpdateStatus, registry, threads, history, TypeOK, WorksOnOne,
        NothingIsLost, Running, CameraConstants
  <1>16. ASSUME NEW s \in Sessions, Drained(s) PROVE NothingIsLost'
    BY <1>16, CameraConstants
    DEF Drained, registry, threads, history, TypeOK, WorksOnOne, NothingIsLost, Running,
        CameraConstants
  <1>17. ASSUME NEW s \in Sessions, WatchErrors(s) PROVE NothingIsLost'
    BY <1>17, CameraConstants
    DEF WatchErrors, UpdateStatus, registry, threads, history, TypeOK, WorksOnOne,
        NothingIsLost, Running, CameraConstants
  <1>18. CASE UNCHANGED vars
    BY <1>18
    DEF vars, registry, threads, streams, history, TypeOK, WorksOnOne, NothingIsLost, Running,
        CameraConstants
  <1>. QED
    BY <1>1, <1>2, <1>3, <1>4, <1>5, <1>6, <1>7, <1>8, <1>9, <1>10, <1>11, <1>12, <1>13, <1>14,
       <1>15, <1>16, <1>17, <1>18
    DEF Next

LEMMA EmptyStep ==
  TypeOK /\ WorksOnOne /\ StoppedIsEmpty /\ [Next]_vars => StoppedIsEmpty'
  <1>. SUFFICES ASSUME TypeOK, WorksOnOne, StoppedIsEmpty, [Next]_vars PROVE StoppedIsEmpty'
    OBVIOUS
  <1>1. ASSUME NEW t \in Threads, NewCamera(t) PROVE StoppedIsEmpty'
    BY <1>1, CameraConstants
    DEF NewCamera, At, threads, streams, history, TypeOK, WorksOnOne, StoppedIsEmpty, Starting,
        Stopping, CameraConstants
  <1>2. ASSUME NEW t \in Threads, Close(t) PROVE StoppedIsEmpty'
    BY <1>2, CameraConstants
    DEF Close, At, Goto, streams, history, TypeOK, WorksOnOne, StoppedIsEmpty, Starting,
        Stopping, CameraConstants
  <1>3. ASSUME NEW t \in Threads, Destroy(t) PROVE StoppedIsEmpty'
    BY <1>3, CameraConstants
    DEF Destroy, At, Goto, streams, history, TypeOK, WorksOnOne, StoppedIsEmpty, Starting,
        Stopping, CameraConstants
  <1>4. ASSUME NEW t \in Threads, StartDecoder(t) PROVE StoppedIsEmpty'
    BY <1>4, CameraConstants
    DEF StartDecoder, At, Goto, StartFails, UpdateStatus, Return, registry, TypeOK, WorksOnOne,
        StoppedIsEmpty, Starting, Stopping, CameraConstants
  <1>5. ASSUME NEW t \in Threads, StartStream(t) PROVE StoppedIsEmpty'
    BY <1>5, CameraConstants
    DEF StartStream, At, StreamOpened, StreamRefused, StartFails, UpdateStatus, Goto, Return,
        registry, history, TypeOK, WorksOnOne, StoppedIsEmpty, Starting, Stopping,
        CameraConstants
  <1>6. ASSUME NEW t \in Threads, Install(t) PROVE StoppedIsEmpty'
    BY <1>6, CameraConstants
    DEF Install, At, Goto, registry, streams, TypeOK, WorksOnOne, StoppedIsEmpty, Starting,
        Stopping, CameraConstants
  <1>7. ASSUME NEW t \in Threads, Connect(t) PROVE StoppedIsEmpty'
    BY <1>7, CameraConstants
    DEF Connect, At, Goto, Return, UpdateStatus, registry, streams, history, TypeOK, WorksOnOne,
        StoppedIsEmpty, Starting, Stopping, CameraConstants
  <1>8. ASSUME NEW t \in Threads, TakeSession(t) PROVE StoppedIsEmpty'
    BY <1>8, CameraConstants
    DEF TakeSession, At, Goto, registry, streams, TypeOK, WorksOnOne, StoppedIsEmpty, Starting,
        Stopping, CameraConstants
  <1>9. ASSUME NEW t \in Threads, CloseSessions(t) PROVE StoppedIsEmpty'
    BY <1>9, CameraConstants
    DEF CloseSessions, At, Goto, registry, history, TypeOK, WorksOnOne, StoppedIsEmpty,
        Starting, Stopping, CameraConstants
  <1>10. ASSUME NEW t \in Threads, Disconnect(t) PROVE StoppedIsEmpty'
    BY <1>10, CameraConstants
    DEF Disconnect, At, Goto, Return, UpdateStatus, registry, streams, history, TypeOK,
        WorksOnOne, StoppedIsEmpty, Starting, Stopping, CameraConstants
  <1>11. ASSUME NEW t \in Threads, NEW i \in Instances, Start(t, i) PROVE StoppedIsEmpty'
    BY <1>11, CameraConstants
    DEF Start, At, Goto, UpdateStatus, registry, streams, TypeOK, WorksOnOne, StoppedIsEmpty,
        Starting, Stopping, CameraConstants
  <1>12. ASSUME NEW t \in Threads, NEW i \in Instances, Stop(t, i) PROVE StoppedIsEmpty'
    BY <1>12, CameraConstants
    DEF Stop, At, Goto, registry, streams, history, TypeOK, WorksOnOne, StoppedIsEmpty,
        Starting, Stopping, CameraConstants
  <1>13. ASSUME NEW s \in Sessions, ReportError(s) PROVE StoppedIsEmpty'
    BY <1>13, CameraConstants
    DEF ReportError, registry, threads, history, TypeOK, WorksOnOne, StoppedIsEmpty, Starting,
        Stopping, CameraConstants
  <1>14. ASSUME NEW s \in Sessions, StreamEnds(s) PROVE StoppedIsEmpty'
    BY <1>14, CameraConstants
    DEF StreamEnds, registry, threads, history, TypeOK, WorksOnOne, StoppedIsEmpty, Starting,
        Stopping, CameraConstants
  <1>15. ASSUME NEW s \in Sessions, DecodeFails(s) PROVE StoppedIsEmpty'
    BY <1>15, CameraConstants
    DEF DecodeFails, UpdateStatus, registry, threads, history, TypeOK, WorksOnOne,
        StoppedIsEmpty, Starting, Stopping, CameraConstants
  <1>16. ASSUME NEW s \in Sessions, Drained(s) PROVE StoppedIsEmpty'
    BY <1>16, CameraConstants
    DEF Drained, registry, threads, history, TypeOK, WorksOnOne, StoppedIsEmpty, Starting,
        Stopping, CameraConstants
  <1>17. ASSUME NEW s \in Sessions, WatchErrors(s) PROVE StoppedIsEmpty'
    BY <1>17, CameraConstants
    DEF WatchErrors, UpdateStatus, registry, threads, history, TypeOK, WorksOnOne,
        StoppedIsEmpty, Starting, Stopping, CameraConstants
  <1>18. CASE UNCHANGED vars
    BY <1>18
    DEF vars, registry, threads, streams, history, TypeOK, WorksOnOne, StoppedIsEmpty, Starting,
        Stopping, CameraConstants
  <1>. QED
    BY <1>1, <1>2, <1>3, <1>4, <1>5, <1>6, <1>7, <1>8, <1>9, <1>10, <1>11, <1>12, <1>13, <1>14,
       <1>15, <1>16, <1>17, <1>18
    DEF Next

LEMMA ServedStep ==
  TypeOK /\ WorksOnOne /\ StoppedIsEmpty /\ StartedIsServed /\ [Next]_vars => StartedIsServed'
  <1>. SUFFICES ASSUME TypeOK, WorksOnOne, StoppedIsEmpty, StartedIsServed, [Next]_vars
                PROVE  StartedIsServed'
    OBVIOUS
  <1>1. ASSUME NEW t \in Threads, NewCamera(t) PROVE StartedIsServed'
    BY <1>1, CameraConstants
    DEF NewCamera, At, threads, streams, history, TypeOK, WorksOnOne, StoppedIsEmpty,
        StartedIsServed, Starting, CameraConstants
  <1>2. ASSUME NEW t \in Threads, Close(t) PROVE StartedIsServed'
    BY <1>2, CameraConstants
    DEF Close, At, Goto, streams, history, TypeOK, WorksOnOne, StoppedIsEmpty, StartedIsServed,
        Starting, CameraConstants
  <1>3. ASSUME NEW t \in Threads, Destroy(t) PROVE StartedIsServed'
    BY <1>3, CameraConstants
    DEF Destroy, At, Goto, streams, history, TypeOK, WorksOnOne, StoppedIsEmpty,
        StartedIsServed, Starting, CameraConstants
  <1>4. ASSUME NEW t \in Threads, StartDecoder(t) PROVE StartedIsServed'
    BY <1>4, CameraConstants
    DEF StartDecoder, At, Goto, StartFails, UpdateStatus, Return, registry, TypeOK, WorksOnOne,
        StoppedIsEmpty, StartedIsServed, Starting, CameraConstants
  <1>5. ASSUME NEW t \in Threads, StartStream(t) PROVE StartedIsServed'
    BY <1>5, CameraConstants
    DEF StartStream, At, StreamOpened, StreamRefused, StartFails, UpdateStatus, Goto, Return,
        registry, history, TypeOK, WorksOnOne, StoppedIsEmpty, StartedIsServed, Starting,
        CameraConstants
  <1>6. ASSUME NEW t \in Threads, Install(t) PROVE StartedIsServed'
    BY <1>6, CameraConstants
    DEF Install, At, Goto, registry, streams, TypeOK, WorksOnOne, StoppedIsEmpty,
        StartedIsServed, Starting, CameraConstants
  <1>7. ASSUME NEW t \in Threads, Connect(t) PROVE StartedIsServed'
    BY <1>7, CameraConstants
    DEF Connect, At, Goto, Return, UpdateStatus, registry, streams, history, TypeOK, WorksOnOne,
        StoppedIsEmpty, StartedIsServed, Starting, CameraConstants
  <1>8. ASSUME NEW t \in Threads, TakeSession(t) PROVE StartedIsServed'
    BY <1>8, CameraConstants
    DEF TakeSession, At, Goto, registry, streams, TypeOK, WorksOnOne, StoppedIsEmpty,
        StartedIsServed, Starting, CameraConstants
  <1>9. ASSUME NEW t \in Threads, CloseSessions(t) PROVE StartedIsServed'
    BY <1>9, CameraConstants
    DEF CloseSessions, At, Goto, registry, history, TypeOK, WorksOnOne, StoppedIsEmpty,
        StartedIsServed, Starting, CameraConstants
  <1>10. ASSUME NEW t \in Threads, Disconnect(t) PROVE StartedIsServed'
    BY <1>10, CameraConstants
    DEF Disconnect, At, Goto, Return, UpdateStatus, registry, streams, history, TypeOK,
        WorksOnOne, StoppedIsEmpty, StartedIsServed, Starting, CameraConstants
  <1>11. ASSUME NEW t \in Threads, NEW i \in Instances, Start(t, i) PROVE StartedIsServed'
    BY <1>11, CameraConstants
    DEF Start, At, Goto, UpdateStatus, registry, streams, TypeOK, WorksOnOne, StoppedIsEmpty,
        StartedIsServed, Starting, CameraConstants
  <1>12. ASSUME NEW t \in Threads, NEW i \in Instances, Stop(t, i) PROVE StartedIsServed'
    BY <1>12, CameraConstants
    DEF Stop, At, Goto, registry, streams, history, TypeOK, WorksOnOne, StoppedIsEmpty,
        StartedIsServed, Starting, CameraConstants
  <1>13. ASSUME NEW s \in Sessions, ReportError(s) PROVE StartedIsServed'
    BY <1>13, CameraConstants
    DEF ReportError, registry, threads, history, TypeOK, WorksOnOne, StoppedIsEmpty,
        StartedIsServed, Starting, CameraConstants
  <1>14. ASSUME NEW s \in Sessions, StreamEnds(s) PROVE StartedIsServed'
    BY <1>14, CameraConstants
    DEF StreamEnds, registry, threads, history, TypeOK, WorksOnOne, StoppedIsEmpty,
        StartedIsServed, Starting, CameraConstants
  <1>15. ASSUME NEW s \in Sessions, DecodeFails(s) PROVE StartedIsServed'
    BY <1>15, CameraConstants
    DEF DecodeFails, UpdateStatus, registry, threads, history, TypeOK, WorksOnOne,
        StoppedIsEmpty, StartedIsServed, Starting, CameraConstants
  <1>16. ASSUME NEW s \in Sessions, Drained(s) PROVE StartedIsServed'
    BY <1>16, CameraConstants
    DEF Drained, registry, threads, history, TypeOK, WorksOnOne, StoppedIsEmpty,
        StartedIsServed, Starting, CameraConstants
  <1>17. ASSUME NEW s \in Sessions, WatchErrors(s) PROVE StartedIsServed'
    BY <1>17, CameraConstants
    DEF WatchErrors, UpdateStatus, registry, threads, history, TypeOK, WorksOnOne,
        StoppedIsEmpty, StartedIsServed, Starting, CameraConstants
  <1>18. CASE UNCHANGED vars
    BY <1>18
    DEF vars, registry, threads, streams, history, TypeOK, WorksOnOne, StoppedIsEmpty,
        StartedIsServed, Starting, CameraConstants
  <1>. QED
    BY <1>1, <1>2, <1>3, <1>4, <1>5, <1>6, <1>7, <1>8, <1>9, <1>10, <1>11, <1>12, <1>13, <1>14,
       <1>15, <1>16, <1>17, <1>18
    DEF Next

LEMMA StatusStep ==
  TypeOK /\ WorksOnOne /\ StoppedIsEmpty /\ StartedIsServed /\ StatusOutsideCalls /\ [Next]_vars => StatusOutsideCalls'
  <1>. SUFFICES ASSUME TypeOK, WorksOnOne, StoppedIsEmpty, StartedIsServed, StatusOutsideCalls, [Next]_vars
                PROVE  StatusOutsideCalls'
    OBVIOUS
  <1>1. ASSUME NEW t \in Threads, NewCamera(t) PROVE StatusOutsideCalls'
    BY <1>1, CameraConstants
    DEF NewCamera, At, threads, streams, history, TypeOK, WorksOnOne, StoppedIsEmpty,
        StartedIsServed, StatusOutsideCalls, Starting, Ending, CameraConstants
  <1>2. ASSUME NEW t \in Threads, Close(t) PROVE StatusOutsideCalls'
    BY <1>2, CameraConstants
    DEF Close, At, Goto, streams, history, TypeOK, WorksOnOne, StoppedIsEmpty, StartedIsServed,
        StatusOutsideCalls, Starting, Ending, CameraConstants
  <1>3. ASSUME NEW t \in Threads, Destroy(t) PROVE StatusOutsideCalls'
    BY <1>3, CameraConstants
    DEF Destroy, At, Goto, streams, history, TypeOK, WorksOnOne, StoppedIsEmpty,
        StartedIsServed, StatusOutsideCalls, Starting, Ending, CameraConstants
  <1>4. ASSUME NEW t \in Threads, StartDecoder(t) PROVE StatusOutsideCalls'
    BY <1>4, CameraConstants
    DEF StartDecoder, At, Goto, StartFails, UpdateStatus, Return, registry, TypeOK, WorksOnOne,
        StoppedIsEmpty, StartedIsServed, StatusOutsideCalls, Starting, Ending, CameraConstants
  <1>5. ASSUME NEW t \in Threads, StartStream(t) PROVE StatusOutsideCalls'
    BY <1>5, CameraConstants
    DEF StartStream, At, StreamOpened, StreamRefused, StartFails, UpdateStatus, Goto, Return,
        registry, history, TypeOK, WorksOnOne, StoppedIsEmpty, StartedIsServed,
        StatusOutsideCalls, Starting, Ending, CameraConstants
  <1>6. ASSUME NEW t \in Threads, Install(t) PROVE StatusOutsideCalls'
    BY <1>6, CameraConstants
    DEF Install, At, Goto, registry, streams, TypeOK, WorksOnOne, StoppedIsEmpty,
        StartedIsServed, StatusOutsideCalls, Starting, Ending, CameraConstants
  <1>7. ASSUME NEW t \in Threads, Connect(t) PROVE StatusOutsideCalls'
    BY <1>7, CameraConstants
    DEF Connect, At, Goto, Return, UpdateStatus, registry, streams, history, TypeOK, WorksOnOne,
        StoppedIsEmpty, StartedIsServed, StatusOutsideCalls, Starting, Ending, CameraConstants
  <1>8. ASSUME NEW t \in Threads, TakeSession(t) PROVE StatusOutsideCalls'
    BY <1>8, CameraConstants
    DEF TakeSession, At, Goto, registry, streams, TypeOK, WorksOnOne, StoppedIsEmpty,
        StartedIsServed, StatusOutsideCalls, Starting, Ending, CameraConstants
  <1>9. ASSUME NEW t \in Threads, CloseSessions(t) PROVE StatusOutsideCalls'
    BY <1>9, CameraConstants
    DEF CloseSessions, At, Goto, registry, history, TypeOK, WorksOnOne, StoppedIsEmpty,
        StartedIsServed, StatusOutsideCalls, Starting, Ending, CameraConstants
  <1>10. ASSUME NEW t \in Threads, Disconnect(t) PROVE StatusOutsideCalls'
    BY <1>10, CameraConstants
    DEF Disconnect, At, Goto, Return, UpdateStatus, registry, streams, history, TypeOK,
        WorksOnOne, StoppedIsEmpty, StartedIsServed, StatusOutsideCalls, Starting, Ending,
        CameraConstants
  <1>11. ASSUME NEW t \in Threads, NEW i \in Instances, Start(t, i) PROVE StatusOutsideCalls'
    BY <1>11, CameraConstants
    DEF Start, At, Goto, UpdateStatus, registry, streams, TypeOK, WorksOnOne, StoppedIsEmpty,
        StartedIsServed, StatusOutsideCalls, Starting, Ending, CameraConstants
  <1>12. ASSUME NEW t \in Threads, NEW i \in Instances, Stop(t, i) PROVE StatusOutsideCalls'
    BY <1>12, CameraConstants
    DEF Stop, At, Goto, registry, streams, history, TypeOK, WorksOnOne, StoppedIsEmpty,
        StartedIsServed, StatusOutsideCalls, Starting, Ending, CameraConstants
  <1>13. ASSUME NEW s \in Sessions, ReportError(s) PROVE StatusOutsideCalls'
    BY <1>13, CameraConstants
    DEF ReportError, registry, threads, history, TypeOK, WorksOnOne, StoppedIsEmpty,
        StartedIsServed, StatusOutsideCalls, Starting, Ending, CameraConstants
  <1>14. ASSUME NEW s \in Sessions, StreamEnds(s) PROVE StatusOutsideCalls'
    BY <1>14, CameraConstants
    DEF StreamEnds, registry, threads, history, TypeOK, WorksOnOne, StoppedIsEmpty,
        StartedIsServed, StatusOutsideCalls, Starting, Ending, CameraConstants
  <1>15. ASSUME NEW s \in Sessions, DecodeFails(s) PROVE StatusOutsideCalls'
    BY <1>15, CameraConstants
    DEF DecodeFails, UpdateStatus, registry, threads, history, TypeOK, WorksOnOne,
        StoppedIsEmpty, StartedIsServed, StatusOutsideCalls, Starting, Ending, CameraConstants
  <1>16. ASSUME NEW s \in Sessions, Drained(s) PROVE StatusOutsideCalls'
    BY <1>16, CameraConstants
    DEF Drained, registry, threads, history, TypeOK, WorksOnOne, StoppedIsEmpty,
        StartedIsServed, StatusOutsideCalls, Starting, Ending, CameraConstants
  <1>17. ASSUME NEW s \in Sessions, WatchErrors(s) PROVE StatusOutsideCalls'
    BY <1>17, CameraConstants
    DEF WatchErrors, UpdateStatus, registry, threads, history, TypeOK, WorksOnOne,
        StoppedIsEmpty, StartedIsServed, StatusOutsideCalls, Starting, Ending, CameraConstants
  <1>18. CASE UNCHANGED vars
    BY <1>18
    DEF vars, registry, threads, streams, history, TypeOK, WorksOnOne, StoppedIsEmpty,
        StartedIsServed, StatusOutsideCalls, Starting, Ending, CameraConstants
  <1>. QED
    BY <1>1, <1>2, <1>3, <1>4, <1>5, <1>6, <1>7, <1>8, <1>9, <1>10, <1>11, <1>12, <1>13, <1>14,
       <1>15, <1>16, <1>17, <1>18
    DEF Next

\* A callback is registered under an id that no table holds, and in its table only.
LEMMA CallbacksStart == Callbacks!Init => CallbacksInv
  BY CameraConstants
  DEF Callbacks!Init, Callbacks!Idle, Callbacks!Id, CallbacksInv, Callbacks!TypeOK, IdsAreGivenOut,
      RegistrationsLast, Callbacks!RegistrationsLast, CameraConstants

LEMMA CallbackTypeStep ==
  Callbacks!TypeOK /\ [Callbacks!Next]_Callbacks!vars => Callbacks!TypeOK'
  <1>. SUFFICES ASSUME Callbacks!TypeOK, [Callbacks!Next]_Callbacks!vars PROVE Callbacks!TypeOK'
    OBVIOUS
  <1>1. ASSUME NEW kind \in Kinds, NEW channel \in Channels \cup {AnyChannel},
               Callbacks!Register(kind, channel)
        PROVE  Callbacks!TypeOK'
    BY <1>1, CameraConstants
    DEF Callbacks!Register, Callbacks!NewId, Callbacks!Put, Callbacks!TypeOK, Callbacks!Id,
        CameraConstants
  <1>2. ASSUME NEW h \in held, Callbacks!Unregister(h[1], h[2]) PROVE Callbacks!TypeOK'
    BY <1>2, CameraConstants
    DEF Callbacks!Unregister, Callbacks!TypeOK, Callbacks!Id, CameraConstants
  <1>3. ASSUME NEW e \in Emitters, NEW what \in Kinds, NEW channel \in Channels,
               Callbacks!Emit(e, what, channel)
        PROVE  Callbacks!TypeOK'
    BY <1>3, CameraConstants
    DEF Callbacks!Emit, Callbacks!Hears, Callbacks!Tables, Callbacks!TypeOK, Callbacks!Id,
        CameraConstants
  <1>4. ASSUME NEW e \in Emitters, Callbacks!Call(e) PROVE Callbacks!TypeOK'
    BY <1>4, CameraConstants
    DEF Callbacks!Call, Callbacks!TypeOK, Callbacks!Id, CameraConstants
  <1>5. ASSUME NEW e \in Emitters, Callbacks!EmitEnds(e) PROVE Callbacks!TypeOK'
    BY <1>5, CameraConstants
    DEF Callbacks!EmitEnds, Callbacks!Idle, Callbacks!TypeOK, Callbacks!Id, CameraConstants
  <1>6. CASE UNCHANGED Callbacks!vars
    BY <1>6
    DEF Callbacks!vars, Callbacks!TypeOK, Callbacks!Id, CameraConstants
  <1>. QED
    BY <1>1, <1>2, <1>3, <1>4, <1>5, <1>6
    DEF Callbacks!Next

LEMMA IdsStep ==
  Callbacks!TypeOK /\ IdsAreGivenOut /\ [Callbacks!Next]_Callbacks!vars => IdsAreGivenOut'
  <1>. SUFFICES ASSUME Callbacks!TypeOK, IdsAreGivenOut, [Callbacks!Next]_Callbacks!vars
                PROVE  IdsAreGivenOut'
    OBVIOUS
  <1>1. ASSUME NEW kind \in Kinds, NEW channel \in Channels \cup {AnyChannel},
               Callbacks!Register(kind, channel)
        PROVE  IdsAreGivenOut'
    BY <1>1, CameraConstants
    DEF Callbacks!Register, Callbacks!NewId, Callbacks!Put, Callbacks!TypeOK, Callbacks!Id,
        IdsAreGivenOut, CameraConstants
  <1>2. ASSUME NEW h \in held, Callbacks!Unregister(h[1], h[2]) PROVE IdsAreGivenOut'
    BY <1>2, CameraConstants
    DEF Callbacks!Unregister, Callbacks!TypeOK, Callbacks!Id, IdsAreGivenOut, CameraConstants
  <1>3. ASSUME NEW e \in Emitters, NEW what \in Kinds, NEW channel \in Channels,
               Callbacks!Emit(e, what, channel)
        PROVE  IdsAreGivenOut'
    BY <1>3, CameraConstants
    DEF Callbacks!Emit, Callbacks!Hears, Callbacks!Tables, Callbacks!TypeOK, Callbacks!Id,
        IdsAreGivenOut, CameraConstants
  <1>4. ASSUME NEW e \in Emitters, Callbacks!Call(e) PROVE IdsAreGivenOut'
    BY <1>4, CameraConstants
    DEF Callbacks!Call, Callbacks!TypeOK, Callbacks!Id, IdsAreGivenOut, CameraConstants
  <1>5. ASSUME NEW e \in Emitters, Callbacks!EmitEnds(e) PROVE IdsAreGivenOut'
    BY <1>5, CameraConstants
    DEF Callbacks!EmitEnds, Callbacks!Idle, Callbacks!TypeOK, Callbacks!Id, IdsAreGivenOut,
        CameraConstants
  <1>6. CASE UNCHANGED Callbacks!vars
    BY <1>6
    DEF Callbacks!vars, Callbacks!TypeOK, Callbacks!Id, IdsAreGivenOut, CameraConstants
  <1>. QED
    BY <1>1, <1>2, <1>3, <1>4, <1>5, <1>6
    DEF Callbacks!Next

LEMMA RegistrationsStep ==
  Callbacks!TypeOK /\ IdsAreGivenOut /\ RegistrationsLast /\ [Callbacks!Next]_Callbacks!vars => RegistrationsLast'
  <1>. SUFFICES ASSUME Callbacks!TypeOK, IdsAreGivenOut, RegistrationsLast, [Callbacks!Next]_Callbacks!vars
                PROVE  RegistrationsLast'
    OBVIOUS
  <1>1. ASSUME NEW kind \in Kinds, NEW channel \in Channels \cup {AnyChannel},
               Callbacks!Register(kind, channel)
        PROVE  RegistrationsLast'
    <2>. DEFINE new == <<kind, nextCallback>>
    <2>1. new \notin DOMAIN callbacks
      BY CameraConstants DEF IdsAreGivenOut, Callbacks!TypeOK, CameraConstants
    <2>2. /\ DOMAIN callbacks' = DOMAIN callbacks \cup {new} /\ callbacks'[new] = channel
          /\ \A k \in DOMAIN callbacks : callbacks'[k] = callbacks[k]
      BY <1>1, <2>1 DEF Callbacks!Register, Callbacks!NewId, Callbacks!Put
    <2>3. held' = held \cup {<<kind, nextCallback, channel>>}
      BY <1>1 DEF Callbacks!Register, Callbacks!NewId
    <2>4. new[1] = kind /\ new[2] = nextCallback
      OBVIOUS
    <2>. QED
      BY <2>2, <2>3, <2>4 DEF RegistrationsLast, Callbacks!RegistrationsLast
  <1>2. ASSUME NEW h \in held, Callbacks!Unregister(h[1], h[2]) PROVE RegistrationsLast'
    <2>. DEFINE gone == <<h[1], h[2]>>
    <2>1. /\ DOMAIN callbacks' = DOMAIN callbacks \ {gone}
          /\ \A k \in DOMAIN callbacks \ {gone} : callbacks'[k] = callbacks[k]
          /\ held' = {other \in held : <<other[1], other[2]>> # gone}
      BY <1>2 DEF Callbacks!Unregister
    <2>2. \A k \in DOMAIN callbacks : k = <<k[1], k[2]>>
      BY DEF Callbacks!TypeOK
    <2>. QED
      BY <2>1, <2>2 DEF RegistrationsLast, Callbacks!RegistrationsLast
  <1>3. ASSUME NEW e \in Emitters, NEW what \in Kinds, NEW channel \in Channels,
               Callbacks!Emit(e, what, channel)
        PROVE  RegistrationsLast'
    BY <1>3, CameraConstants
    DEF Callbacks!Emit, Callbacks!Hears, Callbacks!Tables, Callbacks!TypeOK, Callbacks!Id,
        IdsAreGivenOut, RegistrationsLast, Callbacks!RegistrationsLast, CameraConstants
  <1>4. ASSUME NEW e \in Emitters, Callbacks!Call(e) PROVE RegistrationsLast'
    BY <1>4, CameraConstants
    DEF Callbacks!Call, Callbacks!TypeOK, Callbacks!Id, IdsAreGivenOut, RegistrationsLast,
        Callbacks!RegistrationsLast, CameraConstants
  <1>5. ASSUME NEW e \in Emitters, Callbacks!EmitEnds(e) PROVE RegistrationsLast'
    BY <1>5, CameraConstants
    DEF Callbacks!EmitEnds, Callbacks!Idle, Callbacks!TypeOK, Callbacks!Id, IdsAreGivenOut,
        RegistrationsLast, Callbacks!RegistrationsLast, CameraConstants
  <1>6. CASE UNCHANGED Callbacks!vars
    BY <1>6
    DEF Callbacks!vars, Callbacks!TypeOK, Callbacks!Id, IdsAreGivenOut, RegistrationsLast,
        Callbacks!RegistrationsLast, CameraConstants
  <1>. QED
    BY <1>1, <1>2, <1>3, <1>4, <1>5, <1>6
    DEF Callbacks!Next

\* Every backend is asked, the preferred one first.
LEMMA OrderIsWhole ==
  ASSUME NEW p \in 0..Backends
  PROVE  /\ Resolver!BackendOrder(p) \in Seq(Resolver!Backend)
         /\ Len(Resolver!BackendOrder(p)) = Backends
         /\ \A b \in Resolver!Backend :
              \E i \in 1..Len(Resolver!BackendOrder(p)) : Resolver!BackendOrder(p)[i] = b
  <1>. DEFINE order == Resolver!BackendOrder(p)
  <1>. USE CameraConstants DEF CameraConstants, Resolver!Backend
  <1>1. order \in [1..Backends -> Resolver!Backend]
    BY DEF Resolver!BackendOrder
  <1>2. order \in Seq(Resolver!Backend) /\ Len(order) = Backends
    <2>. HIDE DEF order
    <2>. QED
      BY <1>1
  <1>3. ASSUME NEW b \in Resolver!Backend PROVE \E i \in 1..Backends : order[i] = b
    <2>1. CASE p = 0 \/ b > p
      BY <2>1 DEF Resolver!BackendOrder
    <2>2. CASE p # 0 /\ b = p
      <3>1. order[1] = b /\ 1 \in 1..Backends
        BY <2>2 DEF Resolver!BackendOrder
      <3>. QED
        BY <3>1
    <2>3. CASE p # 0 /\ b < p
      <3>1. order[b + 1] = b /\ b + 1 \in 1..Backends
        BY <2>3 DEF Resolver!BackendOrder
      <3>. QED
        BY <3>1
    <2>. QED
      BY <2>1, <2>2, <2>3
  <1>. QED
    BY <1>2, <1>3

\* The first backend of an order, and those after it.
LEMMA HeadAndTail ==
  ASSUME NEW order \in Seq(Resolver!Backend), order # << >>
  PROVE  /\ Len(order) \in Nat /\ Len(order) >= 1
         /\ Head(order) \in Resolver!Backend
         /\ Tail(order) \in Seq(Resolver!Backend) /\ Len(Tail(order)) = Len(order) - 1
         /\ {order[i] : i \in 1..Len(order)} =
              {Head(order)} \cup {Tail(order)[i] : i \in 1..Len(Tail(order))}
  <1>1. /\ Len(order) \in Nat /\ Len(order) >= 1 /\ Head(order) = order[1]
        /\ Head(order) \in Resolver!Backend
        /\ Tail(order) \in Seq(Resolver!Backend) /\ Len(Tail(order)) = Len(order) - 1
        /\ \A i \in 1..Len(Tail(order)) : Tail(order)[i] = order[i + 1]
    OBVIOUS
  <1>2. \A i \in 1..Len(order) : i = 1 \/ (i - 1 \in 1..Len(Tail(order)) /\ (i - 1) + 1 = i)
    BY <1>1
  <1>3. \A i \in 1..Len(Tail(order)) : i + 1 \in 1..Len(order)
    BY <1>1
  <1>. QED
    BY <1>1, <1>2, <1>3, SMTT(30)

LEMMA ResolverStarts == Resolver!Init => ResolverInv
  <1>. SUFFICES ASSUME Resolver!Init PROVE ResolverInv
    OBVIOUS
  <1>. USE CameraConstants DEF CameraConstants, Resolver!Init
  <1>1. ResolverTypes
    <2>1. preferred \in 0..Backends /\ age \in [Tickets -> 0..TTL]
      OBVIOUS
    <2>2. /\ ticket \in [Tickets -> {"unused", "stored", "taken", "pruned"}]
          /\ step \in [Users -> {"idle", "probe", "codec", "store", "open", "stream", "refused"}]
          /\ via \in [Users -> {"http", "direct"}]
      OBVIOUS
    <2>3. clients \in [Resolver!Backend -> Nat] /\ served \in [Tickets -> Nat]
      OBVIOUS
    <2>4. tried \in [Users -> SUBSET Resolver!Backend]
      OBVIOUS
    <2>5. {late} \subseteq BOOLEAN
      OBVIOUS
    <2>. QED
      BY <2>1, <2>2, <2>3, <2>4, <2>5 DEF ResolverTypes
  <1>2. OrdersTyped /\ HasBackend /\ TakenOnce /\ NoneIsSkipped
    BY DEF OrdersTyped, HasBackend, TakenOnce, NoneIsSkipped
  <1>3. ClientsAreCounted
    <2>1. \A b \in Resolver!Backend : UsersOf(b) = {} /\ clients[b] = 0
      BY DEF Resolver!Using, UsersOf
    <2>. QED
      BY <2>1, FS_EmptySet DEF ClientsAreCounted
  <1>. QED
    BY <1>1, <1>2, <1>3 DEF ResolverInv

LEMMA ResolverTypeStep ==
  ResolverTypes /\ OrdersTyped /\ HasBackend /\ [Resolver!Next]_Resolver!vars => ResolverTypes'
  <1>. SUFFICES ASSUME ResolverTypes, OrdersTyped, HasBackend, [Resolver!Next]_Resolver!vars
                PROVE  ResolverTypes'
    OBVIOUS
  <1>1. ASSUME NEW u \in Users, Resolver!ProbeOpens(u) PROVE ResolverTypes'
    <2>1. Head(todo[u]) \in Resolver!Backend
      BY <1>1, HeadAndTail DEF Resolver!ProbeOpens, Resolver!At, OrdersTyped, HasBackend
    <2>2. clients' \in [Resolver!Backend -> Int]
      BY <1>1, <2>1
      DEF Resolver!ProbeOpens, Resolver!Goto, Resolver!At, Resolver!OpenClient, Resolver!server,
          Resolver!history, ResolverTypes
    <2>. QED
      BY <1>1, <2>1, <2>2, CameraConstants
      DEF Resolver!ProbeOpens, Resolver!Goto, Resolver!At, Resolver!OpenClient, Resolver!server,
          Resolver!history, ResolverTypes, Resolver!Backend, CameraConstants
  <1>2. ASSUME NEW u \in Users, Resolver!ProbeRefused(u) PROVE ResolverTypes'
    <2>1. Head(todo[u]) \in Resolver!Backend
      BY <1>2, HeadAndTail DEF Resolver!ProbeRefused, Resolver!At, OrdersTyped, HasBackend
    <2>2. clients' \in [Resolver!Backend -> Int]
      BY <1>2, <2>1
      DEF Resolver!ProbeRefused, Resolver!Goto, Resolver!At, Resolver!Refuse, Resolver!server,
          Resolver!history, ResolverTypes
    <2>. QED
      BY <1>2, <2>1, <2>2, CameraConstants
      DEF Resolver!ProbeRefused, Resolver!Goto, Resolver!At, Resolver!Refuse, Resolver!server,
          Resolver!history, ResolverTypes, Resolver!Backend, CameraConstants
  <1>3. ASSUME NEW u \in Users, Resolver!CodecFails(u) PROVE ResolverTypes'
    <2>1. Head(todo[u]) \in Resolver!Backend
      BY <1>3, HeadAndTail DEF Resolver!CodecFails, Resolver!At, OrdersTyped, HasBackend
    <2>2. clients' \in [Resolver!Backend -> Int]
      BY <1>3, <2>1
      DEF Resolver!CodecFails, Resolver!Goto, Resolver!At, Resolver!Refuse, Resolver!CloseClient,
          Resolver!server, Resolver!history, ResolverTypes
    <2>. QED
      BY <1>3, <2>1, <2>2, CameraConstants
      DEF Resolver!CodecFails, Resolver!Goto, Resolver!At, Resolver!Refuse, Resolver!CloseClient,
          Resolver!server, Resolver!history, ResolverTypes, Resolver!Backend, CameraConstants
  <1>4. ASSUME NEW u \in Users, Resolver!Codec(u) PROVE ResolverTypes'
    <2>1. Head(todo[u]) \in Resolver!Backend
      BY <1>4, HeadAndTail DEF Resolver!Codec, Resolver!At, OrdersTyped, HasBackend
    <2>2. clients' \in [Resolver!Backend -> Int]
      BY <1>4, <2>1 DEF Resolver!Codec, Resolver!CloseClient, ResolverTypes
    <2>3. preferred' \in 0..Backends
      BY <1>4, <2>1, CameraConstants DEF Resolver!Codec, Resolver!Backend, CameraConstants
    <2>4. step' = [step EXCEPT ![u] = "store"] \/ step' = [step EXCEPT ![u] = "open"]
      BY <1>4 DEF Resolver!Codec, Resolver!Goto
    <2>5. UNCHANGED tried \/ tried' = [tried EXCEPT ![u] = {}]
      BY <1>4 DEF Resolver!Codec
    <2>6. UNCHANGED <<ticket, age, via, served, late>>
      BY <1>4 DEF Resolver!Codec, Resolver!server, Resolver!history
    <2>. QED
      BY <2>2, <2>3, <2>4, <2>5, <2>6 DEF ResolverTypes
  <1>5. ASSUME NEW u \in Users, Resolver!StreamOpens(u) PROVE ResolverTypes'
    <2>1. Head(todo[u]) \in Resolver!Backend
      BY <1>5, HeadAndTail DEF Resolver!StreamOpens, Resolver!At, OrdersTyped, HasBackend
    <2>2. clients' \in [Resolver!Backend -> Int]
      BY <1>5, <2>1
      DEF Resolver!StreamOpens, Resolver!Goto, Resolver!At, Resolver!OpenClient, Resolver!server,
          Resolver!history, ResolverTypes
    <2>. QED
      BY <1>5, <2>1, <2>2, CameraConstants
      DEF Resolver!StreamOpens, Resolver!Goto, Resolver!At, Resolver!OpenClient, Resolver!server,
          Resolver!history, ResolverTypes, Resolver!Backend, CameraConstants
  <1>6. ASSUME NEW u \in Users, Resolver!StreamRefused(u) PROVE ResolverTypes'
    <2>1. Head(todo[u]) \in Resolver!Backend
      BY <1>6, HeadAndTail DEF Resolver!StreamRefused, Resolver!At, OrdersTyped, HasBackend
    <2>2. clients' \in [Resolver!Backend -> Int]
      BY <1>6, <2>1
      DEF Resolver!StreamRefused, Resolver!Goto, Resolver!At, Resolver!Refuse, Resolver!server,
          Resolver!history, ResolverTypes
    <2>. QED
      BY <1>6, <2>1, <2>2, CameraConstants
      DEF Resolver!StreamRefused, Resolver!Goto, Resolver!At, Resolver!Refuse, Resolver!server,
          Resolver!history, ResolverTypes, Resolver!Backend, CameraConstants
  <1>7. ASSUME NEW u \in Users, Resolver!StreamEnds(u) PROVE ResolverTypes'
    <2>1. Head(todo[u]) \in Resolver!Backend
      BY <1>7, HeadAndTail DEF Resolver!StreamEnds, Resolver!At, OrdersTyped, HasBackend
    <2>2. clients' \in [Resolver!Backend -> Int]
      BY <1>7, <2>1
      DEF Resolver!StreamEnds, Resolver!Goto, Resolver!At, Resolver!CloseClient, Resolver!server,
          Resolver!history, ResolverTypes
    <2>. QED
      BY <1>7, <2>1, <2>2, CameraConstants
      DEF Resolver!StreamEnds, Resolver!Goto, Resolver!At, Resolver!CloseClient, Resolver!server,
          Resolver!history, ResolverTypes, Resolver!Backend, CameraConstants
  <1>8. ASSUME NEW u \in Users, Resolver!Resolve(u) PROVE ResolverTypes'
    BY <1>8, CameraConstants
    DEF Resolver!Resolve, Resolver!Ask, Resolver!Goto, Resolver!At, Resolver!server,
        Resolver!history, ResolverTypes, CameraConstants
  <1>9. ASSUME NEW u \in Users, Resolver!HTTPFails(u) PROVE ResolverTypes'
    BY <1>9, CameraConstants
    DEF Resolver!HTTPFails, Resolver!ResolveDirectly, Resolver!Ask, Resolver!Goto,
        Resolver!server, Resolver!history, ResolverTypes, CameraConstants
  <1>10. ASSUME NEW u \in Users, Resolver!GiveUp(u) PROVE ResolverTypes'
    BY <1>10, CameraConstants
    DEF Resolver!GiveUp, Resolver!Goto, Resolver!At, Resolver!server, Resolver!history,
        ResolverTypes, CameraConstants
  <1>11. ASSUME NEW u \in Users, Resolver!Exhausted(u) PROVE ResolverTypes'
    BY <1>11, CameraConstants
    DEF Resolver!Exhausted, Resolver!Goto, Resolver!server, Resolver!history, ResolverTypes,
        CameraConstants
  <1>12. ASSUME NEW u \in Users, Resolver!StoreSession(u) PROVE ResolverTypes'
    BY <1>12, CameraConstants
    DEF Resolver!StoreSession, Resolver!Goto, Resolver!At, Resolver!AfterPrune, Resolver!Pruned,
        Resolver!history, ResolverTypes, CameraConstants
  <1>13. ASSUME NEW u \in Users, NEW s \in Tickets,
               Resolver!TakeSession(u, s)
        PROVE  ResolverTypes'
    BY <1>13, CameraConstants
    DEF Resolver!TakeSession, Resolver!Ask, Resolver!Goto, Resolver!At, Resolver!AfterPrune,
        Resolver!Pruned, ResolverTypes, CameraConstants
  <1>14. CASE Resolver!Unauthorized
    BY <1>14, CameraConstants
    DEF Resolver!Unauthorized, Resolver!AfterPrune, Resolver!Pruned, Resolver!request,
        Resolver!history, ResolverTypes, CameraConstants
  <1>15. CASE Resolver!Tick
    BY <1>15, CameraConstants
    DEF Resolver!Tick, Resolver!request, Resolver!history, ResolverTypes, CameraConstants
  <1>16. CASE UNCHANGED Resolver!vars
    BY <1>16
    DEF Resolver!vars, Resolver!server, Resolver!request, Resolver!history, ResolverTypes,
        CameraConstants
  <1>. QED
    BY <1>1, <1>2, <1>3, <1>4, <1>5, <1>6, <1>7, <1>8, <1>9, <1>10, <1>11, <1>12, <1>13, <1>14,
       <1>15, <1>16
    DEF Resolver!Next

LEMMA OrdersStep ==
  ResolverTypes /\ OrdersTyped /\ HasBackend /\ [Resolver!Next]_Resolver!vars => OrdersTyped'
  <1>. SUFFICES ASSUME ResolverTypes, OrdersTyped, HasBackend, [Resolver!Next]_Resolver!vars
                PROVE  OrdersTyped'
    OBVIOUS
  <1>1. ASSUME NEW u \in Users, Resolver!Codec(u) PROVE OrdersTyped'
    <2>1. Head(todo[u]) \in 0..Backends
      BY <1>1, CameraConstants, HeadAndTail
      DEF Resolver!Codec, Resolver!At, OrdersTyped, HasBackend, Resolver!Backend, CameraConstants
    <2>2. UNCHANGED todo \/ todo' = [todo EXCEPT ![u] = Resolver!BackendOrder(Head(todo[u]))]
      BY <1>1 DEF Resolver!Codec
    <2>3. Resolver!BackendOrder(Head(todo[u])) \in Seq(Resolver!Backend)
      BY <2>1, OrderIsWhole
    <2>4. Len(Resolver!BackendOrder(Head(todo[u]))) <= Backends
      BY <2>1, OrderIsWhole, CameraConstants DEF CameraConstants
    <2>. QED
      BY <2>2, <2>3, <2>4 DEF OrdersTyped
  <1>2. ASSUME NEW u \in Users, Resolver!Resolve(u) PROVE OrdersTyped'
    BY <1>2, CameraConstants, OrderIsWhole, HeadAndTail
    DEF Resolver!Resolve, Resolver!Ask, Resolver!Goto, Resolver!At, Resolver!server,
        Resolver!history, ResolverTypes, OrdersTyped, HasBackend, CameraConstants
  <1>3. ASSUME NEW u \in Users, Resolver!HTTPFails(u) PROVE OrdersTyped'
    BY <1>3, CameraConstants, OrderIsWhole, HeadAndTail
    DEF Resolver!HTTPFails, Resolver!ResolveDirectly, Resolver!Ask, Resolver!Goto,
        Resolver!server, Resolver!history, ResolverTypes, OrdersTyped, HasBackend,
        CameraConstants
  <1>4. ASSUME NEW u \in Users, Resolver!GiveUp(u) PROVE OrdersTyped'
    BY <1>4, CameraConstants, OrderIsWhole, HeadAndTail
    DEF Resolver!GiveUp, Resolver!Goto, Resolver!At, Resolver!server, Resolver!history,
        ResolverTypes, OrdersTyped, HasBackend, CameraConstants
  <1>5. ASSUME NEW u \in Users, Resolver!ProbeOpens(u) PROVE OrdersTyped'
    BY <1>5, CameraConstants, OrderIsWhole, HeadAndTail
    DEF Resolver!ProbeOpens, Resolver!Goto, Resolver!At, Resolver!OpenClient, Resolver!server,
        Resolver!history, ResolverTypes, OrdersTyped, HasBackend, CameraConstants
  <1>6. ASSUME NEW u \in Users, Resolver!ProbeRefused(u) PROVE OrdersTyped'
    BY <1>6, CameraConstants, OrderIsWhole, HeadAndTail
    DEF Resolver!ProbeRefused, Resolver!Goto, Resolver!At, Resolver!Refuse, Resolver!server,
        Resolver!history, ResolverTypes, OrdersTyped, HasBackend, CameraConstants
  <1>7. ASSUME NEW u \in Users, Resolver!CodecFails(u) PROVE OrdersTyped'
    BY <1>7, CameraConstants, OrderIsWhole, HeadAndTail
    DEF Resolver!CodecFails, Resolver!Goto, Resolver!At, Resolver!Refuse, Resolver!CloseClient,
        Resolver!server, Resolver!history, ResolverTypes, OrdersTyped, HasBackend,
        CameraConstants
  <1>8. ASSUME NEW u \in Users, Resolver!StreamOpens(u) PROVE OrdersTyped'
    BY <1>8, CameraConstants, OrderIsWhole, HeadAndTail
    DEF Resolver!StreamOpens, Resolver!Goto, Resolver!At, Resolver!OpenClient, Resolver!server,
        Resolver!history, ResolverTypes, OrdersTyped, HasBackend, CameraConstants
  <1>9. ASSUME NEW u \in Users, Resolver!StreamRefused(u) PROVE OrdersTyped'
    BY <1>9, CameraConstants, OrderIsWhole, HeadAndTail
    DEF Resolver!StreamRefused, Resolver!Goto, Resolver!At, Resolver!Refuse, Resolver!server,
        Resolver!history, ResolverTypes, OrdersTyped, HasBackend, CameraConstants
  <1>10. ASSUME NEW u \in Users, Resolver!StreamEnds(u) PROVE OrdersTyped'
    BY <1>10, CameraConstants, OrderIsWhole, HeadAndTail
    DEF Resolver!StreamEnds, Resolver!Goto, Resolver!At, Resolver!CloseClient, Resolver!server,
        Resolver!history, ResolverTypes, OrdersTyped, HasBackend, CameraConstants
  <1>11. ASSUME NEW u \in Users, Resolver!Exhausted(u) PROVE OrdersTyped'
    BY <1>11, CameraConstants, OrderIsWhole, HeadAndTail
    DEF Resolver!Exhausted, Resolver!Goto, Resolver!server, Resolver!history, ResolverTypes,
        OrdersTyped, HasBackend, CameraConstants
  <1>12. ASSUME NEW u \in Users, Resolver!StoreSession(u) PROVE OrdersTyped'
    BY <1>12, CameraConstants, OrderIsWhole, HeadAndTail
    DEF Resolver!StoreSession, Resolver!Goto, Resolver!At, Resolver!AfterPrune, Resolver!Pruned,
        Resolver!history, ResolverTypes, OrdersTyped, HasBackend, CameraConstants
  <1>13. ASSUME NEW u \in Users, NEW s \in Tickets,
               Resolver!TakeSession(u, s)
        PROVE  OrdersTyped'
    BY <1>13, CameraConstants, OrderIsWhole, HeadAndTail
    DEF Resolver!TakeSession, Resolver!Ask, Resolver!Goto, Resolver!At, Resolver!AfterPrune,
        Resolver!Pruned, ResolverTypes, OrdersTyped, HasBackend, CameraConstants
  <1>14. CASE Resolver!Unauthorized
    BY <1>14, CameraConstants, OrderIsWhole, HeadAndTail
    DEF Resolver!Unauthorized, Resolver!AfterPrune, Resolver!Pruned, Resolver!request,
        Resolver!history, ResolverTypes, OrdersTyped, HasBackend, CameraConstants
  <1>15. CASE Resolver!Tick
    BY <1>15, CameraConstants, OrderIsWhole, HeadAndTail
    DEF Resolver!Tick, Resolver!request, Resolver!history, ResolverTypes, OrdersTyped,
        HasBackend, CameraConstants
  <1>16. CASE UNCHANGED Resolver!vars
    BY <1>16
    DEF Resolver!vars, Resolver!server, Resolver!request, Resolver!history, ResolverTypes,
        OrdersTyped, HasBackend, CameraConstants
  <1>. QED
    BY <1>1, <1>2, <1>3, <1>4, <1>5, <1>6, <1>7, <1>8, <1>9, <1>10, <1>11, <1>12, <1>13, <1>14,
       <1>15, <1>16
    DEF Resolver!Next

LEMMA HasBackendStep ==
  ResolverTypes /\ OrdersTyped /\ HasBackend /\ [Resolver!Next]_Resolver!vars => HasBackend'
  <1>. SUFFICES ASSUME ResolverTypes, OrdersTyped, HasBackend, [Resolver!Next]_Resolver!vars
                PROVE  HasBackend'
    OBVIOUS
  <1>1. ASSUME NEW u \in Users, Resolver!Resolve(u) PROVE HasBackend'
    BY <1>1, CameraConstants
    DEF Resolver!Resolve, Resolver!Ask, Resolver!Goto, Resolver!At, Resolver!server,
        Resolver!history, ResolverTypes, OrdersTyped, HasBackend, CameraConstants
  <1>2. ASSUME NEW u \in Users, Resolver!HTTPFails(u) PROVE HasBackend'
    BY <1>2, CameraConstants
    DEF Resolver!HTTPFails, Resolver!ResolveDirectly, Resolver!Ask, Resolver!Goto,
        Resolver!server, Resolver!history, ResolverTypes, OrdersTyped, HasBackend,
        CameraConstants
  <1>3. ASSUME NEW u \in Users, Resolver!GiveUp(u) PROVE HasBackend'
    BY <1>3, CameraConstants
    DEF Resolver!GiveUp, Resolver!Goto, Resolver!At, Resolver!server, Resolver!history,
        ResolverTypes, OrdersTyped, HasBackend, CameraConstants
  <1>4. ASSUME NEW u \in Users, Resolver!ProbeOpens(u) PROVE HasBackend'
    BY <1>4, CameraConstants
    DEF Resolver!ProbeOpens, Resolver!Goto, Resolver!At, Resolver!OpenClient, Resolver!server,
        Resolver!history, ResolverTypes, OrdersTyped, HasBackend, CameraConstants
  <1>5. ASSUME NEW u \in Users, Resolver!ProbeRefused(u) PROVE HasBackend'
    BY <1>5, CameraConstants
    DEF Resolver!ProbeRefused, Resolver!Goto, Resolver!At, Resolver!Refuse, Resolver!server,
        Resolver!history, ResolverTypes, OrdersTyped, HasBackend, CameraConstants
  <1>6. ASSUME NEW u \in Users, Resolver!CodecFails(u) PROVE HasBackend'
    BY <1>6, CameraConstants
    DEF Resolver!CodecFails, Resolver!Goto, Resolver!At, Resolver!Refuse, Resolver!CloseClient,
        Resolver!server, Resolver!history, ResolverTypes, OrdersTyped, HasBackend,
        CameraConstants
  <1>7. ASSUME NEW u \in Users, Resolver!Codec(u) PROVE HasBackend'
    BY <1>7, CameraConstants
    DEF Resolver!Codec, Resolver!Goto, Resolver!At, Resolver!CloseClient, Resolver!server,
        Resolver!history, ResolverTypes, OrdersTyped, HasBackend, CameraConstants
  <1>8. ASSUME NEW u \in Users, Resolver!StreamOpens(u) PROVE HasBackend'
    BY <1>8, CameraConstants
    DEF Resolver!StreamOpens, Resolver!Goto, Resolver!At, Resolver!OpenClient, Resolver!server,
        Resolver!history, ResolverTypes, OrdersTyped, HasBackend, CameraConstants
  <1>9. ASSUME NEW u \in Users, Resolver!StreamRefused(u) PROVE HasBackend'
    BY <1>9, CameraConstants
    DEF Resolver!StreamRefused, Resolver!Goto, Resolver!At, Resolver!Refuse, Resolver!server,
        Resolver!history, ResolverTypes, OrdersTyped, HasBackend, CameraConstants
  <1>10. ASSUME NEW u \in Users, Resolver!StreamEnds(u) PROVE HasBackend'
    BY <1>10, CameraConstants
    DEF Resolver!StreamEnds, Resolver!Goto, Resolver!At, Resolver!CloseClient, Resolver!server,
        Resolver!history, ResolverTypes, OrdersTyped, HasBackend, CameraConstants
  <1>11. ASSUME NEW u \in Users, Resolver!Exhausted(u) PROVE HasBackend'
    BY <1>11, CameraConstants
    DEF Resolver!Exhausted, Resolver!Goto, Resolver!server, Resolver!history, ResolverTypes,
        OrdersTyped, HasBackend, CameraConstants
  <1>12. ASSUME NEW u \in Users, Resolver!StoreSession(u) PROVE HasBackend'
    BY <1>12, CameraConstants
    DEF Resolver!StoreSession, Resolver!Goto, Resolver!At, Resolver!AfterPrune, Resolver!Pruned,
        Resolver!history, ResolverTypes, OrdersTyped, HasBackend, CameraConstants
  <1>13. ASSUME NEW u \in Users, NEW s \in Tickets, Resolver!TakeSession(u, s) PROVE HasBackend'
    BY <1>13, CameraConstants
    DEF Resolver!TakeSession, Resolver!Ask, Resolver!Goto, Resolver!At, Resolver!AfterPrune,
        Resolver!Pruned, ResolverTypes, OrdersTyped, HasBackend, CameraConstants
  <1>14. CASE Resolver!Unauthorized
    BY <1>14, CameraConstants
    DEF Resolver!Unauthorized, Resolver!AfterPrune, Resolver!Pruned, Resolver!request,
        Resolver!history, ResolverTypes, OrdersTyped, HasBackend, CameraConstants
  <1>15. CASE Resolver!Tick
    BY <1>15, CameraConstants
    DEF Resolver!Tick, Resolver!request, Resolver!history, ResolverTypes, OrdersTyped,
        HasBackend, CameraConstants
  <1>16. CASE UNCHANGED Resolver!vars
    BY <1>16
    DEF Resolver!vars, Resolver!server, Resolver!request, Resolver!history, ResolverTypes,
        OrdersTyped, HasBackend, CameraConstants
  <1>. QED
    BY <1>1, <1>2, <1>3, <1>4, <1>5, <1>6, <1>7, <1>8, <1>9, <1>10, <1>11, <1>12, <1>13, <1>14,
       <1>15, <1>16
    DEF Resolver!Next

LEMMA TakenStep ==
  ResolverTypes /\ TakenOnce /\ [Resolver!Next]_Resolver!vars => TakenOnce'
  <1>. SUFFICES ASSUME ResolverTypes, TakenOnce, [Resolver!Next]_Resolver!vars PROVE TakenOnce'
    OBVIOUS
  <1>1. ASSUME NEW u \in Users, Resolver!Resolve(u) PROVE TakenOnce'
    BY <1>1, CameraConstants
    DEF Resolver!Resolve, Resolver!Ask, Resolver!Goto, Resolver!At, Resolver!server,
        Resolver!history, ResolverTypes, TakenOnce, CameraConstants
  <1>2. ASSUME NEW u \in Users, Resolver!HTTPFails(u) PROVE TakenOnce'
    BY <1>2, CameraConstants
    DEF Resolver!HTTPFails, Resolver!ResolveDirectly, Resolver!Ask, Resolver!Goto,
        Resolver!server, Resolver!history, ResolverTypes, TakenOnce, CameraConstants
  <1>3. ASSUME NEW u \in Users, Resolver!GiveUp(u) PROVE TakenOnce'
    BY <1>3, CameraConstants
    DEF Resolver!GiveUp, Resolver!Goto, Resolver!At, Resolver!server, Resolver!history,
        ResolverTypes, TakenOnce, CameraConstants
  <1>4. ASSUME NEW u \in Users, Resolver!ProbeOpens(u) PROVE TakenOnce'
    BY <1>4, CameraConstants
    DEF Resolver!ProbeOpens, Resolver!Goto, Resolver!At, Resolver!OpenClient, Resolver!server,
        Resolver!history, ResolverTypes, TakenOnce, CameraConstants
  <1>5. ASSUME NEW u \in Users, Resolver!ProbeRefused(u) PROVE TakenOnce'
    BY <1>5, CameraConstants
    DEF Resolver!ProbeRefused, Resolver!Goto, Resolver!At, Resolver!Refuse, Resolver!server,
        Resolver!history, ResolverTypes, TakenOnce, CameraConstants
  <1>6. ASSUME NEW u \in Users, Resolver!CodecFails(u) PROVE TakenOnce'
    BY <1>6, CameraConstants
    DEF Resolver!CodecFails, Resolver!Goto, Resolver!At, Resolver!Refuse, Resolver!CloseClient,
        Resolver!server, Resolver!history, ResolverTypes, TakenOnce, CameraConstants
  <1>7. ASSUME NEW u \in Users, Resolver!Codec(u) PROVE TakenOnce'
    BY <1>7, CameraConstants
    DEF Resolver!Codec, Resolver!Goto, Resolver!At, Resolver!CloseClient, Resolver!server,
        Resolver!history, ResolverTypes, TakenOnce, CameraConstants
  <1>8. ASSUME NEW u \in Users, Resolver!StreamOpens(u) PROVE TakenOnce'
    BY <1>8, CameraConstants
    DEF Resolver!StreamOpens, Resolver!Goto, Resolver!At, Resolver!OpenClient, Resolver!server,
        Resolver!history, ResolverTypes, TakenOnce, CameraConstants
  <1>9. ASSUME NEW u \in Users, Resolver!StreamRefused(u) PROVE TakenOnce'
    BY <1>9, CameraConstants
    DEF Resolver!StreamRefused, Resolver!Goto, Resolver!At, Resolver!Refuse, Resolver!server,
        Resolver!history, ResolverTypes, TakenOnce, CameraConstants
  <1>10. ASSUME NEW u \in Users, Resolver!StreamEnds(u) PROVE TakenOnce'
    BY <1>10, CameraConstants
    DEF Resolver!StreamEnds, Resolver!Goto, Resolver!At, Resolver!CloseClient, Resolver!server,
        Resolver!history, ResolverTypes, TakenOnce, CameraConstants
  <1>11. ASSUME NEW u \in Users, Resolver!Exhausted(u) PROVE TakenOnce'
    BY <1>11, CameraConstants
    DEF Resolver!Exhausted, Resolver!Goto, Resolver!server, Resolver!history, ResolverTypes,
        TakenOnce, CameraConstants
  <1>12. ASSUME NEW u \in Users, Resolver!StoreSession(u) PROVE TakenOnce'
    BY <1>12, CameraConstants
    DEF Resolver!StoreSession, Resolver!Goto, Resolver!At, Resolver!AfterPrune, Resolver!Pruned,
        Resolver!history, ResolverTypes, TakenOnce, CameraConstants
  <1>13. ASSUME NEW u \in Users, NEW s \in Tickets, Resolver!TakeSession(u, s) PROVE TakenOnce'
    BY <1>13, CameraConstants
    DEF Resolver!TakeSession, Resolver!Ask, Resolver!Goto, Resolver!At, Resolver!AfterPrune,
        Resolver!Pruned, ResolverTypes, TakenOnce, CameraConstants
  <1>14. CASE Resolver!Unauthorized
    BY <1>14, CameraConstants
    DEF Resolver!Unauthorized, Resolver!AfterPrune, Resolver!Pruned, Resolver!request,
        Resolver!history, ResolverTypes, TakenOnce, CameraConstants
  <1>15. CASE Resolver!Tick
    BY <1>15, CameraConstants
    DEF Resolver!Tick, Resolver!request, Resolver!history, ResolverTypes, TakenOnce,
        CameraConstants
  <1>16. CASE UNCHANGED Resolver!vars
    BY <1>16
    DEF Resolver!vars, Resolver!server, Resolver!request, Resolver!history, ResolverTypes,
        TakenOnce, CameraConstants
  <1>. QED
    BY <1>1, <1>2, <1>3, <1>4, <1>5, <1>6, <1>7, <1>8, <1>9, <1>10, <1>11, <1>12, <1>13, <1>14,
       <1>15, <1>16
    DEF Resolver!Next

LEMMA SkippedStep ==
  ResolverTypes /\ OrdersTyped /\ HasBackend /\ NoneIsSkipped /\ [Resolver!Next]_Resolver!vars => NoneIsSkipped'
  <1>. SUFFICES ASSUME ResolverTypes, OrdersTyped, HasBackend, NoneIsSkipped, [Resolver!Next]_Resolver!vars
                PROVE  NoneIsSkipped'
    OBVIOUS
  <1>1. ASSUME NEW u \in Users, Resolver!Resolve(u) PROVE NoneIsSkipped'
    <2>. DEFINE order == Resolver!BackendOrder(preferred)
    <2>1. preferred \in 0..Backends
      BY DEF ResolverTypes
    <2>2. {order[i] : i \in 1..Len(order)} = Resolver!Backend
      <3>1. \A i \in 1..Len(order) : order[i] \in Resolver!Backend
        BY <2>1, OrderIsWhole
      <3>. QED
        BY <2>1, <3>1, OrderIsWhole
    <2>. HIDE DEF order
    <2>. QED
      BY <1>1, <2>1, <2>2
      DEF Resolver!Resolve, Resolver!Ask, Resolver!Goto, Resolver!At, Remaining, ResolverTypes,
          OrdersTyped, NoneIsSkipped, order
  <1>2. ASSUME NEW u \in Users, Resolver!HTTPFails(u) PROVE NoneIsSkipped'
    <2>. DEFINE order == Resolver!BackendOrder(preferred)
    <2>1. preferred \in 0..Backends
      BY DEF ResolverTypes
    <2>2. {order[i] : i \in 1..Len(order)} = Resolver!Backend
      <3>1. \A i \in 1..Len(order) : order[i] \in Resolver!Backend
        BY <2>1, OrderIsWhole
      <3>. QED
        BY <2>1, <3>1, OrderIsWhole
    <2>. HIDE DEF order
    <2>. QED
      BY <1>2, <2>1, <2>2
      DEF Resolver!HTTPFails, Resolver!ResolveDirectly, Resolver!Ask, Resolver!Goto, Remaining,
          ResolverTypes, OrdersTyped, NoneIsSkipped, order
  <1>3. ASSUME NEW u \in Users, Resolver!ProbeRefused(u) PROVE NoneIsSkipped'
    <2>. DEFINE order == todo[u]
    <2>1. order \in Seq(Resolver!Backend) /\ order # << >>
      BY <1>3 DEF Resolver!ProbeRefused, Resolver!At, OrdersTyped, HasBackend
    <2>2. /\ Remaining(u) = {Head(order)} \cup {Tail(order)[i] : i \in 1..Len(Tail(order))}
          /\ Head(order) \in Resolver!Backend
      BY <2>1, HeadAndTail DEF Remaining
    <2>3. /\ todo' = [todo EXCEPT ![u] = Tail(order)] /\ step' = [step EXCEPT ![u] = "probe"]
          /\ tried' = [tried EXCEPT ![u] = tried[u] \cup {Head(order)}]
          /\ step[u] \in {"probe", "codec", "open"}
      BY <1>3
      DEF Resolver!ProbeRefused, Resolver!Refuse, Resolver!Goto, Resolver!At, ResolverTypes,
          OrdersTyped
    <2>. HIDE DEF order
    <2>4. Remaining(u)' = {Tail(order)[i] : i \in 1..Len(Tail(order))}
      BY <2>3 DEF Remaining, OrdersTyped
    <2>5. tried'[u] \cup Remaining(u)' = Resolver!Backend
      BY <2>2, <2>3, <2>4 DEF NoneIsSkipped, ResolverTypes
    <2>6. \A x \in Users \ {u} :
            step'[x] = step[x] /\ tried'[x] = tried[x] /\ Remaining(x)' = Remaining(x)
      BY <2>3 DEF Remaining, OrdersTyped, ResolverTypes
    <2>7. step'[u] = "probe"
      BY <2>3 DEF ResolverTypes
    <2>. QED
      BY <2>5, <2>6, <2>7 DEF NoneIsSkipped
  <1>4. ASSUME NEW u \in Users, Resolver!CodecFails(u) PROVE NoneIsSkipped'
    <2>. DEFINE order == todo[u]
    <2>1. order \in Seq(Resolver!Backend) /\ order # << >>
      BY <1>4 DEF Resolver!CodecFails, Resolver!At, OrdersTyped, HasBackend
    <2>2. /\ Remaining(u) = {Head(order)} \cup {Tail(order)[i] : i \in 1..Len(Tail(order))}
          /\ Head(order) \in Resolver!Backend
      BY <2>1, HeadAndTail DEF Remaining
    <2>3. /\ todo' = [todo EXCEPT ![u] = Tail(order)] /\ step' = [step EXCEPT ![u] = "probe"]
          /\ tried' = [tried EXCEPT ![u] = tried[u] \cup {Head(order)}]
          /\ step[u] \in {"probe", "codec", "open"}
      BY <1>4
      DEF Resolver!CodecFails, Resolver!Refuse, Resolver!Goto, Resolver!At, ResolverTypes,
          OrdersTyped
    <2>. HIDE DEF order
    <2>4. Remaining(u)' = {Tail(order)[i] : i \in 1..Len(Tail(order))}
      BY <2>3 DEF Remaining, OrdersTyped
    <2>5. tried'[u] \cup Remaining(u)' = Resolver!Backend
      BY <2>2, <2>3, <2>4 DEF NoneIsSkipped, ResolverTypes
    <2>6. \A x \in Users \ {u} :
            step'[x] = step[x] /\ tried'[x] = tried[x] /\ Remaining(x)' = Remaining(x)
      BY <2>3 DEF Remaining, OrdersTyped, ResolverTypes
    <2>7. step'[u] = "probe"
      BY <2>3 DEF ResolverTypes
    <2>. QED
      BY <2>5, <2>6, <2>7 DEF NoneIsSkipped
  <1>5. ASSUME NEW u \in Users, Resolver!Codec(u) PROVE NoneIsSkipped'
    <2>1. CASE via[u] = "http"
      <3>1. step' = [step EXCEPT ![u] = "store"] /\ UNCHANGED <<todo, tried>>
        BY <1>5, <2>1 DEF Resolver!Codec, Resolver!Goto
      <3>2. \A x \in Users : Remaining(x)' = Remaining(x)
        BY <3>1 DEF Remaining
      <3>. QED
        BY <3>1, <3>2 DEF ResolverTypes, NoneIsSkipped
    <2>2. CASE via[u] # "http"
      <3>. DEFINE order == Resolver!BackendOrder(Head(todo[u]))
      <3>1. Head(todo[u]) \in 0..Backends
        BY <1>5, CameraConstants, HeadAndTail
        DEF Resolver!Codec, Resolver!At, OrdersTyped, HasBackend, Resolver!Backend, CameraConstants
      <3>2. {order[i] : i \in 1..Len(order)} = Resolver!Backend
        <4>1. \A i \in 1..Len(order) : order[i] \in Resolver!Backend
          BY <3>1, OrderIsWhole
        <4>. QED
          BY <3>1, <4>1, OrderIsWhole
      <3>3. /\ step' = [step EXCEPT ![u] = "open"] /\ tried' = [tried EXCEPT ![u] = {}]
            /\ todo' = [todo EXCEPT ![u] = order]
        BY <1>5, <2>2 DEF Resolver!Codec, Resolver!Goto
      <3>. HIDE DEF order
      <3>4. Remaining(u)' = Resolver!Backend
        BY <3>2, <3>3 DEF Remaining, OrdersTyped
      <3>5. \A x \in Users \ {u} : Remaining(x)' = Remaining(x)
        BY <3>3 DEF Remaining, OrdersTyped
      <3>. QED
        BY <3>3, <3>4, <3>5 DEF ResolverTypes, NoneIsSkipped
    <2>. QED
      BY <2>1, <2>2
  <1>6. ASSUME NEW u \in Users, Resolver!StreamRefused(u) PROVE NoneIsSkipped'
    <2>. DEFINE order == todo[u]
    <2>1. order \in Seq(Resolver!Backend) /\ order # << >>
      BY <1>6 DEF Resolver!StreamRefused, Resolver!At, OrdersTyped, HasBackend
    <2>2. /\ Remaining(u) = {Head(order)} \cup {Tail(order)[i] : i \in 1..Len(Tail(order))}
          /\ Head(order) \in Resolver!Backend
      BY <2>1, HeadAndTail DEF Remaining
    <2>3. /\ todo' = [todo EXCEPT ![u] = Tail(order)] /\ step' = [step EXCEPT ![u] = "open"]
          /\ tried' = [tried EXCEPT ![u] = tried[u] \cup {Head(order)}]
          /\ step[u] \in {"probe", "codec", "open"}
      BY <1>6
      DEF Resolver!StreamRefused, Resolver!Refuse, Resolver!Goto, Resolver!At, ResolverTypes,
          OrdersTyped
    <2>. HIDE DEF order
    <2>4. Remaining(u)' = {Tail(order)[i] : i \in 1..Len(Tail(order))}
      BY <2>3 DEF Remaining, OrdersTyped
    <2>5. tried'[u] \cup Remaining(u)' = Resolver!Backend
      BY <2>2, <2>3, <2>4 DEF NoneIsSkipped, ResolverTypes
    <2>6. \A x \in Users \ {u} :
            step'[x] = step[x] /\ tried'[x] = tried[x] /\ Remaining(x)' = Remaining(x)
      BY <2>3 DEF Remaining, OrdersTyped, ResolverTypes
    <2>7. step'[u] = "open"
      BY <2>3 DEF ResolverTypes
    <2>. QED
      BY <2>5, <2>6, <2>7 DEF NoneIsSkipped
  <1>7. ASSUME NEW u \in Users, Resolver!Exhausted(u) PROVE NoneIsSkipped'
    <2>1. Remaining(u) = {}
      BY <1>7 DEF Resolver!Exhausted, Remaining
    <2>2. /\ step[u] \in {"probe", "open"} /\ step' = [step EXCEPT ![u] = "refused"]
          /\ UNCHANGED <<todo, tried>>
      BY <1>7 DEF Resolver!Exhausted, Resolver!Goto
    <2>3. \A x \in Users : Remaining(x)' = Remaining(x)
      BY <2>2 DEF Remaining
    <2>4. tried[u] \cup Remaining(u) = Resolver!Backend
      BY <2>2 DEF NoneIsSkipped
    <2>. QED
      BY <2>1, <2>2, <2>3, <2>4 DEF ResolverTypes, NoneIsSkipped
  <1>8. ASSUME NEW u \in Users, NEW s \in Tickets,
               Resolver!TakeSession(u, s)
        PROVE  NoneIsSkipped'
    <2>. DEFINE order == Resolver!BackendOrder(preferred)
    <2>1. preferred \in 0..Backends
      BY DEF ResolverTypes
    <2>2. {order[i] : i \in 1..Len(order)} = Resolver!Backend
      <3>1. \A i \in 1..Len(order) : order[i] \in Resolver!Backend
        BY <2>1, OrderIsWhole
      <3>. QED
        BY <2>1, <3>1, OrderIsWhole
    <2>. HIDE DEF order
    <2>. QED
      BY <1>8, <2>1, <2>2
      DEF Resolver!TakeSession, Resolver!Ask, Resolver!Goto, Resolver!At, Remaining,
          ResolverTypes, OrdersTyped, NoneIsSkipped, order
  <1>9. ASSUME NEW u \in Users, Resolver!GiveUp(u) PROVE NoneIsSkipped'
    BY <1>9, CameraConstants
    DEF Resolver!GiveUp, Resolver!Goto, Resolver!At, Resolver!server, Resolver!history,
        ResolverTypes, OrdersTyped, HasBackend, NoneIsSkipped, Remaining, CameraConstants
  <1>10. ASSUME NEW u \in Users, Resolver!ProbeOpens(u) PROVE NoneIsSkipped'
    BY <1>10, CameraConstants
    DEF Resolver!ProbeOpens, Resolver!Goto, Resolver!At, Resolver!OpenClient, Resolver!server,
        Resolver!history, ResolverTypes, OrdersTyped, HasBackend, NoneIsSkipped, Remaining,
        CameraConstants
  <1>11. ASSUME NEW u \in Users, Resolver!StreamOpens(u) PROVE NoneIsSkipped'
    BY <1>11, CameraConstants
    DEF Resolver!StreamOpens, Resolver!Goto, Resolver!At, Resolver!OpenClient, Resolver!server,
        Resolver!history, ResolverTypes, OrdersTyped, HasBackend, NoneIsSkipped, Remaining,
        CameraConstants
  <1>12. ASSUME NEW u \in Users, Resolver!StreamEnds(u) PROVE NoneIsSkipped'
    BY <1>12, CameraConstants
    DEF Resolver!StreamEnds, Resolver!Goto, Resolver!At, Resolver!CloseClient, Resolver!server,
        Resolver!history, ResolverTypes, OrdersTyped, HasBackend, NoneIsSkipped, Remaining,
        CameraConstants
  <1>13. ASSUME NEW u \in Users, Resolver!StoreSession(u) PROVE NoneIsSkipped'
    BY <1>13, CameraConstants
    DEF Resolver!StoreSession, Resolver!Goto, Resolver!At, Resolver!AfterPrune, Resolver!Pruned,
        Resolver!history, ResolverTypes, OrdersTyped, HasBackend, NoneIsSkipped, Remaining,
        CameraConstants
  <1>14. CASE Resolver!Unauthorized
    BY <1>14, CameraConstants
    DEF Resolver!Unauthorized, Resolver!AfterPrune, Resolver!Pruned, Resolver!request,
        Resolver!history, ResolverTypes, OrdersTyped, HasBackend, NoneIsSkipped, Remaining,
        CameraConstants
  <1>15. CASE Resolver!Tick
    BY <1>15, CameraConstants
    DEF Resolver!Tick, Resolver!request, Resolver!history, ResolverTypes, OrdersTyped,
        HasBackend, NoneIsSkipped, Remaining, CameraConstants
  <1>16. CASE UNCHANGED Resolver!vars
    BY <1>16
    DEF Resolver!vars, Resolver!server, Resolver!request, Resolver!history, ResolverTypes,
        OrdersTyped, HasBackend, NoneIsSkipped, Remaining, CameraConstants
  <1>. QED
    BY <1>1, <1>2, <1>3, <1>4, <1>5, <1>6, <1>7, <1>8, <1>9, <1>10, <1>11, <1>12, <1>13, <1>14,
       <1>15, <1>16
    DEF Resolver!Next

\* CameraResolver counts with the operator of its own instance of FiniteSets.
LEMMA SameCount == ASSUME NEW S PROVE Resolver!Cardinality(S) = Cardinality(S)
  BY DEF Cardinality, Resolver!Cardinality

LEMMA UsersAreFinite == \A b \in Resolver!Backend : IsFiniteSet(UsersOf(b))
  BY CameraConstants, FS_Subset DEF CameraConstants, UsersOf

LEMMA ClientsStep ==
  ResolverTypes /\ OrdersTyped /\ HasBackend /\ ClientsAreCounted /\ [Resolver!Next]_Resolver!vars => ClientsAreCounted'
  <1>. SUFFICES ASSUME ResolverTypes, OrdersTyped, HasBackend, ClientsAreCounted, [Resolver!Next]_Resolver!vars
                PROVE  ClientsAreCounted'
    OBVIOUS
  <1>1. ASSUME NEW u \in Users, Resolver!Resolve(u) PROVE ClientsAreCounted'
    <2>1. \A x \in Users, b \in Resolver!Backend : Resolver!Using(x, b)' = Resolver!Using(x, b)
      BY <1>1
      DEF Resolver!Resolve, Resolver!Ask, Resolver!Goto, Resolver!At, Resolver!server,
          Resolver!history, Resolver!Using, OrdersTyped, ResolverTypes
    <2>2. UNCHANGED clients
      BY <1>1
      DEF Resolver!Resolve, Resolver!Ask, Resolver!Goto, Resolver!At, Resolver!server,
          Resolver!history
    <2>. QED
      BY <2>1, <2>2 DEF ClientsAreCounted, UsersOf
  <1>2. ASSUME NEW u \in Users, Resolver!HTTPFails(u) PROVE ClientsAreCounted'
    <2>1. \A x \in Users, b \in Resolver!Backend : Resolver!Using(x, b)' = Resolver!Using(x, b)
      BY <1>2
      DEF Resolver!HTTPFails, Resolver!ResolveDirectly, Resolver!Ask, Resolver!Goto,
          Resolver!server, Resolver!history, Resolver!Using, OrdersTyped, ResolverTypes
    <2>2. UNCHANGED clients
      BY <1>2
      DEF Resolver!HTTPFails, Resolver!ResolveDirectly, Resolver!Ask, Resolver!Goto,
          Resolver!server, Resolver!history
    <2>. QED
      BY <2>1, <2>2 DEF ClientsAreCounted, UsersOf
  <1>3. ASSUME NEW u \in Users, Resolver!GiveUp(u) PROVE ClientsAreCounted'
    <2>1. \A x \in Users, b \in Resolver!Backend : Resolver!Using(x, b)' = Resolver!Using(x, b)
      BY <1>3
      DEF Resolver!GiveUp, Resolver!Goto, Resolver!At, Resolver!server, Resolver!history,
          Resolver!Using, OrdersTyped, ResolverTypes
    <2>2. UNCHANGED clients
      BY <1>3 DEF Resolver!GiveUp, Resolver!Goto, Resolver!At, Resolver!server, Resolver!history
    <2>. QED
      BY <2>1, <2>2 DEF ClientsAreCounted, UsersOf
  <1>4. ASSUME NEW u \in Users, Resolver!ProbeOpens(u) PROVE ClientsAreCounted'
    <2>. DEFINE asked == Head(todo[u])
    <2>1. asked \in Resolver!Backend /\ clients' = [clients EXCEPT ![asked] = clients[asked] + 1]
      BY <1>4, HeadAndTail
      DEF Resolver!ProbeOpens, Resolver!Goto, Resolver!At, Resolver!OpenClient, Resolver!server,
          Resolver!history, OrdersTyped, HasBackend, ResolverTypes
    <2>2. \A x \in Users \ {u}, b \in Resolver!Backend :
            Resolver!Using(x, b)' = Resolver!Using(x, b)
      BY <1>4
      DEF Resolver!ProbeOpens, Resolver!Goto, Resolver!At, Resolver!OpenClient, Resolver!server,
          Resolver!history, Resolver!Using, OrdersTyped, ResolverTypes
    <2>3. \A b \in Resolver!Backend :
            /\ Resolver!Using(u, b) = FALSE
            /\ Resolver!Using(u, b)' = (b = asked)
      BY <1>4
      DEF Resolver!ProbeOpens, Resolver!Goto, Resolver!At, Resolver!OpenClient, Resolver!server,
          Resolver!history, Resolver!Using, OrdersTyped, ResolverTypes
    <2>. HIDE DEF asked
    <2>4. ASSUME NEW b \in Resolver!Backend PROVE clients'[b] = Cardinality(UsersOf(b)')
      <3>1. CASE b = asked
        <4>1. UsersOf(b)' = UsersOf(b) \cup {u} /\ u \notin UsersOf(b)
          BY <2>2, <2>3, <3>1 DEF UsersOf
        <4>2. Cardinality(UsersOf(b) \cup {u}) = Cardinality(UsersOf(b)) + 1
          BY <4>1, UsersAreFinite, FS_AddElement
        <4>. QED
          BY <2>1, <3>1, <4>1, <4>2 DEF ClientsAreCounted, ResolverTypes
      <3>2. CASE b # asked
        <4>1. UsersOf(b)' = UsersOf(b)
          BY <2>2, <2>3, <3>2 DEF UsersOf
        <4>. QED
          BY <2>1, <3>2, <4>1 DEF ClientsAreCounted, ResolverTypes
      <3>. QED
        BY <3>1, <3>2
    <2>. QED
      BY <2>4 DEF ClientsAreCounted
  <1>5. ASSUME NEW u \in Users, Resolver!ProbeRefused(u) PROVE ClientsAreCounted'
    <2>1. \A x \in Users, b \in Resolver!Backend : Resolver!Using(x, b)' = Resolver!Using(x, b)
      BY <1>5
      DEF Resolver!ProbeRefused, Resolver!Goto, Resolver!At, Resolver!Refuse, Resolver!server,
          Resolver!history, Resolver!Using, OrdersTyped, ResolverTypes
    <2>2. UNCHANGED clients
      BY <1>5
      DEF Resolver!ProbeRefused, Resolver!Goto, Resolver!At, Resolver!Refuse, Resolver!server,
          Resolver!history
    <2>. QED
      BY <2>1, <2>2 DEF ClientsAreCounted, UsersOf
  <1>6. ASSUME NEW u \in Users, Resolver!CodecFails(u) PROVE ClientsAreCounted'
    <2>. DEFINE asked == Head(todo[u])
    <2>1. asked \in Resolver!Backend /\ clients' = [clients EXCEPT ![asked] = clients[asked] - 1]
      BY <1>6, HeadAndTail
      DEF Resolver!CodecFails, Resolver!Goto, Resolver!At, Resolver!Refuse, Resolver!CloseClient,
          Resolver!server, Resolver!history, OrdersTyped, HasBackend, ResolverTypes
    <2>2. \A x \in Users \ {u}, b \in Resolver!Backend :
            Resolver!Using(x, b)' = Resolver!Using(x, b)
      BY <1>6
      DEF Resolver!CodecFails, Resolver!Goto, Resolver!At, Resolver!Refuse, Resolver!CloseClient,
          Resolver!server, Resolver!history, Resolver!Using, OrdersTyped, ResolverTypes
    <2>3. \A b \in Resolver!Backend :
            /\ Resolver!Using(u, b) = (b = asked)
            /\ Resolver!Using(u, b)' = FALSE
      BY <1>6
      DEF Resolver!CodecFails, Resolver!Goto, Resolver!At, Resolver!Refuse, Resolver!CloseClient,
          Resolver!server, Resolver!history, Resolver!Using, OrdersTyped, ResolverTypes
    <2>. HIDE DEF asked
    <2>4. ASSUME NEW b \in Resolver!Backend PROVE clients'[b] = Cardinality(UsersOf(b)')
      <3>1. CASE b = asked
        <4>1. UsersOf(b)' = UsersOf(b) \ {u} /\ u \in UsersOf(b)
          BY <2>2, <2>3, <3>1 DEF UsersOf
        <4>2. Cardinality(UsersOf(b) \ {u}) = Cardinality(UsersOf(b)) - 1
          BY <4>1, UsersAreFinite, FS_RemoveElement
        <4>. QED
          BY <2>1, <3>1, <4>1, <4>2 DEF ClientsAreCounted, ResolverTypes
      <3>2. CASE b # asked
        <4>1. UsersOf(b)' = UsersOf(b)
          BY <2>2, <2>3, <3>2 DEF UsersOf
        <4>. QED
          BY <2>1, <3>2, <4>1 DEF ClientsAreCounted, ResolverTypes
      <3>. QED
        BY <3>1, <3>2
    <2>. QED
      BY <2>4 DEF ClientsAreCounted
  <1>7. ASSUME NEW u \in Users, Resolver!Codec(u) PROVE ClientsAreCounted'
    <2>. DEFINE asked == Head(todo[u])
    <2>1. asked \in Resolver!Backend /\ clients' = [clients EXCEPT ![asked] = clients[asked] - 1]
      BY <1>7, HeadAndTail
      DEF Resolver!Codec, Resolver!Goto, Resolver!At, Resolver!CloseClient, Resolver!server,
          Resolver!history, OrdersTyped, HasBackend, ResolverTypes
    <2>2. \A x \in Users \ {u}, b \in Resolver!Backend :
            Resolver!Using(x, b)' = Resolver!Using(x, b)
      BY <1>7
      DEF Resolver!Codec, Resolver!Goto, Resolver!At, Resolver!CloseClient, Resolver!server,
          Resolver!history, Resolver!Using, OrdersTyped, ResolverTypes
    <2>3. \A b \in Resolver!Backend :
            /\ Resolver!Using(u, b) = (b = asked)
            /\ Resolver!Using(u, b)' = FALSE
      BY <1>7
      DEF Resolver!Codec, Resolver!Goto, Resolver!At, Resolver!CloseClient, Resolver!server,
          Resolver!history, Resolver!Using, OrdersTyped, ResolverTypes
    <2>. HIDE DEF asked
    <2>4. ASSUME NEW b \in Resolver!Backend PROVE clients'[b] = Cardinality(UsersOf(b)')
      <3>1. CASE b = asked
        <4>1. UsersOf(b)' = UsersOf(b) \ {u} /\ u \in UsersOf(b)
          BY <2>2, <2>3, <3>1 DEF UsersOf
        <4>2. Cardinality(UsersOf(b) \ {u}) = Cardinality(UsersOf(b)) - 1
          BY <4>1, UsersAreFinite, FS_RemoveElement
        <4>. QED
          BY <2>1, <3>1, <4>1, <4>2 DEF ClientsAreCounted, ResolverTypes
      <3>2. CASE b # asked
        <4>1. UsersOf(b)' = UsersOf(b)
          BY <2>2, <2>3, <3>2 DEF UsersOf
        <4>. QED
          BY <2>1, <3>2, <4>1 DEF ClientsAreCounted, ResolverTypes
      <3>. QED
        BY <3>1, <3>2
    <2>. QED
      BY <2>4 DEF ClientsAreCounted
  <1>8. ASSUME NEW u \in Users, Resolver!StreamOpens(u) PROVE ClientsAreCounted'
    <2>. DEFINE asked == Head(todo[u])
    <2>1. asked \in Resolver!Backend /\ clients' = [clients EXCEPT ![asked] = clients[asked] + 1]
      BY <1>8, HeadAndTail
      DEF Resolver!StreamOpens, Resolver!Goto, Resolver!At, Resolver!OpenClient, Resolver!server,
          Resolver!history, OrdersTyped, HasBackend, ResolverTypes
    <2>2. \A x \in Users \ {u}, b \in Resolver!Backend :
            Resolver!Using(x, b)' = Resolver!Using(x, b)
      BY <1>8
      DEF Resolver!StreamOpens, Resolver!Goto, Resolver!At, Resolver!OpenClient, Resolver!server,
          Resolver!history, Resolver!Using, OrdersTyped, ResolverTypes
    <2>3. \A b \in Resolver!Backend :
            /\ Resolver!Using(u, b) = FALSE
            /\ Resolver!Using(u, b)' = (b = asked)
      BY <1>8
      DEF Resolver!StreamOpens, Resolver!Goto, Resolver!At, Resolver!OpenClient, Resolver!server,
          Resolver!history, Resolver!Using, OrdersTyped, ResolverTypes
    <2>. HIDE DEF asked
    <2>4. ASSUME NEW b \in Resolver!Backend PROVE clients'[b] = Cardinality(UsersOf(b)')
      <3>1. CASE b = asked
        <4>1. UsersOf(b)' = UsersOf(b) \cup {u} /\ u \notin UsersOf(b)
          BY <2>2, <2>3, <3>1 DEF UsersOf
        <4>2. Cardinality(UsersOf(b) \cup {u}) = Cardinality(UsersOf(b)) + 1
          BY <4>1, UsersAreFinite, FS_AddElement
        <4>. QED
          BY <2>1, <3>1, <4>1, <4>2 DEF ClientsAreCounted, ResolverTypes
      <3>2. CASE b # asked
        <4>1. UsersOf(b)' = UsersOf(b)
          BY <2>2, <2>3, <3>2 DEF UsersOf
        <4>. QED
          BY <2>1, <3>2, <4>1 DEF ClientsAreCounted, ResolverTypes
      <3>. QED
        BY <3>1, <3>2
    <2>. QED
      BY <2>4 DEF ClientsAreCounted
  <1>9. ASSUME NEW u \in Users, Resolver!StreamRefused(u) PROVE ClientsAreCounted'
    <2>1. \A x \in Users, b \in Resolver!Backend : Resolver!Using(x, b)' = Resolver!Using(x, b)
      BY <1>9
      DEF Resolver!StreamRefused, Resolver!Goto, Resolver!At, Resolver!Refuse, Resolver!server,
          Resolver!history, Resolver!Using, OrdersTyped, ResolverTypes
    <2>2. UNCHANGED clients
      BY <1>9
      DEF Resolver!StreamRefused, Resolver!Goto, Resolver!At, Resolver!Refuse, Resolver!server,
          Resolver!history
    <2>. QED
      BY <2>1, <2>2 DEF ClientsAreCounted, UsersOf
  <1>10. ASSUME NEW u \in Users, Resolver!StreamEnds(u) PROVE ClientsAreCounted'
    <2>. DEFINE asked == Head(todo[u])
    <2>1. asked \in Resolver!Backend /\ clients' = [clients EXCEPT ![asked] = clients[asked] - 1]
      BY <1>10, HeadAndTail
      DEF Resolver!StreamEnds, Resolver!Goto, Resolver!At, Resolver!CloseClient, Resolver!server,
          Resolver!history, OrdersTyped, HasBackend, ResolverTypes
    <2>2. \A x \in Users \ {u}, b \in Resolver!Backend :
            Resolver!Using(x, b)' = Resolver!Using(x, b)
      BY <1>10
      DEF Resolver!StreamEnds, Resolver!Goto, Resolver!At, Resolver!CloseClient, Resolver!server,
          Resolver!history, Resolver!Using, OrdersTyped, ResolverTypes
    <2>3. \A b \in Resolver!Backend :
            /\ Resolver!Using(u, b) = (b = asked)
            /\ Resolver!Using(u, b)' = FALSE
      BY <1>10
      DEF Resolver!StreamEnds, Resolver!Goto, Resolver!At, Resolver!CloseClient, Resolver!server,
          Resolver!history, Resolver!Using, OrdersTyped, ResolverTypes
    <2>. HIDE DEF asked
    <2>4. ASSUME NEW b \in Resolver!Backend PROVE clients'[b] = Cardinality(UsersOf(b)')
      <3>1. CASE b = asked
        <4>1. UsersOf(b)' = UsersOf(b) \ {u} /\ u \in UsersOf(b)
          BY <2>2, <2>3, <3>1 DEF UsersOf
        <4>2. Cardinality(UsersOf(b) \ {u}) = Cardinality(UsersOf(b)) - 1
          BY <4>1, UsersAreFinite, FS_RemoveElement
        <4>. QED
          BY <2>1, <3>1, <4>1, <4>2 DEF ClientsAreCounted, ResolverTypes
      <3>2. CASE b # asked
        <4>1. UsersOf(b)' = UsersOf(b)
          BY <2>2, <2>3, <3>2 DEF UsersOf
        <4>. QED
          BY <2>1, <3>2, <4>1 DEF ClientsAreCounted, ResolverTypes
      <3>. QED
        BY <3>1, <3>2
    <2>. QED
      BY <2>4 DEF ClientsAreCounted
  <1>11. ASSUME NEW u \in Users, Resolver!Exhausted(u) PROVE ClientsAreCounted'
    <2>1. \A x \in Users, b \in Resolver!Backend : Resolver!Using(x, b)' = Resolver!Using(x, b)
      BY <1>11
      DEF Resolver!Exhausted, Resolver!Goto, Resolver!server, Resolver!history, Resolver!Using,
          OrdersTyped, ResolverTypes
    <2>2. UNCHANGED clients
      BY <1>11 DEF Resolver!Exhausted, Resolver!Goto, Resolver!server, Resolver!history
    <2>. QED
      BY <2>1, <2>2 DEF ClientsAreCounted, UsersOf
  <1>12. ASSUME NEW u \in Users, Resolver!StoreSession(u) PROVE ClientsAreCounted'
    <2>1. \A x \in Users, b \in Resolver!Backend : Resolver!Using(x, b)' = Resolver!Using(x, b)
      BY <1>12
      DEF Resolver!StoreSession, Resolver!Goto, Resolver!At, Resolver!AfterPrune,
          Resolver!Pruned, Resolver!history, Resolver!Using, OrdersTyped, ResolverTypes
    <2>2. UNCHANGED clients
      BY <1>12
      DEF Resolver!StoreSession, Resolver!Goto, Resolver!At, Resolver!AfterPrune,
          Resolver!Pruned, Resolver!history
    <2>. QED
      BY <2>1, <2>2 DEF ClientsAreCounted, UsersOf
  <1>13. ASSUME NEW u \in Users, NEW s \in Tickets,
               Resolver!TakeSession(u, s)
        PROVE  ClientsAreCounted'
    <2>1. \A x \in Users, b \in Resolver!Backend : Resolver!Using(x, b)' = Resolver!Using(x, b)
      BY <1>13
      DEF Resolver!TakeSession, Resolver!Ask, Resolver!Goto, Resolver!At, Resolver!AfterPrune,
          Resolver!Pruned, Resolver!Using, OrdersTyped, ResolverTypes
    <2>2. UNCHANGED clients
      BY <1>13
      DEF Resolver!TakeSession, Resolver!Ask, Resolver!Goto, Resolver!At, Resolver!AfterPrune,
          Resolver!Pruned
    <2>. QED
      BY <2>1, <2>2 DEF ClientsAreCounted, UsersOf
  <1>14. CASE Resolver!Unauthorized
    <2>1. \A x \in Users, b \in Resolver!Backend : Resolver!Using(x, b)' = Resolver!Using(x, b)
      BY <1>14
      DEF Resolver!Unauthorized, Resolver!AfterPrune, Resolver!Pruned, Resolver!request,
          Resolver!history, Resolver!Using, OrdersTyped, ResolverTypes
    <2>2. UNCHANGED clients
      BY <1>14
      DEF Resolver!Unauthorized, Resolver!AfterPrune, Resolver!Pruned, Resolver!request,
          Resolver!history
    <2>. QED
      BY <2>1, <2>2 DEF ClientsAreCounted, UsersOf
  <1>15. CASE Resolver!Tick
    <2>1. \A x \in Users, b \in Resolver!Backend : Resolver!Using(x, b)' = Resolver!Using(x, b)
      BY <1>15
      DEF Resolver!Tick, Resolver!request, Resolver!history, Resolver!Using, OrdersTyped,
          ResolverTypes
    <2>2. UNCHANGED clients
      BY <1>15 DEF Resolver!Tick, Resolver!request, Resolver!history
    <2>. QED
      BY <2>1, <2>2 DEF ClientsAreCounted, UsersOf
  <1>16. CASE UNCHANGED Resolver!vars
    BY <1>16
    DEF Resolver!vars, Resolver!server, Resolver!request, Resolver!history, ClientsAreCounted,
        UsersOf, Resolver!Using, CameraConstants
  <1>. QED
    BY <1>1, <1>2, <1>3, <1>4, <1>5, <1>6, <1>7, <1>8, <1>9, <1>10, <1>11, <1>12, <1>13, <1>14,
       <1>15, <1>16
    DEF Resolver!Next

LEMMA RuntimeStep == RuntimeInv /\ [Next]_vars => RuntimeInv'
  BY RuntimeTypeStep, WorksStep, LostStep, EmptyStep, ServedStep, StatusStep DEF RuntimeInv

LEMMA CallbacksStep == CallbacksInv /\ [Callbacks!Next]_Callbacks!vars => CallbacksInv'
  BY CallbackTypeStep, IdsStep, RegistrationsStep DEF CallbacksInv

LEMMA ResolverStep == ResolverInv /\ [Resolver!Next]_Resolver!vars => ResolverInv'
  BY ResolverTypeStep, OrdersStep, HasBackendStep, TakenStep, SkippedStep, ClientsStep
  DEF ResolverInv

(* The worker of a camera *)

\* Where one is who starts a pipeline.
AtStart == {"start", "stream", "media", "login", "play"}

\* Whoever starts a pipeline, or closes one, holds lifecycleMu, and the worker has none meanwhile;
\* a worker without a started pipeline has none.
HolderWorks ==
  /\ \A c \in Callers : caller[c] \in AtStart \cup {"closing"} => lifecycle = c /\ closer = None
  /\ \A c \in Callers : caller[c] \in AtStart => once /\ ~startErr
  /\ \A c \in Callers : caller[c] = "closing" => target \in Pipelines
  /\ ~once \/ startErr => closer = None

\* A decoder or a media client that is not started yet is the one of whoever opens one.
NewIsHeld ==
  /\ \A p \in Pipelines :
       pipelines[p] = "new" => \E c \in Callers : caller[c] \in {"stream", "login", "play"}
  /\ \A p, q \in Pipelines : pipelines[p] = "new" /\ pipelines[q] = "new" => p = q

WorkerInv ==
  /\ Worker!TypeOK /\ HolderWorks /\ NewIsHeld
  /\ Worker!NoPipelineLeaks /\ Worker!NoFrameIsMissed

LEMMA WorkerStarts == Worker!Init => WorkerInv
  <1>. SUFFICES ASSUME Worker!Init PROVE WorkerInv
    OBVIOUS
  <1>1. Worker!TypeOK
    <2>1. /\ attempt \in [Callers -> 1..2]
          /\ pipelines \in [Pipelines -> {"none", "new", "open", "closed"}]
      BY DEF Worker!Init
    <2>2. caller \in [Callers -> {"idle", "ensure", "start", "stream", "media", "login", "play",
                                 "current", "expired", "wait", "waiting", "restart", "closing"}]
      BY DEF Worker!Init
    <2>3. round \in 0..MaxRounds
      BY CameraConstants DEF Worker!Init, CameraConstants
    <2>. QED
      BY <2>1, <2>2, <2>3 DEF Worker!Init, Worker!TypeOK
  <1>2. HolderWorks /\ NewIsHeld
    BY DEF Worker!Init, HolderWorks, AtStart, NewIsHeld
  <1>3. Worker!NoPipelineLeaks /\ Worker!NoFrameIsMissed
    BY DEF Worker!Init, Worker!NoPipelineLeaks, Worker!Free, Worker!NoFrameIsMissed
  <1>. QED
    BY <1>1, <1>2, <1>3 DEF WorkerInv

LEMMA NextAttemptTyped ==
  ASSUME Worker!TypeOK, NEW c \in Callers, Worker!NextAttempt(c)
  PROVE  /\ attempt' \in [Callers -> 1..2]
         /\ caller' \in [Callers -> {"idle", "ensure", "start", "stream", "media", "login", "play",
                                     "current", "expired", "wait", "waiting", "restart", "closing"}]
  BY DEF Worker!TypeOK, Worker!NextAttempt, Worker!Goto, Worker!Return

LEMMA WorkerTypeStep ==
  Worker!TypeOK /\ [Worker!Next]_Worker!vars => Worker!TypeOK'
  <1>. SUFFICES ASSUME Worker!TypeOK, [Worker!Next]_Worker!vars PROVE Worker!TypeOK'
    OBVIOUS
  <1>1. ASSUME NEW c \in Callers, Worker!GetSnapshot(c) PROVE Worker!TypeOK'
    BY <1>1, CameraConstants
    DEF Worker!GetSnapshot, Worker!Goto, Worker!worker, Worker!frames, Worker!TypeOK
  <1>2. ASSUME NEW c \in Callers, Worker!EnsureStarted(c) PROVE Worker!TypeOK'
    BY <1>2, CameraConstants
    DEF Worker!EnsureStarted, Worker!Goto, Worker!frames, Worker!TypeOK
  <1>3. ASSUME NEW c \in Callers, Worker!StartProbe(c) PROVE Worker!TypeOK'
    BY <1>3, CameraConstants
    DEF Worker!StartProbe, Worker!Opening, Worker!Goto, Worker!Free, Worker!worker,
        Worker!frames, Worker!TypeOK, CameraConstants
  <1>4. ASSUME NEW c \in Callers, Worker!OpenMedia(c) PROVE Worker!TypeOK'
    BY <1>4, CameraConstants
    DEF Worker!OpenMedia, Worker!Opening, Worker!Goto, Worker!Free,
        Worker!frames, Worker!TypeOK, CameraConstants
  <1>5. ASSUME NEW c \in Callers, Worker!StartMedia(c) PROVE Worker!TypeOK'
    BY <1>5, CameraConstants
    DEF Worker!StartMedia, Worker!Opened, Worker!Goto, Worker!frames, Worker!Free,
        Worker!TypeOK, CameraConstants
  <1>6. ASSUME NEW c \in Callers, Worker!StartMediaFails(c) PROVE Worker!TypeOK'
    BY <1>6, CameraConstants
    DEF Worker!StartMediaFails, Worker!RoundFails, Worker!Discarded, 
        Worker!Goto, Worker!worker, Worker!frames, Worker!Free, Worker!TypeOK, CameraConstants
  <1>7. ASSUME NEW c \in Callers, Worker!StartFails(c) PROVE Worker!TypeOK'
    BY <1>7, CameraConstants
    DEF Worker!StartFails, Worker!Goto, Worker!Return, Worker!frames, Worker!TypeOK
  <1>8. ASSUME NEW c \in Callers, Worker!CurrentSnapshot(c) PROVE Worker!TypeOK'
    BY <1>8, CameraConstants
    DEF Worker!CurrentSnapshot, Worker!Goto, Worker!Return, Worker!worker, Worker!frames,
        Worker!TypeOK
  <1>9. ASSUME NEW c \in Callers, Worker!SnapshotExpired(c) PROVE Worker!TypeOK'
    BY <1>9, CameraConstants
    DEF Worker!SnapshotExpired, Worker!Goto, Worker!worker, Worker!frames, Worker!TypeOK
  <1>10. ASSUME NEW c \in Callers, Worker!WaitForSnapshot(c) PROVE Worker!TypeOK'
    BY <1>10, CameraConstants
    DEF Worker!WaitForSnapshot, Worker!Goto, Worker!Return, Worker!worker, Worker!TypeOK
  <1>11. ASSUME NEW c \in Callers, Worker!ContextDone(c) PROVE Worker!TypeOK'
    BY <1>11, CameraConstants
    DEF Worker!ContextDone, Worker!Goto, Worker!Return, Worker!RemoveWaiter, Worker!worker,
        Worker!TypeOK
  <1>12. ASSUME NEW c \in Callers, Worker!WaitTimesOut(c) PROVE Worker!TypeOK'
    BY <1>12, CameraConstants
    DEF Worker!WaitTimesOut, Worker!Goto, Worker!RemoveWaiter, Worker!worker, Worker!TypeOK
  <1>13. ASSUME NEW c \in Callers, Worker!Wakes(c) PROVE Worker!TypeOK'
    BY <1>13, CameraConstants
    DEF Worker!Wakes, Worker!Goto, Worker!Return, Worker!RemoveWaiter, Worker!worker,
        Worker!TypeOK
  <1>14. ASSUME NEW c \in Callers, Worker!RestartPipeline(c) PROVE Worker!TypeOK'
    <2>1. CASE closer = None
      BY <1>14, <2>1, NextAttemptTyped DEF Worker!RestartPipeline, Worker!TypeOK
    <2>2. CASE closer # None
      BY <1>14, <2>2 DEF Worker!RestartPipeline, Worker!Goto, Worker!TypeOK
    <2>. QED
      BY <2>1, <2>2
  <1>15. ASSUME NEW c \in Callers, Worker!RestartEnds(c) PROVE Worker!TypeOK'
    BY <1>15, NextAttemptTyped DEF Worker!RestartEnds, Worker!frames, Worker!TypeOK
  <1>16. ASSUME Worker!OnJPEG PROVE Worker!TypeOK'
    BY <1>16, CameraConstants
    DEF Worker!OnJPEG, Worker!calls, Worker!worker, Worker!TypeOK
  <1>17. ASSUME Worker!FrameAges PROVE Worker!TypeOK'
    BY <1>17, CameraConstants
    DEF Worker!FrameAges, Worker!calls, Worker!worker, Worker!TypeOK
  <1>18. CASE UNCHANGED Worker!vars
    BY <1>18, CameraConstants
    DEF Worker!vars, Worker!calls, Worker!worker, Worker!frames, Worker!TypeOK
  <1>19. ASSUME NEW c \in Callers, Worker!StreamAnswers(c) PROVE Worker!TypeOK'
    BY <1>19, CameraConstants
    DEF Worker!StreamAnswers, Worker!Opened, Worker!Goto, Worker!frames, Worker!Free,
        Worker!TypeOK, CameraConstants
  <1>20. ASSUME NEW c \in Callers, Worker!StreamFails(c) PROVE Worker!TypeOK'
    BY <1>20, CameraConstants
    DEF Worker!StreamFails, Worker!Discarded, Worker!Goto, Worker!worker, Worker!frames,
        Worker!Free, Worker!TypeOK, CameraConstants
  <1>21. ASSUME NEW c \in Callers, Worker!LoginSucceeds(c) PROVE Worker!TypeOK'
    BY <1>21, CameraConstants
    DEF Worker!LoginSucceeds, Worker!Goto, Worker!worker, Worker!frames, Worker!Free,
        Worker!TypeOK, CameraConstants
  <1>22. ASSUME NEW c \in Callers, Worker!LoginFails(c) PROVE Worker!TypeOK'
    BY <1>22, CameraConstants
    DEF Worker!LoginFails, Worker!RoundFails, Worker!Discarded, Worker!Goto,
        Worker!worker, Worker!frames, Worker!Free, Worker!TypeOK, CameraConstants
  <1>. QED
    BY <1>1, <1>2, <1>3, <1>4, <1>5, <1>6, <1>7, <1>8, <1>9, <1>10, <1>11, <1>12, <1>13, <1>14,
       <1>15, <1>16, <1>17, <1>18, <1>19, <1>20, <1>21, <1>22
    DEF Worker!Next, Worker!Steps, Worker!Answers

LEMMA HolderStep ==
  Worker!TypeOK /\ HolderWorks /\ [Worker!Next]_Worker!vars => HolderWorks'
  <1>. SUFFICES ASSUME Worker!TypeOK, HolderWorks, [Worker!Next]_Worker!vars PROVE HolderWorks'
    OBVIOUS
  <1>1. ASSUME NEW c \in Callers, Worker!GetSnapshot(c) PROVE HolderWorks'
    BY <1>1, CameraConstants
    DEF Worker!GetSnapshot, Worker!Goto, Worker!worker, Worker!frames, Worker!TypeOK,
        HolderWorks, AtStart, CameraConstants
  <1>2. ASSUME NEW c \in Callers, Worker!EnsureStarted(c) PROVE HolderWorks'
    BY <1>2, CameraConstants
    DEF Worker!EnsureStarted, Worker!Goto, Worker!frames, Worker!TypeOK, HolderWorks, AtStart,
        CameraConstants
  <1>3. ASSUME NEW c \in Callers, Worker!StartProbe(c) PROVE HolderWorks'
    BY <1>3, CameraConstants
    DEF Worker!StartProbe, Worker!Opening, Worker!Goto, Worker!Free, Worker!worker,
        Worker!frames, Worker!TypeOK, HolderWorks, AtStart, CameraConstants
  <1>4. ASSUME NEW c \in Callers, Worker!OpenMedia(c) PROVE HolderWorks'
    BY <1>4, CameraConstants
    DEF Worker!OpenMedia, Worker!Opening, Worker!Goto, Worker!Free,
        Worker!frames, Worker!TypeOK, HolderWorks, AtStart, CameraConstants
  <1>5. ASSUME NEW c \in Callers, Worker!StartMedia(c) PROVE HolderWorks'
    BY <1>5, CameraConstants
    DEF Worker!StartMedia, Worker!Opened, Worker!Goto, Worker!frames, Worker!Free, Worker!TypeOK,
        HolderWorks, AtStart, CameraConstants
  <1>6. ASSUME NEW c \in Callers, Worker!StartMediaFails(c) PROVE HolderWorks'
    BY <1>6, CameraConstants
    DEF Worker!StartMediaFails, Worker!RoundFails, Worker!Discarded, 
        Worker!Goto, Worker!worker, Worker!frames, Worker!Free, Worker!TypeOK, HolderWorks, AtStart,
        CameraConstants
  <1>7. ASSUME NEW c \in Callers, Worker!StartFails(c) PROVE HolderWorks'
    BY <1>7, CameraConstants
    DEF Worker!StartFails, Worker!Goto, Worker!Return, Worker!frames, Worker!TypeOK, HolderWorks,
        AtStart, CameraConstants
  <1>8. ASSUME NEW c \in Callers, Worker!CurrentSnapshot(c) PROVE HolderWorks'
    BY <1>8, CameraConstants
    DEF Worker!CurrentSnapshot, Worker!Goto, Worker!Return, Worker!worker, Worker!frames,
        Worker!TypeOK, HolderWorks, AtStart, CameraConstants
  <1>9. ASSUME NEW c \in Callers, Worker!SnapshotExpired(c) PROVE HolderWorks'
    BY <1>9, CameraConstants
    DEF Worker!SnapshotExpired, Worker!Goto, Worker!worker, Worker!frames, Worker!TypeOK,
        HolderWorks, AtStart, CameraConstants
  <1>10. ASSUME NEW c \in Callers, Worker!WaitForSnapshot(c) PROVE HolderWorks'
    BY <1>10, CameraConstants
    DEF Worker!WaitForSnapshot, Worker!Goto, Worker!Return, Worker!worker, Worker!TypeOK,
        HolderWorks, AtStart, CameraConstants
  <1>11. ASSUME NEW c \in Callers, Worker!ContextDone(c) PROVE HolderWorks'
    BY <1>11, CameraConstants
    DEF Worker!ContextDone, Worker!Goto, Worker!Return, Worker!RemoveWaiter, Worker!worker,
        Worker!TypeOK, HolderWorks, AtStart, CameraConstants
  <1>12. ASSUME NEW c \in Callers, Worker!WaitTimesOut(c) PROVE HolderWorks'
    BY <1>12, CameraConstants
    DEF Worker!WaitTimesOut, Worker!Goto, Worker!RemoveWaiter, Worker!worker, Worker!TypeOK,
        HolderWorks, AtStart, CameraConstants
  <1>13. ASSUME NEW c \in Callers, Worker!Wakes(c) PROVE HolderWorks'
    BY <1>13, CameraConstants
    DEF Worker!Wakes, Worker!Goto, Worker!Return, Worker!RemoveWaiter, Worker!worker,
        Worker!TypeOK, HolderWorks, AtStart, CameraConstants
  <1>14. ASSUME NEW c \in Callers, Worker!RestartPipeline(c) PROVE HolderWorks'
    BY <1>14, CameraConstants
    DEF Worker!RestartPipeline, Worker!Goto, Worker!Return, Worker!NextAttempt, Worker!TypeOK,
        HolderWorks, AtStart, CameraConstants
  <1>15. ASSUME NEW c \in Callers, Worker!RestartEnds(c) PROVE HolderWorks'
    BY <1>15, CameraConstants
    DEF Worker!RestartEnds, Worker!Goto, Worker!Return, Worker!NextAttempt, Worker!frames,
        Worker!TypeOK, HolderWorks, AtStart, CameraConstants
  <1>16. ASSUME Worker!OnJPEG PROVE HolderWorks'
    BY <1>16, CameraConstants
    DEF Worker!OnJPEG, Worker!calls, Worker!worker, Worker!TypeOK, HolderWorks, AtStart,
        CameraConstants
  <1>17. ASSUME Worker!FrameAges PROVE HolderWorks'
    BY <1>17, CameraConstants
    DEF Worker!FrameAges, Worker!calls, Worker!worker, Worker!TypeOK, HolderWorks, AtStart,
        CameraConstants
  <1>18. CASE UNCHANGED Worker!vars
    BY <1>18, CameraConstants
    DEF Worker!vars, Worker!calls, Worker!worker, Worker!frames, Worker!TypeOK, HolderWorks,
        AtStart, CameraConstants
  <1>19. ASSUME NEW c \in Callers, Worker!StreamAnswers(c) PROVE HolderWorks'
    BY <1>19, CameraConstants
    DEF Worker!StreamAnswers, Worker!Opened, Worker!Goto, Worker!frames, Worker!Free,
        Worker!TypeOK, HolderWorks, AtStart, CameraConstants
  <1>20. ASSUME NEW c \in Callers, Worker!StreamFails(c) PROVE HolderWorks'
    BY <1>20, CameraConstants
    DEF Worker!StreamFails, Worker!Discarded, Worker!Goto, Worker!worker, Worker!frames,
        Worker!Free, Worker!TypeOK, HolderWorks, AtStart, CameraConstants
  <1>21. ASSUME NEW c \in Callers, Worker!LoginSucceeds(c) PROVE HolderWorks'
    BY <1>21, CameraConstants
    DEF Worker!LoginSucceeds, Worker!Goto, Worker!worker, Worker!frames, Worker!Free,
        Worker!TypeOK, HolderWorks, AtStart, CameraConstants
  <1>22. ASSUME NEW c \in Callers, Worker!LoginFails(c) PROVE HolderWorks'
    BY <1>22, CameraConstants
    DEF Worker!LoginFails, Worker!RoundFails, Worker!Discarded, Worker!Goto,
        Worker!worker, Worker!frames, Worker!Free, Worker!TypeOK, HolderWorks, AtStart, CameraConstants
  <1>. QED
    BY <1>1, <1>2, <1>3, <1>4, <1>5, <1>6, <1>7, <1>8, <1>9, <1>10, <1>11, <1>12, <1>13, <1>14,
       <1>15, <1>16, <1>17, <1>18, <1>19, <1>20, <1>21, <1>22
    DEF Worker!Next, Worker!Steps, Worker!Answers

LEMMA NewStep ==
  Worker!TypeOK /\ HolderWorks /\ NewIsHeld /\ [Worker!Next]_Worker!vars => NewIsHeld'
  <1>. SUFFICES ASSUME Worker!TypeOK, HolderWorks, NewIsHeld, [Worker!Next]_Worker!vars PROVE NewIsHeld'
    OBVIOUS
  <1>1. ASSUME NEW c \in Callers, Worker!GetSnapshot(c) PROVE NewIsHeld'
    BY <1>1
    DEF Worker!GetSnapshot, Worker!Goto, Worker!worker, Worker!frames, Worker!TypeOK,
        HolderWorks, AtStart, NewIsHeld
  <1>2. ASSUME NEW c \in Callers, Worker!EnsureStarted(c) PROVE NewIsHeld'
    BY <1>2
    DEF Worker!EnsureStarted, Worker!Goto, Worker!frames, Worker!TypeOK, HolderWorks, AtStart,
        NewIsHeld
  <1>3. ASSUME NEW c \in Callers, Worker!StartProbe(c) PROVE NewIsHeld'
    BY <1>3
    DEF Worker!StartProbe, Worker!Opening, Worker!Goto, Worker!Free, Worker!worker,
        Worker!frames, Worker!TypeOK, HolderWorks, AtStart, NewIsHeld
  <1>4. ASSUME NEW c \in Callers, Worker!OpenMedia(c) PROVE NewIsHeld'
    BY <1>4
    DEF Worker!OpenMedia, Worker!Opening, Worker!Goto, Worker!Free,
        Worker!frames, Worker!TypeOK, HolderWorks, AtStart, NewIsHeld
  <1>5. ASSUME NEW c \in Callers, Worker!StartMedia(c) PROVE NewIsHeld'
    BY <1>5
    DEF Worker!StartMedia, Worker!Opened, Worker!Goto, Worker!frames, Worker!Free, Worker!TypeOK,
        HolderWorks, AtStart, NewIsHeld
  <1>6. ASSUME NEW c \in Callers, Worker!StartMediaFails(c) PROVE NewIsHeld'
    BY <1>6
    DEF Worker!StartMediaFails, Worker!RoundFails, Worker!Discarded, 
        Worker!Goto, Worker!worker, Worker!frames, Worker!Free, Worker!TypeOK, HolderWorks, AtStart, NewIsHeld
  <1>7. ASSUME NEW c \in Callers, Worker!StartFails(c) PROVE NewIsHeld'
    BY <1>7
    DEF Worker!StartFails, Worker!Goto, Worker!Return, Worker!frames, Worker!TypeOK, HolderWorks,
        AtStart, NewIsHeld
  <1>8. ASSUME NEW c \in Callers, Worker!CurrentSnapshot(c) PROVE NewIsHeld'
    BY <1>8
    DEF Worker!CurrentSnapshot, Worker!Goto, Worker!Return, Worker!worker, Worker!frames,
        Worker!TypeOK, HolderWorks, AtStart, NewIsHeld
  <1>9. ASSUME NEW c \in Callers, Worker!SnapshotExpired(c) PROVE NewIsHeld'
    BY <1>9
    DEF Worker!SnapshotExpired, Worker!Goto, Worker!worker, Worker!frames, Worker!TypeOK,
        HolderWorks, AtStart, NewIsHeld
  <1>10. ASSUME NEW c \in Callers, Worker!WaitForSnapshot(c) PROVE NewIsHeld'
    BY <1>10
    DEF Worker!WaitForSnapshot, Worker!Goto, Worker!Return, Worker!worker, Worker!TypeOK,
        HolderWorks, AtStart, NewIsHeld
  <1>11. ASSUME NEW c \in Callers, Worker!ContextDone(c) PROVE NewIsHeld'
    BY <1>11
    DEF Worker!ContextDone, Worker!Goto, Worker!Return, Worker!RemoveWaiter, Worker!worker,
        Worker!TypeOK, HolderWorks, AtStart, NewIsHeld
  <1>12. ASSUME NEW c \in Callers, Worker!WaitTimesOut(c) PROVE NewIsHeld'
    BY <1>12
    DEF Worker!WaitTimesOut, Worker!Goto, Worker!RemoveWaiter, Worker!worker, Worker!TypeOK,
        HolderWorks, AtStart, NewIsHeld
  <1>13. ASSUME NEW c \in Callers, Worker!Wakes(c) PROVE NewIsHeld'
    BY <1>13
    DEF Worker!Wakes, Worker!Goto, Worker!Return, Worker!RemoveWaiter, Worker!worker,
        Worker!TypeOK, HolderWorks, AtStart, NewIsHeld
  <1>14. ASSUME NEW c \in Callers, Worker!RestartPipeline(c) PROVE NewIsHeld'
    BY <1>14
    DEF Worker!RestartPipeline, Worker!Goto, Worker!Return, Worker!NextAttempt, Worker!TypeOK,
        HolderWorks, AtStart, NewIsHeld
  <1>15. ASSUME NEW c \in Callers, Worker!RestartEnds(c) PROVE NewIsHeld'
    BY <1>15
    DEF Worker!RestartEnds, Worker!Goto, Worker!Return, Worker!NextAttempt, Worker!frames,
        Worker!TypeOK, HolderWorks, AtStart, NewIsHeld
  <1>16. ASSUME Worker!OnJPEG PROVE NewIsHeld'
    BY <1>16
    DEF Worker!OnJPEG, Worker!calls, Worker!worker, Worker!TypeOK, HolderWorks, AtStart,
        NewIsHeld
  <1>17. ASSUME Worker!FrameAges PROVE NewIsHeld'
    BY <1>17
    DEF Worker!FrameAges, Worker!calls, Worker!worker, Worker!TypeOK, HolderWorks, AtStart,
        NewIsHeld
  <1>18. CASE UNCHANGED Worker!vars
    BY <1>18
    DEF Worker!vars, Worker!calls, Worker!worker, Worker!frames, Worker!TypeOK, HolderWorks,
        AtStart, NewIsHeld
  <1>19. ASSUME NEW c \in Callers, Worker!StreamAnswers(c) PROVE NewIsHeld'
    BY <1>19
    DEF Worker!StreamAnswers, Worker!Opened, Worker!Goto, Worker!frames, Worker!Free,
        Worker!TypeOK, HolderWorks, AtStart, NewIsHeld
  <1>20. ASSUME NEW c \in Callers, Worker!StreamFails(c) PROVE NewIsHeld'
    BY <1>20
    DEF Worker!StreamFails, Worker!Discarded, Worker!Goto, Worker!worker, Worker!frames,
        Worker!Free, Worker!TypeOK, HolderWorks, AtStart, NewIsHeld
  <1>21. ASSUME NEW c \in Callers, Worker!LoginSucceeds(c) PROVE NewIsHeld'
    BY <1>21
    DEF Worker!LoginSucceeds, Worker!Goto, Worker!worker, Worker!frames, Worker!Free,
        Worker!TypeOK, HolderWorks, AtStart, NewIsHeld
  <1>22. ASSUME NEW c \in Callers, Worker!LoginFails(c) PROVE NewIsHeld'
    BY <1>22
    DEF Worker!LoginFails, Worker!RoundFails, Worker!Discarded, Worker!Goto,
        Worker!worker, Worker!frames, Worker!Free, Worker!TypeOK, HolderWorks, AtStart, NewIsHeld
  <1>. QED
    BY <1>1, <1>2, <1>3, <1>4, <1>5, <1>6, <1>7, <1>8, <1>9, <1>10, <1>11, <1>12, <1>13, <1>14,
       <1>15, <1>16, <1>17, <1>18, <1>19, <1>20, <1>21, <1>22
    DEF Worker!Next, Worker!Steps, Worker!Answers

LEMMA LeakStep ==
  Worker!TypeOK /\ HolderWorks /\ NewIsHeld /\ Worker!NoPipelineLeaks /\ [Worker!Next]_Worker!vars => Worker!NoPipelineLeaks'
  <1>. SUFFICES ASSUME Worker!TypeOK, HolderWorks, NewIsHeld, Worker!NoPipelineLeaks, [Worker!Next]_Worker!vars PROVE Worker!NoPipelineLeaks'
    OBVIOUS
  <1>1. ASSUME NEW c \in Callers, Worker!GetSnapshot(c) PROVE Worker!NoPipelineLeaks'
    BY <1>1, CameraConstants
    DEF Worker!GetSnapshot, Worker!Goto, Worker!worker, Worker!frames, Worker!TypeOK,
        HolderWorks, AtStart, NewIsHeld, Worker!NoPipelineLeaks, Worker!Free, CameraConstants
  <1>2. ASSUME NEW c \in Callers, Worker!EnsureStarted(c) PROVE Worker!NoPipelineLeaks'
    BY <1>2, CameraConstants
    DEF Worker!EnsureStarted, Worker!Goto, Worker!frames, Worker!TypeOK, HolderWorks, AtStart,
        NewIsHeld, Worker!NoPipelineLeaks, Worker!Free, CameraConstants
  <1>3. ASSUME NEW c \in Callers, Worker!StartProbe(c) PROVE Worker!NoPipelineLeaks'
    BY <1>3, CameraConstants
    DEF Worker!StartProbe, Worker!Opening, Worker!Goto, Worker!Free, Worker!worker,
        Worker!frames, Worker!TypeOK, HolderWorks, AtStart, NewIsHeld, Worker!NoPipelineLeaks,
        CameraConstants
  <1>4. ASSUME NEW c \in Callers, Worker!OpenMedia(c) PROVE Worker!NoPipelineLeaks'
    BY <1>4, CameraConstants
    DEF Worker!OpenMedia, Worker!Opening, Worker!Goto, Worker!Free,
        Worker!frames, Worker!TypeOK, HolderWorks, AtStart, NewIsHeld, Worker!NoPipelineLeaks,
        CameraConstants
  <1>5. ASSUME NEW c \in Callers, Worker!StartMedia(c) PROVE Worker!NoPipelineLeaks'
    BY <1>5, CameraConstants
    DEF Worker!StartMedia, Worker!Opened, Worker!Goto, Worker!frames, Worker!Free, Worker!TypeOK,
        HolderWorks, AtStart, NewIsHeld, Worker!NoPipelineLeaks, CameraConstants
  <1>6. ASSUME NEW c \in Callers, Worker!StartMediaFails(c) PROVE Worker!NoPipelineLeaks'
    BY <1>6, CameraConstants
    DEF Worker!StartMediaFails, Worker!RoundFails, Worker!Discarded, 
        Worker!Goto, Worker!worker, Worker!frames, Worker!Free, Worker!TypeOK, HolderWorks, AtStart, NewIsHeld,
        Worker!NoPipelineLeaks, CameraConstants
  <1>7. ASSUME NEW c \in Callers, Worker!StartFails(c) PROVE Worker!NoPipelineLeaks'
    BY <1>7, CameraConstants
    DEF Worker!StartFails, Worker!Goto, Worker!Return, Worker!frames, Worker!TypeOK, HolderWorks,
        AtStart, NewIsHeld, Worker!NoPipelineLeaks, Worker!Free, CameraConstants
  <1>8. ASSUME NEW c \in Callers, Worker!CurrentSnapshot(c) PROVE Worker!NoPipelineLeaks'
    BY <1>8, CameraConstants
    DEF Worker!CurrentSnapshot, Worker!Goto, Worker!Return, Worker!worker, Worker!frames,
        Worker!TypeOK, HolderWorks, AtStart, NewIsHeld, Worker!NoPipelineLeaks, Worker!Free,
        CameraConstants
  <1>9. ASSUME NEW c \in Callers, Worker!SnapshotExpired(c) PROVE Worker!NoPipelineLeaks'
    BY <1>9, CameraConstants
    DEF Worker!SnapshotExpired, Worker!Goto, Worker!worker, Worker!frames, Worker!TypeOK,
        HolderWorks, AtStart, NewIsHeld, Worker!NoPipelineLeaks, Worker!Free, CameraConstants
  <1>10. ASSUME NEW c \in Callers, Worker!WaitForSnapshot(c) PROVE Worker!NoPipelineLeaks'
    BY <1>10, CameraConstants
    DEF Worker!WaitForSnapshot, Worker!Goto, Worker!Return, Worker!worker, Worker!TypeOK,
        HolderWorks, AtStart, NewIsHeld, Worker!NoPipelineLeaks, Worker!Free, CameraConstants
  <1>11. ASSUME NEW c \in Callers, Worker!ContextDone(c) PROVE Worker!NoPipelineLeaks'
    BY <1>11, CameraConstants
    DEF Worker!ContextDone, Worker!Goto, Worker!Return, Worker!RemoveWaiter, Worker!worker,
        Worker!TypeOK, HolderWorks, AtStart, NewIsHeld, Worker!NoPipelineLeaks, Worker!Free,
        CameraConstants
  <1>12. ASSUME NEW c \in Callers, Worker!WaitTimesOut(c) PROVE Worker!NoPipelineLeaks'
    BY <1>12, CameraConstants
    DEF Worker!WaitTimesOut, Worker!Goto, Worker!RemoveWaiter, Worker!worker, Worker!TypeOK,
        HolderWorks, AtStart, NewIsHeld, Worker!NoPipelineLeaks, Worker!Free, CameraConstants
  <1>13. ASSUME NEW c \in Callers, Worker!Wakes(c) PROVE Worker!NoPipelineLeaks'
    BY <1>13, CameraConstants
    DEF Worker!Wakes, Worker!Goto, Worker!Return, Worker!RemoveWaiter, Worker!worker,
        Worker!TypeOK, HolderWorks, AtStart, NewIsHeld, Worker!NoPipelineLeaks, Worker!Free,
        CameraConstants
  <1>14. ASSUME NEW c \in Callers, Worker!RestartPipeline(c) PROVE Worker!NoPipelineLeaks'
    BY <1>14, CameraConstants
    DEF Worker!RestartPipeline, Worker!Goto, Worker!Return, Worker!NextAttempt, Worker!TypeOK,
        HolderWorks, AtStart, NewIsHeld, Worker!NoPipelineLeaks, Worker!Free, CameraConstants
  <1>15. ASSUME NEW c \in Callers, Worker!RestartEnds(c) PROVE Worker!NoPipelineLeaks'
    BY <1>15, CameraConstants
    DEF Worker!RestartEnds, Worker!Goto, Worker!Return, Worker!NextAttempt, Worker!frames,
        Worker!TypeOK, HolderWorks, AtStart, NewIsHeld, Worker!NoPipelineLeaks, Worker!Free,
        CameraConstants
  <1>16. ASSUME Worker!OnJPEG PROVE Worker!NoPipelineLeaks'
    BY <1>16, CameraConstants
    DEF Worker!OnJPEG, Worker!calls, Worker!worker, Worker!TypeOK, HolderWorks, AtStart,
        NewIsHeld, Worker!NoPipelineLeaks, Worker!Free, CameraConstants
  <1>17. ASSUME Worker!FrameAges PROVE Worker!NoPipelineLeaks'
    BY <1>17, CameraConstants
    DEF Worker!FrameAges, Worker!calls, Worker!worker, Worker!TypeOK, HolderWorks, AtStart,
        NewIsHeld, Worker!NoPipelineLeaks, Worker!Free, CameraConstants
  <1>18. CASE UNCHANGED Worker!vars
    BY <1>18, CameraConstants
    DEF Worker!vars, Worker!calls, Worker!worker, Worker!frames, Worker!TypeOK, HolderWorks,
        AtStart, NewIsHeld, Worker!NoPipelineLeaks, Worker!Free, CameraConstants
  <1>19. ASSUME NEW c \in Callers, Worker!StreamAnswers(c) PROVE Worker!NoPipelineLeaks'
    BY <1>19, CameraConstants
    DEF Worker!StreamAnswers, Worker!Opened, Worker!Goto, Worker!frames, Worker!Free,
        Worker!TypeOK, HolderWorks, AtStart, NewIsHeld, Worker!NoPipelineLeaks, CameraConstants
  <1>20. ASSUME NEW c \in Callers, Worker!StreamFails(c) PROVE Worker!NoPipelineLeaks'
    BY <1>20, CameraConstants
    DEF Worker!StreamFails, Worker!Discarded, Worker!Goto, Worker!worker, Worker!frames,
        Worker!Free, Worker!TypeOK, HolderWorks, AtStart, NewIsHeld, Worker!NoPipelineLeaks,
        CameraConstants
  <1>21. ASSUME NEW c \in Callers, Worker!LoginSucceeds(c) PROVE Worker!NoPipelineLeaks'
    BY <1>21, CameraConstants
    DEF Worker!LoginSucceeds, Worker!Goto, Worker!worker, Worker!frames, Worker!Free,
        Worker!TypeOK, HolderWorks, AtStart, NewIsHeld, Worker!NoPipelineLeaks, CameraConstants
  <1>22. ASSUME NEW c \in Callers, Worker!LoginFails(c) PROVE Worker!NoPipelineLeaks'
    BY <1>22, CameraConstants
    DEF Worker!LoginFails, Worker!RoundFails, Worker!Discarded, Worker!Goto,
        Worker!worker, Worker!frames, Worker!Free, Worker!TypeOK, HolderWorks, AtStart, NewIsHeld,
        Worker!NoPipelineLeaks, CameraConstants
  <1>. QED
    BY <1>1, <1>2, <1>3, <1>4, <1>5, <1>6, <1>7, <1>8, <1>9, <1>10, <1>11, <1>12, <1>13, <1>14,
       <1>15, <1>16, <1>17, <1>18, <1>19, <1>20, <1>21, <1>22
    DEF Worker!Next, Worker!Steps, Worker!Answers

LEMMA MissedStep ==
  Worker!TypeOK /\ Worker!NoFrameIsMissed /\ [Worker!Next]_Worker!vars => Worker!NoFrameIsMissed'
  <1>. SUFFICES ASSUME Worker!TypeOK, Worker!NoFrameIsMissed, [Worker!Next]_Worker!vars PROVE Worker!NoFrameIsMissed'
    OBVIOUS
  <1>1. ASSUME NEW c \in Callers, Worker!GetSnapshot(c) PROVE Worker!NoFrameIsMissed'
    BY <1>1
    DEF Worker!GetSnapshot, Worker!Goto, Worker!worker, Worker!frames, Worker!TypeOK,
        Worker!NoFrameIsMissed
  <1>2. ASSUME NEW c \in Callers, Worker!EnsureStarted(c) PROVE Worker!NoFrameIsMissed'
    BY <1>2
    DEF Worker!EnsureStarted, Worker!Goto, Worker!frames, Worker!TypeOK, Worker!NoFrameIsMissed
  <1>3. ASSUME NEW c \in Callers, Worker!StartProbe(c) PROVE Worker!NoFrameIsMissed'
    BY <1>3
    DEF Worker!StartProbe, Worker!Opening, Worker!Goto, Worker!Free, Worker!worker,
        Worker!frames, Worker!TypeOK, Worker!NoFrameIsMissed
  <1>4. ASSUME NEW c \in Callers, Worker!OpenMedia(c) PROVE Worker!NoFrameIsMissed'
    BY <1>4
    DEF Worker!OpenMedia, Worker!Opening, Worker!Goto, Worker!Free,
        Worker!frames, Worker!TypeOK, Worker!NoFrameIsMissed
  <1>5. ASSUME NEW c \in Callers, Worker!StartMedia(c) PROVE Worker!NoFrameIsMissed'
    BY <1>5
    DEF Worker!StartMedia, Worker!Opened, Worker!Goto, Worker!frames, Worker!Free,
        Worker!TypeOK, Worker!NoFrameIsMissed
  <1>6. ASSUME NEW c \in Callers, Worker!StartMediaFails(c) PROVE Worker!NoFrameIsMissed'
    BY <1>6
    DEF Worker!StartMediaFails, Worker!RoundFails, Worker!Discarded, 
        Worker!Goto, Worker!worker, Worker!frames, Worker!Free, Worker!TypeOK, Worker!NoFrameIsMissed
  <1>7. ASSUME NEW c \in Callers, Worker!StartFails(c) PROVE Worker!NoFrameIsMissed'
    BY <1>7
    DEF Worker!StartFails, Worker!Goto, Worker!Return, Worker!frames, Worker!TypeOK,
        Worker!NoFrameIsMissed
  <1>8. ASSUME NEW c \in Callers, Worker!CurrentSnapshot(c) PROVE Worker!NoFrameIsMissed'
    BY <1>8
    DEF Worker!CurrentSnapshot, Worker!Goto, Worker!Return, Worker!worker, Worker!frames,
        Worker!TypeOK, Worker!NoFrameIsMissed
  <1>9. ASSUME NEW c \in Callers, Worker!SnapshotExpired(c) PROVE Worker!NoFrameIsMissed'
    BY <1>9
    DEF Worker!SnapshotExpired, Worker!Goto, Worker!worker, Worker!frames, Worker!TypeOK,
        Worker!NoFrameIsMissed
  <1>10. ASSUME NEW c \in Callers, Worker!WaitForSnapshot(c) PROVE Worker!NoFrameIsMissed'
    BY <1>10
    DEF Worker!WaitForSnapshot, Worker!Goto, Worker!Return, Worker!worker, Worker!TypeOK,
        Worker!NoFrameIsMissed
  <1>11. ASSUME NEW c \in Callers, Worker!ContextDone(c) PROVE Worker!NoFrameIsMissed'
    BY <1>11
    DEF Worker!ContextDone, Worker!Goto, Worker!Return, Worker!RemoveWaiter, Worker!worker,
        Worker!TypeOK, Worker!NoFrameIsMissed
  <1>12. ASSUME NEW c \in Callers, Worker!WaitTimesOut(c) PROVE Worker!NoFrameIsMissed'
    BY <1>12
    DEF Worker!WaitTimesOut, Worker!Goto, Worker!RemoveWaiter, Worker!worker, Worker!TypeOK,
        Worker!NoFrameIsMissed
  <1>13. ASSUME NEW c \in Callers, Worker!Wakes(c) PROVE Worker!NoFrameIsMissed'
    BY <1>13
    DEF Worker!Wakes, Worker!Goto, Worker!Return, Worker!RemoveWaiter, Worker!worker,
        Worker!TypeOK, Worker!NoFrameIsMissed
  <1>14. ASSUME NEW c \in Callers, Worker!RestartPipeline(c) PROVE Worker!NoFrameIsMissed'
    BY <1>14
    DEF Worker!RestartPipeline, Worker!Goto, Worker!Return, Worker!NextAttempt, Worker!TypeOK,
        Worker!NoFrameIsMissed
  <1>15. ASSUME NEW c \in Callers, Worker!RestartEnds(c) PROVE Worker!NoFrameIsMissed'
    BY <1>15
    DEF Worker!RestartEnds, Worker!Goto, Worker!Return, Worker!NextAttempt, Worker!frames,
        Worker!TypeOK, Worker!NoFrameIsMissed
  <1>16. ASSUME Worker!OnJPEG PROVE Worker!NoFrameIsMissed'
    BY <1>16
    DEF Worker!OnJPEG, Worker!calls, Worker!worker, Worker!TypeOK, Worker!NoFrameIsMissed
  <1>17. ASSUME Worker!FrameAges PROVE Worker!NoFrameIsMissed'
    BY <1>17
    DEF Worker!FrameAges, Worker!calls, Worker!worker, Worker!TypeOK, Worker!NoFrameIsMissed
  <1>18. CASE UNCHANGED Worker!vars
    BY <1>18
    DEF Worker!vars, Worker!calls, Worker!worker, Worker!frames, Worker!TypeOK,
        Worker!NoFrameIsMissed
  <1>19. ASSUME NEW c \in Callers, Worker!StreamAnswers(c) PROVE Worker!NoFrameIsMissed'
    BY <1>19
    DEF Worker!StreamAnswers, Worker!Opened, Worker!Goto, Worker!frames, Worker!Free,
        Worker!TypeOK, Worker!NoFrameIsMissed
  <1>20. ASSUME NEW c \in Callers, Worker!StreamFails(c) PROVE Worker!NoFrameIsMissed'
    BY <1>20
    DEF Worker!StreamFails, Worker!Discarded, Worker!Goto, Worker!worker, Worker!frames,
        Worker!Free, Worker!TypeOK, Worker!NoFrameIsMissed
  <1>21. ASSUME NEW c \in Callers, Worker!LoginSucceeds(c) PROVE Worker!NoFrameIsMissed'
    BY <1>21
    DEF Worker!LoginSucceeds, Worker!Goto, Worker!worker, Worker!frames, Worker!Free,
        Worker!TypeOK, Worker!NoFrameIsMissed
  <1>22. ASSUME NEW c \in Callers, Worker!LoginFails(c) PROVE Worker!NoFrameIsMissed'
    BY <1>22
    DEF Worker!LoginFails, Worker!RoundFails, Worker!Discarded, Worker!Goto,
        Worker!worker, Worker!frames, Worker!Free, Worker!TypeOK, Worker!NoFrameIsMissed
  <1>. QED
    BY <1>1, <1>2, <1>3, <1>4, <1>5, <1>6, <1>7, <1>8, <1>9, <1>10, <1>11, <1>12, <1>13, <1>14,
       <1>15, <1>16, <1>17, <1>18, <1>19, <1>20, <1>21, <1>22
    DEF Worker!Next, Worker!Steps, Worker!Answers

LEMMA WorkerStep == WorkerInv /\ [Worker!Next]_Worker!vars => WorkerInv'
  BY WorkerTypeStep, HolderStep, NewStep, LeakStep, MissedStep DEF WorkerInv

(* A pipeline and its decoder *)

\* run starts at most one process, and stores its session before it goes on.
StartsOnce ==
  /\ ~codec => run \in {"read", "ended"} /\ process = "none" /\ ~decoder
  /\ run = "start" => process = "none" /\ ~decoder
  /\ run = "store" => ~decoder
  /\ run = "store" \/ decoder => process # "none"

PipelineInv == Pipeline!TypeOK /\ StartsOnce /\ Pipeline!ProcessIsOwned

LEMMA PipelineStarts == Pipeline!Init => PipelineInv
  BY DEF Pipeline!Init, PipelineInv, Pipeline!TypeOK, StartsOnce, Pipeline!ProcessIsOwned

LEMMA PipelineTypeStep == Pipeline!TypeOK /\ [Pipeline!Next]_Pipeline!vars => Pipeline!TypeOK'
  <1>. SUFFICES ASSUME Pipeline!TypeOK, [Pipeline!Next]_Pipeline!vars PROVE Pipeline!TypeOK'
    OBVIOUS
  <1>1. ASSUME Pipeline!ReadPacket PROVE Pipeline!TypeOK'
    BY <1>1
    DEF Pipeline!ReadPacket, Pipeline!Goto, Pipeline!TypeOK
  <1>2. ASSUME Pipeline!ReadFails PROVE Pipeline!TypeOK'
    BY <1>2
    DEF Pipeline!ReadFails, Pipeline!Goto, Pipeline!Step, Pipeline!TypeOK
  <1>3. ASSUME Pipeline!StartDecoder PROVE Pipeline!TypeOK'
    BY <1>3
    DEF Pipeline!StartDecoder, Pipeline!Goto, Pipeline!Step, Pipeline!TypeOK
  <1>4. ASSUME Pipeline!StoreDecoder PROVE Pipeline!TypeOK'
    BY <1>4
    DEF Pipeline!StoreDecoder, Pipeline!Goto, Pipeline!TypeOK
  <1>5. ASSUME Pipeline!Prepare PROVE Pipeline!TypeOK'
    BY <1>5
    DEF Pipeline!Prepare, Pipeline!Goto, Pipeline!TypeOK
  <1>6. ASSUME Pipeline!Decode PROVE Pipeline!TypeOK'
    BY <1>6
    DEF Pipeline!Decode, Pipeline!Goto, Pipeline!Step, Pipeline!TypeOK
  <1>7. ASSUME Pipeline!CloseCalled PROVE Pipeline!TypeOK'
    BY <1>7
    DEF Pipeline!CloseCalled, Pipeline!Step, Pipeline!loop, Pipeline!TypeOK
  <1>8. ASSUME Pipeline!ProcessEnds PROVE Pipeline!TypeOK'
    BY <1>8
    DEF Pipeline!ProcessEnds, Pipeline!loop, Pipeline!TypeOK
  <1>9. ASSUME Pipeline!ContextKills PROVE Pipeline!TypeOK'
    BY <1>9
    DEF Pipeline!ContextKills, Pipeline!loop, Pipeline!Kill, Pipeline!TypeOK
  <1>10. ASSUME Pipeline!WaitForExit PROVE Pipeline!TypeOK'
    BY <1>10
    DEF Pipeline!WaitForExit, Pipeline!loop, Pipeline!TypeOK
  <1>11. ASSUME NEW c \in Closers, Pipeline!CloseOnce(c) PROVE Pipeline!TypeOK'
    BY <1>11
    DEF Pipeline!CloseOnce, Pipeline!Step, Pipeline!loop, Pipeline!TypeOK
  <1>12. ASSUME NEW c \in Closers, Pipeline!TakeSession(c) PROVE Pipeline!TypeOK'
    BY <1>12
    DEF Pipeline!TakeSession, Pipeline!Step, Pipeline!loop, Pipeline!Kill, Pipeline!TypeOK
  <1>13. ASSUME NEW c \in Closers, Pipeline!Released(c) PROVE Pipeline!TypeOK'
    BY <1>13
    DEF Pipeline!Released, Pipeline!Step, Pipeline!loop, Pipeline!TypeOK
  <1>14. CASE UNCHANGED Pipeline!vars
    BY <1>14
    DEF Pipeline!vars, Pipeline!loop, Pipeline!TypeOK
  <1>. QED
    BY <1>1, <1>2, <1>3, <1>4, <1>5, <1>6, <1>7, <1>8, <1>9, <1>10, <1>11, <1>12, <1>13, <1>14
    DEF Pipeline!Next, Pipeline!RunSteps, Pipeline!ProcessSteps, Pipeline!Steps

LEMMA StartsOnceStep == Pipeline!TypeOK /\ StartsOnce /\ [Pipeline!Next]_Pipeline!vars => StartsOnce'
  <1>. SUFFICES ASSUME Pipeline!TypeOK, StartsOnce, [Pipeline!Next]_Pipeline!vars PROVE StartsOnce'
    OBVIOUS
  <1>1. ASSUME Pipeline!ReadPacket PROVE StartsOnce'
    BY <1>1
    DEF Pipeline!ReadPacket, Pipeline!Goto, Pipeline!TypeOK, StartsOnce
  <1>2. ASSUME Pipeline!ReadFails PROVE StartsOnce'
    BY <1>2
    DEF Pipeline!ReadFails, Pipeline!Goto, Pipeline!Step, Pipeline!TypeOK, StartsOnce
  <1>3. ASSUME Pipeline!StartDecoder PROVE StartsOnce'
    BY <1>3
    DEF Pipeline!StartDecoder, Pipeline!Goto, Pipeline!Step, Pipeline!TypeOK, StartsOnce
  <1>4. ASSUME Pipeline!StoreDecoder PROVE StartsOnce'
    BY <1>4
    DEF Pipeline!StoreDecoder, Pipeline!Goto, Pipeline!TypeOK, StartsOnce
  <1>5. ASSUME Pipeline!Prepare PROVE StartsOnce'
    BY <1>5
    DEF Pipeline!Prepare, Pipeline!Goto, Pipeline!TypeOK, StartsOnce
  <1>6. ASSUME Pipeline!Decode PROVE StartsOnce'
    BY <1>6
    DEF Pipeline!Decode, Pipeline!Goto, Pipeline!Step, Pipeline!TypeOK, StartsOnce
  <1>7. ASSUME Pipeline!CloseCalled PROVE StartsOnce'
    BY <1>7
    DEF Pipeline!CloseCalled, Pipeline!Step, Pipeline!loop, Pipeline!TypeOK, StartsOnce
  <1>8. ASSUME Pipeline!ProcessEnds PROVE StartsOnce'
    BY <1>8
    DEF Pipeline!ProcessEnds, Pipeline!loop, Pipeline!TypeOK, StartsOnce
  <1>9. ASSUME Pipeline!ContextKills PROVE StartsOnce'
    BY <1>9
    DEF Pipeline!ContextKills, Pipeline!loop, Pipeline!Kill, Pipeline!TypeOK, StartsOnce
  <1>10. ASSUME Pipeline!WaitForExit PROVE StartsOnce'
    BY <1>10
    DEF Pipeline!WaitForExit, Pipeline!loop, Pipeline!TypeOK, StartsOnce
  <1>11. ASSUME NEW c \in Closers, Pipeline!CloseOnce(c) PROVE StartsOnce'
    BY <1>11
    DEF Pipeline!CloseOnce, Pipeline!Step, Pipeline!loop, Pipeline!TypeOK, StartsOnce
  <1>12. ASSUME NEW c \in Closers, Pipeline!TakeSession(c) PROVE StartsOnce'
    BY <1>12
    DEF Pipeline!TakeSession, Pipeline!Step, Pipeline!loop, Pipeline!Kill, Pipeline!TypeOK,
        StartsOnce
  <1>13. ASSUME NEW c \in Closers, Pipeline!Released(c) PROVE StartsOnce'
    BY <1>13
    DEF Pipeline!Released, Pipeline!Step, Pipeline!loop, Pipeline!TypeOK, StartsOnce
  <1>14. CASE UNCHANGED Pipeline!vars
    BY <1>14
    DEF Pipeline!vars, Pipeline!loop, Pipeline!TypeOK, StartsOnce
  <1>. QED
    BY <1>1, <1>2, <1>3, <1>4, <1>5, <1>6, <1>7, <1>8, <1>9, <1>10, <1>11, <1>12, <1>13, <1>14
    DEF Pipeline!Next, Pipeline!RunSteps, Pipeline!ProcessSteps, Pipeline!Steps

LEMMA OwnedStep == PipelineInv /\ [Pipeline!Next]_Pipeline!vars => Pipeline!ProcessIsOwned'
  <1>. SUFFICES ASSUME PipelineInv, [Pipeline!Next]_Pipeline!vars PROVE Pipeline!ProcessIsOwned'
    OBVIOUS
  <1>1. ASSUME Pipeline!ReadPacket PROVE Pipeline!ProcessIsOwned'
    BY <1>1
    DEF Pipeline!ReadPacket, Pipeline!Goto, PipelineInv, Pipeline!TypeOK, StartsOnce,
        Pipeline!ProcessIsOwned
  <1>2. ASSUME Pipeline!ReadFails PROVE Pipeline!ProcessIsOwned'
    BY <1>2
    DEF Pipeline!ReadFails, Pipeline!Goto, Pipeline!Step, PipelineInv, Pipeline!TypeOK, StartsOnce,
        Pipeline!ProcessIsOwned
  <1>3. ASSUME Pipeline!StartDecoder PROVE Pipeline!ProcessIsOwned'
    BY <1>3
    DEF Pipeline!StartDecoder, Pipeline!Goto, Pipeline!Step, PipelineInv, Pipeline!TypeOK,
        StartsOnce,
        Pipeline!ProcessIsOwned
  <1>4. ASSUME Pipeline!StoreDecoder PROVE Pipeline!ProcessIsOwned'
    BY <1>4
    DEF Pipeline!StoreDecoder, Pipeline!Goto, PipelineInv, Pipeline!TypeOK, StartsOnce,
        Pipeline!ProcessIsOwned
  <1>5. ASSUME Pipeline!Prepare PROVE Pipeline!ProcessIsOwned'
    BY <1>5
    DEF Pipeline!Prepare, Pipeline!Goto, PipelineInv, Pipeline!TypeOK, StartsOnce,
        Pipeline!ProcessIsOwned
  <1>6. ASSUME Pipeline!Decode PROVE Pipeline!ProcessIsOwned'
    BY <1>6
    DEF Pipeline!Decode, Pipeline!Goto, Pipeline!Step, PipelineInv, Pipeline!TypeOK, StartsOnce,
        Pipeline!ProcessIsOwned
  <1>7. ASSUME Pipeline!CloseCalled PROVE Pipeline!ProcessIsOwned'
    BY <1>7
    DEF Pipeline!CloseCalled, Pipeline!Step, Pipeline!loop, PipelineInv, Pipeline!TypeOK,
        StartsOnce,
        Pipeline!ProcessIsOwned
  <1>8. ASSUME Pipeline!ProcessEnds PROVE Pipeline!ProcessIsOwned'
    BY <1>8
    DEF Pipeline!ProcessEnds, Pipeline!loop, PipelineInv, Pipeline!TypeOK, StartsOnce,
        Pipeline!ProcessIsOwned
  <1>9. ASSUME Pipeline!ContextKills PROVE Pipeline!ProcessIsOwned'
    BY <1>9
    DEF Pipeline!ContextKills, Pipeline!loop, Pipeline!Kill, PipelineInv, Pipeline!TypeOK,
        StartsOnce,
        Pipeline!ProcessIsOwned
  <1>10. ASSUME Pipeline!WaitForExit PROVE Pipeline!ProcessIsOwned'
    BY <1>10
    DEF Pipeline!WaitForExit, Pipeline!loop, PipelineInv, Pipeline!TypeOK, StartsOnce,
        Pipeline!ProcessIsOwned
  <1>11. ASSUME NEW c \in Closers, Pipeline!CloseOnce(c) PROVE Pipeline!ProcessIsOwned'
    BY <1>11
    DEF Pipeline!CloseOnce, Pipeline!Step, Pipeline!loop, PipelineInv, Pipeline!TypeOK, StartsOnce,
        Pipeline!ProcessIsOwned
  <1>12. ASSUME NEW c \in Closers, Pipeline!TakeSession(c) PROVE Pipeline!ProcessIsOwned'
    BY <1>12
    DEF Pipeline!TakeSession, Pipeline!Step, Pipeline!loop, Pipeline!Kill, PipelineInv,
        Pipeline!TypeOK, StartsOnce,
        Pipeline!ProcessIsOwned
  <1>13. ASSUME NEW c \in Closers, Pipeline!Released(c) PROVE Pipeline!ProcessIsOwned'
    BY <1>13
    DEF Pipeline!Released, Pipeline!Step, Pipeline!loop, PipelineInv, Pipeline!TypeOK, StartsOnce,
        Pipeline!ProcessIsOwned
  <1>14. CASE UNCHANGED Pipeline!vars
    BY <1>14
    DEF Pipeline!vars, Pipeline!loop, PipelineInv, Pipeline!TypeOK, StartsOnce,
        Pipeline!ProcessIsOwned
  <1>. QED
    BY <1>1, <1>2, <1>3, <1>4, <1>5, <1>6, <1>7, <1>8, <1>9, <1>10, <1>11, <1>12, <1>13, <1>14
    DEF Pipeline!Next, Pipeline!RunSteps, Pipeline!ProcessSteps, Pipeline!Steps

LEMMA PipelineStep == PipelineInv /\ [Pipeline!Next]_Pipeline!vars => PipelineInv'
  BY PipelineTypeStep, StartsOnceStep, OwnedStep DEF PipelineInv

(* The frames shown to viewers *)

\* Channels of older versions are closed; a viewer waits for that of the version it has taken.
ChannelsFollow ==
  /\ closed = {k \in 0..MaxVersion : k < version}
  /\ \A v \in Viewers :
       /\ after[v] <= version /\ shown[v] <= version
       /\ viewer[v] = "wait" => awaited[v] = after[v]

StoreInv == Store!TypeOK /\ ChannelsFollow

LEMMA StoreStarts == Store!Init => StoreInv
  <1>. SUFFICES ASSUME Store!Init PROVE StoreInv
    OBVIOUS
  <1>1. Store!TypeOK
    BY CameraConstants DEF CameraConstants, Store!Init, Store!TypeOK
  <1>2. ChannelsFollow
    <2>1. {k \in 0..MaxVersion : k < 0} = {}
      BY CameraConstants DEF CameraConstants
    <2>. QED
      BY <2>1 DEF Store!Init, ChannelsFollow
  <1>. QED
    BY <1>1, <1>2 DEF StoreInv

LEMMA StoreTypeStep == Store!TypeOK /\ [Store!Next]_Store!vars => Store!TypeOK'
  <1>. SUFFICES ASSUME Store!TypeOK, [Store!Next]_Store!vars PROVE Store!TypeOK'
    OBVIOUS
  <1>1. ASSUME Store!Store PROVE Store!TypeOK'
    BY <1>1, CameraConstants
    DEF Store!Store, Store!TypeOK, CameraConstants
  <1>2. ASSUME NEW v \in Viewers, Store!Look(v) PROVE Store!TypeOK'
    BY <1>2, CameraConstants
    DEF Store!Look, Store!TypeOK, CameraConstants
  <1>3. ASSUME NEW v \in Viewers, Store!Wake(v) PROVE Store!TypeOK'
    BY <1>3, CameraConstants
    DEF Store!Wake, Store!TypeOK, CameraConstants
  <1>4. ASSUME NEW v \in Viewers, Store!Repeat(v) PROVE Store!TypeOK'
    BY <1>4, CameraConstants
    DEF Store!Repeat, Store!TypeOK, CameraConstants
  <1>5. ASSUME NEW v \in Viewers, Store!Leave(v) PROVE Store!TypeOK'
    BY <1>5, CameraConstants
    DEF Store!Leave, Store!TypeOK, CameraConstants
  <1>6. CASE UNCHANGED Store!vars
    BY <1>6, CameraConstants
    DEF Store!vars, Store!TypeOK, CameraConstants
  <1>. QED
    BY <1>1, <1>2, <1>3, <1>4, <1>5, <1>6
    DEF Store!Next

LEMMA ChannelsFollowStep == StoreInv /\ [Store!Next]_Store!vars => ChannelsFollow'
  <1>. SUFFICES ASSUME StoreInv, [Store!Next]_Store!vars PROVE ChannelsFollow'
    OBVIOUS
  <1>1. ASSUME Store!Store PROVE ChannelsFollow'
    BY <1>1, CameraConstants
    DEF Store!Store, StoreInv, Store!TypeOK, ChannelsFollow,
        CameraConstants
  <1>2. ASSUME NEW v \in Viewers, Store!Look(v) PROVE ChannelsFollow'
    BY <1>2, CameraConstants
    DEF Store!Look, StoreInv, Store!TypeOK, ChannelsFollow,
        CameraConstants
  <1>3. ASSUME NEW v \in Viewers, Store!Wake(v) PROVE ChannelsFollow'
    BY <1>3, CameraConstants
    DEF Store!Wake, StoreInv, Store!TypeOK, ChannelsFollow,
        CameraConstants
  <1>4. ASSUME NEW v \in Viewers, Store!Repeat(v) PROVE ChannelsFollow'
    BY <1>4, CameraConstants
    DEF Store!Repeat, StoreInv, Store!TypeOK, ChannelsFollow,
        CameraConstants
  <1>5. ASSUME NEW v \in Viewers, Store!Leave(v) PROVE ChannelsFollow'
    BY <1>5, CameraConstants
    DEF Store!Leave, StoreInv, Store!TypeOK, ChannelsFollow,
        CameraConstants
  <1>6. CASE UNCHANGED Store!vars
    BY <1>6
    DEF Store!vars, ChannelsFollow, StoreInv
  <1>. QED
    BY <1>1, <1>2, <1>3, <1>4, <1>5, <1>6
    DEF Store!Next

LEMMA StoreStep == StoreInv /\ [Store!Next]_Store!vars => StoreInv'
  BY StoreTypeStep, ChannelsFollowStep DEF StoreInv

LEMMA WaitersWoken == StoreInv => Store!WaitersAreWoken
  BY DEF StoreInv, ChannelsFollow, Store!TypeOK, Store!WaitersAreWoken

LEMMA ShownGrows ==
  StoreInv /\ [Store!Next]_Store!vars => [\A v \in Viewers : shown'[v] >= shown[v]]_shown
  <1>. SUFFICES ASSUME StoreInv, [Store!Next]_Store!vars, shown' # shown
                PROVE \A v \in Viewers : shown'[v] >= shown[v]
    OBVIOUS
  <1>1. ASSUME NEW v \in Viewers, Store!Look(v) \/ Store!Repeat(v)
        PROVE  \A u \in Viewers : shown'[u] >= shown[u]
    <2>1. shown' = [shown EXCEPT ![v] = version]
      BY <1>1 DEF Store!Look, Store!Repeat
    <2>2. shown \in [Viewers -> 0..MaxVersion] /\ version \in 0..MaxVersion /\ shown[v] <= version
      BY DEF StoreInv, Store!TypeOK, ChannelsFollow
    <2>. QED
      BY <2>1, <2>2, CameraConstants DEF CameraConstants
  <1>2. CASE Store!Store \/ (\E v \in Viewers : Store!Wake(v) \/ Store!Leave(v)) \/ UNCHANGED Store!vars
    BY <1>2 DEF Store!Store, Store!Wake, Store!Leave, Store!vars
  <1>. QED
    BY <1>1, <1>2 DEF Store!Next

(* The opening of a connection *)

\* The camera says it is ready for a transport it has, and only such a one is dialled.
ReadyIsOffered ==
  /\ "rdyUDP" \in net => "udp" \in Offered
  /\ "rdyTCP" \in net \/ phase = "dial" => "tcp" \in Offered

MissInv == Miss!TypeOK /\ ReadyIsOffered /\ Miss!SocketsAreOwned

LEMMA MissStarts == Miss!Init => MissInv
  BY DEF Miss!Init, MissInv, Miss!TypeOK, ReadyIsOffered, Miss!SocketsAreOwned

LEMMA MissStep == MissInv /\ [Miss!Next]_Miss!vars => MissInv'
  <1>. SUFFICES ASSUME MissInv, [Miss!Next]_Miss!vars PROVE MissInv'
    OBVIOUS
  <1>1. ASSUME Miss!Open PROVE MissInv'
    BY <1>1, CameraConstants
    DEF Miss!Open, MissInv, Miss!TypeOK, Miss!Datagrams, ReadyIsOffered, Miss!SocketsAreOwned,
        CameraConstants
  <1>2. ASSUME Miss!Resend PROVE MissInv'
    BY <1>2, CameraConstants
    DEF Miss!Resend, Miss!Send, MissInv, Miss!TypeOK, Miss!Datagrams, ReadyIsOffered,
        Miss!SocketsAreOwned, CameraConstants
  <1>3. ASSUME Miss!Punch PROVE MissInv'
    BY <1>3, CameraConstants
    DEF Miss!Punch, Miss!Send, MissInv, Miss!TypeOK, Miss!Datagrams, ReadyIsOffered,
        Miss!SocketsAreOwned, CameraConstants
  <1>4. ASSUME Miss!ReadyUDP PROVE MissInv'
    BY <1>4, CameraConstants
    DEF Miss!ReadyUDP, Miss!Connected, Miss!Accepted, MissInv, Miss!TypeOK, Miss!Datagrams,
        ReadyIsOffered, Miss!SocketsAreOwned, CameraConstants
  <1>5. ASSUME Miss!ReadyTCP PROVE MissInv'
    BY <1>5, CameraConstants
    DEF Miss!ReadyTCP, Miss!Accepted, MissInv, Miss!TypeOK, Miss!Datagrams, ReadyIsOffered,
        Miss!SocketsAreOwned, CameraConstants
  <1>6. ASSUME Miss!DeadlineFires PROVE MissInv'
    BY <1>6, CameraConstants
    DEF Miss!DeadlineFires, Miss!Failed, MissInv, Miss!TypeOK, Miss!Datagrams, ReadyIsOffered,
        Miss!SocketsAreOwned, CameraConstants
  <1>7. ASSUME Miss!Dial PROVE MissInv'
    BY <1>7, CameraConstants
    DEF Miss!Dial, Miss!Failed, Miss!Connected, Miss!Send, MissInv, Miss!TypeOK, Miss!Datagrams,
        ReadyIsOffered, Miss!SocketsAreOwned, CameraConstants
  <1>8. ASSUME Miss!CameraAnswers PROVE MissInv'
    BY <1>8, CameraConstants
    DEF Miss!CameraAnswers, Miss!Camera, Miss!Send, MissInv, Miss!TypeOK, Miss!Datagrams,
        ReadyIsOffered, Miss!SocketsAreOwned, CameraConstants
  <1>9. ASSUME Miss!Lose PROVE MissInv'
    BY <1>9, CameraConstants
    DEF Miss!Lose, MissInv, Miss!TypeOK, Miss!Datagrams, ReadyIsOffered, Miss!SocketsAreOwned,
        CameraConstants
  <1>10. ASSUME Miss!WorkerReceives PROVE MissInv'
    BY <1>10, CameraConstants
    DEF Miss!WorkerReceives, MissInv, Miss!TypeOK, Miss!Datagrams, ReadyIsOffered,
        Miss!SocketsAreOwned, CameraConstants
  <1>11. ASSUME Miss!WorkerFails PROVE MissInv'
    BY <1>11, CameraConstants
    DEF Miss!WorkerFails, MissInv, Miss!TypeOK, Miss!Datagrams, ReadyIsOffered,
        Miss!SocketsAreOwned, CameraConstants
  <1>12. ASSUME Miss!Authorize PROVE MissInv'
    BY <1>12, CameraConstants
    DEF Miss!Authorize, Miss!CloseConn, MissInv, Miss!TypeOK, Miss!Datagrams, ReadyIsOffered,
        Miss!SocketsAreOwned, CameraConstants
  <1>13. ASSUME Miss!MediaEnds PROVE MissInv'
    BY <1>13, CameraConstants
    DEF Miss!MediaEnds, Miss!CloseConn, MissInv, Miss!TypeOK, Miss!Datagrams, ReadyIsOffered,
        Miss!SocketsAreOwned, CameraConstants
  <1>15. ASSUME Miss!OpenFails PROVE MissInv'
    BY <1>15, CameraConstants
    DEF Miss!OpenFails, Miss!Failed, MissInv, Miss!TypeOK, Miss!Datagrams, ReadyIsOffered,
        Miss!SocketsAreOwned, CameraConstants
  <1>14. CASE UNCHANGED Miss!vars
    BY <1>14, CameraConstants
    DEF Miss!vars, MissInv, Miss!TypeOK, Miss!Datagrams, ReadyIsOffered, Miss!SocketsAreOwned,
        CameraConstants
  <1>. QED
    BY <1>1, <1>2, <1>3, <1>4, <1>5, <1>6, <1>7, <1>8, <1>9, <1>10, <1>11, <1>12, <1>13, <1>14,
       <1>15
    DEF Miss!Next

CameraInv ==
  /\ RuntimeInv /\ CallbacksInv /\ ResolverInv
  /\ WorkerInv /\ PipelineInv /\ StoreInv /\ MissInv

\* A step of the run is one of each part, or leaves it alone.
LEMMA MovesOne ==
  ASSUME [MCNext]_<<part, runtimes, native>>
  PROVE  /\ [Next]_vars /\ [Callbacks!Next]_Callbacks!vars /\ [Resolver!Next]_Resolver!vars
         /\ [Worker!Next]_Worker!vars /\ [Pipeline!Next]_Pipeline!vars
         /\ [Store!Next]_Store!vars /\ [Miss!Next]_Miss!vars
  BY DEF MCNext, runtimes, native, tables, resolving, snapshots, pipe, preview, opening,
         Callbacks!vars, Resolver!vars, Resolver!server, Resolver!request, Resolver!history,
         Worker!vars, Worker!calls, Worker!worker, Worker!frames, Pipeline!vars, Pipeline!loop,
         Store!vars, Miss!vars

\* library.go, runtime.go, probe_driver.go, session_resolver.go, stream_manager.go, native_cs2.go: every
\* state of the program satisfies the invariants of the sessions of a camera, of its callbacks, of the
\* resolving of it, and of its worker, pipelines, viewers and connection.
THEOREM CamerasAreSound == MCSpec => []CameraInv
  <1>1. MCInit => CameraInv
    BY RuntimeStarts, CallbacksStart, ResolverStarts, WorkerStarts, PipelineStarts, StoreStarts,
       MissStarts
    DEF MCInit, CameraInv
  <1>2. CameraInv /\ [MCNext]_<<part, runtimes, native>> => CameraInv'
    BY MovesOne, RuntimeStep, CallbacksStep, ResolverStep, WorkerStep, PipelineStep, StoreStep,
       MissStep
    DEF CameraInv
  <1>. QED
    BY <1>1, <1>2, PTL DEF MCSpec

\* Every variable of the cameras, their callbacks, their resolvers and their snapshots keeps its type
\* (runtime.go, probe_driver.go, session_resolver.go, library.go, stream_manager.go,
\* native_pipeline.go, http.go, native_cs2.go).
THEOREM CamerasTypeCorrect == MCSpec => []RuntimeTypeOK
  <1>1. CameraInv => RuntimeTypeOK
    <2>. SUFFICES ASSUME CameraInv PROVE RuntimeTypeOK
      OBVIOUS
    <2>1. TypeOK /\ Callbacks!TypeOK
      BY DEF CameraInv, RuntimeInv, CallbacksInv
    <2>2. clients \in [Resolver!Backend -> Nat]
      BY UsersAreFinite, FS_CardinalityType
      DEF CameraInv, ResolverInv, ResolverTypes, ClientsAreCounted
    <2>3. Resolver!TypeOK
      BY <2>2 DEF CameraInv, ResolverInv, ResolverTypes, OrdersTyped, Resolver!TypeOK
    <2>4. Worker!TypeOK /\ Pipeline!TypeOK /\ Store!TypeOK /\ Miss!TypeOK
      BY DEF CameraInv, WorkerInv, PipelineInv, StoreInv, MissInv
    <2>. QED
      BY <2>1, <2>3, <2>4 DEF RuntimeTypeOK
  <1>. QED
    BY <1>1, CamerasAreSound, PTL

\* runtime.go Start, Stop, watchErrors; probe_driver.go Start, Stop: a session that runs is held by
\* a driver or by the call at work on it unless a second Start replaced it, and the status of a
\* camera that no Start and Stop crossed on has its ground, however the calls and the streams
\* interleave.
THEOREM SessionsStayKept == MCSpec => []SessionsAreKept
  <1>1. CameraInv => SessionsAreKept
    BY DEF CameraInv, RuntimeInv, StatusOutsideCalls, Ending, Stopping, TypeOK, SessionsAreKept,
           StatusIsFounded
  <1>. QED
    BY <1>1, CamerasAreSound, PTL

\* runtime.go, Register and Unregister of every kind: what is registered and was not unregistered is what the
\* tables hold, for any number of callbacks of any kind.
THEOREM CallbacksStayRegistered == MCSpec => []RegistrationsLast
  <1>1. CameraInv => RegistrationsLast
    BY DEF CameraInv, CallbacksInv
  <1>. QED
    BY <1>1, CamerasAreSound, PTL

\* session_resolver.go takeSession, pruneSessionsLocked; library.go fallbackSessionResolverBackend;
\* session_resolver_backend_mihome.go: a session opens one stream, in time; a backend has as many
\* clients open as there are probes and streams of it; and a request fails only when every backend
\* refused it, for any number of users, sessions and backends.
THEOREM SessionsStayServed == MCSpec => []SessionsAreServed
  <1>1. CameraInv => Resolver!ServedOnceInTime /\ Resolver!RefusedByAll
    BY DEF CameraInv, ResolverInv, TakenOnce, NoneIsSkipped, Resolver!ServedOnceInTime,
           Resolver!RefusedByAll, Resolver!At
  <1>2. CameraInv => Resolver!ClientsAreClosed
    BY SameCount DEF CameraInv, ResolverInv, ClientsAreCounted, UsersOf, Resolver!ClientsAreClosed
  <1>. QED
    BY <1>1, <1>2, CamerasAreSound, PTL DEF SessionsAreServed

\* stream_manager.go restartPipeline, GetSnapshot; native_cs2.go, native_miss.go: a pipeline or media
\* client that is open is the worker's, or in the hands of the caller that holds lifecycleMu; nobody
\* waits for a frame that is there; and a handshake, dial or authorization that fails leaves no socket
\* open, for any number of callers and pipelines and any transports of the camera.
THEOREM NothingStaysBehind == MCSpec => []NothingIsLeftBehind
  <1>1. CameraInv => NothingIsLeftBehind
    BY WaitersWoken DEF CameraInv, WorkerInv, PipelineInv, MissInv, NothingIsLeftBehind
  <1>. QED
    BY <1>1, CamerasAreSound, PTL

\* No viewer of the preview is shown an earlier frame than before (http.go Store, WaitForUpdate,
\* handleStream): the action part of ViewersFollow, for any number of viewers and frames.
THEOREM ShownOnlyForward == MCSpec => Store!NeverOlder
  <1>1. CameraInv /\ [MCNext]_<<part, runtimes, native>>
          => [\A v \in Viewers : shown'[v] >= shown[v]]_shown
    BY MovesOne, ShownGrows DEF CameraInv
  <1>. QED
    BY <1>1, CamerasAreSound, PTL DEF MCSpec, Store!NeverOlder
------------------------------------------------------------------------------
(* Numbers *)

\* Every set of numbers has a least one.
LEMMA LeastNumber == ASSUME NEW T, T \subseteq Nat, T # {} PROVE \E x \in T : \A y \in T : x <= y
  <1>. DEFINE R == OpToRel(<, Nat)
  <1>1. R = {ss \in Nat \X Nat : ss[1] < ss[2]}
    BY DEF OpToRel
  <1>2. IsWellFoundedOn(R, Nat)
    BY NatLessThanWellFounded
  <1>. HIDE DEF R
  <1>3. PICK x \in T : \A y \in T : <<y, x>> \notin R
    BY <1>2, WFMin
  <1>4. ASSUME NEW y \in T, y < x PROVE <<y, x>> \in R
    <2>. DEFINE ss == <<y, x>>
    <2>1. ss \in Nat \X Nat /\ ss[1] < ss[2]
      BY <1>4
    <2>. HIDE DEF ss
    <2>2. ss \in R
      BY <1>1, <2>1
    <2>. QED
      BY <2>2 DEF ss
  <1>5. ASSUME NEW y \in T PROVE x <= y
    <2>1. ~(y < x)
      BY <1>3, <1>4
    <2>. QED
      BY <2>1
  <1>. QED
    BY <1>5

\* A set that holds 0 and every successor of its numbers holds all of them.
LEMMA Induction ==
  ASSUME NEW T, 0 \in T, \A n \in Nat : n \in T => n + 1 \in T PROVE Nat \subseteq T
  <1>. SUFFICES ASSUME Nat \ T # {} PROVE FALSE
    OBVIOUS
  <1>1. PICK x \in Nat \ T : \A y \in Nat \ T : x <= y
    BY LeastNumber
  <1>2. x # 0 /\ x - 1 \in Nat /\ x - 1 \in T
    BY <1>1
  <1>3. x \in T
    BY <1>1, <1>2
  <1>. QED
    BY <1>1, <1>3

(* Arithmetic of sequence numbers *)

LEMMA DivMod ==
  ASSUME NEW s \in Nat \ {0}, NEW x \in Int
  PROVE  x \div s \in Int /\ x % s \in 0..s - 1 /\ x = (x \div s) * s + (x % s)
  <1>1. x = (x \div s) * s + (x % s)
    OBVIOUS
  <1>2. x \div s \in Int /\ x % s \in 0..s - 1
    OBVIOUS
  <1>. QED
    BY <1>1, <1>2

LEMMA SmallMultiple ==
  ASSUME NEW s \in Nat \ {0}, NEW k \in Int, k * s < s, -s < k * s
  PROVE  k = 0
  <1>1. k >= 1 => k * s >= s
    OBVIOUS
  <1>2. k <= -1 => k * s <= -s
    OBVIOUS
  <1>. QED
    BY <1>1, <1>2

LEMMA ModUnique ==
  ASSUME NEW s \in Nat \ {0}, NEW x \in Int, NEW k \in Int, NEW r \in 0..s - 1, x = k * s + r
  PROVE  x % s = r
  <1>. DEFINE q == x \div s
  <1>1. q \in Int /\ x % s \in 0..s - 1 /\ x = q * s + (x % s)
    BY DivMod
  <1>. HIDE DEF q
  <1>2. (k - q) * s = (x % s) - r
    BY <1>1
  <1>3. k - q = 0
    BY <1>1, <1>2, SmallMultiple
  <1>. QED
    BY <1>1, <1>2, <1>3

\* Numbers that are no further apart than the space have numbers of their own.
LEMMA ModInjective ==
  ASSUME NEW s \in Nat \ {0}, NEW x \in Int, NEW y \in Int, x - y < s, y - x < s, x % s = y % s
  PROVE  x = y
  <1>. DEFINE q == x \div s
              p == y \div s
  <1>1. q \in Int /\ x % s \in 0..s - 1 /\ x = q * s + (x % s)
    BY DivMod
  <1>2. p \in Int /\ y % s \in 0..s - 1 /\ y = p * s + (y % s)
    BY DivMod
  <1>. HIDE DEF q, p
  <1>3. (q - p) * s = x - y
    BY <1>1, <1>2
  <1>4. q - p = 0
    BY <1>1, <1>2, <1>3, SmallMultiple
  <1>. QED
    BY <1>3, <1>4

LEMMA ModShift ==
  ASSUME NEW s \in Nat \ {0}, NEW v \in Int, NEW w \in Int, NEW k \in Int, v = w + k * s
  PROVE  v % s = w % s
  <1>. DEFINE q == w \div s
  <1>1. q \in Int /\ w % s \in 0..s - 1 /\ w = q * s + (w % s)
    BY DivMod
  <1>. HIDE DEF q
  <1>2. v = (q + k) * s + (w % s)
    BY <1>1
  <1>3. q + k \in Int
    BY <1>1
  <1>. DEFINE r == w % s
              j == q + k
  <1>. HIDE DEF r, j
  <1>4. j \in Int /\ r \in 0..s - 1 /\ v = j * s + r
    BY <1>1, <1>2, <1>3 DEF r, j
  <1>5. v % s = r
    BY <1>4, ModUnique
  <1>. QED
    BY <1>5 DEF r

\* A difference can be taken of the remainders.
LEMMA ModOfDifference ==
  ASSUME NEW s \in Nat \ {0}, NEW x \in Int, NEW y \in Int
  PROVE  ((x % s) - (y % s)) % s = (x - y) % s
  <1>. DEFINE q == x \div s
              p == y \div s
              v == (x % s) - (y % s)
              w == x - y
              k == p - q
  <1>1. q \in Int /\ x % s \in 0..s - 1 /\ x = q * s + (x % s)
    BY DivMod
  <1>2. p \in Int /\ y % s \in 0..s - 1 /\ y = p * s + (y % s)
    BY DivMod
  <1>. HIDE DEF q, p
  <1>3. v \in Int /\ w \in Int /\ k \in Int /\ v = w + k * s
    BY <1>1, <1>2
  <1>. HIDE DEF v, w, k
  <1>4. v % s = w % s
    BY <1>3, ModShift
  <1>. QED
    BY <1>4 DEF v, w

LEMMA ModOfNext ==
  ASSUME NEW s \in Nat \ {0}, NEW x \in Int
  PROVE  ((x % s) + 1) % s = (x + 1) % s
  <1>. DEFINE r == x % s
              q == x \div s
              w == r + 1
  <1>1. q \in Int /\ r \in Int /\ x = q * s + r
    BY DivMod
  <1>. HIDE DEF r, q
  <1>2. x + 1 = w + q * s /\ w \in Int /\ x + 1 \in Int
    BY <1>1
  <1>. DEFINE v == x + 1
  <1>. HIDE DEF v, w
  <1>3. v % s = w % s
    BY <1>1, <1>2, ModShift DEF v
  <1>. QED
    BY <1>3 DEF v, w, r

\* diff is the distance of a packet to the one that is expected, for all that can be under way.
LEMMA DiffIsDistance ==
  ASSUME NEW n \in Nat, taken \in Nat, waitSeq = taken % SeqSpace,
         n + SeqSpace \div 2 > taken, n <= taken + Window
  PROVE  Channel!diff(Channel!seq(n)) = n - (taken + 1)
  <1>. DEFINE h == SeqSpace \div 2
              x == n - 1 - taken
              d == (((n - 1) % SeqSpace) - (taken % SeqSpace)) % SeqSpace
  <1>1. SeqSpace \in Nat \ {0} /\ h \in Nat /\ SeqSpace = 2 * h /\ Window \in Nat /\ Window < h
    <2>1. SeqSpace \in Nat /\ SeqSpace % 2 = 0 /\ Window \in Nat /\ 2 * Window < SeqSpace
      BY Cs2Assumption DEF Cs2Assumption
    <2>. QED
      BY <2>1
  <1>2. x \in Int /\ -h <= x /\ x < h
    BY <1>1
  <1>3. d = x % SeqSpace
    <2>1. n - 1 \in Int /\ taken \in Int /\ x = (n - 1) - taken
      OBVIOUS
    <2>. DEFINE m == n - 1
    <2>. HIDE DEF m
    <2>2. ((m % SeqSpace) - (taken % SeqSpace)) % SeqSpace = (m - taken) % SeqSpace
      BY <1>1, <2>1, ModOfDifference DEF m
    <2>. QED
      BY <2>2 DEF m
  <1>4. d = IF x >= 0 THEN x ELSE x + SeqSpace
    <2>1. CASE x >= 0
      <3>1. x = 0 * SeqSpace + x /\ x \in 0..SeqSpace - 1
        BY <1>1, <1>2, <2>1
      <3>. HIDE DEF d, h, x
      <3>. QED
        BY <1>1, <1>2, <1>3, <2>1, <3>1, ModUnique
    <2>2. CASE x < 0
      <3>1. x = (-1) * SeqSpace + (x + SeqSpace) /\ x + SeqSpace \in 0..SeqSpace - 1
        BY <1>1, <1>2, <2>2
      <3>. HIDE DEF d, h, x
      <3>. QED
        BY <1>1, <1>2, <1>3, <2>2, <3>1, ModUnique
    <2>. QED
      BY <1>2, <2>1, <2>2
  <1>5. Channel!diff(Channel!seq(n)) = IF d < h THEN d ELSE d - SeqSpace
    BY DEF Channel!diff, Channel!seq
  <1>. HIDE DEF d, h
  <1>. QED
    BY <1>1, <1>2, <1>4, <1>5

(* The stream of the peer *)

LEMMA SizesAre ==
  /\ Len(Sizes) \in Nat \ {0} /\ Header \in Nat \ {0} /\ Cut \in Nat \ {0}
  /\ \A m \in 1..Len(Sizes) : Sizes[m] \in Nat \ {0}
  <1>1. Header \in Nat \ {0} /\ Cut \in Nat \ {0}
    BY Cs2Assumption DEF Cs2Assumption
  <1>2. Sizes \in Seq(Nat \ {0}) /\ Len(Sizes) > 0
    BY Cs2Assumption DEF Cs2Assumption
  <1>. QED
    BY <1>1, <1>2

\* End is a function: by induction over the messages.
LEMMA EndIs ==
  Channel!End = [m \in 0..Len(Sizes) |-> IF m = 0 THEN 0 ELSE Channel!End[m - 1] + Header + Sizes[m]]
  <1>. DEFINE Step(F, m) == IF m = 0 THEN 0 ELSE F[m - 1] + Header + Sizes[m]
              T == {n \in Nat : \E F : F = [m \in 0..n |-> Step(F, m)]}
  <1>1. 0 \in T
    <2>. DEFINE F == [m \in 0..0 |-> 0]
    <2>1. F = [m \in 0..0 |-> Step(F, m)]
      OBVIOUS
    <2>. QED
      BY <2>1
  <1>2. ASSUME NEW n \in Nat, n \in T PROVE n + 1 \in T
    <2>1. PICK F : F = [m \in 0..n |-> Step(F, m)]
      BY <1>2
    <2>. DEFINE G == [m \in 0..(n + 1) |-> IF m <= n THEN F[m] ELSE Step(F, n + 1)]
    <2>2. \A m \in 0..n : G[m] = F[m] /\ F[m] = Step(F, m)
      BY <2>1
    <2>3. G[n + 1] = Step(F, n + 1)
      OBVIOUS
    <2>4. DOMAIN G = 0..(n + 1) /\ G = [m \in 0..(n + 1) |-> G[m]]
      OBVIOUS
    <2>. HIDE DEF G
    <2>5. ASSUME NEW m \in 0..(n + 1) PROVE G[m] = Step(G, m)
      <3>1. CASE m = n + 1
        <4>1. G[n] = F[n] /\ m - 1 = n /\ m # 0
          BY <2>2, <3>1
        <4>. QED
          BY <2>3, <3>1, <4>1
      <3>2. CASE m \in 0..n /\ m # 0
        <4>1. m - 1 \in 0..n
          BY <3>2
        <4>. QED
          BY <2>2, <3>2, <4>1
      <3>3. CASE m = 0
        BY <2>2, <3>3
      <3>. QED
        BY <3>1, <3>2, <3>3
    <2>6. G = [m \in 0..(n + 1) |-> Step(G, m)]
      BY <2>4, <2>5
    <2>. QED
      BY <2>6
  <1>3. Len(Sizes) \in T
    <2>1. Nat \subseteq T
      <3>. HIDE DEF T
      <3>. QED
        BY <1>1, <1>2, Induction
    <2>. QED
      BY <2>1, SizesAre
  <1>4. \E F : F = [m \in 0..Len(Sizes) |-> Step(F, m)]
    BY <1>3
  <1>. QED
    BY <1>4, Zenon DEF Channel!End

\* Messages lie one after the other.
LEMMA EndsAre ==
  /\ Channel!End[0] = 0
  /\ \A m \in 0..Len(Sizes) : Channel!End[m] \in Nat
  /\ \A m \in 1..Len(Sizes) : Channel!End[m] = Channel!End[m - 1] + Header + Sizes[m]
  <1>. DEFINE T == {n \in Nat : n \in 0..Len(Sizes) => Channel!End[n] \in Nat}
  <1>1. Channel!End[0] = 0
    BY EndIs, SizesAre
  <1>2. \A m \in 1..Len(Sizes) : Channel!End[m] = Channel!End[m - 1] + Header + Sizes[m]
    BY EndIs, SizesAre
  <1>3. ASSUME NEW n \in Nat, n \in T PROVE n + 1 \in T
    <2>1. CASE n + 1 \in 0..Len(Sizes)
      <3>1. n \in 0..Len(Sizes) /\ n + 1 \in 1..Len(Sizes) /\ (n + 1) - 1 = n
        BY <2>1, SizesAre
      <3>. QED
        BY <1>2, <1>3, <3>1, SizesAre
    <2>. QED
      BY <2>1
  <1>4. 0 \in T
    BY <1>1
  <1>. HIDE DEF T
  <1>5. Nat \subseteq T
    BY <1>3, <1>4, Induction
  <1>. QED
    BY <1>1, <1>2, <1>5, SizesAre DEF T

LEMMA EndOf ==
  ASSUME NEW m \in 1..Len(Sizes)
  PROVE  /\ m - 1 \in 0..Len(Sizes) /\ m \in 0..Len(Sizes)
         /\ Channel!End[m - 1] \in Nat /\ Channel!End[m] \in Nat /\ Sizes[m] \in Nat \ {0}
         /\ Header \in Nat \ {0}
         /\ Channel!End[m] = Channel!End[m - 1] + Header + Sizes[m]
  <1>1. m - 1 \in 0..Len(Sizes) /\ m \in 0..Len(Sizes)
    BY SizesAre
  <1>. QED
    BY <1>1, EndsAre, SizesAre

LEMMA EndsGrow ==
  ASSUME NEW m \in 0..Len(Sizes), NEW n \in 0..Len(Sizes), m <= n
  PROVE  Channel!End[m] <= Channel!End[n]
  <1>. DEFINE T == {k \in Nat : m + k \in 0..Len(Sizes) => Channel!End[m] <= Channel!End[m + k]}
  <1>1. 0 \in T
    BY EndsAre, SizesAre
  <1>2. ASSUME NEW k \in Nat, k \in T PROVE k + 1 \in T
    <2>1. CASE m + (k + 1) \in 0..Len(Sizes)
      <3>. DEFINE j == m + (k + 1)
      <3>1. m + k \in 0..Len(Sizes) /\ j \in 1..Len(Sizes) /\ j - 1 = m + k
        BY <2>1, SizesAre
      <3>2. Channel!End[m] \in Nat /\ Channel!End[m] <= Channel!End[m + k]
        BY <1>2, <3>1, EndsAre
      <3>. HIDE DEF j
      <3>3. Channel!End[m] <= Channel!End[j]
        <4>1. /\ Channel!End[j] = Channel!End[j - 1] + Header + Sizes[j]
              /\ Channel!End[j - 1] \in Nat /\ Sizes[j] \in Nat /\ Header \in Nat
          BY <3>1, EndOf
        <4>2. Channel!End[m] <= Channel!End[j - 1]
          BY <3>1, <3>2
        <4>. QED
          BY <3>2, <4>1, <4>2
      <3>. QED
        BY <3>3 DEF j
    <2>. QED
      BY <2>1
  <1>. HIDE DEF T
  <1>3. Nat \subseteq T
    BY <1>1, <1>2, Induction
  <1>4. n - m \in T /\ m + (n - m) = n
    BY <1>3, SizesAre
  <1>. QED
    BY <1>4 DEF T

\* The i-th byte of a message, with its prefix.
LEMMA ByteIs ==
  ASSUME NEW m \in 1..Len(Sizes), NEW i \in 1..(Header + Sizes[m])
  PROVE  Channel!Byte(Channel!End[m - 1] + i) = <<m, i>>
  <1>. DEFINE p == Channel!End[m - 1] + i
              M == {k \in 1..Len(Sizes) : Channel!End[k - 1] < p /\ p <= Channel!End[k]}
  <1>1. /\ m - 1 \in 0..Len(Sizes) /\ m \in 0..Len(Sizes)
        /\ Channel!End[m - 1] \in Nat /\ Channel!End[m] \in Nat /\ p \in Nat
        /\ Channel!End[m - 1] < p /\ p <= Channel!End[m]
    <2>1. /\ m - 1 \in 0..Len(Sizes) /\ m \in 0..Len(Sizes)
          /\ Channel!End[m - 1] \in Nat /\ Channel!End[m] \in Nat /\ Sizes[m] \in Nat /\ Header \in Nat
          /\ Channel!End[m] = Channel!End[m - 1] + Header + Sizes[m]
      BY EndOf
    <2>. DEFINE lo == Channel!End[m - 1]
                hi == Channel!End[m]
                size == Sizes[m]
    <2>2. lo \in Nat /\ hi \in Nat /\ size \in Nat /\ Header \in Nat /\ hi = lo + Header + size
          /\ i \in 1..(Header + size)
      BY <2>1
    <2>. HIDE DEF lo, hi, size
    <2>3. lo + i \in Nat /\ lo < lo + i /\ lo + i <= hi
      BY <2>2
    <2>. QED
      BY <2>1, <2>3 DEF lo, hi
  <1>2. m \in M
    BY <1>1
  <1>3. ASSUME NEW k \in M PROVE k = m
    <2>1. k \in 1..Len(Sizes) /\ k - 1 \in 0..Len(Sizes) /\ k \in 0..Len(Sizes)
      BY SizesAre
    <2>2. CASE k < m
      <3>1. k <= m - 1
        BY <2>1, <2>2, SizesAre
      <3>2. Channel!End[k] <= Channel!End[m - 1]
        BY <1>1, <2>1, <3>1, EndsGrow
      <3>3. p <= Channel!End[k] /\ Channel!End[k] \in Nat
        BY <2>1, EndsAre
      <3>. HIDE DEF p
      <3>. QED
        BY <1>1, <3>2, <3>3
    <2>3. CASE m < k
      <3>1. m <= k - 1
        BY <2>1, <2>3, SizesAre
      <3>2. Channel!End[m] <= Channel!End[k - 1]
        BY <1>1, <2>1, <3>1, EndsGrow
      <3>3. Channel!End[k - 1] < p /\ Channel!End[k - 1] \in Nat
        BY <2>1, EndsAre
      <3>. HIDE DEF p
      <3>. QED
        BY <1>1, <3>2, <3>3
    <2>. QED
      BY <2>1, <2>2, <2>3, SizesAre
  <1>4. (CHOOSE k \in 1..Len(Sizes) : Channel!End[k - 1] < p /\ p <= Channel!End[k]) = m
    BY <1>2, <1>3
  <1>5. p - Channel!End[m - 1] = i
    BY <1>1
  <1>. QED
    BY <1>4, <1>5 DEF Channel!Byte

\* Where the packets that are taken end.
Upto(k) == IF k = Channel!Count THEN Channel!Total ELSE Cut * k

LEMMA CountIs ==
  /\ Channel!Total \in Nat /\ Channel!Total > 0 /\ Channel!Count \in Nat \ {0}
  /\ Cut * (Channel!Count - 1) < Channel!Total /\ Channel!Total <= Cut * Channel!Count
  <1>. DEFINE total == Channel!Total
              count == Channel!Count
              x == total + Cut - 1
  <1>1. total \in Nat /\ total > 0
    <2>1. Len(Sizes) \in 1..Len(Sizes) /\ Len(Sizes) - 1 \in 0..Len(Sizes)
      BY SizesAre
    <2>. QED
      BY <2>1, EndsAre, SizesAre DEF Channel!Total
  <1>2. count = x \div Cut
    BY DEF Channel!Count
  <1>3. x \in Nat /\ x >= Cut
    BY <1>1, SizesAre
  <1>. HIDE DEF x
  <1>4. x \div Cut \in Int /\ x % Cut \in 0..Cut - 1 /\ x = (x \div Cut) * Cut + (x % Cut)
    BY <1>3, DivMod, SizesAre
  <1>. HIDE DEF count
  <1>5. count \in Int /\ count * Cut <= x /\ x <= count * Cut + (Cut - 1)
    <2>1. count \in Int /\ count * Cut = (x \div Cut) * Cut
      BY <1>2, <1>4
    <2>. DEFINE e == (x \div Cut) * Cut
                r == x % Cut
    <2>2. e \in Int /\ r \in 0..Cut - 1 /\ x = e + r
      BY <1>4, SizesAre
    <2>3. count * Cut = e
      BY <2>1
    <2>. HIDE DEF e, r
    <2>4. e <= x /\ x <= e + (Cut - 1)
      BY <2>2, SizesAre
    <2>. QED
      BY <2>1, <2>3, <2>4
  <1>6. count >= 1
    <2>1. CASE count <= 0
      <3>1. count * Cut <= 0
        BY <1>5, <2>1, SizesAre
      <3>. QED
        BY <1>3, <1>5, <3>1, SizesAre
    <2>. QED
      BY <1>5, <2>1
  <1>7. Cut * (count - 1) = count * Cut - Cut /\ Cut * count = count * Cut
    BY <1>5, SizesAre
  <1>8. count * Cut \in Int /\ x = total + Cut - 1
    BY <1>5, SizesAre DEF x
  <1>9. Cut * (count - 1) < total /\ total <= Cut * count
    BY <1>1, <1>5, <1>7, <1>8, SizesAre
  <1>. QED
    BY <1>1, <1>5, <1>6, <1>9 DEF count

\* A packet is the stretch of the stream between the ends of the packets.
LEMMA UptoIs ==
  /\ Upto(0) = 0
  /\ \A n \in Channel!Packets :
       /\ n - 1 \in Nat /\ n \in Nat /\ n <= Channel!Count
       /\ Upto(n - 1) \in Nat /\ Upto(n) \in Nat /\ Upto(n - 1) < Upto(n) /\ Upto(n) <= Channel!Total
       /\ Channel!Payload[n] = [i \in 1..(Upto(n) - Upto(n - 1)) |-> Channel!Byte(Upto(n - 1) + i)]
  <1>. DEFINE count == Channel!Count
              total == Channel!Total
  <1>1. /\ total \in Nat /\ total > 0 /\ count \in Nat \ {0}
        /\ Cut * (count - 1) < total /\ total <= Cut * count
    BY CountIs
  <1>2. Upto(0) = 0
    BY <1>1, SizesAre DEF Upto
  <1>3. ASSUME NEW n \in Channel!Packets
        PROVE  /\ n - 1 \in Nat /\ n \in Nat /\ n <= count
               /\ Upto(n - 1) \in Nat /\ Upto(n) \in Nat /\ Upto(n - 1) < Upto(n) /\ Upto(n) <= total
               /\ Channel!Payload[n] =
                    [i \in 1..(Upto(n) - Upto(n - 1)) |-> Channel!Byte(Upto(n - 1) + i)]
    <2>. DEFINE c == Cut * (n - 1)
    <2>1. n \in 1..count /\ n - 1 \in Nat /\ n \in Nat /\ n <= count /\ n - 1 # count
      BY <1>1 DEF Channel!Packets
    <2>2. c \in Nat /\ Cut * n = c + Cut
      BY <2>1, SizesAre
    <2>3. Upto(n - 1) = c
      BY <2>1 DEF Upto
    <2>4. Channel!Payload[n] =
            [i \in 1..(IF n = count THEN total - c ELSE Cut) |-> Channel!Byte(c + i)]
      BY DEF Channel!Payload
    <2>5. CASE n = count
      <3>1. c < total
        BY <1>1, <2>5
      <3>2. Upto(n) = total
        BY <2>5 DEF Upto
      <3>. QED
        BY <1>1, <2>1, <2>2, <2>3, <2>4, <2>5, <3>1, <3>2
    <2>6. CASE n # count
      <3>1. Upto(n) = c + Cut
        BY <2>2, <2>6 DEF Upto
      <3>2. Cut * n <= Cut * (count - 1)
        <4>1. n <= count - 1
          BY <1>1, <2>1, <2>6
        <4>2. \A x, y \in Nat : x <= y => Cut * x <= Cut * y
          BY SizesAre
        <4>. QED
          BY <1>1, <2>1, <4>1, <4>2
      <3>3. Cut * (count - 1) \in Int
        BY <1>1, SizesAre
      <3>. HIDE DEF c
      <3>4. c + Cut <= total /\ Upto(n) - Upto(n - 1) = Cut /\ Upto(n - 1) < Upto(n) /\ Upto(n) \in Nat
        BY <1>1, <2>2, <2>3, <3>1, <3>2, <3>3, SizesAre
      <3>. QED
        BY <2>1, <2>2, <2>3, <2>4, <2>6, <3>1, <3>4
    <2>. QED
      BY <2>5, <2>6
  <1>. QED
    BY <1>2, <1>3

\* The stretch of the stream after byte a up to byte b.
Bytes(a, b) == [i \in 1..(b - a) |-> Channel!Byte(a + i)]
AllBytes == {Channel!Byte(p) : p \in Nat}

LEMMA BytesAre ==
  ASSUME NEW a \in Nat, NEW b \in Nat, a <= b
  PROVE  /\ Bytes(a, b) \in Seq(AllBytes) /\ Len(Bytes(a, b)) = b - a
         /\ \A i \in 1..(b - a) : Bytes(a, b)[i] = Channel!Byte(a + i)
  <1>1. b - a \in Nat
    OBVIOUS
  <1>2. Bytes(a, b) \in [1..(b - a) -> AllBytes]
    BY DEF Bytes, AllBytes
  <1>3. Bytes(a, b) \in Seq(AllBytes)
    BY <1>1, <1>2
  <1>4. Len(Bytes(a, b)) = b - a
    BY <1>1 DEF Bytes
  <1>. QED
    BY <1>3, <1>4 DEF Bytes

LEMMA BytesJoin ==
  ASSUME NEW a \in Nat, NEW b \in Nat, NEW c \in Nat, a <= b, b <= c
  PROVE  Bytes(a, b) \o Bytes(b, c) = Bytes(a, c)
  <1>. DEFINE s == Bytes(a, b)
              t == Bytes(b, c)
              u == Bytes(a, c)
  <1>1. /\ s \in Seq(AllBytes) /\ Len(s) = b - a
        /\ \A i \in 1..(b - a) : s[i] = Channel!Byte(a + i)
    BY BytesAre
  <1>2. /\ t \in Seq(AllBytes) /\ Len(t) = c - b
        /\ \A i \in 1..(c - b) : t[i] = Channel!Byte(b + i)
    BY BytesAre
  <1>3. /\ u \in Seq(AllBytes) /\ Len(u) = c - a
        /\ \A i \in 1..(c - a) : u[i] = Channel!Byte(a + i)
    BY BytesAre
  <1>. HIDE DEF s, t, u
  <1>4. /\ s \o t \in Seq(AllBytes) /\ Len(s \o t) = c - a
        /\ \A i \in 1..(c - a) : (s \o t)[i] = IF i <= b - a THEN s[i] ELSE t[i - (b - a)]
    <2>1. s \in Seq(AllBytes) /\ t \in Seq(AllBytes)
      BY <1>1, <1>2
    <2>2. /\ s \o t \in Seq(AllBytes) /\ Len(s \o t) = Len(s) + Len(t)
          /\ \A i \in 1..(Len(s) + Len(t)) :
               (s \o t)[i] = IF i <= Len(s) THEN s[i] ELSE t[i - Len(s)]
      BY <2>1, ConcatProperties
    <2>3. Len(s) = b - a /\ Len(t) = c - b /\ Len(s) + Len(t) = c - a
      BY <1>1, <1>2
    <2>. QED
      BY <2>2, <2>3
  <1>5. ASSUME NEW i \in 1..(c - a) PROVE (s \o t)[i] = u[i]
    <2>1. CASE i <= b - a
      BY <1>1, <1>3, <1>4, <2>1
    <2>2. CASE ~(i <= b - a)
      <3>1. i - (b - a) \in 1..(c - b) /\ b + (i - (b - a)) = a + i
        BY <2>2
      <3>. QED
        BY <1>2, <1>3, <1>4, <2>2, <3>1
    <2>. QED
      BY <2>1, <2>2
  <1>6. s \o t = u
    BY <1>3, <1>4, <1>5, SeqEqual
  <1>. QED
    BY <1>6 DEF s, t, u

LEMMA BytesCut ==
  ASSUME NEW a \in Nat, NEW b \in Nat, NEW c \in Nat, a <= c, c <= b
  PROVE  /\ SubSeq(Bytes(a, b), 1, c - a) = Bytes(a, c)
         /\ SubSeq(Bytes(a, b), (c - a) + 1, Len(Bytes(a, b))) = Bytes(c, b)
  <1>. DEFINE s == Bytes(a, b)
              t == Bytes(a, c)
              u == Bytes(c, b)
              v == SubSeq(s, 1, c - a)
              w == SubSeq(s, (c - a) + 1, Len(s))
  <1>1. /\ s \in Seq(AllBytes) /\ Len(s) = b - a
        /\ \A i \in 1..(b - a) : s[i] = Channel!Byte(a + i)
    BY BytesAre
  <1>2. /\ t \in Seq(AllBytes) /\ Len(t) = c - a
        /\ \A i \in 1..(c - a) : t[i] = Channel!Byte(a + i)
    BY BytesAre
  <1>3. /\ u \in Seq(AllBytes) /\ Len(u) = b - c
        /\ \A i \in 1..(b - c) : u[i] = Channel!Byte(c + i)
    BY BytesAre
  <1>. HIDE DEF s, t, u
  <1>4. \A i \in 1..Len(s) : s[i] \in AllBytes
    BY <1>1
  <1>5. v \in Seq(AllBytes) /\ Len(v) = c - a /\ \A i \in 1..(c - a) : v[i] = s[i]
    BY <1>1, <1>4, SubSeqProperties
  <1>6. w \in Seq(AllBytes) /\ Len(w) = b - c /\ \A i \in 1..(b - c) : w[i] = s[(c - a) + i]
    BY <1>1, <1>4, SubSeqProperties
  <1>. HIDE DEF v, w
  <1>7. \A i \in 1..(c - a) : v[i] = t[i]
    BY <1>1, <1>2, <1>5
  <1>8. \A i \in 1..(b - c) : w[i] = u[i]
    <2>. SUFFICES ASSUME NEW i \in 1..(b - c) PROVE w[i] = u[i]
      OBVIOUS
    <2>1. (c - a) + i \in 1..(b - a) /\ a + ((c - a) + i) = c + i
      OBVIOUS
    <2>. QED
      BY <1>1, <1>3, <1>6, <2>1
  <1>9. v = t
    BY <1>2, <1>5, <1>7, SeqEqual
  <1>10. w = u
    BY <1>3, <1>6, <1>8, SeqEqual
  <1>. QED
    BY <1>9, <1>10 DEF s, t, u, v, w

\* A message is a stretch of the stream.
LEMMA MessageIs ==
  ASSUME NEW m \in 1..Len(Sizes)
  PROVE  Bytes(Channel!End[m - 1] + Header, Channel!End[m]) = Channel!Messages[m]
  <1>. DEFINE e == Channel!End[m - 1]
              a == e + Header
              b == Channel!End[m]
  <1>1. e \in Nat /\ b \in Nat /\ Sizes[m] \in Nat /\ b = a + Sizes[m] /\ a \in Nat
    BY EndOf, SizesAre
  <1>2. ASSUME NEW i \in 1..Sizes[m] PROVE Channel!Byte(a + i) = <<m, Header + i>>
    <2>1. Header + i \in 1..(Header + Sizes[m]) /\ e + (Header + i) = a + i
      <3>1. e \in Nat /\ Sizes[m] \in Nat /\ Header \in Nat /\ i \in Nat /\ 1 <= i /\ i <= Sizes[m]
        BY <1>1, SizesAre
      <3>. HIDE DEF e
      <3>. QED
        BY <3>1
    <2>. HIDE DEF a, e
    <2>2. Channel!Byte(e + (Header + i)) = <<m, Header + i>>
      BY <2>1, ByteIs DEF e
    <2>. QED
      BY <2>1, <2>2
  <1>3. Channel!Messages[m] = [i \in 1..Sizes[m] |-> <<m, Header + i>>]
    BY DEF Channel!Messages
  <1>4. b - a = Sizes[m]
    BY <1>1
  <1>. HIDE DEF a, b, e
  <1>5. Bytes(a, b) = [i \in 1..Sizes[m] |-> <<m, Header + i>>]
    BY <1>2, <1>4 DEF Bytes
  <1>. QED
    BY <1>3, <1>5 DEF a, b, e

(* The channel: an inductive invariant *)

SeqOf(n) == (n - 1) % SeqSpace

\* The packets the peer may have sent ahead of what is taken.
Early == {n \in Channel!Packets : taken + 1 < n /\ n <= taken + Window}

Buffered(n) == SeqOf(n) \in DOMAIN pushBuf /\ pushBuf[SeqOf(n)] = Channel!Payload[n]

\* What the worker has taken, is taking, or holds until it is its turn.
Kept(n) ==
  n <= taken \/ (receiver = "push" /\ n = taken + 1) \/ (n \in Early /\ Buffered(n))

\* The bytes that are put in order, and the messages that are made of them.
Ordered == Upto(IF receiver = "push" THEN taken + 1 ELSE taken)
Handed == Len(popped) + Len(popBuf)
Position == Channel!End[Handed] + (IF waitSize = 0 THEN 0 ELSE Header)

TypesInv ==
  /\ copies \subseteq Channel!Packets /\ acked \subseteq Channel!Packets
  /\ receiver \in {"read", "push", "ack"} /\ current \in Channel!Packets
  /\ ended \in BOOLEAN /\ (receiver = "push" => ~ended)

CountInv ==
  /\ taken \in 0..Channel!Count /\ waitSeq = taken % SeqSpace
  /\ receiver = "push" => taken + 1 \in Channel!Packets /\ current <= taken + 1

FlightInv == Channel!Cardinality(copies) <= InFlight

WindowInv == \A n \in copies : n < Channel!Low + Window

BufferInv ==
  /\ Channel!Cardinality(DOMAIN pushBuf) <= PushSize
  /\ \A s \in DOMAIN pushBuf : \E n \in Early : s = SeqOf(n) /\ pushBuf[s] = Channel!Payload[n]

AckInv ==
  ~ended => /\ \A n \in acked : Kept(n)
            /\ receiver = "ack" => Kept(current)

MessagesInv ==
  /\ popped \in Seq(Channel!Range(Channel!Messages)) /\ popBuf \in Seq(Channel!Range(Channel!Messages))
  /\ Len(popBuf) <= PopSize /\ Handed <= Len(Sizes)
  /\ \A i \in 1..Len(popped) : popped[i] = Channel!Messages[i]
  /\ \A i \in 1..Len(popBuf) : popBuf[i] = Channel!Messages[Len(popped) + i]

WaitingInv ==
  /\ Len(waitData) \in 0..Channel!Total
  /\ waitSize \in {0} \cup Channel!Range(Sizes)

StreamInv ==
  ~ended => /\ waitSize # 0 => Handed < Len(Sizes) /\ waitSize = Sizes[Handed + 1]
            /\ Position <= Ordered
            /\ waitData = Bytes(Position, Ordered)

ChannelInv ==
  /\ TypesInv /\ CountInv /\ FlightInv /\ WindowInv /\ BufferInv /\ AckInv
  /\ MessagesInv /\ WaitingInv /\ StreamInv

LEMMA CountsAgree == ASSUME NEW T PROVE Channel!Cardinality(T) = Cardinality(T)
  BY DEF Cardinality, Channel!Cardinality

LEMMA LimitsAre ==
  /\ Window \in Nat \ {0} /\ InFlight \in Nat \ {0} /\ PopSize \in Nat \ {0} /\ PushSize \in Nat
  /\ SeqSpace \in Nat \ {0} /\ SeqSpace \div 2 \in Nat /\ Window < SeqSpace \div 2
  /\ 2 * Window < SeqSpace
  <1>1. /\ Window \in Nat \ {0} /\ InFlight \in Nat \ {0} /\ PopSize \in Nat \ {0} /\ PushSize \in Nat
        /\ SeqSpace \in Nat /\ SeqSpace % 2 = 0 /\ 2 * Window < SeqSpace
    BY Cs2Assumption DEF Cs2Assumption
  <1>. QED
    BY <1>1

LEMMA PacketsAre ==
  /\ Channel!Count \in Nat \ {0} /\ IsFiniteSet(Channel!Packets)
  /\ \A n : n \in Channel!Packets <=> n \in Nat /\ 1 <= n /\ n <= Channel!Count
  <1>1. Channel!Count \in Nat \ {0}
    BY CountIs
  <1>2. Channel!Packets = 1..Channel!Count
    BY DEF Channel!Packets
  <1>. QED
    BY <1>1, <1>2, FS_Interval

\* Packets that are not too far apart have different numbers.
LEMMA NumbersDiffer ==
  ASSUME NEW a \in Nat, NEW b \in Nat, a - b < SeqSpace, b - a < SeqSpace, SeqOf(a) = SeqOf(b)
  PROVE  a = b
  <1>. DEFINE x == a - 1
              y == b - 1
  <1>1. x \in Int /\ y \in Int /\ x - y < SeqSpace /\ y - x < SeqSpace /\ x % SeqSpace = y % SeqSpace
    BY LimitsAre DEF SeqOf
  <1>. HIDE DEF x, y
  <1>2. x = y
    BY <1>1, LimitsAre, ModInjective
  <1>. QED
    BY <1>2 DEF x, y

\* The first packet that is not acknowledged.
LowOf(A) == CHOOSE n \in 1..Channel!Count + 1 : n \notin A /\ 1..n - 1 \subseteq A

LEMMA LowIs ==
  ASSUME NEW A, A \subseteq Channel!Packets
  PROVE  LowOf(A) \in 1..Channel!Count + 1 /\ LowOf(A) \notin A /\ 1..LowOf(A) - 1 \subseteq A
  <1>. DEFINE T == (1..Channel!Count + 1) \ A
  <1>1. Channel!Count + 1 \in T /\ T \subseteq Nat
    BY PacketsAre
  <1>2. PICK x \in T : \A y \in T : x <= y
    BY <1>1, LeastNumber
  <1>3. 1..x - 1 \subseteq A
    BY <1>1, <1>2, PacketsAre
  <1>. QED
    BY <1>2, <1>3 DEF LowOf

LEMMA LowGrows ==
  ASSUME NEW A, NEW B, A \subseteq B, B \subseteq Channel!Packets
  PROVE  LowOf(A) <= LowOf(B)
  <1>1. LowOf(A) \in 1..Channel!Count + 1 /\ 1..LowOf(A) - 1 \subseteq A
    BY LowIs
  <1>2. LowOf(B) \in 1..Channel!Count + 1 /\ LowOf(B) \notin B
    BY LowIs
  <1>3. CASE LowOf(B) < LowOf(A)
    BY <1>1, <1>2, <1>3, PacketsAre
  <1>. QED
    BY <1>1, <1>2, <1>3, PacketsAre

\* What is under way is not too far ahead of what is taken.
LEMMA WindowHolds ==
  ASSUME TypesInv, CountInv, WindowInv, AckInv, ~ended, receiver = "read", NEW n \in copies
  PROVE  n \in Nat /\ n <= taken + Window
  <1>. DEFINE low == LowOf(acked)
  <1>1. n < low + Window /\ n \in Nat
    BY PacketsAre DEF WindowInv, TypesInv, Channel!Low, LowOf
  <1>2. low \in 1..Channel!Count + 1 /\ 1..low - 1 \subseteq acked
    BY LowIs DEF TypesInv
  <1>. HIDE DEF low
  <1>3. taken \in Nat /\ taken <= Channel!Count
    BY PacketsAre DEF CountInv
  <1>4. taken + 1 \notin acked
    <2>1. ASSUME taken + 1 \in acked PROVE FALSE
      <3>1. Kept(taken + 1)
        BY <2>1 DEF AckInv
      <3>. QED
        BY <1>3, <3>1 DEF Kept, Early
    <2>. QED
      BY <2>1
  <1>5. low <= taken + 1
    <2>1. CASE taken + 1 < low
      <3>1. taken + 1 \in 1..low - 1
        BY <1>2, <1>3, <2>1, PacketsAre
      <3>. QED
        BY <1>2, <1>4, <3>1
    <2>. QED
      BY <1>2, <1>3, <2>1, PacketsAre
  <1>. QED
    BY <1>1, <1>2, <1>3, <1>5, PacketsAre, LimitsAre

\* Two early packets with one number are one packet.
LEMMA EarlyIsOne ==
  ASSUME CountInv, NEW m \in Early, NEW n \in Early, SeqOf(m) = SeqOf(n)
  PROVE  m = n
  <1>1. taken \in Nat /\ m \in Nat /\ n \in Nat
    BY PacketsAre DEF CountInv, Early
  <1>2. m - n < SeqSpace /\ n - m < SeqSpace
    BY <1>1, LimitsAre DEF Early
  <1>. QED
    BY <1>1, <1>2, NumbersDiffer

LEMMA BufferedIs ==
  ASSUME CountInv, BufferInv, NEW n \in Early, SeqOf(n) \in DOMAIN pushBuf
  PROVE  Buffered(n)
  <1>1. PICK m \in Early : SeqOf(n) = SeqOf(m) /\ pushBuf[SeqOf(n)] = Channel!Payload[m]
    BY DEF BufferInv
  <1>2. m = n
    BY <1>1, EarlyIsOne
  <1>. QED
    BY <1>1, <1>2 DEF Buffered

LEMMA BufferIsFinite ==
  ASSUME BufferInv PROVE IsFiniteSet(DOMAIN pushBuf)
  <1>1. Early \subseteq Channel!Packets
    BY DEF Early
  <1>2. IsFiniteSet(Early)
    BY <1>1, PacketsAre, FS_Subset
  <1>. DEFINE f == [n \in Early |-> SeqOf(n)]
              T == {SeqOf(n) : n \in Early}
  <1>3. IsFiniteSet(T)
    <2>1. f \in Surjection(Early, T)
      BY DEF Surjection
    <2>. HIDE DEF f, T
    <2>. QED
      BY <1>2, <2>1, FS_Surjection
  <1>4. DOMAIN pushBuf \subseteq T
    BY DEF BufferInv
  <1>. QED
    BY <1>3, <1>4, FS_Subset

\* What has been put in order.
LEMMA OrderedIs ==
  /\ \A k \in 0..Channel!Count : Upto(k) \in Nat /\ Upto(k) <= Channel!Total
  /\ CountInv => Ordered \in Nat /\ Ordered <= Channel!Total
  <1>1. ASSUME NEW k \in 0..Channel!Count PROVE Upto(k) \in Nat /\ Upto(k) <= Channel!Total
    <2>1. CASE k = 0
      BY <2>1, UptoIs, CountIs
    <2>2. CASE k # 0
      <3>1. k \in Channel!Packets
        BY <2>2, PacketsAre
      <3>. QED
        BY <3>1, UptoIs
    <2>. QED
      BY <2>1, <2>2
  <1>2. ASSUME CountInv PROVE (IF receiver = "push" THEN taken + 1 ELSE taken) \in 0..Channel!Count
    BY <1>2, PacketsAre DEF CountInv
  <1>. QED
    BY <1>1, <1>2 DEF Ordered

LEMMA PayloadIs ==
  ASSUME NEW n \in Channel!Packets
  PROVE  Channel!Payload[n] = Bytes(Upto(n - 1), Upto(n))
  BY UptoIs DEF Bytes

LEMMA HandedIs ==
  ASSUME MessagesInv
  PROVE  /\ Handed \in 0..Len(Sizes) /\ Len(popped) \in Nat /\ Len(popBuf) \in Nat
         /\ Channel!End[Handed] \in Nat
  <1>1. Len(popped) \in Nat /\ Len(popBuf) \in Nat /\ Handed <= Len(Sizes)
    BY DEF MessagesInv
  <1>2. Handed \in 0..Len(Sizes)
    BY <1>1, SizesAre DEF Handed
  <1>. QED
    BY <1>1, <1>2, EndsAre

\* What Push knows of the next message once its prefix is there.
LEMMA KnownIs ==
  ASSUME CountInv, MessagesInv, StreamInv, ~ended, Len(waitData) > Header
  PROVE  /\ Handed + 1 \in 1..Len(Sizes)
         /\ Channel!End[Handed] + Header <= Ordered
         /\ Channel!Known = [size |-> Sizes[Handed + 1],
                             data |-> Bytes(Channel!End[Handed] + Header, Ordered)]
  <1>. DEFINE e == Channel!End[Handed]
              b == Ordered
              m == Handed + 1
              a == e + Header
  <1>1. Handed \in 0..Len(Sizes) /\ e \in Nat /\ b \in Nat /\ b <= Channel!Total /\ a \in Nat
    BY HandedIs, OrderedIs, SizesAre
  <1>2. CASE waitSize = 0
    <2>1. waitData = Bytes(e, b) /\ e <= b
      BY <1>1, <1>2 DEF StreamInv, Position
    <2>2. Len(waitData) = b - e /\ a < b
      <3>1. Len(waitData) = b - e
        BY <1>1, <2>1, BytesAre
      <3>. QED
        BY <1>1, <3>1, SizesAre
    <2>3. Handed # Len(Sizes)
      BY <1>1, <2>2, SizesAre DEF Channel!Total
    <2>4. m \in 1..Len(Sizes) /\ m - 1 = Handed
      BY <1>1, <2>3, SizesAre
    <2>5. waitData[1] = <<m, 1>>
      <3>1. 1 \in 1..(b - e)
        BY <1>1, <2>2, SizesAre
      <3>2. waitData[1] = Channel!Byte(e + 1)
        BY <1>1, <2>1, <3>1, BytesAre
      <3>3. 1 \in 1..(Header + Sizes[m])
        BY <2>4, SizesAre
      <3>. HIDE DEF m
      <3>4. Channel!Byte(Channel!End[m - 1] + 1) = <<m, 1>>
        BY <2>4, <3>3, ByteIs
      <3>. QED
        BY <2>4, <3>2, <3>4
    <2>6. SubSeq(waitData, Header + 1, Len(waitData)) = Bytes(a, b)
      <3>1. a - e = Header /\ e <= a /\ a <= b
        BY <1>1, <2>2, SizesAre
      <3>. HIDE DEF a, b, e
      <3>2. SubSeq(Bytes(e, b), (a - e) + 1, Len(Bytes(e, b))) = Bytes(a, b)
        BY <1>1, <3>1, BytesCut
      <3>. QED
        BY <2>1, <3>1, <3>2
    <2>7. Channel!Known = [size |-> Sizes[m], data |-> Bytes(a, b)]
      <3>1. Channel!Known = [size |-> Sizes[waitData[1][1]],
                             data |-> SubSeq(waitData, Header + 1, Len(waitData))]
        BY <1>2 DEF Channel!Known
      <3>2. waitData[1][1] = m
        BY <2>5
      <3>. HIDE DEF a, b, m
      <3>. QED
        BY <2>6, <3>1, <3>2
    <2>. QED
      BY <1>1, <2>2, <2>4, <2>7
  <1>3. CASE waitSize # 0
    <2>1. waitData = Bytes(a, b) /\ a <= b /\ waitSize = Sizes[m] /\ Handed < Len(Sizes)
      BY <1>3 DEF StreamInv, Position
    <2>2. m \in 1..Len(Sizes)
      BY <1>1, <2>1, SizesAre
    <2>3. Channel!Known = [size |-> waitSize, data |-> waitData]
      BY <1>3 DEF Channel!Known
    <2>. QED
      BY <2>1, <2>2, <2>3
  <1>. QED
    BY <1>2, <1>3

\* What waits when Push returns: the prefix of the next message may have been taken off.
LEMMA RestIs ==
  ASSUME CountInv, MessagesInv, WaitingInv, StreamInv, ~ended,
         NEW rest,
         rest = (IF Len(waitData) > Header THEN Channel!Known
                 ELSE [size |-> waitSize, data |-> waitData])
  PROVE  LET p == Channel!End[Handed] + (IF rest.size = 0 THEN 0 ELSE Header)
         IN /\ p \in Nat /\ p <= Ordered /\ rest.data = Bytes(p, Ordered)
            /\ rest.size # 0 => Handed < Len(Sizes) /\ rest.size = Sizes[Handed + 1]
            /\ rest.size \in {0} \cup Channel!Range(Sizes)
  <1>. DEFINE p == Channel!End[Handed] + (IF rest.size = 0 THEN 0 ELSE Header)
  <1>1. p \in Nat
    BY HandedIs, SizesAre
  <1>2. CASE Len(waitData) > Header
    <2>1. Handed + 1 \in 1..Len(Sizes) /\ Channel!End[Handed] + Header <= Ordered
          /\ rest.size = Sizes[Handed + 1]
          /\ rest.data = Bytes(Channel!End[Handed] + Header, Ordered)
      BY <1>2, KnownIs
    <2>2. rest.size # 0 /\ Handed < Len(Sizes)
      BY <2>1, SizesAre, HandedIs
    <2>3. rest.size \in Channel!Range(Sizes)
      <3>1. DOMAIN Sizes = 1..Len(Sizes)
        BY Cs2Assumption DEF Cs2Assumption
      <3>. QED
        BY <2>1, <3>1 DEF Channel!Range
    <2>. QED
      BY <1>1, <2>1, <2>2, <2>3
  <1>3. CASE ~(Len(waitData) > Header)
    <2>1. rest.size = waitSize /\ rest.data = waitData
      BY <1>3
    <2>2. p = Position
      BY <2>1 DEF Position
    <2>. QED
      BY <1>1, <2>1, <2>2 DEF StreamInv, WaitingInv
  <1>. QED
    BY <1>2, <1>3

LEMMA ChannelInit == Channel!Init => ChannelInv
  <1>. SUFFICES ASSUME Channel!Init PROVE ChannelInv
    OBVIOUS
  <1>1. /\ copies = {} /\ acked = {} /\ receiver = "read" /\ current = 1 /\ waitSeq = 0 /\ taken = 0
        /\ pushBuf = <<>> /\ waitData = <<>> /\ waitSize = 0 /\ popBuf = <<>> /\ popped = <<>>
        /\ ended = FALSE
    BY DEF Channel!Init
  <1>2. TypesInv
    <2>1. 1 \in Channel!Packets
      BY PacketsAre
    <2>2. ended \in BOOLEAN /\ ~ended
      BY <1>1
    <2>. QED
      BY <1>1, <2>1, <2>2 DEF TypesInv
  <1>3. CountInv
    <2>1. 0 % SeqSpace = 0
      <3>1. 0 = 0 * SeqSpace + 0 /\ 0 \in 0..SeqSpace - 1
        BY LimitsAre
      <3>. QED
        BY <3>1, LimitsAre, ModUnique
    <2>. QED
      BY <1>1, <2>1, PacketsAre DEF CountInv
  <1>4. FlightInv /\ WindowInv
    BY <1>1, CountsAgree, FS_EmptySet, LimitsAre DEF FlightInv, WindowInv
  <1>5. BufferInv
    <2>1. DOMAIN pushBuf = {}
      BY <1>1
    <2>. QED
      BY <2>1, CountsAgree, FS_EmptySet, LimitsAre DEF BufferInv
  <1>6. AckInv
    BY <1>1 DEF AckInv
  <1>7. Handed = 0 /\ MessagesInv /\ WaitingInv
    BY <1>1, CountIs, SizesAre, LimitsAre DEF MessagesInv, WaitingInv, Handed
  <1>8. StreamInv
    <2>1. Position = 0 /\ Ordered = 0
      BY <1>1, <1>7, EndsAre, UptoIs DEF Position, Ordered
    <2>2. Bytes(0, 0) = <<>>
      <3>1. Len(Bytes(0, 0)) = 0 /\ Bytes(0, 0) \in Seq(AllBytes)
        BY BytesAre
      <3>. QED
        BY <3>1, EmptySeq
    <2>. QED
      BY <1>1, <2>1, <2>2 DEF StreamInv
  <1>. QED
    BY <1>2, <1>3, <1>4, <1>5, <1>6, <1>7, <1>8 DEF ChannelInv

\* What a step leaves alone.
LEMMA MessagesFrame ==
  ASSUME MessagesInv, popped' = popped, popBuf' = popBuf PROVE MessagesInv' /\ Handed' = Handed
  BY DEF MessagesInv, Handed

LEMMA StreamFrame ==
  ASSUME StreamInv, popped' = popped, popBuf' = popBuf, waitData' = waitData, waitSize' = waitSize,
         taken' = taken, (receiver' = "push") = (receiver = "push"), ended' = ended
  PROVE  StreamInv'
  BY DEF StreamInv, Position, Ordered, Handed

LEMMA BufferFrame ==
  ASSUME BufferInv, taken' = taken, pushBuf' = pushBuf PROVE BufferInv'
  BY DEF BufferInv, Early

LEMMA KeptFrame ==
  ASSUME NEW n, Kept(n), taken' = taken, receiver = "push" => receiver' = "push", pushBuf' = pushBuf
  PROVE  Kept(n)'
  BY DEF Kept, Early, Buffered

LEMMA LowFrame ==
  ASSUME TypesInv, TypesInv', WindowInv, acked \subseteq acked', NEW T, T \subseteq copies
  PROVE  \A n \in T : n < Channel!Low' + Window
  <1>1. Channel!Low = LowOf(acked) /\ Channel!Low' = LowOf(acked')
    BY DEF Channel!Low, LowOf
  <1>2. LowOf(acked) <= LowOf(acked') /\ LowOf(acked) \in Nat /\ LowOf(acked') \in Nat
    BY LowGrows, LowIs, PacketsAre DEF TypesInv
  <1>. QED
    <2>. SUFFICES ASSUME NEW n \in T PROVE n < Channel!Low' + Window
      OBVIOUS
    <2>1. n < LowOf(acked) + Window /\ n \in Nat
      BY <1>1, PacketsAre DEF WindowInv, TypesInv
    <2>. QED
      BY <1>1, <1>2, <2>1, LimitsAre

\* The peer sends a packet: no more are under way than before, or there was room for one.
LEMMA SendStep == ASSUME ChannelInv, NEW n \in Channel!Packets, Channel!Send(n) PROVE ChannelInv'
  <1>1. TypesInv /\ CountInv /\ FlightInv /\ WindowInv /\ BufferInv /\ AckInv
        /\ MessagesInv /\ WaitingInv /\ StreamInv
    BY DEF ChannelInv
  <1>2. /\ acked' = acked /\ receiver' = receiver /\ current' = current /\ waitSeq' = waitSeq
        /\ taken' = taken /\ pushBuf' = pushBuf /\ waitData' = waitData /\ waitSize' = waitSize
        /\ popBuf' = popBuf /\ popped' = popped /\ ended' = ended
    BY DEF Channel!Send
  <1>3. n \in Channel!Packets \ (acked \cup copies) /\ n < Channel!Low + Window
        /\ copies' \in {copies} \cup (IF Channel!Cardinality(copies) < InFlight
                                      THEN {copies \cup {n}}
                                      ELSE {(copies \ {k}) \cup {n} : k \in copies \ {Channel!Low}})
    BY DEF Channel!Send
  <1>4. \/ copies' = copies
        \/ Channel!Cardinality(copies) < InFlight /\ copies' = copies \cup {n}
        \/ \E k \in copies : copies' = (copies \ {k}) \cup {n}
    BY <1>3
  <1>5. TypesInv'
    BY <1>1, <1>2, <1>3, <1>4 DEF TypesInv
  <1>6. FlightInv'
    <2>1. IsFiniteSet(copies) /\ Cardinality(copies) \in Nat /\ Cardinality(copies) <= InFlight
      BY <1>1, PacketsAre, FS_Subset, FS_CardinalityType, CountsAgree DEF TypesInv, FlightInv
    <2>2. CASE copies' = copies
      BY <1>1, <2>2 DEF FlightInv
    <2>3. CASE Channel!Cardinality(copies) < InFlight /\ copies' = copies \cup {n}
      <3>1. Cardinality(copies \cup {n}) = Cardinality(copies) + 1 /\ Cardinality(copies) < InFlight
        BY <1>3, <2>1, <2>3, FS_AddElement, CountsAgree
      <3>. QED
        BY <2>1, <2>3, <3>1, LimitsAre, CountsAgree DEF FlightInv
    <2>4. ASSUME NEW k \in copies, copies' = (copies \ {k}) \cup {n} PROVE FlightInv'
      <3>1. IsFiniteSet(copies \ {k}) /\ Cardinality(copies \ {k}) = Cardinality(copies) - 1
        BY <2>1, FS_RemoveElement
      <3>2. Cardinality((copies \ {k}) \cup {n}) = Cardinality(copies \ {k}) + 1
        BY <1>3, <3>1, FS_AddElement
      <3>. QED
        BY <2>1, <2>4, <3>1, <3>2, LimitsAre, CountsAgree DEF FlightInv
    <2>. QED
      BY <1>4, <2>2, <2>3, <2>4
  <1>7. WindowInv'
    BY <1>1, <1>2, <1>3, <1>4 DEF WindowInv, Channel!Low
  <1>8. CountInv' /\ BufferInv' /\ WaitingInv'
    BY <1>1, <1>2, BufferFrame DEF CountInv, WaitingInv
  <1>9. AckInv'
    BY <1>1, <1>2, KeptFrame DEF AckInv
  <1>. QED
    BY <1>1, <1>2, <1>5, <1>6, <1>7, <1>8, <1>9, MessagesFrame, StreamFrame DEF ChannelInv

LEMMA WaitsAre ==
  ASSUME NEW a \in Nat, NEW b \in Nat, a <= b, b <= Channel!Total
  PROVE  Len(Bytes(a, b)) \in 0..Channel!Total
  <1>1. Len(Bytes(a, b)) = b - a
    BY BytesAre
  <1>2. Channel!Total \in Nat
    BY CountIs
  <1>. QED
    BY <1>1, <1>2

\* A packet arrives: the worker keeps it, drops it, or goes on to put it in order.
LEMMA ReceiveStep == ASSUME ChannelInv, NEW n \in Channel!Packets, Channel!Receive(n) PROVE ChannelInv'
  <1>1. TypesInv /\ CountInv /\ FlightInv /\ WindowInv /\ BufferInv /\ AckInv
        /\ MessagesInv /\ WaitingInv /\ StreamInv
    BY DEF ChannelInv
  <1>2. /\ receiver = "read" /\ ~ended /\ n \in copies /\ n + SeqSpace \div 2 > taken
        /\ copies' \subseteq copies /\ current' = n
        /\ acked' = acked /\ waitSeq' = waitSeq /\ taken' = taken /\ waitSize' = waitSize
        /\ popBuf' = popBuf /\ popped' = popped /\ ended' = ended
    BY DEF Channel!Receive, Channel!Recent
  <1>3. Channel!diff(Channel!seq(n)) = n - (taken + 1)
    <2>1. n \in Nat /\ n <= taken + Window /\ taken \in Nat /\ waitSeq = taken % SeqSpace
      BY <1>1, <1>2, WindowHolds, PacketsAre DEF CountInv
    <2>. QED
      BY <1>2, <2>1, DiffIsDistance
  <1>4. n \in Nat /\ taken \in Nat /\ n <= taken + Window
    BY <1>1, <1>2, WindowHolds, PacketsAre DEF CountInv
  <1>5. copies' \subseteq Channel!Packets /\ acked' \subseteq Channel!Packets /\ current' \in Channel!Packets
        /\ ended' \in BOOLEAN /\ ~ended'
    BY <1>1, <1>2 DEF TypesInv
  <1>6. FlightInv'
    <2>1. IsFiniteSet(copies) /\ Cardinality(copies) <= InFlight
      BY <1>1, PacketsAre, FS_Subset, CountsAgree DEF TypesInv, FlightInv
    <2>2. Cardinality(copies') <= Cardinality(copies) /\ Cardinality(copies') \in Nat /\ Cardinality(copies) \in Nat
      BY <1>2, <2>1, FS_Subset, FS_CardinalityType
    <2>. QED
      BY <2>1, <2>2, LimitsAre, CountsAgree DEF FlightInv
  <1>7. WindowInv'
    BY <1>1, <1>2 DEF WindowInv, Channel!Low
  <1>8. MessagesInv' /\ Handed' = Handed
    BY <1>1, <1>2, MessagesFrame
  <1>9. CASE Channel!diff(Channel!seq(n)) > 0 /\ Channel!PushEarly(n)
    <2>1. n \in Early
      BY <1>3, <1>4, <1>9 DEF Early
    <2>2. /\ pushBuf' = IF SeqOf(n) \in DOMAIN pushBuf
                           \/ Channel!Cardinality(DOMAIN pushBuf) = PushSize
                        THEN pushBuf
                        ELSE [s \in DOMAIN pushBuf \cup {SeqOf(n)} |->
                                IF s = SeqOf(n) THEN Channel!Payload[n] ELSE pushBuf[s]]
          /\ receiver' = (IF SeqOf(n) \in DOMAIN pushBuf' THEN "ack" ELSE "read")
          /\ waitData' = waitData
      BY <1>9 DEF Channel!PushEarly, Channel!seq, SeqOf
    <2>3. /\ BufferInv' /\ (SeqOf(n) \in DOMAIN pushBuf' => Buffered(n)')
          /\ \A k \in Early : Buffered(k) => Buffered(k)'
      <3>1. CASE SeqOf(n) \in DOMAIN pushBuf \/ Channel!Cardinality(DOMAIN pushBuf) = PushSize
        <4>1. pushBuf' = pushBuf
          BY <2>2, <3>1
        <4>2. BufferInv'
          BY <1>1, <1>2, <4>1, BufferFrame
        <4>3. SeqOf(n) \in DOMAIN pushBuf => Buffered(n)
          BY <1>1, <2>1, BufferedIs
        <4>. QED
          BY <4>1, <4>2, <4>3 DEF Buffered
      <3>2. CASE ~(SeqOf(n) \in DOMAIN pushBuf \/ Channel!Cardinality(DOMAIN pushBuf) = PushSize)
        <4>1. pushBuf' = [s \in DOMAIN pushBuf \cup {SeqOf(n)} |->
                            IF s = SeqOf(n) THEN Channel!Payload[n] ELSE pushBuf[s]]
          BY <2>2, <3>2
        <4>2. /\ DOMAIN pushBuf' = DOMAIN pushBuf \cup {SeqOf(n)}
              /\ pushBuf'[SeqOf(n)] = Channel!Payload[n]
              /\ \A s \in DOMAIN pushBuf : pushBuf'[s] = pushBuf[s]
          BY <3>2, <4>1
        <4>3. Channel!Cardinality(DOMAIN pushBuf') <= PushSize
          <5>1. IsFiniteSet(DOMAIN pushBuf) /\ Cardinality(DOMAIN pushBuf) \in Nat
            BY <1>1, BufferIsFinite, FS_CardinalityType
          <5>2. Cardinality(DOMAIN pushBuf \cup {SeqOf(n)}) = Cardinality(DOMAIN pushBuf) + 1
            BY <3>2, <5>1, FS_AddElement
          <5>3. Cardinality(DOMAIN pushBuf) <= PushSize /\ Cardinality(DOMAIN pushBuf) # PushSize
            BY <1>1, <3>2, CountsAgree DEF BufferInv
          <5>. QED
            BY <4>2, <5>1, <5>2, <5>3, LimitsAre, CountsAgree
        <4>4. ASSUME NEW s \in DOMAIN pushBuf'
              PROVE  \E k \in Early : s = SeqOf(k) /\ pushBuf'[s] = Channel!Payload[k]
          <5>1. CASE s = SeqOf(n)
            BY <2>1, <4>2, <5>1
          <5>2. CASE s \in DOMAIN pushBuf
            BY <1>1, <4>2, <5>2 DEF BufferInv
          <5>. QED
            BY <4>2, <5>1, <5>2
        <4>5. BufferInv'
          BY <1>2, <4>3, <4>4 DEF BufferInv, Early, SeqOf
        <4>. QED
          BY <4>2, <4>5 DEF Buffered, SeqOf
      <3>. QED
        BY <3>1, <3>2
    <2>4. receiver' \in {"read", "ack"} /\ (receiver' = "ack" => SeqOf(n) \in DOMAIN pushBuf')
      BY <2>2
    <2>5. TypesInv' /\ CountInv'
      BY <1>1, <1>2, <1>5, <2>4 DEF TypesInv, CountInv
    <2>6. Early' = Early
      BY <1>2 DEF Early
    <2>7. AckInv'
      <3>1. ASSUME NEW k \in acked' PROVE Kept(k)'
        <4>1. Kept(k)
          BY <1>1, <1>2 DEF AckInv
        <4>2. k <= taken \/ (k \in Early /\ Buffered(k))
          BY <1>2, <4>1 DEF Kept
        <4>. QED
          BY <1>2, <2>3, <2>6, <4>2 DEF Kept
      <3>2. receiver' = "ack" => Kept(n)'
        BY <2>1, <2>3, <2>4, <2>6 DEF Kept
      <3>. QED
        BY <1>2, <3>1, <3>2 DEF AckInv
    <2>8. StreamInv' /\ WaitingInv'
      BY <1>1, <1>2, <2>2, <2>4, StreamFrame DEF WaitingInv
    <2>. QED
      BY <1>6, <1>7, <1>8, <2>3, <2>5, <2>7, <2>8 DEF ChannelInv
  <1>10. CASE Channel!diff(Channel!seq(n)) < 0 /\ receiver' = "ack" /\ pushBuf' = pushBuf
              /\ waitData' = waitData
    <2>1. n <= taken
      BY <1>3, <1>4, <1>10
    <2>2. TypesInv' /\ CountInv' /\ BufferInv' /\ WaitingInv'
      BY <1>1, <1>2, <1>5, <1>10, BufferFrame DEF TypesInv, CountInv, WaitingInv
    <2>3. AckInv'
      <3>1. Kept(n)'
        BY <1>2, <2>1 DEF Kept
      <3>. QED
        BY <1>1, <1>2, <1>10, <3>1, KeptFrame DEF AckInv
    <2>4. StreamInv'
      BY <1>1, <1>2, <1>10, StreamFrame
    <2>. QED
      BY <1>6, <1>7, <1>8, <2>2, <2>3, <2>4 DEF ChannelInv
  <1>11. CASE Channel!diff(Channel!seq(n)) = 0 /\ receiver' = "push"
              /\ waitData' = waitData \o Channel!Payload[n] /\ pushBuf' = pushBuf
    <2>1. n = taken + 1
      BY <1>3, <1>4, <1>11
    <2>2. TypesInv' /\ CountInv' /\ BufferInv'
      BY <1>1, <1>2, <1>4, <1>5, <1>11, <2>1, BufferFrame DEF TypesInv, CountInv
    <2>3. AckInv'
      BY <1>1, <1>2, <1>11, KeptFrame DEF AckInv
    <2>4. StreamInv' /\ WaitingInv'
      <3>1. Position' = Position /\ Ordered = Upto(n - 1) /\ Ordered' = Upto(n)
        BY <1>2, <1>4, <1>8, <1>11, <2>1 DEF Position, Ordered
      <3>2. /\ Position \in Nat /\ Position <= Ordered /\ waitData = Bytes(Position, Ordered)
            /\ (waitSize # 0 => Handed < Len(Sizes) /\ waitSize = Sizes[Handed + 1])
        BY <1>1, <1>2, HandedIs, SizesAre DEF StreamInv, Position
      <3>3. /\ Upto(n - 1) \in Nat /\ Upto(n) \in Nat /\ Upto(n - 1) <= Upto(n)
            /\ Upto(n) <= Channel!Total
        <4>1. /\ Upto(n - 1) \in Nat /\ Upto(n) \in Nat /\ Upto(n - 1) < Upto(n)
              /\ Upto(n) <= Channel!Total
          BY UptoIs
        <4>. QED
          BY <4>1
      <3>4. waitData' = Bytes(Position, Ordered')
        <4>. DEFINE c == Upto(n - 1)
                    d == Upto(n)
        <4>1. Channel!Payload[n] = Bytes(c, d)
          BY PayloadIs
        <4>2. c \in Nat /\ d \in Nat /\ c <= d /\ Position <= c /\ Ordered = c /\ Ordered' = d
          BY <3>1, <3>2, <3>3
        <4>. HIDE DEF c, d
        <4>3. Bytes(Position, c) \o Bytes(c, d) = Bytes(Position, d)
          BY <3>2, <4>2, BytesJoin
        <4>. QED
          BY <1>11, <3>2, <4>1, <4>2, <4>3
      <3>5. Position <= Ordered' /\ Ordered' \in Nat /\ Ordered' <= Channel!Total
        BY <3>1, <3>2, <3>3
      <3>6. Len(waitData') \in 0..Channel!Total
        BY <3>2, <3>4, <3>5, WaitsAre
      <3>7. WaitingInv'
        BY <1>1, <1>2, <3>6 DEF WaitingInv
      <3>8. StreamInv'
        BY <1>2, <1>8, <3>1, <3>2, <3>4, <3>5 DEF StreamInv
      <3>. QED
        BY <3>7, <3>8
    <2>. QED
      BY <1>6, <1>7, <1>8, <2>2, <2>3, <2>4 DEF ChannelInv
  <1>. QED
    BY <1>9, <1>10, <1>11 DEF Channel!Receive

LEMMA MessageIn ==
  ASSUME NEW m \in 1..Len(Sizes) PROVE Channel!Messages[m] \in Channel!Range(Channel!Messages)
  BY DEF Channel!Messages, Channel!Range

\* A complete message goes to the reader, or ends the connection when the reader is too slow.
LEMMA PushMessageStep == ASSUME ChannelInv, Channel!PushMessage PROVE ChannelInv'
  <1>1. TypesInv /\ CountInv /\ FlightInv /\ WindowInv /\ BufferInv /\ AckInv
        /\ MessagesInv /\ WaitingInv /\ StreamInv
    BY DEF ChannelInv
  <1>2. /\ receiver = "push" /\ Channel!HasMessage
        /\ copies' = copies /\ acked' = acked /\ current' = current /\ waitSeq' = waitSeq
        /\ taken' = taken /\ pushBuf' = pushBuf /\ popped' = popped
    BY DEF Channel!PushMessage
  <1>3. ~ended
    BY <1>1, <1>2 DEF TypesInv
  <1>4. FlightInv' /\ WindowInv' /\ BufferInv'
    BY <1>1, <1>2, BufferFrame DEF FlightInv, WindowInv, Channel!Low
  <1>5. CASE Len(popBuf) < PopSize
    <2>1. /\ popBuf' = Append(popBuf, SubSeq(Channel!Known.data, 1, Channel!Known.size))
          /\ waitData' = SubSeq(Channel!Known.data, Channel!Known.size + 1, Len(Channel!Known.data))
          /\ waitSize' = 0 /\ receiver' = receiver /\ ended' = ended
      BY <1>5 DEF Channel!PushMessage
    <2>. DEFINE m == Handed + 1
                a == Channel!End[Handed] + Header
                c == Channel!End[m]
                b == Ordered
    <2>2. /\ m \in 1..Len(Sizes) /\ a <= b
          /\ Channel!Known = [size |-> Sizes[m], data |-> Bytes(a, b)]
          /\ Sizes[m] <= Len(Channel!Known.data)
      BY <1>1, <1>2, <1>3, KnownIs DEF Channel!HasMessage
    <2>3. /\ a \in Nat /\ b \in Nat /\ b <= Channel!Total /\ c \in Nat /\ Handed \in Nat
          /\ c = a + Sizes[m] /\ Sizes[m] \in Nat
      <3>1. Handed \in 0..Len(Sizes) /\ Channel!End[Handed] \in Nat /\ m - 1 = Handed
        BY <1>1, HandedIs, SizesAre
      <3>2. Channel!End[m] = Channel!End[m - 1] + Header + Sizes[m] /\ Channel!End[m] \in Nat
            /\ Sizes[m] \in Nat
        BY <2>2, EndOf
      <3>. QED
        BY <1>1, <3>1, <3>2, OrderedIs, SizesAre
    <2>4. Channel!Known.data = Bytes(a, b) /\ Channel!Known.size = Sizes[m]
      BY <2>2
    <2>5. c <= b
      <3>1. Len(Bytes(a, b)) = b - a
        BY <2>2, <2>3, BytesAre
      <3>. HIDE DEF a, b, c, m
      <3>. QED
        BY <2>2, <2>3, <2>4, <3>1
    <2>6. /\ SubSeq(Channel!Known.data, 1, Channel!Known.size) = Bytes(a, c)
          /\ SubSeq(Channel!Known.data, Channel!Known.size + 1, Len(Channel!Known.data)) = Bytes(c, b)
      <3>. HIDE DEF a, b, c, m
      <3>1. Channel!Known.size = c - a /\ a <= c
        BY <2>3, <2>4
      <3>2. /\ SubSeq(Bytes(a, b), 1, c - a) = Bytes(a, c)
            /\ SubSeq(Bytes(a, b), (c - a) + 1, Len(Bytes(a, b))) = Bytes(c, b)
        <4>1. a \in Nat /\ b \in Nat /\ c \in Nat /\ a <= c /\ c <= b
          BY <2>3, <2>5, <3>1
        <4>. QED
          BY <4>1, BytesCut
      <3>. QED
        BY <2>4, <3>1, <3>2
    <2>7. Bytes(a, c) = Channel!Messages[m]
      <3>1. m - 1 = Handed
        BY <2>3
      <3>2. Bytes(Channel!End[m - 1] + Header, Channel!End[m]) = Channel!Messages[m]
        BY <2>2, MessageIs
      <3>. QED
        BY <3>1, <3>2
    <2>8. popBuf' = Append(popBuf, Channel!Messages[m]) /\ waitData' = Bytes(c, b)
      BY <2>1, <2>6, <2>7
    <2>9. MessagesInv' /\ Handed' = m
      <3>1. /\ popped \in Seq(Channel!Range(Channel!Messages))
            /\ popBuf \in Seq(Channel!Range(Channel!Messages)) /\ Len(popBuf) < PopSize
            /\ \A i \in 1..Len(popped) : popped[i] = Channel!Messages[i]
            /\ \A i \in 1..Len(popBuf) : popBuf[i] = Channel!Messages[Len(popped) + i]
            /\ Handed = Len(popped) + Len(popBuf)
        BY <1>1, <1>5 DEF MessagesInv, Handed
      <3>2. Channel!Messages[m] \in Channel!Range(Channel!Messages)
        BY <2>2, MessageIn
      <3>. DEFINE x == Channel!Messages[m]
                  longer == Append(popBuf, x)
      <3>3. x = Channel!Messages[Len(popped) + (Len(popBuf) + 1)]
        BY <3>1
      <3>. HIDE DEF x
      <3>4. /\ longer \in Seq(Channel!Range(Channel!Messages)) /\ Len(longer) = Len(popBuf) + 1
            /\ \A i \in 1..Len(popBuf) : longer[i] = popBuf[i]
            /\ longer[Len(popBuf) + 1] = x
        BY <3>1, <3>2 DEF x
      <3>5. popBuf' = longer
        BY <2>8 DEF x
      <3>. HIDE DEF longer
      <3>6. \A i \in 1..Len(longer) : longer[i] = Channel!Messages[Len(popped) + i]
        <4>. SUFFICES ASSUME NEW i \in 1..Len(longer)
                      PROVE longer[i] = Channel!Messages[Len(popped) + i]
          OBVIOUS
        <4>1. CASE i = Len(popBuf) + 1
          BY <3>3, <3>4, <4>1
        <4>2. CASE i # Len(popBuf) + 1
          <5>1. i \in 1..Len(popBuf)
            BY <3>1, <3>4, <4>2
          <5>. QED
            BY <3>1, <3>4, <5>1
        <4>. QED
          BY <4>1, <4>2
      <3>7. Handed' = m
        <4>1. Handed' = Len(popped) + Len(longer)
          BY <1>2, <3>5 DEF Handed
        <4>2. Len(popped) \in Nat /\ Len(popBuf) \in Nat
          BY <3>1
        <4>. QED
          BY <3>1, <3>4, <4>1, <4>2
      <3>8. Len(longer) <= PopSize /\ m <= Len(Sizes)
        BY <2>2, <3>1, <3>4, SizesAre, LimitsAre
      <3>. HIDE DEF m
      <3>. QED
        BY <1>2, <3>1, <3>4, <3>5, <3>6, <3>7, <3>8 DEF MessagesInv
    <2>10. Position' = c /\ Ordered' = b
      BY <1>2, <2>1, <2>3, <2>9 DEF Position, Ordered
    <2>. HIDE DEF a, b, c, m
    <2>11. StreamInv'
      BY <2>1, <2>5, <2>8, <2>10 DEF StreamInv
    <2>12. WaitingInv'
      BY <2>1, <2>3, <2>5, <2>8, WaitsAre DEF WaitingInv
    <2>13. TypesInv' /\ CountInv'
      BY <1>1, <1>2, <2>1 DEF TypesInv, CountInv
    <2>14. AckInv'
      BY <1>1, <1>2, <2>1, KeptFrame DEF AckInv
    <2>. QED
      BY <1>4, <2>9, <2>11, <2>12, <2>13, <2>14 DEF ChannelInv
  <1>6. CASE ~(Len(popBuf) < PopSize)
    <2>1. /\ ended' = TRUE /\ receiver' = "ack" /\ popBuf' = popBuf /\ waitData' = waitData
          /\ waitSize' = waitSize
      BY <1>6 DEF Channel!PushMessage
    <2>2. TypesInv' /\ CountInv' /\ AckInv' /\ StreamInv' /\ WaitingInv'
      BY <1>1, <1>2, <2>1 DEF TypesInv, CountInv, AckInv, StreamInv, WaitingInv
    <2>. QED
      BY <1>1, <1>2, <1>4, <2>1, <2>2, MessagesFrame DEF ChannelInv
  <1>. QED
    BY <1>5, <1>6

\* Push returns: the packet is taken, and the next one if it came early.
LEMMA PushNextStep == ASSUME ChannelInv, Channel!PushNext PROVE ChannelInv'
  <1>1. TypesInv /\ CountInv /\ FlightInv /\ WindowInv /\ BufferInv /\ AckInv
        /\ MessagesInv /\ WaitingInv /\ StreamInv
    BY DEF ChannelInv
  <1>2. /\ receiver = "push"
        /\ copies' = copies /\ acked' = acked /\ current' = current /\ popBuf' = popBuf
        /\ popped' = popped /\ ended' = ended
        /\ waitSeq' = (waitSeq + 1) % SeqSpace /\ taken' = taken + 1
    BY DEF Channel!PushNext
  <1>3. PICK rest :
          /\ rest = (IF Len(waitData) > Header THEN Channel!Known
                     ELSE [size |-> waitSize, data |-> waitData])
          /\ waitSize' = rest.size
          /\ \/ /\ waitSeq' \in DOMAIN pushBuf /\ waitData' = rest.data \o pushBuf[waitSeq']
                /\ pushBuf' = Channel!Restrict(pushBuf, DOMAIN pushBuf \ {waitSeq'})
                /\ receiver' = receiver
             \/ /\ waitSeq' \notin DOMAIN pushBuf /\ waitData' = rest.data /\ receiver' = "ack"
                /\ pushBuf' = pushBuf
    BY DEF Channel!PushNext
  <1>4. ~ended /\ ~ended'
    BY <1>1, <1>2 DEF TypesInv
  <1>5. taken \in Nat /\ taken + 1 \in Channel!Packets /\ taken' \in 0..Channel!Count
        /\ current <= taken' /\ waitSeq' = taken' % SeqSpace
    <2>1. taken \in Nat /\ taken + 1 \in Channel!Packets /\ waitSeq = taken % SeqSpace
          /\ current <= taken + 1
      BY <1>1, <1>2, PacketsAre DEF CountInv
    <2>2. ((taken % SeqSpace) + 1) % SeqSpace = (taken + 1) % SeqSpace
      <3>1. SeqSpace \in Nat \ {0} /\ taken \in Int
        BY <2>1, LimitsAre
      <3>. QED
        BY <3>1, ModOfNext
    <2>. QED
      BY <1>2, <2>1, <2>2, PacketsAre
  <1>6. FlightInv' /\ WindowInv' /\ MessagesInv' /\ Handed' = Handed
    BY <1>1, <1>2, MessagesFrame DEF FlightInv, WindowInv, Channel!Low
  <1>. DEFINE p == Channel!End[Handed] + (IF rest.size = 0 THEN 0 ELSE Header)
  <1>7. /\ p \in Nat /\ p <= Ordered /\ rest.data = Bytes(p, Ordered)
        /\ rest.size # 0 => Handed < Len(Sizes) /\ rest.size = Sizes[Handed + 1]
        /\ rest.size \in {0} \cup Channel!Range(Sizes)
    BY <1>1, <1>3, <1>4, RestIs
  <1>8. Position' = p /\ Ordered = Upto(taken + 1)
    BY <1>2, <1>3, <1>6 DEF Position, Ordered
  <1>9. Upto(taken + 1) \in Nat /\ Upto(taken + 1) <= Channel!Total
    <2>1. taken + 1 \in 0..Channel!Count
      BY <1>2, <1>5
    <2>. QED
      BY <2>1, OrderedIs
  \* The packet after the one that is taken is the one whose number is expected.
  <1>10. /\ waitSeq' = SeqOf(taken + 2)
         /\ \A n \in Early : SeqOf(n) # waitSeq' => n \in Early'
    <2>1. (taken + 2) - 1 = taken' /\ \A n \in Early : n \in Nat
      BY <1>2, <1>5, PacketsAre DEF Early
    <2>2. waitSeq' = SeqOf(taken + 2)
      BY <1>5, <2>1 DEF SeqOf
    <2>3. \A n \in Early : n = taken + 2 \/ n \in Early'
      BY <1>2, <1>5, <2>1, LimitsAre DEF Early
    <2>. QED
      BY <2>2, <2>3
  <1>. HIDE DEF p
  <1>11. CASE /\ waitSeq' \in DOMAIN pushBuf /\ waitData' = rest.data \o pushBuf[waitSeq']
              /\ pushBuf' = Channel!Restrict(pushBuf, DOMAIN pushBuf \ {waitSeq'})
              /\ receiver' = receiver
    <2>. DEFINE n == taken + 2
    <2>1. n \in Early /\ Buffered(n)
      <3>1. PICK k \in Early : waitSeq' = SeqOf(k)
        BY <1>1, <1>11 DEF BufferInv
      <3>2. k \in Nat /\ taken + 1 < k /\ k <= taken + Window
        BY <3>1, PacketsAre DEF Early
      <3>3. k = n
        <4>1. n \in Nat /\ SeqOf(n) = SeqOf(k)
          BY <1>5, <1>10, <3>1
        <4>2. k - n < SeqSpace /\ n - k < SeqSpace
          BY <1>5, <3>2, LimitsAre
        <4>. HIDE DEF n
        <4>. QED
          BY <3>2, <4>1, <4>2, NumbersDiffer
      <3>. QED
        BY <1>1, <1>10, <1>11, <3>1, <3>3, BufferedIs
    <2>2. /\ DOMAIN pushBuf' = DOMAIN pushBuf \ {waitSeq'}
          /\ \A s \in DOMAIN pushBuf \ {waitSeq'} : pushBuf'[s] = pushBuf[s]
      BY <1>11 DEF Channel!Restrict
    <2>3. n \in Channel!Packets /\ n = taken' + 1 /\ n - 1 = taken + 1
      BY <1>2, <1>5, <2>1 DEF Early
    <2>4. pushBuf[waitSeq'] = Channel!Payload[n]
      BY <1>10, <2>1 DEF Buffered
    <2>5. TypesInv' /\ CountInv'
      <3>1. current' <= taken' + 1 /\ taken' + 1 \in Channel!Packets
        <4>1. current \in Nat /\ taken' \in Nat
          BY <1>1, <1>5, PacketsAre DEF TypesInv
        <4>. QED
          BY <1>2, <1>5, <2>3, <4>1
      <3>. QED
        BY <1>1, <1>2, <1>4, <1>5, <1>11, <3>1 DEF TypesInv, CountInv
    <2>6. BufferInv'
      <3>1. ASSUME NEW s \in DOMAIN pushBuf'
            PROVE  \E k \in Early' : s = SeqOf(k) /\ pushBuf'[s] = Channel!Payload[k]
        <4>1. PICK k \in Early : s = SeqOf(k) /\ pushBuf[s] = Channel!Payload[k]
          BY <1>1, <2>2 DEF BufferInv
        <4>. QED
          BY <1>10, <2>2, <4>1
      <3>2. Channel!Cardinality(DOMAIN pushBuf') <= PushSize
        <4>1. IsFiniteSet(DOMAIN pushBuf) /\ Cardinality(DOMAIN pushBuf) <= PushSize
          BY <1>1, BufferIsFinite, CountsAgree DEF BufferInv
        <4>2. Cardinality(DOMAIN pushBuf') <= Cardinality(DOMAIN pushBuf)
              /\ Cardinality(DOMAIN pushBuf') \in Nat /\ Cardinality(DOMAIN pushBuf) \in Nat
          BY <2>2, <4>1, FS_Subset, FS_CardinalityType
        <4>. QED
          BY <4>1, <4>2, LimitsAre, CountsAgree
      <3>. QED
        BY <3>1, <3>2 DEF BufferInv, SeqOf
    <2>7. AckInv'
      <3>1. ASSUME NEW k \in acked PROVE Kept(k)'
        <4>1. k <= taken + 1 \/ (k \in Early /\ Buffered(k))
          <5>1. Kept(k) /\ k \in Nat
            BY <1>1, <1>4, <3>1, PacketsAre DEF AckInv, TypesInv
          <5>2. k <= taken \/ k = taken + 1 \/ (k \in Early /\ Buffered(k))
            BY <5>1 DEF Kept
          <5>. QED
            BY <1>5, <5>1, <5>2
        <4>2. CASE k <= taken + 1
          BY <1>2, <4>2 DEF Kept
        <4>3. CASE k \in Early /\ Buffered(k) /\ SeqOf(k) # waitSeq'
          BY <1>10, <2>2, <4>3 DEF Kept, Buffered, SeqOf
        <4>4. CASE k \in Early /\ SeqOf(k) = waitSeq'
          <5>1. k = n
            BY <1>1, <1>10, <2>1, <4>4, EarlyIsOne
          <5>. QED
            BY <1>2, <1>11, <2>3, <5>1 DEF Kept
        <4>. QED
          BY <4>1, <4>2, <4>3, <4>4
      <3>. QED
        BY <1>2, <1>11, <3>1 DEF AckInv
    <2>8. StreamInv' /\ WaitingInv'
      <3>1. Upto(n) \in Nat /\ Upto(n) <= Channel!Total /\ Upto(n - 1) < Upto(n)
            /\ Upto(n - 1) = Ordered
        <4>1. Upto(n) \in Nat /\ Upto(n) <= Channel!Total /\ Upto(n - 1) < Upto(n)
          BY <2>3, UptoIs
        <4>. QED
          BY <1>8, <2>3, <4>1
      <3>2. Ordered' = Upto(n)
        BY <1>2, <1>11, <2>3 DEF Ordered
      <3>. DEFINE c == Ordered
                  d == Upto(n)
      <3>3. c \in Nat /\ d \in Nat /\ d <= Channel!Total /\ p \in Nat /\ p <= c /\ c <= d
            /\ rest.data = Bytes(p, c)
        BY <1>7, <1>8, <1>9, <3>1
      <3>4. pushBuf[waitSeq'] = Bytes(c, d)
        BY <2>3, <2>4, <3>1, PayloadIs
      <3>. HIDE DEF c, d, n
      <3>5. Bytes(p, c) \o Bytes(c, d) = Bytes(p, d) /\ p <= d
        <4>1. p <= d
          BY <3>3
        <4>2. Bytes(p, c) \o Bytes(c, d) = Bytes(p, d)
          BY <3>3, BytesJoin
        <4>. QED
          BY <4>1, <4>2
      <3>6. waitData' = Bytes(p, d)
        BY <1>11, <3>3, <3>4, <3>5
      <3>7. Len(waitData') \in 0..Channel!Total
        BY <3>3, <3>5, <3>6, WaitsAre
      <3>8. WaitingInv'
        BY <1>3, <1>7, <3>7 DEF WaitingInv
      <3>9. StreamInv'
        BY <1>3, <1>6, <1>7, <1>8, <3>2, <3>5, <3>6 DEF StreamInv, d
      <3>. QED
        BY <3>8, <3>9
    <2>. QED
      BY <1>6, <2>5, <2>6, <2>7, <2>8 DEF ChannelInv
  <1>12. CASE /\ waitSeq' \notin DOMAIN pushBuf /\ waitData' = rest.data /\ receiver' = "ack"
              /\ pushBuf' = pushBuf
    <2>1. TypesInv' /\ CountInv'
      BY <1>1, <1>2, <1>4, <1>5, <1>12 DEF TypesInv, CountInv
    <2>2. BufferInv'
      <3>1. ASSUME NEW s \in DOMAIN pushBuf
            PROVE  \E k \in Early' : s = SeqOf(k) /\ pushBuf[s] = Channel!Payload[k]
        <4>1. PICK k \in Early : s = SeqOf(k) /\ pushBuf[s] = Channel!Payload[k]
          BY <1>1 DEF BufferInv
        <4>. QED
          BY <1>10, <1>12, <4>1
      <3>. QED
        BY <1>1, <1>12, <3>1 DEF BufferInv, SeqOf
    <2>3. AckInv'
      <3>1. ASSUME NEW k \in acked PROVE Kept(k)'
        <4>1. k <= taken + 1 \/ (k \in Early /\ Buffered(k))
          <5>1. Kept(k) /\ k \in Nat
            BY <1>1, <1>4, <3>1, PacketsAre DEF AckInv, TypesInv
          <5>2. k <= taken \/ k = taken + 1 \/ (k \in Early /\ Buffered(k))
            BY <5>1 DEF Kept
          <5>. QED
            BY <1>5, <5>1, <5>2
        <4>2. CASE k <= taken + 1
          BY <1>2, <4>2 DEF Kept
        <4>3. CASE k \in Early /\ Buffered(k)
          BY <1>10, <1>12, <4>3 DEF Kept, Buffered, SeqOf
        <4>. QED
          BY <4>1, <4>2, <4>3
      <3>2. Kept(current)'
        BY <1>2, <1>5 DEF Kept
      <3>. QED
        BY <1>2, <3>1, <3>2 DEF AckInv
    <2>4. StreamInv' /\ WaitingInv'
      <3>1. Ordered' = Ordered /\ waitData' = Bytes(p, Ordered')
        BY <1>2, <1>7, <1>8, <1>12 DEF Ordered
      <3>2. Len(waitData') \in 0..Channel!Total
        BY <1>7, <1>8, <1>9, <1>12, WaitsAre
      <3>. QED
        BY <1>3, <1>6, <1>7, <1>8, <3>1, <3>2 DEF StreamInv, WaitingInv
    <2>. QED
      BY <1>6, <2>1, <2>2, <2>3, <2>4 DEF ChannelInv
  <1>. QED
    BY <1>3, <1>11, <1>12

\* The acknowledgement gets through or is lost.
LEMMA AckStep == ASSUME ChannelInv, Channel!Ack PROVE ChannelInv'
  <1>1. TypesInv /\ CountInv /\ FlightInv /\ WindowInv /\ BufferInv /\ AckInv
        /\ MessagesInv /\ WaitingInv /\ StreamInv
    BY DEF ChannelInv
  <1>2. /\ receiver = "ack" /\ receiver' = "read" /\ acked' \in {acked, acked \cup {current}}
        /\ copies' = copies /\ current' = current /\ waitSeq' = waitSeq /\ taken' = taken
        /\ pushBuf' = pushBuf /\ waitData' = waitData /\ waitSize' = waitSize /\ popBuf' = popBuf
        /\ popped' = popped /\ ended' = ended
    BY DEF Channel!Ack
  <1>3. acked \subseteq acked' /\ TypesInv' /\ CountInv'
    BY <1>1, <1>2 DEF TypesInv, CountInv
  <1>4. WindowInv'
    <2>1. \A n \in copies : n < Channel!Low' + Window
      BY <1>1, <1>3, LowFrame
    <2>. QED
      BY <1>2, <2>1 DEF WindowInv
  <1>5. AckInv'
    <2>1. ASSUME ~ended, NEW n \in acked' PROVE Kept(n)'
      <3>1. Kept(n)
        BY <1>1, <1>2, <2>1 DEF AckInv
      <3>. QED
        BY <1>2, <3>1, KeptFrame
    <2>. QED
      BY <1>2, <2>1 DEF AckInv
  <1>6. FlightInv' /\ BufferInv' /\ WaitingInv' /\ MessagesInv' /\ StreamInv'
    BY <1>1, <1>2, BufferFrame, MessagesFrame, StreamFrame DEF FlightInv, WaitingInv
  <1>. QED
    BY <1>3, <1>4, <1>5, <1>6 DEF ChannelInv

LEMMA ReadFailsStep == ASSUME ChannelInv, Channel!ReadFails PROVE ChannelInv'
  <1>1. TypesInv /\ CountInv /\ FlightInv /\ WindowInv /\ BufferInv /\ AckInv
        /\ MessagesInv /\ WaitingInv /\ StreamInv
    BY DEF ChannelInv
  <1>2. /\ receiver = "read" /\ ended' = TRUE
        /\ copies' = copies /\ acked' = acked /\ receiver' = receiver /\ current' = current
        /\ waitSeq' = waitSeq /\ taken' = taken /\ pushBuf' = pushBuf /\ waitData' = waitData
        /\ waitSize' = waitSize /\ popBuf' = popBuf /\ popped' = popped
    BY DEF Channel!ReadFails
  <1>3. TypesInv' /\ CountInv' /\ AckInv' /\ StreamInv' /\ WaitingInv'
    BY <1>1, <1>2 DEF TypesInv, CountInv, AckInv, StreamInv, WaitingInv
  <1>4. FlightInv' /\ WindowInv' /\ BufferInv' /\ MessagesInv'
    BY <1>1, <1>2, BufferFrame, MessagesFrame DEF FlightInv, WindowInv, Channel!Low
  <1>. QED
    BY <1>3, <1>4 DEF ChannelInv

\* What the reader takes is the message that is next.
LEMMA PopIs ==
  ASSUME MessagesInv, Channel!Pop
  PROVE  /\ Len(popped) < Len(Channel!Messages) /\ ended' = ended
         /\ popped' = Append(popped, Channel!Messages[Len(popped) + 1])
         /\ MessagesInv' /\ Handed' = Handed
  <1>. DEFINE R == Channel!Range(Channel!Messages)
              x == Channel!Messages[Len(popped) + 1]
              longer == Append(popped, x)
              shorter == Tail(popBuf)
  <1>1. popBuf # <<>> /\ popped' = Append(popped, Head(popBuf)) /\ popBuf' = Tail(popBuf) /\ ended' = ended
    BY DEF Channel!Pop
  <1>2. /\ popped \in Seq(R) /\ popBuf \in Seq(R) /\ Len(popBuf) <= PopSize /\ Handed <= Len(Sizes)
        /\ \A i \in 1..Len(popped) : popped[i] = Channel!Messages[i]
        /\ \A i \in 1..Len(popBuf) : popBuf[i] = Channel!Messages[Len(popped) + i]
        /\ Handed = Len(popped) + Len(popBuf)
    BY DEF MessagesInv, Handed
  <1>. HIDE DEF R
  <1>3. Len(popped) \in Nat /\ Len(popBuf) \in Nat \ {0} /\ Head(popBuf) = popBuf[1] /\ popBuf[1] \in R
    BY <1>1, <1>2
  <1>4. Head(popBuf) = x /\ x \in R
    BY <1>2, <1>3
  <1>. HIDE DEF x
  <1>5. /\ longer \in Seq(R) /\ Len(longer) = Len(popped) + 1 /\ longer[Len(popped) + 1] = x
        /\ \A i \in 1..Len(popped) : longer[i] = popped[i]
    BY <1>2, <1>4
  <1>6. /\ shorter \in Seq(R) /\ Len(shorter) = Len(popBuf) - 1
        /\ \A i \in 1..Len(shorter) : shorter[i] = popBuf[i + 1]
    BY <1>1, <1>2, <1>3
  <1>7. popped' = longer /\ popBuf' = shorter
    BY <1>1, <1>4
  <1>. HIDE DEF longer, shorter
  <1>8. Handed' = Handed
    <2>1. Handed' = Len(longer) + Len(shorter)
      BY <1>7 DEF Handed
    <2>. QED
      BY <1>2, <1>3, <1>5, <1>6, <2>1
  <1>9. \A i \in 1..Len(longer) : longer[i] = Channel!Messages[i]
    <2>. SUFFICES ASSUME NEW i \in 1..Len(longer) PROVE longer[i] = Channel!Messages[i]
      OBVIOUS
    <2>1. CASE i = Len(popped) + 1
      BY <1>5, <2>1 DEF x
    <2>2. CASE i # Len(popped) + 1
      BY <1>2, <1>3, <1>5, <2>2
    <2>. QED
      BY <2>1, <2>2
  <1>10. \A i \in 1..Len(shorter) : shorter[i] = Channel!Messages[Len(longer) + i]
    <2>. SUFFICES ASSUME NEW i \in 1..Len(shorter)
                  PROVE shorter[i] = Channel!Messages[Len(longer) + i]
      OBVIOUS
    <2>1. i + 1 \in 1..Len(popBuf) /\ Len(longer) + i = Len(popped) + (i + 1)
      BY <1>3, <1>5, <1>6
    <2>. QED
      BY <1>2, <1>6, <2>1
  <1>11. Len(shorter) <= PopSize
    BY <1>2, <1>3, <1>6, LimitsAre
  <1>12. MessagesInv'
    BY <1>2, <1>5, <1>6, <1>7, <1>8, <1>9, <1>10, <1>11 DEF MessagesInv, R
  <1>13. Len(Channel!Messages) = Len(Sizes)
    BY SizesAre DEF Channel!Messages
  <1>14. Len(popped) < Len(Channel!Messages)
    BY <1>2, <1>3, <1>13, SizesAre
  <1>. QED
    BY <1>1, <1>7, <1>8, <1>12, <1>14 DEF longer, x

LEMMA PopStep == ASSUME ChannelInv, Channel!Pop PROVE ChannelInv'
  <1>1. TypesInv /\ CountInv /\ FlightInv /\ WindowInv /\ BufferInv /\ AckInv
        /\ MessagesInv /\ WaitingInv /\ StreamInv
    BY DEF ChannelInv
  <1>2. /\ copies' = copies /\ acked' = acked /\ receiver' = receiver /\ current' = current
        /\ waitSeq' = waitSeq /\ taken' = taken /\ pushBuf' = pushBuf /\ waitData' = waitData
        /\ waitSize' = waitSize /\ ended' = ended
    BY DEF Channel!Pop
  <1>3. MessagesInv' /\ Handed' = Handed
    BY <1>1, PopIs
  <1>4. Position' = Position /\ Ordered' = Ordered
    BY <1>2, <1>3 DEF Position, Ordered
  <1>5. StreamInv'
    BY <1>1, <1>2, <1>3, <1>4 DEF StreamInv
  <1>6. TypesInv' /\ CountInv' /\ WaitingInv' /\ AckInv'
    BY <1>1, <1>2, KeptFrame DEF TypesInv, CountInv, WaitingInv, AckInv
  <1>7. FlightInv' /\ WindowInv' /\ BufferInv'
    BY <1>1, <1>2, BufferFrame DEF FlightInv, WindowInv, Channel!Low
  <1>. QED
    BY <1>3, <1>5, <1>6, <1>7 DEF ChannelInv

LEMMA ChannelStutter == ASSUME ChannelInv, UNCHANGED Channel!vars PROVE ChannelInv'
  <1>1. TypesInv /\ CountInv /\ FlightInv /\ WindowInv /\ BufferInv /\ AckInv
        /\ MessagesInv /\ WaitingInv /\ StreamInv
    BY DEF ChannelInv
  <1>2. /\ copies' = copies /\ acked' = acked /\ receiver' = receiver /\ current' = current
        /\ waitSeq' = waitSeq /\ taken' = taken /\ pushBuf' = pushBuf /\ waitData' = waitData
        /\ waitSize' = waitSize /\ popBuf' = popBuf /\ popped' = popped /\ ended' = ended
    BY DEF Channel!vars
  <1>3. TypesInv' /\ CountInv' /\ WaitingInv' /\ AckInv'
    BY <1>1, <1>2, KeptFrame DEF TypesInv, CountInv, WaitingInv, AckInv
  <1>4. FlightInv' /\ WindowInv' /\ BufferInv'
    BY <1>1, <1>2, BufferFrame DEF FlightInv, WindowInv, Channel!Low
  <1>. QED
    BY <1>1, <1>2, <1>3, <1>4, MessagesFrame, StreamFrame DEF ChannelInv

LEMMA ChannelStep == ChannelInv /\ [Channel!Next]_(Channel!vars) => ChannelInv'
  <1>. SUFFICES ASSUME ChannelInv, [Channel!Next]_(Channel!vars) PROVE ChannelInv'
    OBVIOUS
  <1>1. CASE \E n \in Channel!Packets : Channel!Send(n)
    BY <1>1, SendStep
  <1>2. CASE \E n \in Channel!Packets : Channel!Receive(n)
    BY <1>2, ReceiveStep
  <1>3. CASE Channel!PushMessage
    BY <1>3, PushMessageStep
  <1>4. CASE Channel!PushNext
    BY <1>4, PushNextStep
  <1>5. CASE Channel!Ack
    BY <1>5, AckStep
  <1>6. CASE Channel!ReadFails
    BY <1>6, ReadFailsStep
  <1>7. CASE Channel!Pop
    BY <1>7, PopStep
  <1>8. CASE UNCHANGED Channel!vars
    BY <1>8, ChannelStutter
  <1>. QED
    BY <1>1, <1>2, <1>3, <1>4, <1>5, <1>6, <1>7, <1>8 DEF Channel!Next, Channel!Worker

LEMMA ChannelInvHolds == ChannelSpec => []ChannelInv
  <1>1. ChannelSpec => Channel!Init /\ [][Channel!Next]_(Channel!vars)
    BY DEF ChannelSpec, Channel!FairSpec, Channel!Spec
  <1>. QED
    BY <1>1, ChannelInit, ChannelStep, PTL

LEMMA ChannelFollows == ChannelInv => ChannelIsSound
  <1>. SUFFICES ASSUME ChannelInv PROVE ChannelIsSound
    OBVIOUS
  <1>1. TypesInv /\ CountInv /\ FlightInv /\ BufferInv /\ AckInv /\ MessagesInv /\ WaitingInv
    BY DEF ChannelInv
  <1>2. waitSeq \in 0..SeqSpace - 1
    <2>1. SeqSpace \in Nat \ {0} /\ taken \in Int
      BY <1>1, LimitsAre DEF CountInv
    <2>. QED
      BY <1>1, <2>1, DivMod DEF CountInv
  <1>3. ASSUME NEW s \in DOMAIN pushBuf
        PROVE  s \in 0..SeqSpace - 1 /\ pushBuf[s] \in Channel!Range(Channel!Payload)
    <2>1. PICK n \in Early : s = SeqOf(n) /\ pushBuf[s] = Channel!Payload[n]
      BY <1>1 DEF BufferInv
    <2>2. n \in Channel!Packets /\ n - 1 \in Int /\ SeqSpace \in Nat \ {0}
      BY PacketsAre, LimitsAre DEF Early
    <2>. DEFINE k == n - 1
    <2>3. k % SeqSpace \in 0..SeqSpace - 1
      <3>1. k \in Int /\ SeqSpace \in Nat \ {0}
        BY <2>2
      <3>. HIDE DEF k
      <3>. QED
        BY <3>1, DivMod
    <2>. QED
      BY <2>1, <2>2, <2>3 DEF SeqOf, Channel!Payload, Channel!Range
  <1>4. Channel!TypeOK
    BY <1>1, <1>2, <1>3
       DEF Channel!TypeOK, TypesInv, CountInv, FlightInv, BufferInv, MessagesInv, WaitingInv
  <1>5. Channel!AckedIsKept
    BY <1>1 DEF Channel!AckedIsKept, AckInv, Kept, Buffered, SeqOf, Channel!seq
  <1>. QED
    BY <1>4, <1>5 DEF ChannelIsSound

\* Packets are lost, repeated and overtake each other, their numbers wrap, and the buffers fill up:
\* what the peer knows to be acknowledged is never lost before it is read (native_cs2.go PushSeq).
THEOREM ChannelStaysSound == ChannelSpec => []ChannelIsSound
  <1>1. ChannelSpec => []ChannelInv
    BY ChannelInvHolds
  <1>. QED
    BY <1>1, ChannelFollows, PTL

\* Every step of the channel is one of the promised stream or leaves it alone.
LEMMA StreamStep ==
  ChannelInv /\ [Channel!Next]_(Channel!vars) => [Channel!Promised!Next]_(Channel!Promised!stream)
  <1>. SUFFICES ASSUME ChannelInv, [Channel!Next]_(Channel!vars)
                PROVE [Channel!Promised!Next]_(Channel!Promised!stream)
    OBVIOUS
  <1>1. MessagesInv /\ TypesInv
    BY DEF ChannelInv
  <1>2. CASE Channel!Pop
    <2>1. /\ Len(popped) < Len(Channel!Messages) /\ ended' = ended
          /\ popped' = Append(popped, Channel!Messages[Len(popped) + 1])
      BY <1>1, <1>2, PopIs
    <2>. QED
      BY <2>1 DEF Channel!Promised!Next, Channel!Promised!Read
  <1>3. CASE Channel!ReadFails
    <2>1. ~ended /\ ended' = TRUE /\ popped' = popped
      BY <1>3 DEF Channel!ReadFails
    <2>. QED
      BY <2>1 DEF Channel!Promised!Next, Channel!Promised!Close
  <1>4. CASE Channel!PushMessage
    <2>1. popped' = popped /\ receiver = "push" /\ (ended' = TRUE \/ ended' = ended)
      BY <1>4 DEF Channel!PushMessage
    <2>2. ~ended
      BY <1>1, <2>1 DEF TypesInv
    <2>. QED
      BY <2>1, <2>2 DEF Channel!Promised!Next, Channel!Promised!Close, Channel!Promised!stream
  <1>5. CASE \E n \in Channel!Packets : Channel!Send(n) \/ Channel!Receive(n)
    BY <1>5 DEF Channel!Send, Channel!Receive, Channel!Promised!stream
  <1>6. CASE Channel!PushNext \/ Channel!Ack \/ UNCHANGED Channel!vars
    BY <1>6 DEF Channel!PushNext, Channel!Ack, Channel!vars, Channel!Promised!stream
  <1>. QED
    BY <1>2, <1>3, <1>4, <1>5, <1>6 DEF Channel!Next, Channel!Worker

\* The reader gets every message once, unharmed and in order, until the connection ends, whatever
\* the network does: the safety part of ImplementsStream (native_cs2.go PushSeq, Push, Pop).
THEOREM ChannelIsAStream ==
  ChannelSpec => Channel!Promised!Init /\ [][Channel!Promised!Next]_(Channel!Promised!stream)
  <1>1. ChannelSpec => Channel!Init /\ [][Channel!Next]_(Channel!vars)
    BY DEF ChannelSpec, Channel!FairSpec, Channel!Spec
  <1>2. Channel!Init => Channel!Promised!Init
    BY DEF Channel!Init, Channel!Promised!Init
  <1>. QED
    BY <1>1, <1>2, ChannelInvHolds, StreamStep, PTL
=============================================================================
