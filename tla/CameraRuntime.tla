---------------------------- MODULE CameraRuntime -----------------------------
(***************************************************************************)
(* The camera runtime: a library and a runtime that hold the instance of   *)
(* one camera (camera/library.go, runtime.go), and the probe driver that   *)
(* opens a session, a stream and the decoder it feeds, for each Start      *)
(* (probe_driver.go, probe_stream.go).  Users start and stop instances     *)
(* from several goroutines; streams fail and end while they do.            *)
(***************************************************************************)
CONSTANTS
  Threads,   \* the users' goroutines
  Instances, \* instances that can be created (bound)
  Sessions,  \* names of sessions; a released one's is used again (bound)
  Absent     \* no instance, no session

Status == {"disconnected", "connecting", "connected", "error"}

VARIABLES
  library, runtime, \* the instance of the camera in Library.cameras, Runtime.cameras
  created,          \* instances a user may hold
  status,           \* Instance.status
  driver,           \* the session installed in the instance's driver
  pc,               \* where a thread is
  on,               \* the instance it works on
  hand,             \* the session it is starting or closing
  session,          \* free, decoder (the stream is not open yet), open, failed, draining
                    \* (closed, and a frame is still being decoded), ended
  owner,            \* the instance that the session reports to
  pending,          \* the session's errCh holds an error
  lost,             \* history: sessions that a later Start replaced
  crossed           \* history: instances stopped while they were being started

registry == <<library, runtime, created>>
threads == <<pc, on, hand>>
streams == <<session, owner, pending>>
history == <<lost, crossed>>
vars == <<registry, status, driver, threads, streams, history>>

TypeOK ==
  /\ {library, runtime} \subseteq created \cup {Absent} /\ created \subseteq Instances
  /\ status \in [Instances -> Status]
  /\ driver \in [Instances -> Sessions \cup {Absent}]
  /\ pc \in [Threads -> {"idle", "decoder", "stream", "install", "connect",
                         "destroy", "take", "close", "disconnect"}]
  /\ on \in [Threads -> Instances \cup {Absent}] /\ hand \in [Threads -> Sessions \cup {Absent}]
  /\ session \in [Sessions -> {"free", "decoder", "open", "failed", "draining", "ended"}]
  /\ pending \in [Sessions -> BOOLEAN]
  /\ owner \in [Sessions -> Instances \cup {Absent}]
  /\ lost \subseteq Sessions /\ crossed \subseteq Instances

Init ==
  /\ library = Absent /\ runtime = Absent /\ created = {}
  /\ status = [i \in Instances |-> "disconnected"]
  /\ driver = [i \in Instances |-> Absent]
  /\ pc = [t \in Threads |-> "idle"]
  /\ on = [t \in Threads |-> Absent] /\ hand = [t \in Threads |-> Absent]
  /\ session = [s \in Sessions |-> "free"]
  /\ owner = [s \in Sessions |-> Absent] /\ pending = [s \in Sessions |-> FALSE]
  /\ lost = {} /\ crossed = {}

At(t, place) == pc[t] = place
Goto(t, place) == pc' = [pc EXCEPT ![t] = place]
Return(t) == Goto(t, "idle") /\ on' = [on EXCEPT ![t] = Absent]
Starting(i) == \E t \in Threads : on[t] = i /\ pc[t] \in {"decoder", "stream", "install", "connect"}
Stopping(i) == \E t \in Threads : on[t] = i /\ pc[t] \in {"take", "close", "disconnect"}

\* UpdateStatus writes the status in a critical section of its own; the callbacks of
\* users that it then calls are not modelled.
UpdateStatus(i, new) == status' = [status EXCEPT ![i] = new]

-----------------------------------------------------------------------------
(* Library and Runtime *)

\* Library.NewCamera, holding the library's mu, calls Runtime.Create.
NewCamera(t) ==
  /\ At(t, "idle") /\ library = Absent
  /\ IF runtime # Absent
       THEN library' = runtime /\ UNCHANGED <<runtime, created>>
       ELSE \E i \in Instances \ created :
              library' = i /\ runtime' = i /\ created' = created \cup {i}
  /\ UNCHANGED <<status, driver, threads, streams, history>>

\* Library.Close empties the map in one critical section and destroys after it.
Close(t) ==
  /\ At(t, "idle") /\ library # Absent
  /\ library' = Absent /\ Goto(t, "destroy")
  /\ UNCHANGED <<runtime, created, status, driver, on, hand, streams, history>>

Destroy(t) ==
  /\ At(t, "destroy") /\ runtime' = Absent /\ on' = [on EXCEPT ![t] = runtime]
  /\ Goto(t, IF runtime = Absent THEN "idle" ELSE "take")
  /\ UNCHANGED <<library, created, status, driver, hand, streams, history>>

-----------------------------------------------------------------------------
(* Instance.Start and probeDriver.Start *)

\* Options that do not fit (a missing or malformed pin code) change nothing.
Start(t, i) ==
  /\ At(t, "idle") /\ i \in created
  /\ on' = [on EXCEPT ![t] = i] /\ UpdateStatus(i, "connecting") /\ Goto(t, "decoder")
  /\ crossed' = IF Stopping(i) THEN crossed \cup {i} ELSE crossed
  /\ UNCHANGED <<registry, driver, hand, streams, lost>>

StartFails(t) ==
  UpdateStatus(on[t], "error") /\ Return(t)

Free(s) ==
  /\ session[s] \in {"free", "ended"} /\ ~pending[s]
  /\ \A i \in Instances : driver[i] # s
  /\ \A t \in Threads : hand[t] # s

\* The resolvers are asked and the decoder is started; both may fail.
StartDecoder(t) ==
  /\ At(t, "decoder")
  /\ \/ \E s \in Sessions :
          /\ Free(s) /\ hand' = [hand EXCEPT ![t] = s]
          /\ session' = [session EXCEPT ![s] = "decoder"] /\ owner' = [owner EXCEPT ![s] = on[t]]
          /\ lost' = lost \ {s}
       /\ Goto(t, "stream") /\ UNCHANGED <<on, status>>
     \/ StartFails(t) /\ UNCHANGED <<hand, session, owner, lost>>
  /\ UNCHANGED <<registry, driver, pending, crossed>>

\* A stream that does not open takes its decoder with it.
StreamRefused(t) ==
  /\ session' = [session EXCEPT ![hand[t]] = "ended"] /\ hand' = [hand EXCEPT ![t] = Absent]
  /\ StartFails(t)

\* An RTSP stream is open when every step up to Play succeeded; a direct or HTTP stream
\* when its first request is answered.
StreamOpened(t) ==
  /\ session' = [session EXCEPT ![hand[t]] = "open"]
  /\ Goto(t, "install") /\ UNCHANGED <<on, hand, status>>

\* Mutation of StartStream: the decoder of a stream that does not open is kept.
StartStreamDropsDecoder(t) ==
  /\ At(t, "stream")
  /\ \/ StreamOpened(t)
     \/ /\ hand' = [hand EXCEPT ![t] = Absent] /\ StartFails(t) /\ UNCHANGED session
  /\ UNCHANGED <<registry, driver, owner, pending, history>>

\* ProbeStreamClient.Start: direct and HTTP streams, or RTSP.
StartStream(t) ==
  /\ At(t, "stream")
  /\ StreamOpened(t) \/ StreamRefused(t)
  /\ UNCHANGED <<registry, driver, owner, pending, history>>

\* The session is installed, whatever was installed before, and its errors are
\* watched.
Install(t) ==
  /\ At(t, "install") /\ Goto(t, "connect")
  /\ driver' = [driver EXCEPT ![on[t]] = hand[t]]
  /\ lost' = lost \cup ({driver[on[t]]} \ {Absent})
  /\ hand' = [hand EXCEPT ![t] = Absent]
  /\ UNCHANGED <<registry, status, on, streams, crossed>>

Connect(t) ==
  /\ At(t, "connect") /\ UpdateStatus(on[t], "connected") /\ Return(t)
  /\ UNCHANGED <<registry, driver, hand, streams, history>>

-----------------------------------------------------------------------------
(* Instance.Stop and probeDriver.Stop *)

Stop(t, i) ==
  /\ At(t, "idle") /\ i \in created
  /\ on' = [on EXCEPT ![t] = i] /\ Goto(t, "take")
  /\ UNCHANGED <<registry, status, driver, hand, streams, history>>

\* Mutation of TakeSession: the driver keeps the session it closes.
TakeSessionKeeps(t) ==
  /\ At(t, "take") /\ Goto(t, "close")
  /\ hand' = [hand EXCEPT ![t] = driver[on[t]]]
  /\ crossed' = IF Starting(on[t]) THEN crossed \cup {on[t]} ELSE crossed
  /\ UNCHANGED <<registry, status, driver, on, streams, lost>>

TakeSession(t) ==
  /\ At(t, "take") /\ Goto(t, "close")
  /\ hand' = [hand EXCEPT ![t] = driver[on[t]]] /\ driver' = [driver EXCEPT ![on[t]] = Absent]
  /\ crossed' = IF Starting(on[t]) THEN crossed \cup {on[t]} ELSE crossed
  /\ UNCHANGED <<registry, status, on, streams, lost>>

\* The context is cancelled, the stream and the decoder are closed; a frame may still
\* be on its way to the decoder, and an error that is already in errCh stays there.
CloseSessions(t) ==
  /\ At(t, "close") /\ Goto(t, "disconnect")
  /\ \E after \in {"draining", "ended"} :
       session' = [s \in Sessions |-> IF s # hand[t] THEN session[s]
                                     ELSE IF session[s] = "open" THEN after ELSE "ended"]
  /\ hand' = [hand EXCEPT ![t] = Absent]
  /\ UNCHANGED <<registry, status, driver, on, owner, pending, history>>

Disconnect(t) ==
  /\ At(t, "disconnect") /\ UpdateStatus(on[t], "disconnected") /\ Return(t)
  /\ UNCHANGED <<registry, driver, hand, streams, history>>

-----------------------------------------------------------------------------
(* Streams and decoders *)

\* The stream, or the decoder, fails; an RTP packet that cannot be decoded leaves the
\* stream open.  reportError says nothing once the session is closed, and no more
\* than one error waits in errCh.
ReportError(s) ==
  /\ session[s] = "open" /\ pending' = [pending EXCEPT ![s] = TRUE]
  /\ \E after \in {"open", "failed"} : session' = [session EXCEPT ![s] = after]
  /\ UNCHANGED <<registry, status, driver, threads, owner, history>>

\* A direct or HTTP stream that ends is not an error.
StreamEnds(s) ==
  /\ session[s] = "open" /\ session' = [session EXCEPT ![s] = "failed"]
  /\ UNCHANGED <<registry, status, driver, threads, owner, pending, history>>

\* The decoder refuses a frame, also of a stream that Start has not installed yet or
\* that Stop has just closed.
DecodeFails(s) ==
  /\ session[s] \in {"open", "draining"}
  /\ session' = [session EXCEPT ![s] = IF session[s] = "open" THEN "open" ELSE "ended"]
  /\ UpdateStatus(owner[s], "error")
  /\ UNCHANGED <<registry, driver, threads, owner, pending, history>>

Drained(s) ==
  /\ session[s] = "draining" /\ session' = [session EXCEPT ![s] = "ended"]
  /\ UNCHANGED <<registry, status, driver, threads, owner, pending, history>>

\* watchErrors, which Start calls once it has installed the session, reports the first
\* error of the session and returns.
WatchErrors(s) ==
  /\ pending[s] /\ \A t \in Threads : hand[t] = s => pc[t] = "close"
  /\ UpdateStatus(owner[s], "error") /\ pending' = [pending EXCEPT ![s] = FALSE]
  /\ UNCHANGED <<registry, driver, threads, session, owner, history>>

-----------------------------------------------------------------------------
Next ==
  \/ \E t \in Threads :
       \/ NewCamera(t) \/ Close(t) \/ Destroy(t) \/ StartDecoder(t)
       \/ StartStream(t) \/ Install(t) \/ Connect(t) \/ TakeSession(t) \/ CloseSessions(t)
       \/ Disconnect(t)
       \/ \E i \in Instances : Start(t, i) \/ Stop(t, i)
  \/ \E s \in Sessions : 
       \/ ReportError(s) \/ StreamEnds(s) \/ DecodeFails(s) \/ Drained(s) \/ WatchErrors(s)

Spec == Init /\ [][Next]_vars

-----------------------------------------------------------------------------
(* Properties *)

Running(s) == session[s] \in {"decoder", "open", "failed"}

\* A session that runs is installed in a driver, or in the hands of the Start or Stop
\* that will install or close it: only a second Start leaves one behind.
NothingIsLost ==
  \A s \in Sessions : Running(s) =>
    s \in lost \/ (\E i \in Instances : driver[i] = s) \/ (\E t \in Threads : hand[t] = s)

\* Unless a Start and a Stop of it overlap, an instance at rest that is connected has
\* a session, and one with a session does not say that it is disconnected.
StatusIsFounded ==
  \A i \in created \ crossed : ~Starting(i) /\ ~Stopping(i) =>
    /\ status[i] = "connected" => driver[i] # Absent
    /\ driver[i] # Absent => status[i] \in {"connected", "error"}

\* Expected of the code but not kept by it (README, "What the code does not keep"):
\* the library's instance is the one that the runtime will destroy.
LibraryIsCovered == library # Absent => library = runtime

\* Expected of the code but not kept by it (README, "What the code does not keep"):
\* a second Start of an instance leaves no session behind.
RestartReleases == lost = {}
=============================================================================
