----------------------------- MODULE CameraWorker -----------------------------
(***************************************************************************)
(* The worker of one camera (camera/stream_manager.go): callers of         *)
(* GetSnapshot start, share and restart one JPEG-producing pipeline.  What *)
(* a pipeline does inside is the subject of NativePipeline; here it is     *)
(* open, being closed or closed, and delivers frames until it is closed    *)
(* and sometimes one more.                                                 *)
(*                                                                         *)
(* Every critical section of lifecycleMu and of the worker's mu is a step. *)
(***************************************************************************)
EXTENDS Naturals

CONSTANTS
  Callers,   \* goroutines that call GetSnapshot
  Pipelines, \* names of pipelines; a closed one's is used again (bound)
  MaxRounds, \* connections one start tries: maxAttempts, at each host (bound)
  None       \* no caller, no pipeline

VARIABLES
  pc,        \* where a caller is in GetSnapshot
  attempt,   \* its attempt: 1 or 2
  lifecycle, \* who holds lifecycleMu
  target,    \* the pipeline its holder is closing
  once,      \* startOnce has run
  startErr,  \* startErr # nil
  closer,    \* w.closer
  round,     \* connections that the start under way has tried
  frame,     \* w.snapshot: none, fresh, or older than the timeout
  waiters,   \* w.waiters
  woken,     \* waiting callers whose channel holds a signal
  pipelines  \* none, new (its decoder or its media client is open), open or closed

calls == <<pc, attempt>>
worker == <<lifecycle, target, once, startErr, closer, round>>
frames == <<frame, waiters, woken>>
vars == <<calls, worker, frames, pipelines>>

TypeOK ==
  /\ pc \in [Callers -> {"idle", "ensure", "start", "stream", "media", "login", "play",
                         "current", "expired", "wait", "waiting", "restart", "closing"}]
  /\ attempt \in [Callers -> 1..2]
  /\ lifecycle \in Callers \cup {None}
  /\ closer \in Pipelines \cup {None} /\ target \in Pipelines \cup {None}
  /\ once \in BOOLEAN /\ startErr \in BOOLEAN /\ round \in 0..MaxRounds
  /\ frame \in {"none", "fresh", "old"}
  /\ waiters \subseteq Callers /\ woken \subseteq Callers
  /\ pipelines \in [Pipelines -> {"none", "new", "open", "closed"}]

Init ==
  /\ pc = [c \in Callers |-> "idle"] /\ attempt = [c \in Callers |-> 1]
  /\ lifecycle = None /\ target = None /\ once = FALSE /\ startErr = FALSE /\ closer = None
  /\ round = 0
  /\ frame = "none" /\ waiters = {} /\ woken = {}
  /\ pipelines = [p \in Pipelines |-> "none"]

Free(p) == pipelines[p] \in {"none", "closed"}

Goto(c, where) == pc' = [pc EXCEPT ![c] = where]
Return(c) == Goto(c, "idle") /\ attempt' = [attempt EXCEPT ![c] = 1]

\* Mutation of NextAttempt: attempts are not counted.
NextAttemptForever(c) == Goto(c, "ensure") /\ attempt' = [attempt EXCEPT ![c] = @ + 1]

\* The attempt has failed: another one, or GetSnapshot returns.
NextAttempt(c) ==
  IF attempt[c] = 1 THEN Goto(c, "ensure") /\ attempt' = [attempt EXCEPT ![c] = 2]
                    ELSE Return(c)

-----------------------------------------------------------------------------
(* Starting a pipeline *)

GetSnapshot(c) ==
  /\ pc[c] = "idle" /\ Goto(c, "ensure")
  /\ UNCHANGED <<attempt, worker, frames, pipelines>>

\* Mutation of EnsureStarted: a caller without a frame starts a pipeline of its own.
EnsureStartedAgain(c) ==
  /\ pc[c] = "ensure" /\ lifecycle = None
  /\ startErr' = FALSE /\ once' = TRUE
  /\ IF once /\ ~startErr /\ frame # "none" THEN Goto(c, "current") /\ UNCHANGED lifecycle
                                            ELSE Goto(c, "start") /\ lifecycle' = c
  /\ UNCHANGED <<attempt, target, closer, round, frames, pipelines>>

\* ensureStarted: a failed start is tried again, a started pipeline is shared.
EnsureStarted(c) ==
  /\ pc[c] = "ensure" /\ lifecycle = None
  /\ startErr' = FALSE /\ once' = TRUE
  /\ IF once /\ ~startErr THEN Goto(c, "current") /\ UNCHANGED lifecycle
                          ELSE Goto(c, "start") /\ lifecycle' = c
  /\ UNCHANGED <<attempt, target, closer, round, frames, pipelines>>

\* The pipeline that is being opened is the worker's from now on, or is closed again.
Opened(c) ==
  /\ \E p \in Pipelines : /\ pipelines[p] = "new" /\ closer' = p
                          /\ pipelines' = [pipelines EXCEPT ![p] = "open"]
  /\ lifecycle' = None /\ round' = 0 /\ Goto(c, "current")
  /\ UNCHANGED <<attempt, target, once, startErr, frames>>

Opening == \E p \in Pipelines : Free(p) /\ pipelines' = [pipelines EXCEPT ![p] = "new"]
Discarded == pipelines' = [p \in Pipelines |-> IF pipelines[p] = "new" THEN "none" ELSE pipelines[p]]

\* probeCameraPipelineFactory.Start resolves a session and starts a decoder; if that fails,
\* the native pipeline is tried instead.
StartProbe(c) ==
  /\ pc[c] = "start"
  /\ \/ Opening /\ Goto(c, "stream")
     \/ Goto(c, "media") /\ UNCHANGED pipelines
  /\ UNCHANGED <<attempt, worker, frames>>

\* The stream is opened without a deadline, an HTTP request or the login of a media client,
\* and the decoder is closed if that fails.
StreamAnswers(c) == pc[c] = "stream" /\ Opened(c)
StreamFails(c) ==
  /\ pc[c] = "stream" /\ Discarded /\ Goto(c, "media")
  /\ UNCHANGED <<attempt, worker, frames>>

\* miHomeCameraPipelineFactory.Start: session, cloud, device, key and vendor, then a
\* connection to the known host or to a discovered one, in several rounds.
OpenMedia(c) ==
  /\ pc[c] = "media" /\ round < MaxRounds /\ round' = round + 1
  /\ \/ Opening /\ Goto(c, "login")
     \/ UNCHANGED <<pc, pipelines>>
  /\ UNCHANGED <<attempt, lifecycle, target, once, startErr, closer, frames>>

\* The login is sent once and its answer awaited without a deadline (MissSession); a context
\* is not asked, and lifecycleMu stays locked.
LoginSucceeds(c) ==
  /\ pc[c] = "login" /\ Goto(c, "play")
  /\ UNCHANGED <<attempt, worker, frames, pipelines>>

\* A client whose login fails, or whose StartMedia, is closed, and another round may follow.
RoundFails(c) ==
  /\ Discarded /\ Goto(c, "media")
  /\ UNCHANGED <<attempt, worker, frames>>

LoginFails(c) == pc[c] = "login" /\ RoundFails(c)

StartMedia(c) == pc[c] = "play" /\ Opened(c)

\* Mutation of StartMediaFails: a client whose StartMedia fails is left open.
StartMediaFailsOpen(c) ==
  /\ pc[c] = "play" /\ Goto(c, "media")
  /\ pipelines' = [p \in Pipelines |-> IF pipelines[p] = "new" THEN "open" ELSE pipelines[p]]
  /\ UNCHANGED <<attempt, worker, frames>>

StartMediaFails(c) == pc[c] = "play" /\ RoundFails(c)

\* No round is left, or the cloud has failed.  Every cause is
\* ErrCameraBridgeUnavailable, so the first attempt goes on to a restart.
StartFails(c) ==
  /\ pc[c] = "media" /\ round' = 0
  /\ startErr' = TRUE /\ lifecycle' = None
  /\ IF attempt[c] = 1 THEN Goto(c, "restart") /\ UNCHANGED attempt ELSE Return(c)
  /\ UNCHANGED <<target, closer, once, frames, pipelines>>

-----------------------------------------------------------------------------
(* Looking at, and waiting for, a frame *)

CurrentSnapshot(c) ==
  /\ pc[c] = "current"
  /\ IF frame = "fresh" THEN Return(c) ELSE Goto(c, "expired") /\ UNCHANGED attempt
  /\ UNCHANGED <<worker, frames, pipelines>>

\* snapshotExpired, in a critical section of its own
SnapshotExpired(c) ==
  /\ pc[c] = "expired" /\ Goto(c, IF frame = "old" THEN "restart" ELSE "wait")
  /\ UNCHANGED <<attempt, worker, frames, pipelines>>

\* Mutation of WaitForSnapshot: the caller waits without looking at the frame again.
WaitForSnapshotBlindly(c) ==
  /\ pc[c] = "wait"
  /\ Goto(c, "waiting") /\ waiters' = waiters \cup {c} /\ UNCHANGED attempt
  /\ UNCHANGED <<worker, frame, woken, pipelines>>

WaitForSnapshot(c) ==
  /\ pc[c] = "wait"
  /\ IF frame = "fresh" THEN Return(c) /\ UNCHANGED waiters
     ELSE Goto(c, "waiting") /\ waiters' = waiters \cup {c} /\ UNCHANGED attempt
  /\ UNCHANGED <<worker, frame, woken, pipelines>>

RemoveWaiter(c) == waiters' = waiters \ {c} /\ woken' = woken \ {c} /\ UNCHANGED frame

ContextDone(c) ==
  /\ pc[c] = "waiting" /\ Return(c) /\ RemoveWaiter(c) /\ UNCHANGED <<worker, pipelines>>

WaitTimesOut(c) ==
  /\ pc[c] = "waiting" /\ Goto(c, "restart") /\ RemoveWaiter(c)
  /\ UNCHANGED <<attempt, worker, pipelines>>

\* The frame may be gone again: another caller has restarted the pipeline.
Wakes(c) ==
  /\ pc[c] = "waiting" /\ c \in woken /\ RemoveWaiter(c)
  /\ IF frame = "none" THEN Goto(c, "restart") /\ UNCHANGED attempt ELSE Return(c)
  /\ UNCHANGED <<worker, pipelines>>

\* onJPEG keeps the frame and wakes every waiter; a decoder's reader may deliver a
\* frame after its pipeline was closed.
OnJPEG ==
  /\ \E p \in Pipelines : pipelines[p] \in {"open", "closed"}
  /\ frame' = "fresh" /\ woken' = woken \cup waiters /\ waiters' = {}
  /\ UNCHANGED <<calls, worker, pipelines>>

FrameAges == frame = "fresh" /\ frame' = "old" /\ UNCHANGED <<calls, worker, waiters, woken, pipelines>>

-----------------------------------------------------------------------------
(* Restarting *)

\* Mutation of RestartPipeline: the pipeline is forgotten and closed later, without
\* lifecycleMu.
RestartPipelineUnlocked(c) ==
  /\ pc[c] = "restart" /\ lifecycle = None
  /\ startErr' = FALSE /\ once' = FALSE /\ closer' = None /\ frame' = "none"
  /\ NextAttempt(c) /\ UNCHANGED <<target, lifecycle, round, waiters, woken, pipelines>>

\* restartPipeline(true) forgets the pipeline, whoever started it, and the frame,
\* and closes it before it lets go of lifecycleMu.
RestartPipeline(c) ==
  /\ pc[c] = "restart" /\ lifecycle = None
  /\ startErr' = FALSE /\ once' = FALSE /\ closer' = None /\ frame' = "none"
  /\ IF closer = None THEN NextAttempt(c) /\ UNCHANGED <<target, lifecycle>>
     ELSE target' = closer /\ lifecycle' = c /\ Goto(c, "closing") /\ UNCHANGED attempt
  /\ UNCHANGED <<round, waiters, woken, pipelines>>

\* Mutation of RestartEnds: lifecycleMu stays locked after the close.
RestartEndsLocked(c) ==
  /\ pc[c] = "closing"
  /\ pipelines' = [pipelines EXCEPT ![target] = "closed"]
  /\ target' = None /\ NextAttempt(c)
  /\ UNCHANGED <<lifecycle, once, startErr, closer, round, frames>>

RestartEnds(c) ==
  /\ pc[c] = "closing"
  /\ pipelines' = [pipelines EXCEPT ![target] = "closed"]
  /\ lifecycle' = None /\ target' = None /\ NextAttempt(c)
  /\ UNCHANGED <<once, startErr, closer, round, frames>>

-----------------------------------------------------------------------------
Steps(c) ==
  \/ StartProbe(c) \/ OpenMedia(c) \/ StartMedia(c) \/ StartMediaFails(c) \/ StartFails(c)
  \/ CurrentSnapshot(c) \/ SnapshotExpired(c) \/ WaitForSnapshot(c)
  \/ WaitTimesOut(c) \/ Wakes(c) \/ RestartEnds(c)

\* Steps that wait for a camera or for the server of a stream, with no deadline.
Answers(c) == StreamAnswers(c) \/ StreamFails(c) \/ LoginSucceeds(c) \/ LoginFails(c)

Next ==
  \/ \E c \in Callers :
       \/ GetSnapshot(c) \/ EnsureStarted(c) \/ ContextDone(c)
       \/ RestartPipeline(c) \/ Steps(c) \/ Answers(c)
  \/ OnJPEG \/ FrameAges

\* Goroutines run, a waiter's timer fires, what has a timeout ends, and a waiting Lock of
\* lifecycleMu gets its turn (Go's mutex hands over to a starving goroutine).  Nobody
\* has to answer what is awaited without a deadline.
Fairness ==
  \A c \in Callers : /\ WF_vars(Steps(c))
                     /\ SF_vars(EnsureStarted(c)) /\ SF_vars(RestartPipeline(c))

Spec == Init /\ [][Next]_vars /\ Fairness

-----------------------------------------------------------------------------
(* Properties *)

\* Every pipeline that is not closed is the worker's, or in the hands of whoever
\* holds lifecycleMu, who is starting or closing it: no interleaving of callers
\* leaves a pipeline or a media client that nobody will close.
NoPipelineLeaks ==
  \A p \in Pipelines : ~Free(p) =>
    \/ p = closer
    \/ \E c \in Callers : lifecycle = c /\ pc[c] = "closing" /\ target = p
    \/ \E c \in Callers :
         lifecycle = c /\ pc[c] \in {"stream", "login", "play"} /\ pipelines[p] = "new"

\* No frame is missed: whoever waits is registered, or signalled, and nobody waits
\* unsignalled while there is a fresh frame; who has left is not kept.
NoFrameIsMissed ==
  /\ \A c \in Callers : pc[c] = "waiting" <=> c \in waiters \cup woken
  /\ frame = "fresh" => waiters = {}

\* Every GetSnapshot returns, whatever fails and whatever the other callers do, unless one
\* of them waits for good for an answer that has no deadline; then all of them may.
SnapshotReturns ==
  \/ \A c \in Callers : pc[c] # "idle" ~> pc[c] = "idle"
  \/ <>[](\E c \in Callers : pc[c] \in {"stream", "login"})

\* Expected of the code but not kept by it (README, "What the code does not keep"): whoever
\* calls GetSnapshot gets an answer, also of a camera that has fallen silent.
SnapshotAlwaysReturns == \A c \in Callers : pc[c] # "idle" ~> pc[c] = "idle"

\* Expected of the code but not kept by it (README, "What the code does not keep"):
\* a caller whose wait has timed out restarts the pipeline it waited for, not one
\* that another caller has started since.
RestartSparesOthers ==
  [][\A c, d \in Callers : c # d /\ RestartPipeline(c) /\ closer # None
        => ~(pc[d] = "waiting" /\ attempt[d] = 2)]_vars
=============================================================================
