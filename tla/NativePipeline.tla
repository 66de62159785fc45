---------------------------- MODULE NativePipeline ----------------------------
(***************************************************************************)
(* One pipeline of a camera (camera/native_pipeline.go) and the ffmpeg     *)
(* process it feeds (camera/probe_decoder_ffmpeg.go): a run goroutine      *)
(* reads packets, starts the decoder and writes to it; the worker that     *)
(* restarts the pipeline closes it from another goroutine.                 *)
(***************************************************************************)
CONSTANTS Closers  \* goroutines that call Close: run's own defer and the worker's

Run == CHOOSE c \in Closers : TRUE  \* run's deferred Close

VARIABLES
  run,       \* where run is
  closing,   \* where a closer is in Close
  cancelled, \* the pipeline's context
  client,    \* the media client is open
  codec,     \* decoderCodec # ""
  started,   \* videoState.started: parameter sets and a key frame were seen
  tried,     \* firstSnapshotAttempted
  session,   \* p.decoderSession # nil
  process,   \* the ffmpeg process: none, running, killed or exited
  stopping   \* ffmpegProbeDecoderSession.stopping

loop == <<run, codec, started, tried>>
vars == <<loop, closing, cancelled, client, session, process, stopping>>

TypeOK ==
  /\ run \in {"read", "start", "store", "check", "decode", "ended", "panic"}
  /\ closing \in [Closers -> {"idle", "close", "release", "wait", "closed"}]
  /\ process \in {"none", "running", "killed", "exited"}
  /\ {cancelled, client, codec, started, tried, session, stopping} \subseteq BOOLEAN

Init ==
  /\ run = "read" /\ codec = FALSE /\ started = FALSE /\ tried = FALSE
  /\ closing = [c \in Closers |-> "idle"]
  /\ cancelled = FALSE /\ client = TRUE
  /\ session = FALSE /\ process = "none" /\ stopping = FALSE

Goto(where) == run' = where
Step(c, where) == closing' = [closing EXCEPT ![c] = where]
Kill == process' = IF process = "running" THEN "killed" ELSE process

-----------------------------------------------------------------------------
(* run *)

\* A packet of an unknown codec is passed over.
ReadPacket ==
  /\ run = "read" /\ client
  /\ codec' = TRUE /\ Goto(IF codec THEN "check" ELSE "start")
  /\ UNCHANGED <<closing, cancelled, client, started, tried, session, process, stopping>>

\* ReadPacket fails: the deadline has passed, or the client is closed.
ReadFails ==
  /\ run = "read" /\ Goto("ended") /\ Step(Run, "close")
  /\ UNCHANGED <<codec, started, tried, cancelled, client, session, process, stopping>>

\* FFmpegFrameDecoder.Start: cmd.Start refuses a context that is done.
StartDecoder ==
  /\ run = "start"
  /\ \/ ~cancelled /\ process' = "running" /\ Goto("store") /\ UNCHANGED closing
     \/ Goto("ended") /\ Step(Run, "close") /\ UNCHANGED process
  /\ UNCHANGED <<codec, started, tried, cancelled, client, session, stopping>>

StoreDecoder ==
  /\ run = "store" /\ session' = TRUE /\ Goto("check")
  /\ UNCHANGED <<codec, started, tried, closing, cancelled, client, process, stopping>>

\* videoState.prepare: until parameter sets and a key frame have come nothing is
\* ready.  The first ready payload is decoded on its own, with or without a session;
\* what has no session goes no further.
Prepare ==
  /\ run = "check"
  /\ \/ ~started /\ Goto("read") /\ UNCHANGED <<started, tried>>
     \/ started' = TRUE /\ tried' = TRUE /\ Goto(IF session THEN "decode" ELSE "read")
  /\ UNCHANGED <<codec, closing, cancelled, client, session, process, stopping>>

\* p.decoderSession is used without p.mu and may be nil by now; a write to a process
\* that is gone fails and ends run.
Decode ==
  /\ run = "decode"
  /\ \/ ~session /\ Goto("panic") /\ UNCHANGED closing
     \/ session /\ process = "running" /\ Goto("read") /\ UNCHANGED closing
     \/ session /\ process # "running" /\ Goto("ended") /\ Step(Run, "close")
  /\ UNCHANGED <<codec, started, tried, cancelled, client, session, process, stopping>>

-----------------------------------------------------------------------------
(* Close, and the process *)

CloseCalled ==
  /\ \E c \in Closers \ {Run} : closing[c] = "idle" /\ Step(c, "close")
  /\ UNCHANGED <<loop, cancelled, client, session, process, stopping>>

\* closeOnce: whoever comes second waits for the first and does nothing.
CloseOnce(c) ==
  /\ closing[c] = "close"
  /\ \/ /\ \A d \in Closers : closing[d] \in {"idle", "close"}
        /\ cancelled' = TRUE /\ client' = FALSE /\ Step(c, "release")
     \/ /\ \E d \in Closers : closing[d] = "closed"
        /\ Step(c, "closed") /\ UNCHANGED <<cancelled, client>>
  /\ UNCHANGED <<loop, session, process, stopping>>

\* Mutation of TakeSession: the session's Close waits for the process without killing it.
TakeSessionOnlyWaits(c) ==
  /\ closing[c] = "release" /\ session' = FALSE
  /\ IF session THEN Step(c, "wait") /\ stopping' = TRUE ELSE Step(c, "closed") /\ UNCHANGED stopping
  /\ UNCHANGED <<loop, cancelled, client, process>>

\* The session is taken under p.mu; its Close stops the reports, kills the process
\* and waits until it is gone.
TakeSession(c) ==
  /\ closing[c] = "release" /\ session' = FALSE
  /\ IF session THEN Step(c, "wait") /\ stopping' = TRUE /\ Kill
                ELSE Step(c, "closed") /\ UNCHANGED <<stopping, process>>
  /\ UNCHANGED <<loop, cancelled, client>>

Released(c) ==
  /\ closing[c] = "wait" /\ process = "exited" /\ Step(c, "closed")
  /\ UNCHANGED <<loop, cancelled, client, session, process, stopping>>

\* ffmpeg may end by itself: on its input, or an error.
ProcessEnds ==
  /\ process = "running" /\ process' = "exited"
  /\ UNCHANGED <<loop, closing, cancelled, client, session, stopping>>

\* Mutation of ContextKills: the process is only killed by its session's Close.
ContextKillsStopping ==
  /\ process = "running" /\ stopping /\ Kill
  /\ UNCHANGED <<loop, closing, cancelled, client, session, stopping>>

\* exec.CommandContext kills the process when its context is done.
ContextKills ==
  /\ process = "running" /\ cancelled /\ Kill
  /\ UNCHANGED <<loop, closing, cancelled, client, session, stopping>>

\* waitForExit collects the process.
WaitForExit ==
  /\ process = "killed" /\ process' = "exited"
  /\ UNCHANGED <<loop, closing, cancelled, client, session, stopping>>

-----------------------------------------------------------------------------
RunSteps == ReadFails \/ ReadPacket \/ StartDecoder \/ StoreDecoder \/ Prepare \/ Decode
Steps(c) == CloseOnce(c) \/ TakeSession(c) \/ Released(c)
ProcessSteps == ContextKills \/ WaitForExit

Next ==
  \/ RunSteps \/ CloseCalled \/ ProcessEnds \/ ProcessSteps
  \/ \E c \in Closers : Steps(c)

\* Goroutines run, ReadPacket has a deadline, and the operating system kills what it
\* is told to kill.
Fairness ==
  /\ WF_vars(RunSteps) /\ WF_vars(ProcessSteps)
  /\ \A c \in Closers : WF_vars(Steps(c))

Spec == Init /\ [][Next]_vars /\ Fairness

-----------------------------------------------------------------------------
(* Properties *)

\* The decoder process never is without somebody to end it: its context is done, Close will
\* find its session, or run is about to store that. Close waits only for a process that was
\* told to end, and whoever is past its first step has closed the client.
ProcessIsOwned ==
  /\ process = "running" => cancelled \/ session \/ run = "store"
  /\ \A c \in Closers :
       /\ closing[c] = "wait" => process \in {"killed", "exited"}
       /\ closing[c] \in {"release", "wait", "closed"} => cancelled /\ ~client

\* Whoever closes a pipeline, and wherever run is then, the decoder process ends and
\* Close returns: even a decoder that run starts or stores after Close has looked.
PipelineEnds ==
  cancelled ~> /\ process # "running" /\ ~client
               /\ \A c \in Closers : closing[c] \in {"idle", "closed"}

\* Expected of the code but not kept by it (README, "What the code does not keep"):
\* run never uses a decoder session that Close has taken away.
RunNeverPanics == run # "panic"
=============================================================================
