--------------------------- MODULE MCCameraSnapshot ---------------------------
(***************************************************************************)
(* TLC instance of CameraWorker, NativePipeline, FrameStore and            *)
(* MissSession, for their liveness: their safety is checked by             *)
(* MCCameraRuntime.  They have no variable in common: each is checked with *)
(* the others at rest.                                                     *)
(***************************************************************************)
EXTENDS CameraWorker

CONSTANTS Closers, Viewers, MaxVersion, Offered, NoTransport

VARIABLES part, run, closing, cancelled, client, codec, started, tried, session, process,
          stopping, version, closed, viewer, after, channel, shown,
          phase, wanted, sockets, transport, reading, deadline, net, answer, encrypt

pipe == <<run, closing, cancelled, client, codec, started, tried, session, process, stopping>>
preview == <<version, closed, viewer, after, channel, shown>>
opening == <<phase, wanted, sockets, transport, reading, deadline, net, answer, encrypt>>

Pipeline == INSTANCE NativePipeline
Store == INSTANCE FrameStore
Miss == INSTANCE MissSession

MCInit ==
  /\ part \in {"worker", "pipeline", "store", "miss"}
  /\ Init /\ Pipeline!Init /\ Store!Init /\ Miss!Init

MCNext ==
  /\ UNCHANGED part
  /\ \/ part = "worker" /\ Next /\ UNCHANGED <<pipe, preview, opening>>
     \/ part = "pipeline" /\ Pipeline!Next /\ UNCHANGED <<vars, preview, opening>>
     \/ part = "store" /\ Store!Next /\ UNCHANGED <<vars, pipe, opening>>
     \/ part = "miss" /\ Miss!Next /\ UNCHANGED <<vars, pipe, preview>>

MCSpec ==
  /\ MCInit /\ [][MCNext]_<<part, vars, pipe, preview, opening>>
  /\ part = "worker" => Fairness
  /\ part = "pipeline" => Pipeline!Fairness
  /\ part = "store" => Store!Fairness
  /\ part = "miss" => Miss!Fairness

\* FrameStore: viewers are shown every frame or a later one, never an earlier one
\* (http.go Store, WaitForUpdate, handleStream).
ViewersFollow == Store!ViewersFollow

=============================================================================
