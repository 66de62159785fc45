------------------------------ MODULE FrameStore ------------------------------
(***************************************************************************)
(* The preview server's store of the latest frame and the viewers that     *)
(* follow it (camera/http.go): WaitForUpdate looks at the version under    *)
(* the lock and then waits for the update channel it saw to be closed.     *)
(***************************************************************************)
EXTENDS Naturals

CONSTANTS
  Viewers,   \* requests of stream.mjpeg
  MaxVersion \* bound: frames stored

VARIABLES
  version, \* FrameStore.version; 0 before the first frame
  closed,  \* update channels that are closed; the channel of version v is v
  viewer,  \* where a request is: look, wait, gone
  after,   \* afterVersion of its WaitForUpdate; the first one waits with 0
  channel, \* the channel it waits for
  shown    \* the frame it wrote last

vars == <<version, closed, viewer, after, channel, shown>>

TypeOK ==
  /\ version \in 0..MaxVersion /\ closed \subseteq 0..MaxVersion
  /\ viewer \in [Viewers -> {"look", "wait", "gone"}]
  /\ {after, channel, shown} \subseteq [Viewers -> 0..MaxVersion]

Init ==
  /\ version = 0 /\ closed = {}
  /\ viewer = [v \in Viewers |-> "look"]
  /\ after = [v \in Viewers |-> 0]
  /\ channel = [v \in Viewers |-> 0] /\ shown = [v \in Viewers |-> 0]

\* Mutation of Store: the channel is closed after it is replaced: the new one.
StoreClosesNew ==
  /\ version < MaxVersion /\ version' = version + 1
  /\ closed' = closed \cup {version + 1}
  /\ UNCHANGED <<viewer, after, channel, shown>>

Store ==
  /\ version < MaxVersion /\ version' = version + 1
  /\ closed' = closed \cup {version}
  /\ UNCHANGED <<viewer, after, channel, shown>>

\* Snapshot, for the first frame, and the critical section of WaitForUpdate.
Look(v) ==
  /\ viewer[v] = "look"
  /\ IF version > after[v]
       THEN /\ after' = [after EXCEPT ![v] = version] /\ shown' = [shown EXCEPT ![v] = version]
            /\ UNCHANGED <<viewer, channel>>
       ELSE /\ channel' = [channel EXCEPT ![v] = version]
            /\ viewer' = [viewer EXCEPT ![v] = "wait"] /\ UNCHANGED <<after, shown>>
  /\ UNCHANGED <<version, closed>>

Wake(v) ==
  /\ viewer[v] = "wait" /\ channel[v] \in closed
  /\ viewer' = [viewer EXCEPT ![v] = "look"]
  /\ UNCHANGED <<version, closed, after, channel, shown>>

\* Once a first frame is written, a wait that lasts too long writes the latest one again
\* without taking its version: a frame newer than the version will be written twice.
Repeat(v) ==
  /\ viewer[v] = "wait" /\ after[v] > 0
  /\ shown' = [shown EXCEPT ![v] = version] /\ viewer' = [viewer EXCEPT ![v] = "look"]
  /\ UNCHANGED <<version, closed, after, channel>>

\* The request is cancelled or its connection fails.
Leave(v) ==
  /\ viewer[v] # "gone" /\ viewer' = [viewer EXCEPT ![v] = "gone"]
  /\ UNCHANGED <<version, closed, after, channel, shown>>

Next == Store \/ \E v \in Viewers : Look(v) \/ Wake(v) \/ Repeat(v) \/ Leave(v)

\* The goroutine of a request runs; frames, timeouts and departures need not come.
Fairness == \A v \in Viewers : WF_vars(Look(v)) /\ WF_vars(Wake(v))

Spec == Init /\ [][Next]_vars /\ Fairness

-----------------------------------------------------------------------------
(* Properties *)

\* No wake-up is lost between the look at the version and the wait: the channel a viewer
\* waits for is closed as soon as there is a frame it has not taken (Store, WaitForUpdate).
WaitersAreWoken ==
  \A v \in Viewers : viewer[v] = "wait" /\ after[v] < version => channel[v] \in closed

\* No viewer is shown an earlier frame than before, however its waits, timeouts and the
\* frames interleave (Store, WaitForUpdate, handleStream).
NeverOlder == [][\A v \in Viewers : shown'[v] >= shown[v]]_shown

\* Every viewer that stays is shown every frame or a later one, and never an earlier one.
ViewersFollow ==
  /\ \A v \in Viewers, n \in 1..MaxVersion :
       version >= n ~> shown[v] >= n \/ viewer[v] = "gone"
  /\ NeverOlder
=============================================================================
