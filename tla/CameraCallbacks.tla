--------------------------- MODULE CameraCallbacks ----------------------------
(***************************************************************************)
(* The callbacks of one camera instance (camera/runtime.go): a table per   *)
(* kind, ids from one counter, and emissions that copy the callbacks of    *)
(* their channel under the lock and call them after it.                    *)
(***************************************************************************)
EXTENDS Integers, FiniteSets

CONSTANTS
  Emitters, \* goroutines that emit frames and status changes
  Channels, \* channels of the camera
  Kinds,    \* tables: some of statusChanged, rawVideo, rawAudio, jpegChanged,
            \* decodedJPEG, decodedPCM
  MaxId,    \* bound: registrations
  AnyChannel

Id == 0..MaxId-1

VARIABLES
  nextCallback,
  callbacks,    \* the tables: <<kind, id>> -> the channel
  held,         \* the registrations that users hold: <<kind, id, channel>>
  emission      \* per emitter: what it emits and the callbacks it still has to call

vars == <<nextCallback, callbacks, held, emission>>

Idle == [what |-> "none", channel |-> AnyChannel, todo |-> {}]

TypeOK ==
  /\ nextCallback \in 0..MaxId
  /\ DOMAIN callbacks \subseteq Kinds \X Id
  /\ \A key \in DOMAIN callbacks : callbacks[key] \in Channels \cup {AnyChannel}
  /\ held \subseteq Kinds \X Id \X (Channels \cup {AnyChannel})
  /\ emission \in [Emitters -> [what : Kinds \cup {"none"}, channel : Channels \cup {AnyChannel},
                                todo : SUBSET (Kinds \X Id \X (Channels \cup {AnyChannel}))]]

Init ==
  /\ nextCallback = 0 /\ callbacks = << >> /\ held = {}
  /\ emission = [e \in Emitters |-> Idle]

\* Mutation of NewId: the id is the number of callbacks registered now.
NewIdFromSize == Cardinality(DOMAIN callbacks)

NewId == nextCallback

Put(kind, id, channel) ==
  callbacks' = [key \in DOMAIN callbacks \cup {<<kind, id>>} |->
                  IF key = <<kind, id>> THEN channel ELSE callbacks[key]]

Register(kind, channel) ==
  /\ nextCallback < MaxId /\ nextCallback' = nextCallback + 1
  /\ kind = "statusChanged" => channel = AnyChannel
  /\ LET id == NewId
     IN  Put(kind, id, channel) /\ held' = held \cup {<<kind, id, channel>>}
  /\ UNCHANGED emission

Unregister(kind, id) ==
  /\ callbacks' = [key \in DOMAIN callbacks \ {<<kind, id>>} |-> callbacks[key]]
  /\ held' = {h \in held : <<h[1], h[2]>> # <<kind, id>>}
  /\ UNCHANGED <<nextCallback, emission>>

\* A JPEG frame is also handed to the decoded-JPEG callbacks.
Tables(what) == IF what = "jpegChanged" THEN {what, "decodedJPEG"} ELSE {what}

Hears(what, channel) ==
  {key \in DOMAIN callbacks :
     key[1] \in Tables(what) /\ callbacks[key] \in {AnyChannel, channel}}

\* UpdateStatus and the Emit functions: the callbacks are copied in a critical section.
Emit(e, what, channel) ==
  /\ emission[e] = Idle /\ what # "decodedJPEG"
  /\ emission' = [emission EXCEPT ![e] =
       [what |-> what, channel |-> channel,
        todo |-> {<<k[1], k[2], callbacks[k]>> : k \in Hears(what, channel)}]]
  /\ UNCHANGED <<nextCallback, callbacks, held>>

\* The callbacks are called in the order of a map: any.
Call(e) ==
  /\ emission[e].todo # {}
  /\ \E c \in emission[e].todo :
       emission' = [emission EXCEPT ![e].todo = @ \ {c}]
  /\ UNCHANGED <<nextCallback, callbacks, held>>

EmitEnds(e) ==
  /\ emission[e] # Idle /\ emission[e].todo = {}
  /\ emission' = [emission EXCEPT ![e] = Idle]
  /\ UNCHANGED <<nextCallback, callbacks, held>>

Next ==
  \/ \E kind \in Kinds, channel \in Channels \cup {AnyChannel} : Register(kind, channel)
  \/ \E h \in held : Unregister(h[1], h[2])
  \/ \E e \in Emitters : \/ \E what \in Kinds, channel \in Channels : Emit(e, what, channel)
                         \/ Call(e) \/ EmitEnds(e)

Spec == Init /\ [][Next]_vars

-----------------------------------------------------------------------------
(* Properties *)

\* What the user registered and did not unregister is what the tables hold: no later
\* registration or removal, of this or another kind, displaces a callback.
RegistrationsLast == held = {<<k[1], k[2], callbacks[k]>> : k \in DOMAIN callbacks}

\* Expected of the code but not kept by it (README, "What the code does not keep"):
\* a callback that was unregistered is not called any more.
UnregisteredIsSilent == \A e \in Emitters : emission[e].todo \subseteq held
=============================================================================
