------------------------------ MODULE MCRequests ------------------------------
(***************************************************************************)
(* TLC instance of PropertyRefresh and MipsRequest: the reads the client   *)
(* queues and the requests it makes of a gateway.  They have no variable   *)
(* in common: each is checked with the other at rest.                      *)
(***************************************************************************)
EXTENDS PropertyRefresh, Sequences

CONSTANTS Requests, MaxCloses, MaxReplies

ASSUME RequestConstants == None \notin Requests

VARIABLES part,
          nextID, pending, replySub, handlers, link, subscribed, pc, id, rpc,
          channel, published, replies, message, calling, sending, closer, taken, closes,
          missed

Mips == INSTANCE MipsRequest

mips == <<nextID, pending, replySub, handlers, link, subscribed, pc, id, rpc,
          channel, published, replies, message, calling, sending, closer, taken, closes,
          missed>>

\* Two bounds on the requests: a reply that comes once while the client is closed and the link
\* comes and goes, or one that comes twice while the link stays up.
Requesting == {"requests", "repeats"}
Repeatable(r) == part = "repeats" \/ (part = "requests" /\ replies[r] = 0)
Bounded ==
  /\ \A r \in Requests : ~Repeatable(r) => UNCHANGED replies[r]
  /\ part = "repeats" => closes' = 0 /\ (Mips!Up => link' # "down")

MCInit ==
  /\ part \in {"queue"} \cup Requesting
  /\ Init /\ Mips!Init
  \* One request numbers an rpc of its own, the others do not.
  /\ rpc = [r \in Requests |-> r = CHOOSE q \in Requests : TRUE]

MCNext ==
  /\ UNCHANGED part
  /\ \/ part = "queue" /\ Next /\ UNCHANGED mips
     \/ part \in Requesting /\ Mips!Next /\ Bounded /\ UNCHANGED vars

\* The fairness of the two models, each for its own part.
MCSpec ==
  /\ MCInit /\ [][MCNext]_<<part, vars, mips>>
  /\ \A p \in Procs : WF_vars(part = "queue" /\ Step(p))
  /\ WF_mips(part \in Requesting /\ Mips!DeliveryStep)
  /\ WF_mips(part \in Requesting /\ Mips!CloseStep)
  /\ \A r \in Requests : WF_mips(part \in Requesting /\ Mips!RequestStep(r))
  /\ \A r \in Requests : SF_mips(Repeatable(r) /\ Mips!Reply(r))

\* The variables of the models have their types.
RequestsTypeOK == TypeOK /\ Mips!TypeOK

\* A request gets its own reply, once, no handler waits for a full channel, one reply
\* subscription remains and the broker knows of it, but for the faults HandlersAreHeard names
\* (mips_client.go handleReply, ensureReplySubscription; mqtt.go Subscribe, removeSubscription).
RepliesAreExact == Mips!OneReplyEach /\ Mips!SubscribedOnce /\ Mips!HandlersAreHeard

\* No queued property is lost, each is taken up or given up unless its timer was lost or is dead,
\* and while the gateway answers every request returns, unless the broker forwards no replies or
\* the client is closed (client.go refreshQueuedPropertiesCycle; mips_client.go Request).
NothingIsForgotten ==
  /\ NoSilentLoss
  /\ IsServed(CHOOSE k \in Keys : TRUE)   \* any one: keys are interchangeable
  /\ Mips!RequestsReturn
=============================================================================
