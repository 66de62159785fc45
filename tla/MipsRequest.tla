------------------------------ MODULE MipsRequest ------------------------------
(***************************************************************************)
(* Requests of a local gateway client (mips_client.go, mips_local.go) and  *)
(* the handlers of the reply topic in its MQTT client (mqtt.go):           *)
(* goroutines share one reply subscription and a table of pending message  *)
(* ids; the goroutine of the MQTT client delivers replies; Close takes the *)
(* subscription and drops the table.  Only the first handler of the topic  *)
(* is told to the broker.  The broker, its link and the gateway are        *)
(* external.                                                               *)
(***************************************************************************)
EXTENDS Naturals, Sequences, Functions

CONSTANTS
  Requests,   \* goroutines, each making one request
  None,
  MaxCloses,  \* bound: calls of Close
  MaxReplies  \* bound: times the gateway's reply to one request arrives

VARIABLES
  nextID,     \* c.nextID
  pending,    \* c.pending: message id -> the request whose channel it holds
  replySub,   \* c.replySub: the request that made the subscription
  handlers,   \* c.subs of MQTT: reply handlers, each named by its request
  link,       \* MQTT's manager: none, or its link is down, new (up, resubscribeAll to run) or up
  subscribed, \* the broker forwards the reply topic
  pc, id, rpc,
  channel,    \* what is in replyCh: the requests the replies answer
  published,  \* requests the gateway has got: request -> message id
  replies,    \* request -> replies of the gateway to it so far, or Unheard
  message,    \* the reply MQTT is dispatching, [id, to], or None
  calling,    \* the handlers still to be called with it
  sending,    \* the request whose channel handleReply sends to, or None
  closer, taken, closes,
     \* step of Close, the subscription it took, calls so far
  missed      \* history: the broker was left unsubscribed below a handler, see Misses

table == <<nextID, pending>>
gateway == <<published, replies>>
delivery == <<message, calling, sending>>
close == <<closer, taken, closes>>
mqtt == <<link, subscribed, missed>>
subs == <<handlers, mqtt>>
vars == <<table, replySub, subs, pc, id, rpc, channel, gateway, delivery, close>>

Init ==
  /\ nextID = 1 /\ pending = <<>>
  /\ replySub = None /\ handlers = {}
  /\ link = "none" /\ subscribed = FALSE /\ missed = FALSE
  /\ pc = [r \in Requests |-> "idle"] /\ id = [r \in Requests |-> 0]
  /\ rpc \in [Requests -> BOOLEAN]
  /\ channel = [r \in Requests |-> <<>>]
  /\ published = <<>> /\ replies = [r \in Requests |-> 0]
  /\ message = None /\ calling = {} /\ sending = None
  /\ closer = "idle" /\ taken = None /\ closes = 0

Unheard == MaxReplies + 1
Up == link \in {"new", "up"}

Goto(r, step) == pc' = [pc EXCEPT ![r] = step]
Without(f, i) == Restrict(f, DOMAIN f \ {i})
With(f, i, v) == [j \in DOMAIN f \cup {i} |-> IF j = i THEN v ELSE f[j]]

-----------------------------------------------------------------------------
(* A request *)

\* SetProp and InvokeAction number their rpc before they call Request.
SetProp(r) ==
  /\ pc[r] = "idle" /\ rpc[r]
  /\ nextID' = nextID + 1 /\ Goto(r, "ensure")
  /\ UNCHANGED <<pending, replySub, subs, id, rpc, channel, gateway, delivery, close>>

GetProp(r) ==
  /\ pc[r] = "idle" /\ ~rpc[r]
  /\ Goto(r, "ensure")
  /\ UNCHANGED <<table, replySub, subs, id, rpc, channel, gateway, delivery, close>>

\* ensureReplySubscription
Ensure(r) ==
  /\ pc[r] = "ensure"
  /\ Goto(r, IF replySub = None THEN "subscribe" ELSE "number")
  /\ UNCHANGED <<table, replySub, subs, id, rpc, channel, gateway, delivery, close>>

\* Subscribe of MQTT, under its lock: only the first handler goes to the broker, and only
\* when there is a manager; another goes on at once.
Subscribe(r) ==
  /\ pc[r] = "subscribe"
  /\ handlers' = handlers \cup {r}
  /\ Goto(r, IF handlers = {} /\ link # "none" THEN "broker" ELSE "settle")
  /\ UNCHANGED <<table, replySub, mqtt, id, rpc, channel, gateway, delivery, close>>

\* What the broker and the handlers of the topic are after a step, and whether it is one
\* that leaves handlers registered below which the broker forwards nothing.
Misses(forwards, registered, fault) ==
  /\ subscribed' = forwards /\ handlers' = registered
  /\ missed' = (~forwards /\ registered # {} /\ (missed \/ fault))

BrokerSubscribes(r) ==
  /\ pc[r] = "broker" /\ Up
  /\ Misses(TRUE, handlers, FALSE) /\ Goto(r, "settle")
  /\ UNCHANGED <<table, replySub, link, id, rpc, channel, gateway, delivery, close>>

\* The SUBSCRIBE is not acknowledged; the broker may have got it.
BrokerFails(r) ==
  /\ pc[r] = "broker" /\ Goto(r, "undo")
  /\ \E forwards \in {subscribed, Up} : Misses(forwards, handlers, FALSE)
  /\ UNCHANGED <<table, replySub, link, id, rpc, channel, gateway, delivery, close>>

\* removeSubscription, under the lock: the failed handler goes, others may have come.
Undo(r) ==
  /\ pc[r] = "undo"
  /\ Misses(subscribed, handlers \ {r}, TRUE)
  /\ Goto(r, IF handlers' = {} /\ link # "none" THEN "unsubscribe" ELSE "failed")
  /\ UNCHANGED <<table, replySub, link, id, rpc, channel, gateway, delivery, close>>

\* The UNSUBSCRIBE of the last handler, sent after the unlock; it may fail.
Unsubscribe(r) ==
  /\ pc[r] = "unsubscribe" /\ Goto(r, "failed")
  /\ \E forwards \in {subscribed, FALSE} : Misses(forwards, handlers, TRUE)
  /\ UNCHANGED <<table, replySub, link, id, rpc, channel, gateway, delivery, close>>

\* Mutation of SettleSubscription: the subscription of the slower one stays.
SettleKeepsBoth(r) ==
  /\ pc[r] = "settle" /\ Goto(r, "number")
  /\ IF replySub = None THEN replySub' = r ELSE UNCHANGED replySub
  /\ UNCHANGED <<table, subs, id, rpc, channel, gateway, delivery, close>>

\* Mutation of SettleSubscription: the slower one replaces the subscription, and
\* the one it replaces is closed.
SettleReplaces(r) ==
  /\ pc[r] = "settle" /\ Goto(r, "number")
  /\ replySub' = r
  /\ handlers' = handlers \ {replySub, r}
  /\ UNCHANGED <<table, mqtt, id, rpc, channel, gateway, delivery, close>>

\* The first to get here keeps its subscription, another closes its own, under the lock too:
\* the one kept is then registered, so MQTT has nothing to tell the broker and cannot fail.
SettleSubscription(r) ==
  /\ pc[r] = "settle" /\ Goto(r, "number")
  /\ \/ replySub = None /\ replySub' = r /\ UNCHANGED handlers
     \/ replySub # None /\ handlers' = handlers \ {r} /\ UNCHANGED replySub
  /\ UNCHANGED <<table, mqtt, id, rpc, channel, gateway, delivery, close>>

\* Mutation of nextMessageID: the message keeps the id 0.
NumberDropped(r) ==
  /\ pc[r] = "number"
  /\ nextID' = nextID + 1 /\ Goto(r, "register")
  /\ UNCHANGED <<pending, replySub, subs, id, rpc, channel, gateway, delivery, close>>

nextMessageID(r) ==
  /\ pc[r] = "number"
  /\ id' = [id EXCEPT ![r] = nextID] /\ nextID' = nextID + 1 /\ Goto(r, "register")
  /\ UNCHANGED <<pending, replySub, subs, rpc, channel, gateway, delivery, close>>

Register(r) ==
  /\ pc[r] = "register"
  /\ pending' = With(pending, id[r], r) /\ Goto(r, "publish")
  /\ UNCHANGED <<nextID, replySub, subs, id, rpc, channel, gateway, delivery, close>>

Publish(r) ==
  /\ pc[r] = "publish" /\ Up
  /\ published' = With(published, r, id[r]) /\ Goto(r, "wait")
  /\ UNCHANGED <<table, replySub, subs, id, rpc, channel, replies, delivery, close>>

PublishFails(r) ==
  /\ pc[r] = "publish"
  /\ pending' = Without(pending, id[r]) /\ Goto(r, "failed")
  /\ UNCHANGED <<nextID, replySub, subs, id, rpc, channel, gateway, delivery, close>>

Return(r) ==
  /\ pc[r] = "wait" /\ channel[r] # <<>>
  /\ channel' = [channel EXCEPT ![r] = Tail(@)] /\ Goto(r, "done")
  /\ UNCHANGED <<table, replySub, subs, id, rpc, gateway, delivery, close>>

\* The caller's context ends; deletePending.
GiveUp(r) ==
  /\ pc[r] = "wait"
  /\ pending' = Without(pending, id[r]) /\ Goto(r, "failed")
  /\ UNCHANGED <<nextID, replySub, subs, id, rpc, channel, gateway, delivery, close>>

-----------------------------------------------------------------------------
(* The gateway and the goroutine of MQTT *)

\* The broker forwards the gateway's reply to r, perhaps again; MQTT copies the handlers
\* and then calls them.
Dispatch(r) ==
  /\ message = None /\ subscribed
  /\ r \in DOMAIN published /\ replies[r] < MaxReplies
  /\ replies' = [replies EXCEPT ![r] = @ + 1]
  /\ message' = [id |-> published[r], to |-> r] /\ calling' = handlers
  /\ UNCHANGED <<table, replySub, subs, pc, id, rpc, channel, published, sending, close>>

\* The broker has nobody to forward it to, and the gateway does not repeat it.
ReplyIsUnheard(r) ==
  /\ ~subscribed
  /\ r \in DOMAIN published /\ replies[r] < MaxReplies
  /\ replies' = [replies EXCEPT ![r] = Unheard]
  /\ UNCHANGED <<table, replySub, subs, pc, id, rpc, channel, published, delivery, close>>

\* Mutation of handleReply: the entry is left in the table.
handleReplyKeeps ==
  /\ message # None /\ sending = None
  /\ \E h \in calling : calling' = calling \ {h}
  /\ sending' = IF message.id \in DOMAIN pending THEN pending[message.id] ELSE None
  /\ UNCHANGED <<table, replySub, subs, pc, id, rpc, channel, gateway, message, close>>

\* One handler: looks the id up and deletes it under the lock, sends after it.
handleReply ==
  /\ message # None /\ sending = None
  /\ \E h \in calling : calling' = calling \ {h}
  /\ sending' = IF message.id \in DOMAIN pending THEN pending[message.id] ELSE None
  /\ pending' = Without(pending, message.id)
  /\ UNCHANGED <<nextID, replySub, subs, pc, id, rpc, channel, gateway, message, close>>

\* The channel holds one reply: a second send waits for ever.
SendReply ==
  /\ sending # None /\ channel[sending] = <<>>
  /\ channel' = [channel EXCEPT ![sending] = Append(@, message.to)]
  /\ sending' = None
  /\ UNCHANGED <<table, replySub, subs, pc, id, rpc, gateway, message, calling, close>>

DispatchEnds ==
  /\ message # None /\ calling = {} /\ sending = None
  /\ message' = None
  /\ UNCHANGED <<table, replySub, subs, pc, id, rpc, channel, gateway, calling, sending, close>>

-----------------------------------------------------------------------------
(* The link of MQTT *)

LinkBecomes(state) ==
  /\ link' = state
  /\ UNCHANGED <<table, replySub, pc, id, rpc, channel, gateway, delivery, close>>

\* Start of the client: Connect installs a manager.
Connect == link = "none" /\ LinkBecomes("down") /\ UNCHANGED <<handlers, subscribed, missed>>

\* OnConnectionUp starts a goroutine for resubscribeAll.
ConnectionUp == link = "down" /\ LinkBecomes("new") /\ UNCHANGED <<handlers, subscribed, missed>>

\* The session ends with the connection, and the broker's subscriptions with it.
ConnectionDown == Up /\ LinkBecomes("down") /\ Misses(FALSE, handlers, FALSE)

\* resubscribeAll: nobody looks at the error of its SUBSCRIBE.
Resubscribe ==
  /\ link = "new" /\ LinkBecomes("up")
  /\ \E forwards \in {subscribed, handlers # {}} : Misses(forwards, handlers, TRUE)

-----------------------------------------------------------------------------
(* Close *)

Close ==
  /\ closer = "idle" /\ closes < MaxCloses
  /\ closes' = closes + 1 /\ closer' = IF replySub = None THEN "disconnect" ELSE "remove"
  /\ taken' = replySub /\ replySub' = None
  /\ pending' = <<>>
  /\ UNCHANGED <<nextID, subs, pc, id, rpc, channel, gateway, delivery>>

\* removeSubscription of the subscription it took
CloseRemoves ==
  /\ closer = "remove" /\ taken' = None
  /\ Misses(subscribed, handlers \ {taken}, FALSE)
  /\ closer' = IF handlers' = {} /\ link # "none" THEN "unsubscribe" ELSE "disconnect"
  /\ UNCHANGED <<table, replySub, link, pc, id, rpc, channel, gateway, delivery,
                 closes>>

CloseUnsubscribes ==
  /\ closer = "unsubscribe" /\ closer' = "disconnect"
  /\ \E forwards \in {subscribed, FALSE} : Misses(forwards, handlers, TRUE)
  /\ UNCHANGED <<table, replySub, link, pc, id, rpc, channel, gateway, delivery,
                 taken, closes>>

\* Close of MQTT ends the manager: a SUBSCRIBE or UNSUBSCRIBE still under way with it fails.
CloseDisconnects ==
  /\ closer = "disconnect" /\ closer' = "idle"
  /\ link' = "none" /\ Misses(FALSE, handlers, FALSE)
  /\ pc' = [r \in Requests |-> CASE pc[r] = "broker" -> "undo"
                                 [] pc[r] = "unsubscribe" -> "failed"
                                 [] OTHER -> pc[r]]
  /\ UNCHANGED <<table, replySub, id, rpc, channel, gateway, delivery, taken, closes>>

\* The steps of a request; a step that talks to the broker may succeed or fail.
RequestStep(r) ==
  \/ Ensure(r) \/ Subscribe(r) \/ BrokerSubscribes(r) \/ BrokerFails(r) \/ Undo(r)
  \/ Unsubscribe(r) \/ SettleSubscription(r) \/ nextMessageID(r) \/ Register(r)
  \/ Publish(r) \/ PublishFails(r) \/ Return(r)

Reply(r) == Dispatch(r) \/ ReplyIsUnheard(r)
DeliveryStep == handleReply \/ SendReply \/ DispatchEnds
CloseStep == CloseRemoves \/ CloseUnsubscribes \/ CloseDisconnects

Next ==
  \/ \E r \in Requests : SetProp(r) \/ GetProp(r) \/ RequestStep(r) \/ GiveUp(r) \/ Reply(r)
  \/ DeliveryStep \/ Close \/ CloseStep
  \/ Connect \/ ConnectionUp \/ ConnectionDown \/ Resubscribe

Spec == Init /\ [][Next]_vars

\* Goroutines run, a call of the broker is answered or times out, and the gateway replies;
\* the link need not come up, and nobody has to give up.
FairSpec ==
  /\ Spec /\ WF_vars(DeliveryStep) /\ WF_vars(CloseStep)
  /\ \A r \in Requests : WF_vars(RequestStep(r)) /\ SF_vars(Reply(r))

-----------------------------------------------------------------------------
(* Properties *)

TypeOK ==
  /\ nextID \in Nat \ {0} /\ DOMAIN pending \subseteq 1..nextID
  /\ \A i \in DOMAIN pending : pending[i] \in Requests
  /\ replySub \in Requests \cup {None} /\ taken \in Requests \cup {None}
  /\ link \in {"none", "down", "new", "up"} /\ {subscribed, missed} \subseteq BOOLEAN
  /\ handlers \subseteq Requests /\ calling \subseteq Requests
  /\ sending \in Requests \cup {None}

\* A request is given at most one reply, the gateway's reply to itself (with
\* duplicated and late replies and two handlers registered), and handleReply
\* never waits on a full channel: that would stop the goroutine that delivers
\* every message of the connection.
OneReplyEach ==
  /\ \A r \in Requests : channel[r] \in {<<>>, <<r>>}
  /\ sending # None => channel[sending] = <<>>

Subscribing(r) == pc[r] \in {"broker", "undo", "settle"}

\* At rest exactly the subscription that Close will take is registered with
\* MQTT: requests that raced for it leave no second one, and none is lost.
SubscribedOnce ==
  closer # "remove" /\ (\A r \in Requests : ~Subscribing(r)) => handlers = {replySub} \ {None}

\* While the link is up the broker forwards the topic of a registered handler, or a
\* goroutine is still about to see to it, but for three faults of which nobody hears: the
\* SUBSCRIBE of the first handler failed after others had joined it, the UNSUBSCRIBE of a
\* last handler came after the SUBSCRIBE of a new one, or resubscribeAll failed.
HandlersAreHeard ==
  link = "up" /\ handlers # {} /\ ~subscribed =>
    missed \/ \E r \in Requests : pc[r] \in {"broker", "undo"}

\* Every request returns, or the gateway's reply to it came while the broker forwarded
\* none, or Close dropped it; then it returns when its caller's context ends.
RequestsReturn ==
  \A r \in Requests :
    pc[r] # "idle" ~> (pc[r] \in {"done", "failed"} \/ replies[r] = Unheard \/ closes > 0)

\* Expected of the code but not kept by it (README, "What the code does not keep"):
\* Subscribe "ensures the broker subscription exists": when no call of it is under way and
\* the link has stayed up, a subscription it returned is known to the broker.
SubscribeEnsuresBroker ==
  subscribed \/ link # "up" \/ replySub = None \/ \E r \in Requests : Subscribing(r)
=============================================================================
