------------------------------- MODULE LanUplink -------------------------------
(***************************************************************************)
(* Unsolicited messages of one LAN device (lan.go): the device repeats a   *)
(* message until it is acknowledged, the network loses, repeats and delays *)
(* copies, several read loops handle them, and a window of recent message  *)
(* ids keeps a message from being dispatched twice.                        *)
(***************************************************************************)
EXTENDS Naturals

CONSTANTS
  Count,      \* number of messages the device reports
  IdSpace,    \* its message ids wrap around after this many
  Malformed,  \* messages whose parameters do not decode
  Loops,      \* read loops of the transport
  Window,     \* ticks a message id is remembered: 5 s
  Lifetime    \* ticks between the first and the last copy of a message to arrive

Messages == 1..Count
ID(m) == m % IdSpace

VARIABLES
  allowed,    \* ensureEnabled
  subscribed, \* c.subscribeEnabled
  age,        \* device: ticks since the first copy was sent, or Unsent before
  acked,      \* device: messages it has seen acknowledged
  recent,     \* c.recentUplink: ticks until each id is forgotten, 0 if it is
  pc, copy,   \* per read loop: its step and the message it handles
  dispatched, \* history: how often each message reached the subscribers, up to 2
  muted       \* history: messages handled while dispatch was off

vars == <<allowed, subscribed, age, acked, recent, pc, copy, dispatched, muted>>

Ids == 0..(IdSpace - 1)
Unsent == Lifetime + 1
NoMessage == 0

Init ==
  /\ allowed \in BOOLEAN /\ subscribed \in BOOLEAN
  /\ age = [m \in Messages |-> Unsent] /\ acked = {}
  /\ recent = [i \in Ids |-> 0]
  /\ pc = [l \in Loops |-> "idle"] /\ copy = [l \in Loops |-> NoMessage]
  /\ dispatched = [m \in Messages |-> 0] /\ muted = {}

Goto(l, step) == pc' = [pc EXCEPT ![l] = step]

\* The device sends a new message.
DeviceSends(m) ==
  /\ age[m] = Unsent /\ m \notin acked /\ dispatched[m] = 0
  /\ age' = [age EXCEPT ![m] = 0]
  /\ UNCHANGED <<allowed, subscribed, acked, recent, pc, copy, dispatched, muted>>

-----------------------------------------------------------------------------
(* handlePacket *)

\* A copy that is still under way is read; LAN control that is disabled drops it.
PacketArrives(l, m) ==
  /\ pc[l] = "idle" /\ age[m] <= Lifetime
  /\ allowed
  /\ Goto(l, "record") /\ copy' = [copy EXCEPT ![l] = m]
  /\ UNCHANGED <<allowed, subscribed, age, acked, recent, dispatched, muted>>

IsRecent(id) == id # 0 /\ recent[id] > 0

\* Mutation of Remember: the entry is not written.
RememberNothing(id) == UNCHANGED recent

\* Mutation of Remember: id 0 is an id like any other.
RememberZero(id) ==
  IF recent[id] > 0 THEN UNCHANGED recent ELSE recent' = [recent EXCEPT ![id] = Window]

\* A new id is remembered for the whole window; a repeated one is not prolonged.
Remember(id) ==
  IF id = 0 \/ IsRecent(id) THEN UNCHANGED recent
  ELSE recent' = [recent EXCEPT ![id] = Window]

\* Mutation of recordRecentUplink: what is recent is any id, as if keys had no message id.
recordRecentUplinkOfDevice(l) ==
  /\ pc[l] = "record"
  /\ Remember(ID(copy[l]))
  /\ Goto(l, IF \E i \in Ids : IsRecent(i) THEN "reply" ELSE "dispatch")
  /\ UNCHANGED <<allowed, subscribed, age, acked, copy, dispatched, muted>>

\* recordRecentUplink decides and remembers under one lock.
recordRecentUplink(l) ==
  /\ pc[l] = "record"
  /\ Remember(ID(copy[l]))
  /\ Goto(l, IF IsRecent(ID(copy[l])) THEN "reply" ELSE "dispatch")
  /\ UNCHANGED <<allowed, subscribed, age, acked, copy, dispatched, muted>>

\* dispatchProperty and dispatchEvent, unless SetSubscribeOption switched them off.
Dispatch(l) ==
  /\ pc[l] = "dispatch" /\ ~(subscribed /\ copy[l] \in Malformed)
  /\ IF subscribed
       THEN /\ dispatched' = [dispatched EXCEPT ![copy[l]] = IF @ = 2 THEN 2 ELSE @ + 1]
            /\ UNCHANGED muted
       ELSE muted' = muted \cup {copy[l]} /\ UNCHANGED dispatched
  /\ Goto(l, "reply")
  /\ UNCHANGED <<allowed, subscribed, age, acked, recent, copy>>

\* Parameters that do not decode end the handler without a reply; the id stays
\* remembered, so a repeated copy is acknowledged as a duplicate.
DecodeFails(l) ==
  /\ pc[l] = "dispatch" /\ subscribed /\ copy[l] \in Malformed
  /\ Goto(l, "idle") /\ copy' = [copy EXCEPT ![l] = NoMessage]
  /\ UNCHANGED <<allowed, subscribed, age, acked, recent, dispatched, muted>>

\* The reply reaches the device or is lost; there is none for id 0.
replyToUplink(l) ==
  /\ pc[l] = "reply" /\ Goto(l, "idle") /\ copy' = [copy EXCEPT ![l] = NoMessage]
  /\ \/ UNCHANGED acked
     \/ ID(copy[l]) # 0 /\ acked' = acked \cup {copy[l]}
  /\ UNCHANGED <<allowed, subscribed, age, recent, dispatched, muted>>

-----------------------------------------------------------------------------
(* The environment *)

Switch ==
  /\ \/ allowed' = ~allowed /\ UNCHANGED subscribed
     \/ subscribed' = ~subscribed /\ UNCHANGED allowed
  /\ UNCHANGED <<age, acked, recent, pc, copy, dispatched, muted>>

\* Handling a packet takes less than a tick.
Tick ==
  /\ \A l \in Loops : pc[l] = "idle"
  /\ \E m \in Messages : age[m] <= Lifetime
  /\ age' = [m \in Messages |-> IF age[m] = Unsent THEN Unsent ELSE age[m] + 1]
  /\ recent' = [i \in Ids |-> IF recent[i] = 0 THEN 0 ELSE recent[i] - 1]
  /\ UNCHANGED <<allowed, subscribed, acked, pc, copy, dispatched, muted>>

Next ==
  \/ \E m \in Messages : DeviceSends(m)
  \/ \E l \in Loops, m \in Messages : PacketArrives(l, m)
  \/ \E l \in Loops : recordRecentUplink(l) \/ Dispatch(l) \/ DecodeFails(l) \/ replyToUplink(l)
  \/ Switch \/ Tick

Spec == Init /\ [][Next]_vars

-----------------------------------------------------------------------------
(* Properties *)

TypeOK ==
  /\ {allowed, subscribed} \subseteq BOOLEAN
  /\ age \in [Messages -> 0..Unsent] /\ acked \subseteq Messages /\ muted \subseteq Messages
  /\ recent \in [Ids -> 0..Window] /\ recent[0] = 0
  /\ pc \in [Loops -> {"idle", "record", "dispatch", "reply"}]
  /\ copy \in [Loops -> Messages \cup {NoMessage}]
  /\ dispatched \in [Messages -> 0..2]

\* However often a message is repeated within the window, and by however many
\* loops its copies are read, subscribers see it once; only id 0 is exempt.
AtMostOnce == \A m \in Messages : ID(m) # 0 => dispatched[m] <= 1

\* The device stops repeating a message only when its subscribers have it, or
\* a loop is about to give it to them, or dispatch was switched off; a message
\* that does not decode is the exception.
AckedWasHandled ==
  \A m \in acked \ Malformed :
    \/ dispatched[m] > 0 \/ m \in muted
    \/ \E l \in Loops : copy[l] = m /\ pc[l] = "dispatch"
=============================================================================
