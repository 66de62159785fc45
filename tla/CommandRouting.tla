---------------------------- MODULE CommandRouting ----------------------------
(***************************************************************************)
(* How the client's reads, writes and actions reach a device: GetProperty, *)
(* SetProperty and InvokeAction (client.go) pick the central gateway, the  *)
(* LAN or the cloud from a copy of the device's entry, and each of the     *)
(* three (mips_local.go, lan.go, cloud.go) sends one request whose answer  *)
(* may be lost.  ExecActionGroup goes to the gateway directly.             *)
(***************************************************************************)
EXTENDS Naturals, Sequences, FiniteSets

CONSTANTS
  Callers,    \* goroutines that use the client
  MaxMoves    \* changes of the device's routes and of the account (bound)

Backends == {"gateway", "lan", "cloud"}
Commands == {"set", "action"}
Ops == Commands \cup {"read", "group"}
Pieces == 4 \* of a cloud request: token, URL, Host header, application id

VARIABLES
  auto, hasCloud, \* the control mode, and whether there is a cloud client
  routes,     \* the backends the device's entry says it is reached by
  lanOn,      \* LANClient is enabled and sees no central gateway
  auth,       \* how often UpdateAuth replaced the account
  moves,
  pc, op, seen, \* per caller: idle, build, send, sent, answered, ok, failed; the operation; its copy of routes
  route,      \* the backend tried
  since, bears, \* auth when the cloud request began, and at each piece read
  flight,     \* requests on their way: <<caller, backend>>
  reached, done, answer \* backends asked, backends that executed; the answer

environment == <<auto, hasCloud, routes, lanOn, auth, moves>>
calls == <<pc, op, seen, route, since, bears, flight, reached, done, answer>>
routing == <<environment, calls>>

TypeOK ==
  /\ auto \in BOOLEAN /\ hasCloud \in BOOLEAN /\ routes \subseteq Backends /\ lanOn \in BOOLEAN
  /\ auth \in 0..MaxMoves /\ moves \in 0..MaxMoves
  /\ pc \in [Callers -> {"idle", "build", "send", "sent", "answered", "ok", "failed"}]
  /\ op \in [Callers -> Ops] /\ seen \in [Callers -> SUBSET Backends]
  /\ route \in [Callers -> Backends \cup {"none"}]
  /\ since \in [Callers -> 0..MaxMoves] /\ \A c \in Callers : Len(bears[c]) <= Pieces
  /\ flight \subseteq Callers \X Backends
  /\ \A c \in Callers : Len(reached[c]) <= 2
  /\ done \in [Callers -> SUBSET Backends]
  /\ answer \in [Callers -> {"none", "ok", "code", "malformed", "error"}]

Init ==
  /\ auto \in BOOLEAN /\ hasCloud \in BOOLEAN
  /\ routes = IF hasCloud THEN Backends ELSE Backends \ {"cloud"}
  /\ lanOn = TRUE /\ auth = 0 /\ moves = 0
  /\ pc = [c \in Callers |-> "idle"] /\ op = [c \in Callers |-> "read"] /\ seen = [c \in Callers |-> {}]
  /\ route = [c \in Callers |-> "none"]
  /\ since = [c \in Callers |-> 0] /\ bears = [c \in Callers |-> << >>]
  /\ flight = {} /\ reached = [c \in Callers |-> << >>] /\ done = [c \in Callers |-> {}]
  /\ answer = [c \in Callers |-> "none"]

-----------------------------------------------------------------------------
\* A route of the device comes or goes, LAN control is switched, or the account is replaced.
Move ==
  /\ moves < MaxMoves /\ moves' = moves + 1
  /\ \/ \E b \in Backends : (b = "cloud" => hasCloud) /\ routes' = (routes \ {b}) \cup ({b} \ routes) /\ UNCHANGED <<lanOn, auth>>
     \/ lanOn' = ~lanOn /\ UNCHANGED <<routes, auth>>
  /\ UNCHANGED <<auto, hasCloud, calls>>

UpdateAuth ==
  /\ moves < MaxMoves /\ moves' = moves + 1
  /\ auth' = auth + 1
  /\ UNCHANGED <<auto, hasCloud, routes, lanOn, calls>>

\* The local route: the gateway before the LAN, in auto mode only.
Local(s) == IF ~auto THEN "none" ELSE IF "gateway" \in s THEN "gateway" ELSE IF "lan" \in s THEN "lan" ELSE "none"

\* A read asks the cloud first; a command asks it when there is no local route.
ReadRoute(s) == IF hasCloud THEN "cloud" ELSE Local(s)
CommandRoute(s) == IF Local(s) # "none" THEN Local(s) ELSE IF "cloud" \in s THEN "cloud" ELSE "none"
GroupRoute == "gateway"
Route(o, s) == CASE o = "read" -> ReadRoute(s) [] o = "group" -> GroupRoute [] OTHER -> CommandRoute(s)

Go(c, b) ==
  /\ route' = [route EXCEPT ![c] = b]
  /\ pc' = [pc EXCEPT ![c] = IF b = "none" THEN "failed" ELSE IF b = "cloud" THEN "build" ELSE "send"]
  /\ since' = [since EXCEPT ![c] = auth] /\ bears' = [bears EXCEPT ![c] = << >>]

\* deviceEntry: a copy of the entry, used after the lock is given back.
Call(c, o) ==
  /\ pc[c] = "idle"
  /\ op' = [op EXCEPT ![c] = o] /\ seen' = [seen EXCEPT ![c] = routes]
  /\ Go(c, Route(o, routes))
  /\ UNCHANGED <<environment, flight, reached, done, answer>>

\* postJSON reads each piece of the account under a lock of its own.
ReadPiece(c) ==
  /\ pc[c] = "build"
  /\ bears' = [bears EXCEPT ![c] = Append(@, auth)]
  /\ pc' = [pc EXCEPT ![c] = IF Len(bears[c]) = Pieces - 1 THEN "send" ELSE "build"]
  /\ UNCHANGED <<environment, op, seen, route, since, flight, reached, done, answer>>

Answer(c, a) == pc' = [pc EXCEPT ![c] = "answered"] /\ answer' = [answer EXCEPT ![c] = a]

\* The request leaves; LANClient refuses while it is disabled.
Send(c) ==
  /\ pc[c] = "send"
  /\ IF route[c] = "lan" /\ ~lanOn
     THEN Answer(c, "error") /\ UNCHANGED <<flight, reached>>
     ELSE /\ flight' = flight \cup {<<c, route[c]>>} /\ reached' = [reached EXCEPT ![c] = Append(@, route[c])]
          /\ pc' = [pc EXCEPT ![c] = "sent"] /\ UNCHANGED answer
  /\ UNCHANGED <<environment, op, seen, route, since, bears, done>>

Awaits(c, b) == pc[c] = "sent" /\ route[c] = b

\* The backend executes the request, even when the caller has given up; its answer may be misread.
Execute(c, b) ==
  /\ <<c, b>> \in flight
  /\ flight' = flight \ {<<c, b>>} /\ done' = [done EXCEPT ![c] = @ \cup {b}]
  /\ IF Awaits(c, b) THEN \E a \in {"ok", "malformed"} : Answer(c, a) ELSE UNCHANGED <<pc, answer>>
  /\ UNCHANGED <<environment, op, seen, route, since, bears, reached>>

\* The backend refuses it: an error, or a result with another code than 0 and 1.
Refuse(c, b) ==
  /\ <<c, b>> \in flight
  /\ flight' = flight \ {<<c, b>>}
  /\ IF Awaits(c, b) THEN \E a \in {"code", "error"} : Answer(c, a) ELSE UNCHANGED <<pc, answer>>
  /\ UNCHANGED <<environment, op, seen, route, since, bears, reached, done>>

\* The request or its answer is lost: timeout, transport failure, end of the context.
GiveUp(c) ==
  /\ pc[c] = "sent"
  /\ Answer(c, "error")
  /\ UNCHANGED <<environment, op, seen, route, since, bears, flight, reached, done>>

\* Mutation of Accepted: the code of a result is not looked at.
AcceptedWithoutCode(o, a) == a \in {"ok", "code"}
\* CodeOK and actionCodeOK; the code in the result of a read or of a group is not looked at.
Accepted(o, a) == a = "ok" \/ (o \notin Commands /\ a = "code")

\* Only a read that failed at the cloud has another route.
Return(c) ==
  /\ pc[c] = "answered"
  /\ IF Accepted(op[c], answer[c]) THEN pc' = [pc EXCEPT ![c] = "ok"] /\ UNCHANGED <<route, since, bears>>
     ELSE IF op[c] = "read" /\ route[c] = "cloud" THEN Go(c, Local(seen[c]))
     ELSE pc' = [pc EXCEPT ![c] = "failed"] /\ UNCHANGED <<route, since, bears>>
  /\ UNCHANGED <<environment, op, seen, flight, reached, done, answer>>

\* The caller is done with it; what is still on its way belongs to nobody.
Forget(c) ==
  /\ pc[c] \in {"ok", "failed"} /\ ~\E b \in Backends : <<c, b>> \in flight
  /\ pc' = [pc EXCEPT ![c] = "idle"] /\ reached' = [reached EXCEPT ![c] = << >>] /\ done' = [done EXCEPT ![c] = {}]
  /\ answer' = [answer EXCEPT ![c] = "none"] /\ seen' = [seen EXCEPT ![c] = {}] /\ op' = [op EXCEPT ![c] = "read"]
  /\ route' = [route EXCEPT ![c] = "none"] /\ since' = [since EXCEPT ![c] = 0] /\ bears' = [bears EXCEPT ![c] = << >>]
  /\ UNCHANGED <<environment, flight>>

CallerStep(c) ==
  \/ \E o \in Ops : Call(c, o)
  \/ ReadPiece(c) \/ Send(c) \/ GiveUp(c) \/ Return(c) \/ Forget(c)

Next ==
  \/ Move \/ UpdateAuth
  \/ \E c \in Callers : CallerStep(c)
  \/ \E c \in Callers, b \in Backends : Execute(c, b) \/ Refuse(c, b)

Spec == Init /\ [][Next]_routing

-----------------------------------------------------------------------------
\* A write or an action is sent to one backend at most, whatever fails: it is never done twice by
\* one call (client.go SetProperty, InvokeAction).
CommandsGoOnce == \A c \in Callers : op[c] \in Commands => Len(reached[c]) <= 1

\* A command that is reported successful was executed by the backend it was routed to
\* (client.go CodeOK, execResultError).
SuccessWasDone == \A c \in Callers : pc[c] = "ok" /\ op[c] \in Commands => done[c] = {route[c]}

\* In cloud mode nothing that is routed reaches the gateway or the LAN, even while the cloud fails.
ModeIsObeyed == \A c \in Callers : ~auto /\ op[c] # "group" => \A i \in DOMAIN reached[c] : reached[c][i] = "cloud"

\* No piece of a cloud request is older than the account in force when the request began
\* (cloud.go postJSON, UpdateAuth).
PiecesAreInForce == \A c \in Callers : \A i \in DOMAIN bears[c] : bears[c][i] >= since[c]

-----------------------------------------------------------------------------
\* Expected of the code but not kept by it (README, "What the code does not keep"):
\* the pieces of a cloud request belong to one account.
OneAccount == \A c \in Callers : pc[c] = "sent" => \A i, j \in DOMAIN bears[c] : bears[c][i] = bears[c][j]

\* Expected of the code but not kept by it (README, "What the code does not keep"):
\* a command that is reported failed was not and will not be executed.
FailureWasNotDone == \A c \in Callers : pc[c] = "failed" /\ op[c] \in Commands => done[c] = {}

\* Expected of the code but not kept by it (README, "What the code does not keep"):
\* a read that succeeds carries the value of the property.
ReadsCarryValues == \A c \in Callers : pc[c] = "ok" /\ op[c] = "read" => answer[c] = "ok"
=============================================================================
