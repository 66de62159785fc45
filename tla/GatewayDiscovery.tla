--------------------------- MODULE GatewayDiscovery ---------------------------
(***************************************************************************)
(* Central gateways found over mDNS: the tracker of services by group      *)
(* (mdns.go MIPSDiscovery) over the default browser with its records by    *)
(* name and their expiry (mdns_zeroconf.go).                               *)
(***************************************************************************)
EXTENDS Naturals, FiniteSets

CONSTANTS
  Gateways,  \* service names on the network
  Versions,  \* contents of a gateway's record besides its group and role
  GroupOf,   \* the group a gateway belongs to
  RolesOf,   \* the roles a gateway takes: primary, other, broken (no usable profile)
  Browses,   \* browse subscriptions (bound)
  Starters,  \* callers of Start
  NoRecord

VARIABLES
  world,     \* environment: the record a gateway advertises, or none
  services,  \* d.services
  current,   \* d.browse
  caller,    \* per caller of Start: idle, browse
  browse,    \* per browse: unused, live, cancelled, ended
  known,     \* per browse: the browser's records
  old,       \* per browse: names whose record has expired
  queue,     \* per browse: removed events still to handle
  telling,   \* per browse: the change its goroutine has yet to tell the subscribers of
  view,      \* the services a subscriber was told of
  crossed,   \* history: groups whose last change came while another browse still told of one before
  steady     \* history: the first browse is the only one

tracker == <<services, current, caller>>
browser == <<browse, known, old, queue>>
told == <<telling, view, crossed>>
gateways == <<world, tracker, browser, told, steady>>

NoBrowse == "none"
Groups == {GroupOf[g] : g \in Gateways}
Records == {r \in [name : Gateways, role : UNION {RolesOf[g] : g \in Gateways}, version : Versions] :
              r.role \in RolesOf[r.name]}
Group(r) == GroupOf[r.name]

TypeOK ==
  /\ world \in [Gateways -> Records \cup {NoRecord}]
  /\ services \in [Groups -> Records \cup {NoRecord}]
  /\ current \in Browses \cup {NoBrowse} /\ caller \in [Starters -> {"idle", "browse"}]
  /\ browse \in [Browses -> {"unused", "live", "cancelled", "ended"}]
  /\ known \in [Browses -> [Gateways -> Records \cup {NoRecord}]]
  /\ \A b \in Browses : old[b] \subseteq Gateways /\ queue[b] \subseteq Records
  /\ \A b \in Browses : telling[b] \subseteq Groups \X (Records \cup {NoRecord})
  /\ view \in [Groups -> Records \cup {NoRecord}] /\ crossed \subseteq Groups /\ steady \in BOOLEAN

Init ==
  /\ world = [g \in Gateways |-> NoRecord]
  /\ services = [g \in Groups |-> NoRecord] /\ view = services
  /\ current = NoBrowse /\ caller = [c \in Starters |-> "idle"]
  /\ browse = [b \in Browses |-> "unused"]
  /\ known = [b \in Browses |-> [g \in Gateways |-> NoRecord]]
  /\ old = [b \in Browses |-> {}] /\ queue = [b \in Browses |-> {}]
  /\ telling = [b \in Browses |-> {}] /\ crossed = {} /\ steady = TRUE

-----------------------------------------------------------------------------
\* A gateway appears, changes its record or role, or leaves without a word.
Advertise(g) ==
  /\ \E r \in {x \in Records : x.name = g} \cup {NoRecord} :
       r # world[g] /\ world' = [world EXCEPT ![g] = r]
  /\ UNCHANGED <<tracker, browser, told, steady>>

\* Start looks whether there is a browse, and installs its own after the lock was given up.
Start(c) ==
  /\ caller[c] = "idle" /\ current = NoBrowse /\ \E b \in Browses : browse[b] = "unused"
  /\ caller' = [caller EXCEPT ![c] = "browse"]
  /\ UNCHANGED <<world, services, current, browser, told, steady>>

Browse(c) ==
  /\ caller[c] = "browse" /\ caller' = [caller EXCEPT ![c] = "idle"]
  /\ \/ \E b \in Browses :
          /\ browse[b] = "unused" /\ browse' = [browse EXCEPT ![b] = "live"] /\ current' = b
          /\ steady' = \A x \in Browses : browse[x] = "unused"
     \/ UNCHANGED <<browse, current, steady>> \* Browse returned an error
  /\ UNCHANGED <<world, services, known, old, queue, told>>

\* Close cancels the browse and waits for the browser's goroutine.
Close ==
  /\ current # NoBrowse /\ current' = NoBrowse
  /\ browse' = [browse EXCEPT ![current] = IF @ = "live" THEN "cancelled" ELSE @]
  /\ UNCHANGED <<world, services, caller, known, old, queue, told, steady>>

\* The context given to Start ends.
ContextEnds(b) ==
  /\ browse[b] = "live" /\ browse' = [browse EXCEPT ![b] = "cancelled"]
  /\ UNCHANGED <<world, tracker, known, old, queue, told, steady>>

BrowseEnds(b) ==
  /\ browse[b] = "cancelled" /\ queue[b] = {} /\ telling[b] = {}
  /\ browse' = [browse EXCEPT ![b] = "ended"]
  /\ UNCHANGED <<world, tracker, known, old, queue, told, steady>>

\* The goroutine of the browse, which also calls the subscribers, is at its select.
Running(b) == browse[b] \in {"live", "cancelled"}
Selects(b) == Running(b) /\ queue[b] = {} /\ telling[b] = {}

-----------------------------------------------------------------------------
\* ParseMIPSServiceRecord and Valid.
Parses(r) == r.role # "broken"
Valid(r) == Parses(r) /\ r.role = "primary"

Known(r) == services[Group(r)]

\* Some browse but b has yet to tell of an earlier change of the group.
ToldLater(b, group) == \E o \in Browses \ {b} : \E e \in telling[o] : e[1] = group

\* Mutation of HandleEvent: a removed service is kept.
HandleEventKeeps(b, type, r) ==
  IF ~Valid(r) \/ type = "removed" THEN UNCHANGED <<services, telling, crossed>>
  ELSE /\ services' = [services EXCEPT ![Group(r)] = r]
       /\ telling' = [telling EXCEPT ![b] = {<<Group(r), r>>}]
       /\ crossed' = IF ToldLater(b, Group(r)) THEN crossed \cup {Group(r)} ELSE crossed \ {Group(r)}

\* handleEvent under its lock: the kind of the event matters to the table only when it is a removal.
\* The subscribers are told of what the table did after the lock was given up (Notify).
HandleEvent(b, type, r) ==
  IF ~Valid(r) \/ (type = "removed" /\ Known(r) = NoRecord) THEN UNCHANGED <<services, telling, crossed>>
  ELSE LET new == IF type = "removed" THEN NoRecord ELSE r IN
       /\ services' = [services EXCEPT ![Group(r)] = new]
       /\ telling' = [telling EXCEPT ![b] = {<<Group(r), new>>}]
       /\ crossed' = IF ToldLater(b, Group(r)) THEN crossed \cup {Group(r)} ELSE crossed \ {Group(r)}

\* Mutation of Notify: a removal is told as the service it removed.
NotifyOfServices(b) ==
  /\ \E e \in telling[b] : view' = IF e[2] = NoRecord THEN view ELSE [view EXCEPT ![e[1]] = e[2]]
  /\ telling' = [telling EXCEPT ![b] = {}]
  /\ UNCHANGED <<world, tracker, browser, crossed, steady>>

\* The second half of handleEvent: the subscribers' handlers are called, without a lock.
Notify(b) ==
  /\ \E e \in telling[b] : view' = [view EXCEPT ![e[1]] = e[2]]
  /\ telling' = [telling EXCEPT ![b] = {}]
  /\ UNCHANGED <<world, tracker, browser, crossed, steady>>

\* zeroconfServiceRecord: an entry without a profile is no record.
HasProfile(r) == r # NoRecord /\ r.role # "broken"

\* serviceRecordEqual and the expiry: does the entry say anything new?
SaysNew(b, r) == r # known[b][r.name] \/ r.name \in old[b]

\* An entry arrives: with a usable profile it is recorded and handled, unless it says nothing new
\* (the expiry is part of the comparison, so a renewal is an update).
Entry(b, g) ==
  LET r == world[g] IN
  /\ Selects(b) /\ HasProfile(r) /\ SaysNew(b, r)
  /\ known' = [known EXCEPT ![b][g] = r] /\ old' = [old EXCEPT ![b] = @ \ {g}]
  /\ HandleEvent(b, IF known[b][g] = NoRecord THEN "added" ELSE "updated", r)
  /\ UNCHANGED <<world, current, caller, browse, queue, view, steady>>

\* The time to live of a record runs out: the gateway has gone, or its renewals were lost.
Expire(b, g) ==
  /\ known[b][g] # NoRecord /\ g \notin old[b] /\ old' = [old EXCEPT ![b] = @ \cup {g}]
  /\ UNCHANGED <<world, tracker, browse, known, queue, told, steady>>

\* Mutation of Sweep: the records are deleted and no event is sent.
SweepSilently(b) ==
  /\ Selects(b) /\ old[b] # {}
  /\ known' = [known EXCEPT ![b] = [g \in Gateways |-> IF g \in old[b] THEN NoRecord ELSE @[g]]]
  /\ old' = [old EXCEPT ![b] = {}]
  /\ UNCHANGED <<world, tracker, browse, queue, told, steady>>

\* A tick of the browser: expired records are deleted, then reported one by one.
Sweep(b) ==
  /\ Selects(b) /\ old[b] # {}
  /\ queue' = [queue EXCEPT ![b] = {known[b][g] : g \in old[b]}]
  /\ known' = [known EXCEPT ![b] = [g \in Gateways |-> IF g \in old[b] THEN NoRecord ELSE @[g]]]
  /\ old' = [old EXCEPT ![b] = {}]
  /\ UNCHANGED <<world, tracker, browse, told, steady>>

Remove(b, r) ==
  /\ r \in queue[b] /\ telling[b] = {} /\ queue' = [queue EXCEPT ![b] = @ \ {r}]
  /\ HandleEvent(b, "removed", r)
  /\ UNCHANGED <<world, current, caller, browse, known, old, view, steady>>

Next ==
  \/ Close
  \/ \E g \in Gateways : Advertise(g)
  \/ \E c \in Starters : Start(c) \/ Browse(c)
  \/ \E b \in Browses :
       \/ ContextEnds(b) \/ BrowseEnds(b) \/ Sweep(b) \/ Notify(b)
       \/ \E g \in Gateways : Entry(b, g) \/ Expire(b, g)
       \/ \E r \in queue[b] : Remove(b, r)

\* Time passes, handlers return, and a tick waits in its channel until a select takes it, which picks
\* among what is ready at random (mdns_zeroconf.go).
Fairness ==
  \A b \in Browses :
    /\ SF_gateways(Sweep(b)) /\ WF_gateways(BrowseEnds(b))
    /\ WF_gateways((\E r \in queue[b] : Remove(b, r)) \/ Notify(b))
    /\ \A g \in Gateways : WF_gateways(world[g] = NoRecord /\ Expire(b, g))

Spec == Init /\ [][Next]_gateways /\ Fairness

-----------------------------------------------------------------------------
\* Gateways that share their group with no other and do not change their role.
Plain(g) == Cardinality(RolesOf[g]) = 1 /\ \A o \in Gateways \ {g} : GroupOf[o] # GroupOf[g]

\* A subscriber knows the service of a group when nothing is left to tell of it, unless its last change
\* came while another browse still told of an earlier one (handleEvent tells without its lock); with
\* one browse the table holds the valid records the browser knows, for plain gateways (Browse).
ServicesFollow ==
  /\ \A p \in Groups \ crossed :
       (\A b \in Browses : \A e \in telling[b] : e[1] # p) => view[p] = services[p]
  /\ steady => \A b \in Browses, g \in Gateways :
       Plain(g) /\ browse[b] # "unused" /\ queue[b] = {} =>
         services[GroupOf[g]] = IF known[b][g] # NoRecord /\ Valid(known[b][g]) THEN known[b][g] ELSE NoRecord

\* A plain gateway that has gone leaves the table, or its browse ends (Browse's sweep).
GoneIsRemoved ==
  \A g \in Gateways : Plain(g) =>
    ((steady /\ world[g] = NoRecord)
       ~> (services[GroupOf[g]] = NoRecord \/ world[g] # NoRecord \/ ~steady
             \/ \A b \in Browses : browse[b] # "live"))

\* Expected of the code but not kept by it (README, "What the code does not keep"):
\* Services are the valid records (mdns.go:42 Valid): a gateway that stops being the primary one,
\* or shares its group with another, keeps or loses its entry wrongly (mdns.go:190-203).
RoleIsFollowed ==
  steady => \A b \in Browses, g \in Gateways :
    Running(b) /\ queue[b] = {} /\ known[b][g] # NoRecord =>
      (services[GroupOf[g]] # NoRecord) = (\E o \in Gateways :
         GroupOf[o] = GroupOf[g] /\ known[b][o] # NoRecord /\ Valid(known[b][o]))

\* Expected of the code but not kept by it (README, "What the code does not keep"):
\* subscribers end with what Services() returns: two browses tell in any order (mdns.go:227-241).
ViewIsCurrent == (\A b \in Browses : telling[b] = {}) => view = services

\* Expected of the code but not kept by it (README, "What the code does not keep"):
\* Close leaves nothing behind that browses (mdns.go:107): two starts at once leave one.
NothingBrowsesOn ==
  current = NoBrowse /\ (\A c \in Starters : caller[c] = "idle") => \A b \in Browses : browse[b] # "live"
=============================================================================
