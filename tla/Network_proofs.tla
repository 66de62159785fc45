---------------------------- MODULE Network_proofs -----------------------------
(***************************************************************************)
(* Proofs about the searches on the network, for any loops, callers,       *)
(* subscribers, interfaces, gateways, browses, workers and addresses: who  *)
(* of NetworkMonitor still has to be told what, which record of            *)
(* GatewayDiscovery stands behind a service, and where each candidate of   *)
(* HostDiscovery is.                                                       *)
(***************************************************************************)
EXTENDS MCNetwork, FiniteSetTheorems, WellFoundedInduction, TLAPS

(* The network monitor *)

Calls == [kind : {"status", "add", "update", "remove"}, name : Names \cup {NoInfo}, info : Infos, sub : Subs]
Gots == [asked : SUBSET Targets, reachable : BOOLEAN, found : [Names -> Infos]]

EnvironmentTypes == up \subseteq Targets /\ wires \in [Names -> AddrLists] /\ changes \in 0..MaxChanges
StateTypes ==
  /\ targets \subseteq Targets /\ {status} \subseteq BOOLEAN /\ interfaces \in [Names -> Infos]
  /\ subs \in [Subs -> {"new", "on", "closed"}]
LoopTypes ==
  /\ current \in Loops \cup {NoLoop} /\ loop \in [Loops -> {"unused", "running", "ended"}]
  /\ cancelled \subseteq Loops /\ closers \subseteq Loops
RunTypes ==
  /\ pc \in [Runs -> {"idle", "probe", "list", "commit", "tell"}] /\ got \in [Runs -> Gots]
  /\ calls \in [Runs -> SUBSET Calls]
ToldTypes ==
  heard \in [Subs -> BOOLEAN] /\ view \in [Subs -> [Names -> Infos]] /\ {overlap} \subseteq BOOLEAN

\* A loop that was not started does nothing.
UnusedIsIdle == \A l \in Loops : loop[l] = "unused" => pc[l] = "idle"

\* Only a refresh that has installed its results has callbacks to make; while refreshes do not
\* overlap it is one, and it calls whoever had subscribed before.
CallsAreTold == \A r \in Runs : calls[r] # {} => pc[r] = "tell"
OneTells == ~overlap => \A r, o \in Runs : calls[r] # {} /\ calls[o] # {} => r = o
CallsForKnown == \A r \in Runs : \A c \in calls[r] : subs[c.sub] # "new"

AboutStatus(c, s) == c.sub = s /\ c.kind = "status"
AboutName(c, s, n) == c.sub = s /\ c.kind # "status" /\ c.name = n

\* A subscriber knows what it has no callback to come about, and a callback to come says what is so.
StatusFollows ==
  ~overlap =>
    /\ \A r \in Runs : \A c \in calls[r] : c.kind = "status" => got[r].reachable = status
    /\ \A s \in Subs : subs[s] = "on" =>
         heard[s] = status \/ \E r \in Runs : \E c \in calls[r] : AboutStatus(c, s)
InterfacesFollow ==
  ~overlap =>
    /\ \A r \in Runs : \A c \in calls[r] : c.kind # "status" =>
         c.name \in Names /\ interfaces[c.name] = IF c.kind = "remove" THEN NoInfo ELSE c.info
    /\ \A s \in Subs, n \in Names : subs[s] = "on" =>
         view[s][n] = interfaces[n] \/ \E r \in Runs : \E c \in calls[r] : AboutName(c, s, n)

MonitorInv ==
  /\ EnvironmentTypes /\ StateTypes /\ LoopTypes /\ RunTypes /\ ToldTypes
  /\ UnusedIsIdle /\ CallsAreTold /\ OneTells /\ CallsForKnown /\ StatusFollows /\ InterfacesFollow

-----------------------------------------------------------------------------
(* The central gateways *)

CRecords == Central!Records \cup {NoRecord}
ServiceTypes ==
  /\ world \in [Gateways -> CRecords] /\ services \in [Central!Groups -> CRecords]
  /\ {steady} \subseteq BOOLEAN
BrowseTypes ==
  /\ browsing \in Browses \cup {Central!NoBrowse} /\ caller \in [Starters -> {"idle", "browse"}]
  /\ browse \in [Browses -> {"unused", "live", "cancelled", "ended"}]
KnownTypes ==
  /\ known \in [Browses -> [Gateways -> CRecords]]
  /\ old \in [Browses -> SUBSET Gateways] /\ queue \in [Browses -> SUBSET Central!Records]

\* A record is kept under its own name, a service under its own group and only if it is valid.
RecordsAreNamed ==
  /\ \A g \in Gateways : world[g] # NoRecord => world[g].name = g
  /\ \A b \in Browses, g \in Gateways : known[b][g] # NoRecord => known[b][g].name = g
ServicesAreValid ==
  \A p \in Central!Groups : services[p] # NoRecord =>
    Central!Valid(services[p]) /\ Central!Group(services[p]) = p

\* Only known records expire, and one that is being removed is not known.
ExpiredIsKnown == \A b \in Browses : \A g \in old[b] : known[b][g] # NoRecord
RemovedIsUnknown == \A b \in Browses : \A r \in queue[b] : known[b][r.name] = NoRecord

\* A browse that was never started knows nothing; while there was none there is no service.
UnusedIsEmpty ==
  /\ \A b \in Browses : browse[b] = "unused" => queue[b] = {} /\ \A g \in Gateways : known[b][g] = NoRecord
  /\ (\A b \in Browses : browse[b] = "unused") => \A p \in Central!Groups : services[p] = NoRecord
OneBrowse == steady => \A b, c \in Browses : browse[b] # "unused" /\ browse[c] # "unused" => b = c

\* The service of a plain gateway is its valid record, known or about to be removed.
ServiceIsKnown ==
  steady => \A b \in Browses, g \in Gateways : Central!Plain(g) /\ browse[b] # "unused" =>
    /\ known[b][g] # NoRecord /\ Central!Valid(known[b][g]) => services[GroupOf[g]] = known[b][g]
    /\ services[GroupOf[g]] # NoRecord =>
         services[GroupOf[g]] = known[b][g] \/ services[GroupOf[g]] \in queue[b]

\* What each browse has yet to tell, and what a subscriber was told.
TellingTypes ==
  /\ telling \in [Browses -> SUBSET (Central!Groups \X CRecords)]
  /\ seen \in [Central!Groups -> CRecords] /\ crossed \subseteq Central!Groups
OneTelling == \A b \in Browses : \A e, f \in telling[b] : e = f

\* As long as no two browses told of a group at a time, what is left to tell of it is its service,
\* and a subscriber knows it when nothing is left.
ChangesAreTold ==
  \A p \in Central!Groups \ crossed :
    /\ \A b \in Browses : \A e \in telling[b] : e[1] = p => e[2] = services[p]
    /\ (\A b \in Browses : \A e \in telling[b] : e[1] # p) => seen[p] = services[p]

TellingInv == TellingTypes /\ OneTelling /\ ChangesAreTold

CentralInv ==
  /\ ServiceTypes /\ BrowseTypes /\ KnownTypes /\ RecordsAreNamed /\ ServicesAreValid
  /\ ExpiredIsKnown /\ RemovedIsUnknown /\ UnusedIsEmpty /\ OneBrowse /\ ServiceIsKnown

-----------------------------------------------------------------------------
(* The scan for cameras *)

ScanTypes ==
  /\ cameras \subseteq Hosts!Addresses /\ feeder \in {"offer", "wait", "ended"}
  /\ next \in Hosts!Candidates \cup {Net} /\ worker \in [Workers -> {"idle", "busy", "ended"}]
  /\ host \in [Workers -> Hosts!Candidates \cup {Nobody}]
  /\ probed \subseteq Hosts!Candidates /\ {stopped, returned} \subseteq BOOLEAN
BusyHasHost == \A w \in Workers : worker[w] = "busy" => host[w] \in Hosts!Candidates

\* A candidate handed out was asked, or a worker asks it; without a cancellation everything was
\* handed out when the feeder stops.
HandedIsAsked ==
  \A c \in Hosts!Candidates :
    c < next => c \in probed \/ \E w \in Workers : worker[w] = "busy" /\ host[w] = c
AllIsHanded == feeder # "offer" /\ ~stopped => next = Net
AnswersAreHeard ==
  /\ results \subseteq cameras \cap probed
  /\ ~stopped => cameras \cap probed \subseteq results
EndIsLast ==
  /\ feeder = "ended" => \A w \in Workers : worker[w] = "ended"
  /\ returned => feeder = "ended"

ScanInv ==
  /\ ScanTypes /\ BusyHasHost /\ HandedIsAsked /\ AllIsHanded /\ AnswersAreHeard /\ EndIsLast

NetworkInv == MonitorInv /\ CentralInv /\ TellingInv /\ ScanInv

-----------------------------------------------------------------------------
(* The steps of the network monitor *)

\* Every set of numbers has a least one.
LEMMA LeastNumber == ASSUME NEW T, T \subseteq Nat, T # {} PROVE \E x \in T : \A y \in T : x <= y
  <1>. DEFINE R == OpToRel(<, Nat)
  <1>1. R = {ss \in Nat \X Nat : ss[1] < ss[2]}
    BY DEF OpToRel
  <1>2. IsWellFoundedOn(R, Nat)
    BY NatLessThanWellFounded
  <1>. HIDE DEF R
  <1>3. PICK x \in T : \A y \in T : <<y, x>> \notin R
    BY <1>2, WFMin
  <1>4. ASSUME NEW y \in T, y < x PROVE <<y, x>> \in R
    <2>. DEFINE ss == <<y, x>>
    <2>1. ss \in Nat \X Nat /\ ss[1] < ss[2]
      BY <1>4
    <2>. HIDE DEF ss
    <2>2. ss \in R
      BY <1>1, <2>1
    <2>. QED
      BY <2>2 DEF ss
  <1>5. ASSUME NEW y \in T PROVE x <= y
    <2>1. ~(y < x)
      BY <1>3, <1>4
    <2>. QED
      BY <2>1
  <1>. QED
    BY <1>5

\* The address taken from a list is one of IPv4.
LEMMA AddressType == ASSUME NEW list \in AddrLists PROVE AddressOf(list) \in Infos
  <1>. DEFINE good == {i \in 1..Len(list) : list[i] \in V4 \ Loopbacks}
              at == SelectInSeq(list, LAMBDA a : a \in V4 \ Loopbacks)
  <1>1. list \in Seq(STRING) /\ Len(list) \in Nat
    BY MonitorConstants DEF MonitorConstants
  <1>2. at = IF good # {} THEN Min(good) ELSE 0
    BY DEF SelectInSeq
  <1>3. good \subseteq Nat
    BY <1>1
  <1>4. ASSUME good # {} PROVE Min(good) \in good
    <2>. HIDE DEF good
    <2>1. \E x \in good : \A y \in good : x <= y
      BY <1>3, <1>4, LeastNumber
    <2>. QED
      BY <2>1 DEF Min
  <1>5. at # 0 => list[at] \in V4
    BY <1>2, <1>4
  <1>6. AddressOf(list) = IF at = 0 THEN NoInfo ELSE list[at]
    BY DEF AddressOf
  <1>. QED
    BY <1>5, <1>6 DEF Infos

LEMMA ListedType == EnvironmentTypes => Listed \in [Names -> Infos]
  BY AddressType DEF EnvironmentTypes, Listed, Infos

LEMMA MonitorStarts == Init => MonitorInv
  <1>. SUFFICES ASSUME Init PROVE MonitorInv
    OBVIOUS
  <1>1. NoResults \in Gots /\ Nothing \in [Names -> Infos]
    BY DEF NoResults, Gots, Nothing, Infos
  <1>2. EnvironmentTypes
    BY MonitorConstants DEF Init, EnvironmentTypes, MonitorConstants
  <1>3. {FALSE} \subseteq BOOLEAN /\ \A s \in Subs : FALSE \in BOOLEAN
    OBVIOUS
  <1>4. StateTypes /\ LoopTypes
    BY <1>1, <1>3 DEF Init, StateTypes, LoopTypes
  <1>5. RunTypes /\ ToldTypes
    BY <1>1, <1>3 DEF Init, RunTypes, ToldTypes
  <1>. QED
    BY <1>2, <1>4, <1>5
    DEF Init, MonitorInv, Runs, UnusedIsIdle, CallsAreTold, OneTells, CallsForKnown,
        StatusFollows, InterfacesFollow

\* What a commit has to report, one callback for each subscriber and difference.
LEMMA EventsAre ==
  ASSUME NEW was \in [Names -> Infos], NEW is \in [Names -> Infos]
  PROVE  /\ \A e \in Events(was, is) :
              /\ e.kind \in {"add", "update", "remove"} /\ e.name \in Names /\ e.info \in Infos
              /\ is[e.name] = IF e.kind = "remove" THEN NoInfo ELSE e.info
         /\ \A n \in Names : was[n] # is[n] =>
              \E e \in Events(was, is) : e.name = n /\ e.kind \in {"add", "update", "remove"}
  <1>1. ASSUME NEW n \in Names, NEW e \in Event(n, was, is)
        PROVE  /\ e.kind \in {"add", "update", "remove"} /\ e.name = n /\ e.info \in Infos
               /\ is[n] = IF e.kind = "remove" THEN NoInfo ELSE e.info
    BY <1>1 DEF Event
  <1>2. ASSUME NEW n \in Names, was[n] # is[n] PROVE \E e \in Event(n, was, is) : TRUE
    BY <1>2 DEF Event
  <1>. QED
    BY <1>1, <1>2 DEF Events

\* The callbacks of a commit.
LEMMA CommitCalls ==
  ASSUME StateTypes, RunTypes, NEW r \in Runs, Commit(r)
  PROVE  /\ calls'[r] \in SUBSET Calls /\ \A o \in Runs : o # r => calls'[o] = calls[o]
         /\ calls' = [calls EXCEPT ![r] = calls'[r]]
         /\ status' = got[r].reachable /\ interfaces' = got[r].found
         /\ \A c \in calls'[r] : subs[c.sub] = "on"
         /\ \A c \in calls'[r] : c.kind # "status" =>
              c.name \in Names /\ got[r].found[c.name] = IF c.kind = "remove" THEN NoInfo ELSE c.info
         /\ \A s \in Subs : subs[s] = "on" /\ status # got[r].reachable =>
              \E c \in calls'[r] : AboutStatus(c, s)
         /\ \A s \in Subs, n \in Names : subs[s] = "on" /\ interfaces[n] # got[r].found[n] =>
              \E c \in calls'[r] : AboutName(c, s, n)
  <1>. DEFINE is == got[r].found
              on == {s \in Subs : subs[s] = "on"}
              said == {[kind |-> "status", name |-> NoInfo, info |-> NoInfo, sub |-> s] :
                         s \in IF status # got[r].reachable THEN on ELSE {}}
              news == {[kind |-> e.kind, name |-> e.name, info |-> e.info, sub |-> s] :
                         e \in Events(interfaces, is), s \in on}
  <1>1. calls' = [calls EXCEPT ![r] = said \cup news] /\ status' = got[r].reachable /\ interfaces' = is
    BY DEF Commit
  <1>2. calls'[r] = said \cup news /\ \A o \in Runs : o # r => calls'[o] = calls[o]
    BY <1>1 DEF RunTypes
  <1>3. is \in [Names -> Infos] /\ interfaces \in [Names -> Infos]
    BY DEF RunTypes, StateTypes, Gots
  <1>4. /\ \A e \in Events(interfaces, is) :
             /\ e.kind \in {"add", "update", "remove"} /\ e.name \in Names /\ e.info \in Infos
             /\ is[e.name] = IF e.kind = "remove" THEN NoInfo ELSE e.info
        /\ \A n \in Names : interfaces[n] # is[n] =>
             \E e \in Events(interfaces, is) : e.name = n /\ e.kind \in {"add", "update", "remove"}
    BY <1>3, EventsAre
  <1>. HIDE DEF is
  <1>5. \A c \in said : c \in Calls /\ c.kind = "status" /\ subs[c.sub] = "on"
    BY DEF Calls, Infos
  <1>6. \A c \in news : /\ c \in Calls /\ c.kind # "status" /\ subs[c.sub] = "on" /\ c.name \in Names
                       /\ is[c.name] = IF c.kind = "remove" THEN NoInfo ELSE c.info
    BY <1>4 DEF Calls
  <1>7. ASSUME NEW s \in Subs, subs[s] = "on", status # got[r].reachable
        PROVE  \E c \in said : AboutStatus(c, s)
    <2>1. [kind |-> "status", name |-> NoInfo, info |-> NoInfo, sub |-> s] \in said
      BY <1>7
    <2>. QED
      BY <2>1 DEF AboutStatus
  <1>8. ASSUME NEW s \in Subs, NEW n \in Names, subs[s] = "on", interfaces[n] # is[n]
        PROVE  \E c \in news : AboutName(c, s, n)
    <2>1. PICK e \in Events(interfaces, is) : e.name = n /\ e.kind \in {"add", "update", "remove"}
      BY <1>4, <1>8
    <2>2. PICK c \in news : c.kind = e.kind /\ c.name = e.name /\ c.sub = s
      <3>. DEFINE c == [kind |-> e.kind, name |-> e.name, info |-> e.info, sub |-> s]
      <3>1. c \in news
        BY <1>8
      <3>2. c.kind = e.kind /\ c.name = e.name /\ c.sub = s
        OBVIOUS
      <3>. HIDE DEF c, news
      <3>. QED
        BY <3>1, <3>2
    <2>. QED
      BY <2>1, <2>2 DEF AboutName
  <1>. HIDE DEF said, news
  <1>. QED
    BY <1>1, <1>2, <1>5, <1>6, <1>7, <1>8 DEF is

\* The parts of the invariant that say who was told what.
Informed == CallsAreTold /\ OneTells /\ CallsForKnown /\ StatusFollows /\ InterfacesFollow

\* Refreshes that have nobody to call may go on.
LEMMA QuietKeepsInformed ==
  ASSUME Informed, UNCHANGED <<status, interfaces, subs, calls, heard, view, overlap>>,
         \A r \in Runs : calls[r] # {} => pc'[r] = pc[r] /\ got'[r] = got[r]
  PROVE  Informed'
  <1>1. CallsAreTold' /\ OneTells' /\ CallsForKnown'
    BY DEF Informed, CallsAreTold, OneTells, CallsForKnown
  <1>2. StatusFollows'
    BY DEF Informed, StatusFollows
  <1>3. InterfacesFollow'
    BY DEF Informed, InterfacesFollow
  <1>. QED
    BY <1>1, <1>2, <1>3 DEF Informed

\* A step of a refresh up to its commit, or its end: r goes from one place to another with new results.
LEMMA RunGoesOn ==
  ASSUME MonitorInv, NEW r \in Runs, NEW w \in Gots,
         NEW p \in {"idle", "probe", "list", "commit"}, calls[r] = {},
         pc' = [pc EXCEPT ![r] = p], got' = [got EXCEPT ![r] = w], calls' = calls,
         UNCHANGED <<network, state, told>>,
         LoopTypes', r \in Loops /\ p # "idle" => loop'[r] # "unused",
         \A l \in Loops : loop'[l] = "unused" => loop[l] = "unused"
  PROVE  MonitorInv'
  <1>1. EnvironmentTypes' /\ StateTypes' /\ ToldTypes'
    BY DEF MonitorInv, EnvironmentTypes, StateTypes, ToldTypes, network, state, told
  <1>2. RunTypes'
    BY DEF MonitorInv, RunTypes
  <1>3. \A o \in Runs : o # r => pc'[o] = pc[o] /\ got'[o] = got[o]
    BY DEF MonitorInv, RunTypes
  <1>4. UnusedIsIdle'
    BY <1>3 DEF MonitorInv, UnusedIsIdle, RunTypes, Runs
  <1>5. Informed'
    BY <1>3, QuietKeepsInformed DEF MonitorInv, Informed, state, told
  <1>. QED
    BY <1>1, <1>2, <1>4, <1>5 DEF MonitorInv, Informed

\* A commit replaces what is known and calls everybody that knew something else.
LEMMA CommitKeeps == ASSUME MonitorInv, NEW r \in Runs, Commit(r) PROVE MonitorInv'
  <1>0. /\ EnvironmentTypes /\ StateTypes /\ LoopTypes /\ RunTypes /\ ToldTypes /\ UnusedIsIdle
        /\ CallsAreTold /\ CallsForKnown /\ StatusFollows /\ InterfacesFollow
    BY DEF MonitorInv
  <1>1. /\ calls'[r] \in SUBSET Calls /\ \A o \in Runs : o # r => calls'[o] = calls[o]
        /\ calls' = [calls EXCEPT ![r] = calls'[r]]
        /\ status' = got[r].reachable /\ interfaces' = got[r].found
        /\ \A c \in calls'[r] : subs[c.sub] = "on"
        /\ \A c \in calls'[r] : c.kind # "status" =>
             /\ c.name \in Names
             /\ got[r].found[c.name] = IF c.kind = "remove" THEN NoInfo ELSE c.info
        /\ \A s \in Subs : subs[s] = "on" /\ status # got[r].reachable =>
             \E c \in calls'[r] : AboutStatus(c, s)
        /\ \A s \in Subs, n \in Names : subs[s] = "on" /\ interfaces[n] # got[r].found[n] =>
             \E c \in calls'[r] : AboutName(c, s, n)
    BY <1>0, CommitCalls
  <1>2. /\ overlap' = (overlap \/ \E o \in Runs \ {r} : calls[o] # {})
        /\ UNCHANGED <<up, wires, changes, current, loop, cancelled, closers>>
        /\ UNCHANGED <<targets, subs, got, heard, view>>
        /\ pc[r] = "commit" /\ pc' = [pc EXCEPT ![r] = "tell"]
    BY DEF Commit, network, control
  <1>3. pc'[r] = "tell" /\ \A o \in Runs : o # r => pc'[o] = pc[o]
    BY <1>0, <1>2 DEF RunTypes
  <1>4. calls[r] = {}
    BY <1>0, <1>2 DEF CallsAreTold
  <1>5. ~overlap' => ~overlap /\ \A o \in Runs : calls[o] = {} /\ (o # r => calls'[o] = {})
    BY <1>1, <1>2, <1>4
  <1>6. EnvironmentTypes' /\ LoopTypes'
    BY <1>0, <1>2 DEF EnvironmentTypes, LoopTypes
  <1>7. StateTypes'
    <2>1. got[r].reachable \in BOOLEAN /\ got[r].found \in [Names -> Infos]
      BY <1>0 DEF RunTypes, Gots
    <2>. QED
      BY <1>0, <1>1, <1>2, <2>1 DEF StateTypes
  <1>8. RunTypes'
    BY <1>0, <1>1, <1>2 DEF RunTypes
  <1>9. ToldTypes'
    <2>1. {overlap'} \subseteq BOOLEAN
      BY <1>0, <1>2 DEF ToldTypes
    <2>. QED
      BY <1>0, <1>2, <2>1 DEF ToldTypes
  <1>10. UnusedIsIdle'
    BY <1>0, <1>2, <1>3 DEF UnusedIsIdle, Runs
  <1>11. CallsAreTold'
    BY <1>0, <1>1, <1>3 DEF CallsAreTold
  <1>12. OneTells'
    BY <1>5 DEF OneTells
  <1>13. CallsForKnown'
    BY <1>0, <1>1, <1>2 DEF CallsForKnown
  <1>14. StatusFollows'
    BY <1>0, <1>1, <1>2, <1>5 DEF StatusFollows
  <1>15. InterfacesFollow'
    BY <1>0, <1>1, <1>2, <1>5 DEF InterfacesFollow
  <1>. QED
    BY <1>6, <1>7, <1>8, <1>9, <1>10, <1>11, <1>12, <1>13, <1>14, <1>15 DEF MonitorInv

\* A callback tells one subscriber what is so.
LEMMA TellKeeps == ASSUME MonitorInv, NEW r \in Runs, Tell(r) PROVE MonitorInv'
  <1>0. /\ EnvironmentTypes /\ StateTypes /\ LoopTypes /\ RunTypes /\ ToldTypes /\ UnusedIsIdle
        /\ CallsAreTold /\ OneTells /\ CallsForKnown /\ StatusFollows /\ InterfacesFollow
    BY DEF MonitorInv
  <1>1. PICK c \in calls[r] :
          /\ calls' = [calls EXCEPT ![r] = calls[r] \ {c}]
          /\ IF c.kind = "status"
               THEN heard' = [heard EXCEPT ![c.sub] = got[r].reachable] /\ UNCHANGED view
               ELSE /\ view' = [view EXCEPT ![c.sub][c.name] =
                                   IF c.kind = "remove" THEN NoInfo ELSE c.info]
                    /\ UNCHANGED heard
    BY DEF Tell
  <1>2. /\ UNCHANGED <<up, wires, changes, current, loop, cancelled, closers>>
        /\ UNCHANGED <<targets, subs, status, interfaces, pc, got, overlap>>
    BY DEF Tell, network, control, state
  <1>3. calls'[r] = calls[r] \ {c} /\ \A o \in Runs : o # r => calls'[o] = calls[o]
    BY <1>0, <1>1 DEF RunTypes
  <1>4. c.sub \in Subs /\ (IF c.kind = "remove" THEN NoInfo ELSE c.info) \in Infos
    BY <1>0 DEF RunTypes, Calls, Infos
  <1>5. EnvironmentTypes' /\ StateTypes' /\ LoopTypes' /\ UnusedIsIdle'
    BY <1>0, <1>2 DEF EnvironmentTypes, StateTypes, LoopTypes, UnusedIsIdle
  <1>6. RunTypes'
    BY <1>0, <1>1, <1>2 DEF RunTypes
  <1>7. ToldTypes'
    <2>1. heard \in [Subs -> BOOLEAN] /\ view \in [Subs -> [Names -> Infos]] /\ {overlap'} \subseteq BOOLEAN
      BY <1>0, <1>2 DEF ToldTypes
    <2>2. CASE c.kind = "status"
      <3>1. got[r].reachable \in BOOLEAN
        BY <1>0 DEF RunTypes, Gots
      <3>. QED
        BY <1>1, <1>4, <2>1, <2>2, <3>1 DEF ToldTypes
    <2>3. CASE c.kind # "status"
      <3>. DEFINE v == [view[c.sub] EXCEPT ![c.name] = IF c.kind = "remove" THEN NoInfo ELSE c.info]
      <3>1. v \in [Names -> Infos]
        BY <1>4, <2>1
      <3>2. view' = [view EXCEPT ![c.sub] = v] /\ heard' = heard
        BY <1>1, <2>3
      <3>. HIDE DEF v
      <3>. QED
        BY <2>1, <3>1, <3>2 DEF ToldTypes
    <2>. QED
      BY <2>2, <2>3
  <1>8. CallsAreTold' /\ OneTells' /\ CallsForKnown'
    BY <1>0, <1>2, <1>3 DEF CallsAreTold, OneTells, CallsForKnown
  <1>9. StatusFollows'
    <2>. SUFFICES ASSUME ~overlap PROVE StatusFollows'
      BY <1>2 DEF StatusFollows
    <2>1. \A o \in Runs : \A x \in calls'[o] : x.kind = "status" => got'[o].reachable = status'
      BY <1>0, <1>2, <1>3 DEF StatusFollows
    <2>2. ASSUME NEW s \in Subs, subs[s] = "on", heard'[s] # status
          PROVE  \E o \in Runs : \E x \in calls'[o] : AboutStatus(x, s)
      <3>1. c.kind = "status" => got[r].reachable = status
        BY <1>0 DEF StatusFollows
      <3>2. ~AboutStatus(c, s) /\ heard[s] # status
        BY <1>0, <1>1, <1>4, <2>2, <3>1 DEF AboutStatus, ToldTypes
      <3>3. PICK o \in Runs : \E x \in calls[o] : AboutStatus(x, s)
        BY <1>0, <2>2, <3>2 DEF StatusFollows
      <3>4. PICK x \in calls[o] : AboutStatus(x, s)
        BY <3>3
      <3>5. x \in calls'[o]
        BY <1>3, <3>2, <3>4
      <3>. QED
        BY <3>4, <3>5
    <2>. QED
      BY <1>2, <2>1, <2>2 DEF StatusFollows
  <1>10. InterfacesFollow'
    <2>. SUFFICES ASSUME ~overlap PROVE InterfacesFollow'
      BY <1>2 DEF InterfacesFollow
    <2>1. \A o \in Runs : \A x \in calls'[o] : x.kind # "status" =>
            x.name \in Names /\ interfaces[x.name] = IF x.kind = "remove" THEN NoInfo ELSE x.info
      BY <1>0, <1>3 DEF InterfacesFollow
    <2>2. ASSUME NEW s \in Subs, NEW n \in Names, subs[s] = "on", view'[s][n] # interfaces[n]
          PROVE  \E o \in Runs : \E x \in calls'[o] : AboutName(x, s, n)
      <3>1. c.kind # "status" =>
              /\ c.name \in Names
              /\ interfaces[c.name] = IF c.kind = "remove" THEN NoInfo ELSE c.info
        BY <1>0 DEF InterfacesFollow
      <3>2. ~AboutName(c, s, n) /\ view[s][n] # interfaces[n]
        BY <1>0, <1>1, <1>4, <2>2, <3>1 DEF AboutName, ToldTypes
      <3>3. PICK o \in Runs : \E x \in calls[o] : AboutName(x, s, n)
        BY <1>0, <2>2, <3>2 DEF InterfacesFollow
      <3>4. PICK x \in calls[o] : AboutName(x, s, n)
        BY <3>3
      <3>5. x \in calls'[o]
        BY <1>3, <3>2, <3>4
      <3>. QED
        BY <3>4, <3>5
    <2>. QED
      BY <1>2, <2>1, <2>2 DEF InterfacesFollow
  <1>. QED
    BY <1>5, <1>6, <1>7, <1>8, <1>9, <1>10 DEF MonitorInv

\* Whoever subscribes reads the state with it; whoever has left is not told any more.
LEMMA SubscribingKeeps ==
  ASSUME MonitorInv, NEW s \in Subs, Subscribe(s) \/ Unsubscribe(s) PROVE MonitorInv'
  <1>0. /\ EnvironmentTypes /\ StateTypes /\ LoopTypes /\ RunTypes /\ ToldTypes /\ UnusedIsIdle
        /\ CallsAreTold /\ OneTells /\ CallsForKnown /\ StatusFollows /\ InterfacesFollow
    BY DEF MonitorInv
  <1>1. /\ UNCHANGED <<up, wires, changes, current, loop, cancelled, closers>>
        /\ UNCHANGED <<targets, status, interfaces, pc, got, calls, overlap>>
        /\ subs' \in [Subs -> {"new", "on", "closed"}]
        /\ \A x \in Subs : x # s => subs'[x] = subs[x] /\ heard'[x] = heard[x] /\ view'[x] = view[x]
        /\ subs'[s] \in {"on", "closed"}
        /\ subs'[s] = "on" => subs[s] = "new" /\ heard'[s] = status /\ view'[s] = interfaces
    BY <1>0 DEF Subscribe, Unsubscribe, network, control, work, told, StateTypes, ToldTypes
  <1>2. EnvironmentTypes' /\ StateTypes' /\ LoopTypes' /\ RunTypes' /\ UnusedIsIdle'
    BY <1>0, <1>1 DEF EnvironmentTypes, StateTypes, LoopTypes, RunTypes, UnusedIsIdle
  <1>3. ToldTypes'
    <2>1. status \in BOOLEAN /\ interfaces \in [Names -> Infos] /\ {overlap'} \subseteq BOOLEAN
      BY <1>0, <1>1 DEF StateTypes, ToldTypes
    <2>2. heard' \in [Subs -> BOOLEAN] /\ view' \in [Subs -> [Names -> Infos]]
      BY <1>0, <2>1 DEF Subscribe, Unsubscribe, told, ToldTypes
    <2>. QED
      BY <2>1, <2>2 DEF ToldTypes
  <1>4. CallsAreTold' /\ OneTells'
    BY <1>0, <1>1 DEF CallsAreTold, OneTells
  <1>5. CallsForKnown'
    <2>1. \A o \in Runs : \A c \in calls[o] : c.sub \in Subs
      BY <1>0 DEF RunTypes, Calls
    <2>. QED
      BY <1>0, <1>1, <2>1 DEF CallsForKnown
  <1>6. StatusFollows'
    BY <1>0, <1>1 DEF StatusFollows
  <1>7. InterfacesFollow'
    BY <1>0, <1>1 DEF InterfacesFollow
  <1>. QED
    BY <1>2, <1>3, <1>4, <1>5, <1>6, <1>7 DEF MonitorInv

\* What lies outside the refreshes and the subscribers may change.
LEMMA AsideKeeps ==
  ASSUME MonitorInv, EnvironmentTypes', LoopTypes', targets' \subseteq Targets,
         UNCHANGED <<status, interfaces, subs, work, told>>,
         \A l \in Loops : loop'[l] = "unused" => loop[l] = "unused"
  PROVE  MonitorInv'
  <1>1. StateTypes' /\ RunTypes' /\ ToldTypes' /\ UnusedIsIdle'
    BY DEF MonitorInv, StateTypes, RunTypes, ToldTypes, UnusedIsIdle, work, told
  <1>2. Informed'
    BY QuietKeepsInformed DEF MonitorInv, Informed, work, told
  <1>. QED
    BY <1>1, <1>2 DEF MonitorInv, Informed

LEMMA MonitorStep == MonitorInv /\ [Next]_monitor => MonitorInv'
  <1>. SUFFICES ASSUME MonitorInv, [Next]_monitor PROVE MonitorInv'
    OBVIOUS
  <1>0. EnvironmentTypes /\ StateTypes /\ LoopTypes /\ RunTypes
    BY DEF MonitorInv
  <1>1. CASE Change
    <2>1. EnvironmentTypes'
      BY <1>0, <1>1, MonitorConstants DEF Change, EnvironmentTypes, MonitorConstants
    <2>2. LoopTypes' /\ targets' \subseteq Targets /\ UNCHANGED <<loop, status, interfaces, subs, work, told>>
      BY <1>0, <1>1 DEF Change, control, state, LoopTypes, StateTypes
    <2>. QED
      BY <2>1, <2>2, AsideKeeps
  <1>2. CASE Close \/ \E l \in Loops : CloseReturns(l) \/ ContextEnds(l) \/ LoopEnds(l)
    <2>1. EnvironmentTypes' /\ targets' \subseteq Targets /\ UNCHANGED <<status, interfaces, subs, work, told>>
      BY <1>0, <1>2
      DEF Close, CloseReturns, ContextEnds, LoopEnds, network, state, EnvironmentTypes, StateTypes
    <2>2. LoopTypes' /\ \A l \in Loops : loop'[l] = "unused" => loop[l] = "unused"
      BY <1>0, <1>2 DEF Close, CloseReturns, ContextEnds, LoopEnds, LoopTypes
    <2>. QED
      BY <2>1, <2>2, AsideKeeps
  <1>3. ASSUME NEW ts \in {Targets, {}}, UpdateTargets(ts) PROVE MonitorInv'
    <2>1. EnvironmentTypes' /\ LoopTypes' /\ targets' \subseteq Targets
      BY <1>0, <1>3 DEF UpdateTargets, network, control, EnvironmentTypes, LoopTypes
    <2>2. UNCHANGED <<loop, status, interfaces, subs, work, told>>
      BY <1>3 DEF UpdateTargets, control
    <2>. QED
      BY <2>1, <2>2, AsideKeeps
  <1>4. CASE Start
    <2>1. PICK l \in Loops :
            /\ current' = l /\ loop' = [loop EXCEPT ![l] = "running"] /\ loop[l] = "unused"
            /\ pc' = [pc EXCEPT ![l] = "probe"] /\ got' = [got EXCEPT ![l] = [got[l] EXCEPT !.asked = targets]]
      BY <1>4 DEF Start
    <2>2. l \in Runs /\ [got[l] EXCEPT !.asked = targets] \in Gots /\ calls[l] = {}
      BY <1>0, <2>1 DEF MonitorInv, UnusedIsIdle, CallsAreTold, RunTypes, StateTypes, Gots, Runs
    <2>3. LoopTypes' /\ loop'[l] # "unused" /\ \A x \in Loops : loop'[x] = "unused" => loop[x] = "unused"
      BY <1>0, <1>4, <2>1 DEF Start, LoopTypes
    <2>. QED
      BY <1>4, <2>1, <2>2, <2>3, RunGoesOn DEF Start
  <1>5. ASSUME NEW r \in Runs, Refresh(r) PROVE MonitorInv'
    <2>1. [got[r] EXCEPT !.asked = targets] \in Gots
      BY <1>0 DEF RunTypes, StateTypes, Gots
    <2>2. calls[r] = {} /\ LoopTypes' /\ loop' = loop /\ (r \in Loops => loop[r] # "unused")
      BY <1>0, <1>5 DEF Refresh, control, MonitorInv, CallsAreTold, LoopTypes
    <2>. QED
      BY <1>5, <2>1, <2>2, RunGoesOn DEF Refresh
  <1>6. ASSUME NEW r \in Runs, pc[r] \in {"probe", "list", "commit"}
        PROVE  calls[r] = {} /\ (r \in Loops => loop[r] # "unused")
    BY <1>6 DEF MonitorInv, CallsAreTold, UnusedIsIdle
  <1>7. ASSUME NEW r \in Runs, Probe(r) PROVE MonitorInv'
    <2>1. PICK ok \in {got[r].asked \cap up} \cup (IF r \in cancelled THEN {{}} ELSE {}) :
            got' = [got EXCEPT ![r] = [got[r] EXCEPT !.asked = {}, !.reachable = ok # {}]]
      BY <1>7 DEF Probe
    <2>2. [got[r] EXCEPT !.asked = {}, !.reachable = ok # {}] \in Gots
      BY <1>0 DEF RunTypes, Gots
    <2>3. LoopTypes' /\ loop' = loop /\ pc[r] = "probe"
      BY <1>0, <1>7 DEF Probe, control, LoopTypes
    <2>. QED
      BY <1>6, <1>7, <2>1, <2>2, <2>3, RunGoesOn DEF Probe
  <1>8. ASSUME NEW r \in Runs, List(r) PROVE MonitorInv'
    <2>1. [got[r] EXCEPT !.found = Listed] \in Gots
      BY <1>0, ListedType DEF RunTypes, Gots
    <2>2. LoopTypes' /\ loop' = loop /\ pc[r] = "list"
      BY <1>0, <1>8 DEF List, control, LoopTypes
    <2>. QED
      BY <1>6, <1>8, <2>1, <2>2, RunGoesOn DEF List
  <1>9. NoResults \in Gots
    BY DEF NoResults, Gots, Nothing, Infos
  <1>10. ASSUME NEW r \in Runs, RefreshFails(r) \/ RefreshEnds(r) PROVE MonitorInv'
    <2>1. LoopTypes' /\ loop' = loop /\ calls[r] = {}
      BY <1>0, <1>6, <1>10 DEF RefreshFails, RefreshEnds, control, LoopTypes
    <2>2. /\ pc' = [pc EXCEPT ![r] = "idle"] /\ got' = [got EXCEPT ![r] = NoResults]
          /\ UNCHANGED <<network, state, calls, told>>
      BY <1>10 DEF RefreshFails, RefreshEnds
    <2>. QED
      BY <1>9, <2>1, <2>2, RunGoesOn
  <1>11. CASE UNCHANGED monitor
    <2>1. /\ EnvironmentTypes' /\ LoopTypes' /\ targets' \subseteq Targets
          /\ UNCHANGED <<loop, status, interfaces, subs, work, told>>
      BY <1>0, <1>11 DEF monitor, network, control, state, EnvironmentTypes, LoopTypes, StateTypes
    <2>. QED
      BY <2>1, AsideKeeps
  <1>. QED
    BY <1>1, <1>2, <1>3, <1>4, <1>5, <1>7, <1>8, <1>10, <1>11, CommitKeeps, TellKeeps,
       SubscribingKeeps
    DEF Next, RefreshStep

LEMMA MonitorInvKnows == MonitorInv => TypeOK /\ SubscribersKnow
  <1>. SUFFICES ASSUME MonitorInv PROVE TypeOK /\ SubscribersKnow
    OBVIOUS
  <1>1. TypeOK
    <2>1. \A r \in Runs : \A c \in calls[r] : c \in Calls
      BY DEF MonitorInv, RunTypes
    <2>. QED
      BY <2>1
      DEF MonitorInv, EnvironmentTypes, StateTypes, LoopTypes, RunTypes, ToldTypes, Gots, Calls,
          TypeOK
  <1>2. ASSUME ~overlap, \A r \in Runs : calls[r] = {}, NEW s \in Subs, subs[s] = "on"
        PROVE  heard[s] = status /\ view[s] = interfaces
    <2>1. heard[s] = status
      BY <1>2 DEF MonitorInv, StatusFollows
    <2>2. \A n \in Names : view[s][n] = interfaces[n]
      BY <1>2 DEF MonitorInv, InterfacesFollow
    <2>3. view[s] \in [Names -> Infos] /\ interfaces \in [Names -> Infos]
      BY DEF MonitorInv, ToldTypes, StateTypes
    <2>. QED
      BY <2>1, <2>2, <2>3
  <1>. QED
    BY <1>1, <1>2 DEF SubscribersKnow

-----------------------------------------------------------------------------
(* The steps of the central gateways *)

\* What handleEvent does to the table: a valid record replaces or leaves the service of its group.
LEMMA HandleEventDoes ==
  ASSUME ServiceTypes, NEW r \in Central!Records, NEW type, NEW b \in Browses,
         Central!HandleEvent(b, type, r)
  PROVE  /\ services' \in [Central!Groups -> CRecords]
         /\ \A p \in Central!Groups : p # Central!Group(r) => services'[p] = services[p]
         /\ ~Central!Valid(r) => services' = services
         /\ Central!Valid(r) /\ type # "removed" => services'[Central!Group(r)] = r
         /\ Central!Valid(r) /\ type = "removed" => services'[Central!Group(r)] = NoRecord
  <1>. DEFINE p == Central!Group(r)
              new == IF type = "removed" THEN NoRecord ELSE r
  <1>1. p \in Central!Groups
    BY DEF Central!Groups, Central!Group, Central!Records
  <1>2. services \in [Central!Groups -> CRecords] /\ new \in CRecords
    BY DEF ServiceTypes, CRecords
  <1>3. CASE ~Central!Valid(r)
    BY <1>2, <1>3 DEF Central!HandleEvent
  <1>4. CASE Central!Valid(r) /\ type = "removed" /\ services[p] = NoRecord
    BY <1>1, <1>2, <1>4 DEF Central!HandleEvent, Central!Known
  <1>5. CASE Central!Valid(r) /\ ~(type = "removed" /\ services[p] = NoRecord)
    <2>1. services' = [services EXCEPT ![p] = new]
      BY <1>5 DEF Central!HandleEvent, Central!Known
    <2>. HIDE DEF p
    <2>. QED
      BY <1>1, <1>2, <1>5, <2>1 DEF p
  <1>. QED
    BY <1>3, <1>4, <1>5

\* The record that an entry brings.
LEMMA EntryDoes ==
  ASSUME ServiceTypes, KnownTypes, RecordsAreNamed, CentralConstants,
         NEW b \in Browses, NEW g \in Gateways, Central!Entry(b, g)
  PROVE  /\ world[g] \in Central!Records /\ world[g].name = g /\ world[g] # NoRecord
         /\ Central!Group(world[g]) = GroupOf[g]
         /\ \E type : type # "removed" /\ Central!HandleEvent(b, type, world[g])
         /\ browse[b] # "unused" /\ queue[b] = {}
         /\ known'[b][g] = world[g] /\ old'[b] = old[b] \ {g}
         /\ \A h \in Gateways : h # g => known'[b][h] = known[b][h]
         /\ \A x \in Browses : x # b => known'[x] = known[x] /\ old'[x] = old[x]
         /\ known' \in [Browses -> [Gateways -> CRecords]] /\ old' \in [Browses -> SUBSET Gateways]
         /\ UNCHANGED <<world, browsing, caller, browse, queue, steady>>
  <1>1. world[g] \in Central!Records /\ world[g] # NoRecord
    BY DEF Central!Entry, Central!HasProfile, ServiceTypes, CRecords
  <1>2. world[g].name = g /\ Central!Group(world[g]) = GroupOf[g]
    BY <1>1 DEF RecordsAreNamed, Central!Group
  <1>3. \E type : type # "removed" /\ Central!HandleEvent(b, type, world[g])
    <2>1. (IF known[b][g] = NoRecord THEN "added" ELSE "updated") # "removed"
      OBVIOUS
    <2>2. Central!HandleEvent(b, IF known[b][g] = NoRecord THEN "added" ELSE "updated", world[g])
      BY DEF Central!Entry
    <2>. QED
      BY <2>1, <2>2
  <1>4. browse[b] # "unused" /\ queue[b] = {} /\ UNCHANGED <<world, browsing, caller, browse, queue, steady>>
    BY DEF Central!Entry, Central!Selects, Central!Running
  <1>5. /\ known' = [known EXCEPT ![b] = [known[b] EXCEPT ![g] = world[g]]]
        /\ old' = [old EXCEPT ![b] = old[b] \ {g}]
    BY DEF Central!Entry
  <1>6. world[g] \in CRecords
    BY <1>1 DEF CRecords
  <1>. HIDE DEF CRecords
  <1>. QED
    BY <1>1, <1>2, <1>3, <1>4, <1>5, <1>6 DEF KnownTypes

\* What a tick of the browser takes out of the records.
LEMMA SweepDoes ==
  ASSUME KnownTypes, RecordsAreNamed, ExpiredIsKnown, NEW b \in Browses, Central!Sweep(b)
  PROVE  /\ queue[b] = {} /\ browse[b] # "unused"
         /\ queue'[b] = {known[b][g] : g \in old[b]} /\ queue'[b] \subseteq Central!Records
         /\ \A g \in Gateways : known'[b][g] = IF g \in old[b] THEN NoRecord ELSE known[b][g]
         /\ \A x \in Browses : x # b => known'[x] = known[x] /\ old'[x] = old[x] /\ queue'[x] = queue[x]
         /\ old'[b] = {} /\ old' \in [Browses -> SUBSET Gateways]
         /\ known' \in [Browses -> [Gateways -> CRecords]] /\ queue' \in [Browses -> SUBSET Central!Records]
         /\ UNCHANGED <<world, services, browsing, caller, browse, steady>>
  <1>. DEFINE gone == {known[b][g] : g \in old[b]}
              left == [g \in Gateways |-> IF g \in old[b] THEN NoRecord ELSE known[b][g]]
  <1>1. /\ queue[b] = {} /\ browse[b] # "unused"
        /\ queue' = [queue EXCEPT ![b] = gone] /\ known' = [known EXCEPT ![b] = left]
        /\ old' = [old EXCEPT ![b] = {}]
        /\ UNCHANGED <<world, services, browsing, caller, browse, steady>>
    BY DEF Central!Sweep, Central!Selects, Central!Running, Central!tracker
  <1>2. gone \subseteq Central!Records
    <2>1. \A g \in old[b] : g \in Gateways /\ known[b][g] # NoRecord /\ known[b][g] \in CRecords
      BY DEF KnownTypes, ExpiredIsKnown
    <2>. QED
      BY <2>1 DEF CRecords
  <1>3. left \in [Gateways -> CRecords]
    BY DEF KnownTypes, CRecords
  <1>4. \A g \in Gateways : left[g] = IF g \in old[b] THEN NoRecord ELSE known[b][g]
    OBVIOUS
  <1>. HIDE DEF left
  <1>5. queue'[b] = gone /\ known'[b] = left
    BY <1>1 DEF KnownTypes
  <1>6. \A x \in Browses : x # b => known'[x] = known[x] /\ old'[x] = old[x] /\ queue'[x] = queue[x]
    BY <1>1 DEF KnownTypes
  <1>7. /\ old'[b] = {} /\ old' \in [Browses -> SUBSET Gateways]
        /\ known' \in [Browses -> [Gateways -> CRecords]] /\ queue' \in [Browses -> SUBSET Central!Records]
    BY <1>1, <1>2, <1>3 DEF KnownTypes
  <1>. QED
    BY <1>1, <1>2, <1>4, <1>5, <1>6, <1>7

\* A removal, handled.
LEMMA RemoveDoes ==
  ASSUME ServiceTypes, KnownTypes, NEW b \in Browses, NEW r \in queue[b], Central!Remove(b, r)
  PROVE  /\ r \in Central!Records /\ Central!HandleEvent(b, "removed", r)
         /\ queue'[b] = queue[b] \ {r} /\ \A x \in Browses : x # b => queue'[x] = queue[x]
         /\ queue' \in [Browses -> SUBSET Central!Records]
         /\ UNCHANGED <<world, browsing, caller, browse, known, old, steady>>
  BY DEF Central!Remove, KnownTypes

LEMMA CentralStarts == Central!Init => CentralInv
  <1>. SUFFICES ASSUME Central!Init PROVE CentralInv
    OBVIOUS
  <1>1. {TRUE} \subseteq BOOLEAN
    OBVIOUS
  <1>2. ServiceTypes /\ BrowseTypes /\ KnownTypes
    BY <1>1 DEF Central!Init, ServiceTypes, BrowseTypes, KnownTypes, CRecords
  <1>. QED
    BY <1>2 DEF Central!Init, CentralInv, RecordsAreNamed, ServicesAreValid, ExpiredIsKnown,
       RemovedIsUnknown, UnusedIsEmpty, OneBrowse, ServiceIsKnown

LEMMA SameCount == \A T : Central!Cardinality(T) = Cardinality(T)
  BY DEF Cardinality, Central!Cardinality

\* A plain gateway has one role and its group to itself.
LEMMA PlainIs ==
  ASSUME NEW g \in Gateways, Central!Plain(g)
  PROVE  /\ \A x, y \in Central!Records : x.name = g /\ y.name = g => x.role = y.role
         /\ \A o \in Gateways : GroupOf[o] = GroupOf[g] => o = g
  <1>1. Cardinality(RolesOf[g]) = 1 /\ IsFiniteSet(RolesOf[g])
    BY SameCount, CentralConstants DEF Central!Plain, CentralConstants
  <1>2. PICK role : RolesOf[g] = {role}
    BY <1>1, FS_Singleton
  <1>. QED
    BY <1>2 DEF Central!Records, Central!Plain

\* An entry that arrives keeps the invariant.
LEMMA EntryKeeps ==
  ASSUME CentralInv, NEW b \in Browses, NEW g \in Gateways, Central!Entry(b, g)
  PROVE  CentralInv'
  <1>0. /\ ServiceTypes /\ BrowseTypes /\ KnownTypes /\ RecordsAreNamed /\ ServicesAreValid
        /\ ExpiredIsKnown /\ RemovedIsUnknown /\ UnusedIsEmpty /\ OneBrowse /\ ServiceIsKnown
    BY DEF CentralInv
  <1>1. world[g] \in Central!Records /\ world[g].name = g /\ world[g] # NoRecord
    BY <1>0, CentralConstants, EntryDoes
  <1>2. Central!Group(world[g]) = GroupOf[g] /\ GroupOf[g] \in Central!Groups
    BY <1>0, CentralConstants, EntryDoes DEF Central!Groups
  <1>3. /\ browse[b] # "unused" /\ queue[b] = {}
        /\ known'[b][g] = world[g] /\ old'[b] = old[b] \ {g}
        /\ \A h \in Gateways : h # g => known'[b][h] = known[b][h]
        /\ \A x \in Browses : x # b => known'[x] = known[x] /\ old'[x] = old[x]
        /\ UNCHANGED <<world, browsing, caller, browse, queue, steady>>
    BY <1>0, CentralConstants, EntryDoes
  <1>4. known' \in [Browses -> [Gateways -> CRecords]] /\ old' \in [Browses -> SUBSET Gateways]
    BY <1>0, CentralConstants, EntryDoes
  <1>5. PICK type : type # "removed" /\ Central!HandleEvent(b, type, world[g])
    BY <1>0, CentralConstants, EntryDoes
  <1>6. /\ services' \in [Central!Groups -> CRecords]
        /\ \A p \in Central!Groups : p # GroupOf[g] => services'[p] = services[p]
        /\ ~Central!Valid(world[g]) => services' = services
        /\ Central!Valid(world[g]) => services'[GroupOf[g]] = world[g]
    BY <1>1, <1>2, <1>5, <1>0, HandleEventDoes
  <1>10. ServiceTypes'
    BY <1>0, <1>1, <1>2, <1>3, <1>4, <1>6 DEF ServiceTypes
  <1>11. BrowseTypes'
    BY <1>0, <1>1, <1>2, <1>3, <1>4, <1>6 DEF BrowseTypes
  <1>12. KnownTypes'
    BY <1>0, <1>1, <1>2, <1>3, <1>4, <1>6 DEF KnownTypes
  <1>13. RecordsAreNamed'
    BY <1>0, <1>1, <1>2, <1>3, <1>4, <1>6 DEF RecordsAreNamed
  <1>14. ServicesAreValid'
    BY <1>0, <1>1, <1>2, <1>3, <1>4, <1>6 DEF ServicesAreValid
  <1>15. ExpiredIsKnown'
    <2>1. \A h \in old'[b] : h # g /\ h \in old[b] /\ h \in Gateways
      BY <1>0, <1>3 DEF KnownTypes
    <2>. QED
      BY <1>0, <1>3, <2>1 DEF ExpiredIsKnown
  <1>16. RemovedIsUnknown'
    <2>. SUFFICES ASSUME NEW x \in Browses, NEW y \in queue[x] PROVE known'[x][y.name] = NoRecord
      BY <1>3 DEF RemovedIsUnknown
    <2>1. x # b /\ known'[x] = known[x]
      BY <1>3
    <2>. QED
      BY <1>0, <2>1 DEF RemovedIsUnknown
  <1>17. UnusedIsEmpty'
    BY <1>0, <1>1, <1>2, <1>3, <1>4, <1>6 DEF UnusedIsEmpty
  <1>18. OneBrowse'
    BY <1>0, <1>1, <1>2, <1>3, <1>4, <1>6 DEF OneBrowse
  <1>19. ServiceIsKnown'
    <2>. SUFFICES ASSUME steady, NEW x \in Browses, NEW h \in Gateways, Central!Plain(h),
                         browse[x] # "unused"
                  PROVE  /\ known'[x][h] # NoRecord /\ Central!Valid(known'[x][h]) =>
                              services'[GroupOf[h]] = known'[x][h]
                         /\ services'[GroupOf[h]] # NoRecord =>
                              services'[GroupOf[h]] = known'[x][h] \/ services'[GroupOf[h]] \in queue'[x]
      BY <1>0, <1>3 DEF ServiceIsKnown
    <2>7. x = b /\ GroupOf[h] \in Central!Groups
      BY <1>0, <1>3 DEF OneBrowse, Central!Groups
    <2>8. /\ known[b][h] # NoRecord /\ Central!Valid(known[b][h]) => services[GroupOf[h]] = known[b][h]
          /\ services[GroupOf[h]] # NoRecord =>
               services[GroupOf[h]] = known[b][h] \/ services[GroupOf[h]] \in queue[b]
      BY <1>0, <2>7 DEF ServiceIsKnown
    <2>9. CASE h # g
      <3>1. GroupOf[h] # GroupOf[g]
        BY <2>9, PlainIs
      <3>2. services'[GroupOf[h]] = services[GroupOf[h]] /\ known'[b][h] = known[b][h]
        BY <1>3, <1>6, <2>7, <2>9, <3>1
      <3>. QED
        BY <1>3, <2>7, <2>8, <3>2
    <2>10. CASE h = g /\ Central!Valid(world[g])
      BY <1>3, <1>6, <2>7, <2>10
    <2>11. CASE h = g /\ ~Central!Valid(world[g])
      <3>1. services' = services /\ known'[b][h] = world[g]
        BY <1>3, <1>6, <2>11
      <3>2. services[GroupOf[h]] = NoRecord
        <4>. SUFFICES ASSUME services[GroupOf[h]] # NoRecord PROVE FALSE
          OBVIOUS
        <4>1. Central!Valid(services[GroupOf[h]]) /\ services[GroupOf[h]] = known[b][h]
          BY <1>0, <1>3, <2>7, <2>8 DEF ServicesAreValid
        <4>2. known[b][h] \in Central!Records /\ known[b][h].name = h
          BY <1>0, <4>1 DEF KnownTypes, CRecords, RecordsAreNamed
        <4>3. known[b][h].role = world[g].role
          BY <1>1, <2>11, <4>2, PlainIs
        <4>. QED
          BY <2>11, <4>1, <4>3 DEF Central!Valid, Central!Parses
      <3>. QED
        BY <2>7, <2>11, <3>1, <3>2
    <2>. QED
      BY <2>9, <2>10, <2>11
  <1>. QED
    BY <1>10, <1>11, <1>12, <1>13, <1>14, <1>15, <1>16, <1>17, <1>18, <1>19 DEF CentralInv

\* So does a tick of the browser ...
LEMMA SweepKeeps ==
  ASSUME CentralInv, NEW b \in Browses, Central!Sweep(b)
  PROVE  CentralInv'
  <1>0. /\ ServiceTypes /\ BrowseTypes /\ KnownTypes /\ RecordsAreNamed /\ ServicesAreValid
        /\ ExpiredIsKnown /\ RemovedIsUnknown /\ UnusedIsEmpty /\ OneBrowse /\ ServiceIsKnown
    BY DEF CentralInv
  <1>1. /\ queue[b] = {} /\ browse[b] # "unused"
        /\ queue'[b] = {known[b][g] : g \in old[b]}
        /\ \A g \in Gateways : known'[b][g] = IF g \in old[b] THEN NoRecord ELSE known[b][g]
        /\ \A x \in Browses : x # b => known'[x] = known[x] /\ old'[x] = old[x] /\ queue'[x] = queue[x]
        /\ old'[b] = {}
        /\ UNCHANGED <<world, services, browsing, caller, browse, steady>>
    BY <1>0, SweepDoes
  <1>2. /\ old' \in [Browses -> SUBSET Gateways]
        /\ known' \in [Browses -> [Gateways -> CRecords]] /\ queue' \in [Browses -> SUBSET Central!Records]
    BY <1>0, SweepDoes
  <1>3. \A g \in old[b] : g \in Gateways
    BY <1>0 DEF KnownTypes
  <1>10. ServiceTypes'
    BY <1>0, <1>1, <1>2, <1>3 DEF ServiceTypes
  <1>11. BrowseTypes'
    BY <1>0, <1>1, <1>2, <1>3 DEF BrowseTypes
  <1>12. KnownTypes'
    BY <1>0, <1>1, <1>2, <1>3 DEF KnownTypes
  <1>13. RecordsAreNamed'
    BY <1>0, <1>1, <1>2, <1>3 DEF RecordsAreNamed
  <1>14. ServicesAreValid'
    BY <1>0, <1>1, <1>2, <1>3 DEF ServicesAreValid
  <1>15. ExpiredIsKnown'
    BY <1>0, <1>1, <1>2, <1>3 DEF ExpiredIsKnown
  <1>16. RemovedIsUnknown'
    <2>1. \A y \in queue'[b] : \E g \in old[b] : y = known[b][g] /\ y.name = g
      BY <1>0, <1>1, <1>3 DEF RecordsAreNamed, ExpiredIsKnown
    <2>2. \A y \in queue'[b] : known'[b][y.name] = NoRecord
      BY <1>1, <1>3, <2>1
    <2>. QED
      BY <1>0, <1>1, <2>2 DEF RemovedIsUnknown
  <1>17. UnusedIsEmpty'
    BY <1>0, <1>1, <1>2, <1>3 DEF UnusedIsEmpty
  <1>18. OneBrowse'
    BY <1>0, <1>1, <1>2, <1>3 DEF OneBrowse
  <1>19. ServiceIsKnown'
    <2>. SUFFICES ASSUME steady, NEW x \in Browses, NEW h \in Gateways, Central!Plain(h),
                         browse[x] # "unused"
                  PROVE  /\ known'[x][h] # NoRecord /\ Central!Valid(known'[x][h]) =>
                              services'[GroupOf[h]] = known'[x][h]
                         /\ services'[GroupOf[h]] # NoRecord =>
                              services'[GroupOf[h]] = known'[x][h] \/ services'[GroupOf[h]] \in queue'[x]
      BY <1>0, <1>1 DEF ServiceIsKnown
    <2>4. x = b /\ GroupOf[h] \in Central!Groups
      BY <1>0, <1>1 DEF OneBrowse, Central!Groups
    <2>5. /\ known[b][h] # NoRecord /\ Central!Valid(known[b][h]) => services[GroupOf[h]] = known[b][h]
          /\ services[GroupOf[h]] # NoRecord =>
               services[GroupOf[h]] = known[b][h] \/ services[GroupOf[h]] \in queue[b]
      BY <1>0, <2>4 DEF ServiceIsKnown
    <2>6. CASE h \in old[b]
      <3>1. known[b][h] \in queue'[b] /\ known'[b][h] = NoRecord
        BY <1>1, <2>6
      <3>. QED
        BY <1>1, <2>4, <2>5, <3>1
    <2>7. CASE h \notin old[b]
      <3>1. known'[b][h] = known[b][h] /\ services' = services
        BY <1>1, <2>7
      <3>. QED
        BY <1>1, <2>4, <2>5, <3>1
    <2>. QED
      BY <2>6, <2>7
  <1>. QED
    BY <1>10, <1>11, <1>12, <1>13, <1>14, <1>15, <1>16, <1>17, <1>18, <1>19 DEF CentralInv

\* ... and each removal that it reports.
LEMMA RemoveKeeps ==
  ASSUME CentralInv, NEW b \in Browses, NEW r \in queue[b], Central!Remove(b, r)
  PROVE  CentralInv'
  <1>0. /\ ServiceTypes /\ BrowseTypes /\ KnownTypes /\ RecordsAreNamed /\ ServicesAreValid
        /\ ExpiredIsKnown /\ RemovedIsUnknown /\ UnusedIsEmpty /\ OneBrowse /\ ServiceIsKnown
    BY DEF CentralInv
  <1>1. /\ r \in Central!Records /\ Central!HandleEvent(b, "removed", r)
        /\ queue'[b] = queue[b] \ {r} /\ \A x \in Browses : x # b => queue'[x] = queue[x]
        /\ queue' \in [Browses -> SUBSET Central!Records]
        /\ UNCHANGED <<world, browsing, caller, browse, known, old, steady>>
    BY <1>0, RemoveDoes
  <1>2. /\ services' \in [Central!Groups -> CRecords]
        /\ \A p \in Central!Groups : p # Central!Group(r) => services'[p] = services[p]
        /\ ~Central!Valid(r) => services' = services
        /\ Central!Valid(r) => services'[Central!Group(r)] = NoRecord
    BY <1>1, <1>0, HandleEventDoes
  <1>3. Central!Group(r) \in Central!Groups /\ r.name \in Gateways /\ Central!Group(r) = GroupOf[r.name]
    BY <1>1 DEF Central!Groups, Central!Group, Central!Records
  <1>9. browse[b] # "unused"
    BY <1>0 DEF UnusedIsEmpty
  <1>10. ServiceTypes'
    BY <1>0, <1>1, <1>2, <1>3 DEF ServiceTypes
  <1>11. BrowseTypes'
    BY <1>0, <1>1, <1>2, <1>3 DEF BrowseTypes
  <1>12. KnownTypes'
    BY <1>0, <1>1, <1>2, <1>3 DEF KnownTypes
  <1>13. RecordsAreNamed'
    BY <1>0, <1>1, <1>2, <1>3 DEF RecordsAreNamed
  <1>14. ServicesAreValid'
    BY <1>0, <1>1, <1>2, <1>3 DEF ServicesAreValid
  <1>15. ExpiredIsKnown'
    BY <1>0, <1>1, <1>2, <1>3 DEF ExpiredIsKnown
  <1>16. RemovedIsUnknown'
    BY <1>0, <1>1, <1>2, <1>3 DEF RemovedIsUnknown
  <1>17. UnusedIsEmpty'
    <2>1. \A x \in Browses : queue[x] = {} => queue'[x] = {}
      BY <1>1
    <2>. QED
      BY <1>0, <1>1, <1>9, <2>1 DEF UnusedIsEmpty
  <1>18. OneBrowse'
    BY <1>0, <1>1, <1>2, <1>3 DEF OneBrowse
  <1>19. ServiceIsKnown'
    <2>. SUFFICES ASSUME steady, NEW x \in Browses, NEW h \in Gateways, Central!Plain(h),
                         browse[x] # "unused"
                  PROVE  /\ known'[x][h] # NoRecord /\ Central!Valid(known'[x][h]) =>
                              services'[GroupOf[h]] = known'[x][h]
                         /\ services'[GroupOf[h]] # NoRecord =>
                              services'[GroupOf[h]] = known'[x][h] \/ services'[GroupOf[h]] \in queue'[x]
      BY <1>0, <1>1 DEF ServiceIsKnown
    <2>4. x = b /\ GroupOf[h] \in Central!Groups
      BY <1>0, <1>9, <1>1 DEF OneBrowse, Central!Groups
    <2>5. /\ known[b][h] # NoRecord /\ Central!Valid(known[b][h]) => services[GroupOf[h]] = known[b][h]
          /\ services[GroupOf[h]] # NoRecord =>
               services[GroupOf[h]] = known[b][h] \/ services[GroupOf[h]] \in queue[b]
      BY <1>0, <2>4 DEF ServiceIsKnown
    <2>6. services[GroupOf[h]] # NoRecord =>
            Central!Valid(services[GroupOf[h]]) /\ GroupOf[services[GroupOf[h]].name] = GroupOf[h]
      BY <1>0, <2>4 DEF ServicesAreValid, Central!Group
    <2>7. CASE r.name = h
      <3>1. known[b][h] = NoRecord
        BY <1>0, <2>7 DEF RemovedIsUnknown
      <3>2. CASE Central!Valid(r)
        BY <1>1, <1>2, <1>3, <2>4, <2>7, <3>1, <3>2
      <3>3. CASE ~Central!Valid(r)
        <4>1. services[GroupOf[h]] # NoRecord => services[GroupOf[h]] # r
          BY <2>6, <3>3
        <4>. QED
          BY <1>1, <1>2, <2>4, <2>5, <3>1, <3>3, <4>1
      <3>. QED
        BY <3>2, <3>3
    <2>8. CASE r.name # h
      <3>1. GroupOf[r.name] # GroupOf[h]
        BY <1>3, <2>8, PlainIs
      <3>2. services'[GroupOf[h]] = services[GroupOf[h]]
        BY <1>2, <1>3, <2>4, <3>1
      <3>3. services[GroupOf[h]] # NoRecord => services[GroupOf[h]] # r
        BY <2>6, <3>1
      <3>. QED
        BY <1>1, <2>4, <2>5, <3>2, <3>3
    <2>. QED
      BY <2>7, <2>8
  <1>. QED
    BY <1>10, <1>11, <1>12, <1>13, <1>14, <1>15, <1>16, <1>17, <1>18, <1>19 DEF CentralInv

LEMMA CentralStep == CentralInv /\ [Central!Next]_centrals => CentralInv'
  <1>. SUFFICES ASSUME CentralInv, [Central!Next]_centrals PROVE CentralInv'
    OBVIOUS
  <1>0. /\ ServiceTypes /\ BrowseTypes /\ KnownTypes /\ RecordsAreNamed /\ ServicesAreValid
        /\ ExpiredIsKnown /\ RemovedIsUnknown /\ UnusedIsEmpty /\ OneBrowse /\ ServiceIsKnown
    BY DEF CentralInv
  <1>1. CASE Central!Close
    <2>1. UNCHANGED <<known, old, queue, services, steady, world>>
      BY <1>1 DEF Central!Close, Central!tracker, Central!browser
    <2>2. /\ browsing' \in Browses \cup {Central!NoBrowse} /\ caller' \in [Starters -> {"idle", "browse"}]
          /\ browse' \in [Browses -> {"unused", "live", "cancelled", "ended"}]
      BY <1>1, <1>0 DEF Central!Close, Central!tracker, Central!browser, BrowseTypes
    <2>4. browsing \in Browses
      BY <1>1, <1>0 DEF Central!Close, BrowseTypes
    <2>3. \A x \in Browses : browse'[x] = "unused" <=> browse[x] = "unused"
      BY <1>1, <1>0, <2>4 DEF Central!Close, BrowseTypes
    <2>. QED
      BY <1>0, <2>1, <2>2, <2>3
      DEF CentralInv, ServiceTypes, BrowseTypes, KnownTypes, RecordsAreNamed, ServicesAreValid,
          ExpiredIsKnown, RemovedIsUnknown, UnusedIsEmpty, OneBrowse, ServiceIsKnown
  <1>2. ASSUME NEW g \in Gateways, Central!Advertise(g) PROVE CentralInv'
    <2>1. PICK r \in {x \in Central!Records : x.name = g} \cup {NoRecord} : world' = [world EXCEPT ![g] = r]
      BY <1>2 DEF Central!Advertise
    <2>2. r \in CRecords
      BY DEF CRecords
    <2>3. UNCHANGED <<services, browsing, caller, browse, known, old, queue, steady>>
      BY <1>2 DEF Central!Advertise, Central!tracker, Central!browser
    <2>4. world' \in [Gateways -> CRecords] /\ \A h \in Gateways : world'[h] # NoRecord => world'[h].name = h
      BY <1>0, <2>1, <2>2 DEF ServiceTypes, RecordsAreNamed
    <2>. QED
      BY <1>0, <2>3, <2>4
      DEF CentralInv, ServiceTypes, BrowseTypes, KnownTypes, RecordsAreNamed, ServicesAreValid,
          ExpiredIsKnown, RemovedIsUnknown, UnusedIsEmpty, OneBrowse, ServiceIsKnown
  <1>3. ASSUME NEW c \in Starters, Central!Start(c) PROVE CentralInv'
    <2>1. UNCHANGED <<known, old, queue, services, steady, world>>
      BY <1>3 DEF Central!Start, Central!tracker, Central!browser
    <2>2. /\ browsing' \in Browses \cup {Central!NoBrowse} /\ caller' \in [Starters -> {"idle", "browse"}]
          /\ browse' \in [Browses -> {"unused", "live", "cancelled", "ended"}]
      BY <1>3, <1>0 DEF Central!Start, Central!tracker, Central!browser, BrowseTypes
    <2>3. \A x \in Browses : browse'[x] = "unused" <=> browse[x] = "unused"
      BY <1>3, <1>0 DEF Central!Start, Central!browser, BrowseTypes
    <2>. QED
      BY <1>0, <2>1, <2>2, <2>3
      DEF CentralInv, ServiceTypes, BrowseTypes, KnownTypes, RecordsAreNamed, ServicesAreValid,
          ExpiredIsKnown, RemovedIsUnknown, UnusedIsEmpty, OneBrowse, ServiceIsKnown
  <1>4. ASSUME NEW c \in Starters, Central!Browse(c) PROVE CentralInv'
    <2>1. UNCHANGED <<world, services, known, old, queue>> /\ BrowseTypes' /\ {steady'} \subseteq BOOLEAN
      BY <1>0, <1>4 DEF Central!Browse, BrowseTypes, ServiceTypes
    <2>2. CASE UNCHANGED <<browse, steady>>
      BY <1>0, <2>1, <2>2
      DEF CentralInv, ServiceTypes, KnownTypes, RecordsAreNamed, ServicesAreValid,
          ExpiredIsKnown, RemovedIsUnknown, UnusedIsEmpty, OneBrowse, ServiceIsKnown
    <2>3. ASSUME NEW b \in Browses, browse' = [browse EXCEPT ![b] = "live"],
                 steady' = \A x \in Browses : browse[x] = "unused"
          PROVE  CentralInv'
      <3>1. browse'[b] = "live" /\ \A x \in Browses : x # b => browse'[x] = browse[x]
        BY <1>0, <2>3 DEF BrowseTypes
      <3>2. OneBrowse'
        BY <2>3, <3>1 DEF OneBrowse
      <3>3. steady' => \A x \in Browses, g \in Gateways :
                         services[GroupOf[g]] = NoRecord /\ known[x][g] = NoRecord
        BY <1>0, <2>3, ZenonT(60) DEF UnusedIsEmpty, Central!Groups
      <3>4. ServiceIsKnown'
        BY <2>1, <3>3 DEF ServiceIsKnown
      <3>5. UnusedIsEmpty'
        BY <1>0, <2>1, <3>1 DEF UnusedIsEmpty
      <3>. QED
        BY <1>0, <2>1, <3>2, <3>4, <3>5
        DEF CentralInv, ServiceTypes, KnownTypes, RecordsAreNamed, ServicesAreValid, ExpiredIsKnown,
            RemovedIsUnknown
    <2>. QED
      BY <1>4, <2>2, <2>3 DEF Central!Browse
  <1>5. ASSUME NEW b \in Browses, Central!ContextEnds(b) PROVE CentralInv'
    <2>1. UNCHANGED <<known, old, queue, services, steady, world>>
      BY <1>5 DEF Central!ContextEnds, Central!tracker, Central!browser
    <2>2. /\ browsing' \in Browses \cup {Central!NoBrowse} /\ caller' \in [Starters -> {"idle", "browse"}]
          /\ browse' \in [Browses -> {"unused", "live", "cancelled", "ended"}]
      BY <1>5, <1>0 DEF Central!ContextEnds, Central!tracker, Central!browser, BrowseTypes
    <2>3. \A x \in Browses : browse'[x] = "unused" <=> browse[x] = "unused"
      BY <1>5, <1>0 DEF Central!ContextEnds, Central!browser, BrowseTypes
    <2>. QED
      BY <1>0, <2>1, <2>2, <2>3
      DEF CentralInv, ServiceTypes, BrowseTypes, KnownTypes, RecordsAreNamed, ServicesAreValid,
          ExpiredIsKnown, RemovedIsUnknown, UnusedIsEmpty, OneBrowse, ServiceIsKnown
  <1>6. ASSUME NEW b \in Browses, Central!BrowseEnds(b) PROVE CentralInv'
    <2>1. UNCHANGED <<known, old, queue, services, steady, world>>
      BY <1>6 DEF Central!BrowseEnds, Central!tracker, Central!browser
    <2>2. /\ browsing' \in Browses \cup {Central!NoBrowse} /\ caller' \in [Starters -> {"idle", "browse"}]
          /\ browse' \in [Browses -> {"unused", "live", "cancelled", "ended"}]
      BY <1>6, <1>0 DEF Central!BrowseEnds, Central!tracker, Central!browser, BrowseTypes
    <2>3. \A x \in Browses : browse'[x] = "unused" <=> browse[x] = "unused"
      BY <1>6, <1>0 DEF Central!BrowseEnds, Central!browser, BrowseTypes
    <2>. QED
      BY <1>0, <2>1, <2>2, <2>3
      DEF CentralInv, ServiceTypes, BrowseTypes, KnownTypes, RecordsAreNamed, ServicesAreValid,
          ExpiredIsKnown, RemovedIsUnknown, UnusedIsEmpty, OneBrowse, ServiceIsKnown
  <1>7. ASSUME NEW b \in Browses, NEW g \in Gateways, Central!Expire(b, g) PROVE CentralInv'
    <2>1. /\ UNCHANGED <<world, services, browsing, caller, browse, known, queue, steady>>
          /\ known[b][g] # NoRecord /\ old' = [old EXCEPT ![b] = old[b] \cup {g}]
      BY <1>7 DEF Central!Expire, Central!tracker
    <2>2. old' \in [Browses -> SUBSET Gateways] /\ \A x \in Browses : \A h \in old'[x] : known[x][h] # NoRecord
      BY <1>0, <2>1 DEF KnownTypes, ExpiredIsKnown
    <2>. QED
      BY <1>0, <2>1, <2>2
      DEF CentralInv, ServiceTypes, BrowseTypes, KnownTypes, RecordsAreNamed, ServicesAreValid,
          ExpiredIsKnown, RemovedIsUnknown, UnusedIsEmpty, OneBrowse, ServiceIsKnown
  <1>9. ASSUME NEW b \in Browses, Central!Notify(b) PROVE CentralInv'
    <2>1. UNCHANGED <<world, services, browsing, caller, browse, known, old, queue, steady>>
      BY <1>9 DEF Central!Notify, Central!tracker, Central!browser
    <2>. QED
      BY <1>0, <2>1
      DEF CentralInv, ServiceTypes, BrowseTypes, KnownTypes, RecordsAreNamed, ServicesAreValid,
          ExpiredIsKnown, RemovedIsUnknown, UnusedIsEmpty, OneBrowse, ServiceIsKnown
  <1>8. CASE UNCHANGED centrals
    BY <1>0, <1>8
    DEF centrals, CentralInv, ServiceTypes, BrowseTypes, KnownTypes, RecordsAreNamed,
        ServicesAreValid, ExpiredIsKnown, RemovedIsUnknown, UnusedIsEmpty, OneBrowse, ServiceIsKnown
  <1>. QED
    BY <1>1, <1>2, <1>3, <1>4, <1>5, <1>6, <1>7, <1>8, <1>9, EntryKeeps, SweepKeeps, RemoveKeeps
    DEF Central!Next

\* A change of the table is the only one of its group left to tell, or the group is crossed.
LEMMA EventIsTold ==
  ASSUME ServiceTypes, TellingInv, NEW b \in Browses, NEW r \in Central!Records, NEW type,
         telling[b] = {}, Central!HandleEvent(b, type, r), UNCHANGED seen
  PROVE  TellingInv'
  <1>. DEFINE p == Central!Group(r)
              new == IF type = "removed" THEN NoRecord ELSE r
  <1>1. p \in Central!Groups /\ new \in CRecords
    BY DEF Central!Groups, Central!Group, Central!Records, CRecords
  <1>2. CASE UNCHANGED <<services, telling, crossed>>
    BY <1>2 DEF TellingInv, TellingTypes, OneTelling, ChangesAreTold
  <1>3. CASE /\ services' = [services EXCEPT ![p] = new]
             /\ telling' = [telling EXCEPT ![b] = {<<p, new>>}]
             /\ crossed' = IF Central!ToldLater(b, p) THEN crossed \cup {p} ELSE crossed \ {p}
    <2>. HIDE DEF p, new
    <2>1. TellingTypes /\ services \in [Central!Groups -> CRecords]
      BY DEF TellingInv, ServiceTypes
    <2>2. services'[p] = new /\ \A q \in Central!Groups : q # p => services'[q] = services[q]
      BY <1>1, <1>3, <2>1
    <2>3. telling'[b] = {<<p, new>>} /\ \A o \in Browses : o # b => telling'[o] = telling[o]
      BY <1>3, <2>1 DEF TellingTypes
    <2>4. TellingTypes'
      <3>1. {<<p, new>>} \in SUBSET (Central!Groups \X CRecords)
        BY <1>1
      <3>. QED
        BY <1>1, <1>3, <2>1, <3>1 DEF TellingTypes
    <2>5. OneTelling'
      BY <2>3 DEF TellingInv, OneTelling
    <2>6. ASSUME NEW q \in Central!Groups \ crossed', q # p
          PROVE  /\ \A o \in Browses : \A e \in telling'[o] : e[1] = q => e[2] = services'[q]
                 /\ (\A o \in Browses : \A e \in telling'[o] : e[1] # q) => seen'[q] = services'[q]
      <3>1. q \in Central!Groups \ crossed
        BY <1>3, <2>6
      <3>2. /\ \A o \in Browses : \A e \in telling[o] : e[1] = q => e[2] = services[q]
            /\ (\A o \in Browses : \A e \in telling[o] : e[1] # q) => seen[q] = services[q]
        BY <3>1 DEF TellingInv, ChangesAreTold
      <3>3. services'[q] = services[q]
        BY <2>2, <2>6
      <3>. QED
        BY <2>3, <2>6, <3>2, <3>3
    <2>7. ASSUME p \notin crossed'
          PROVE  /\ \A o \in Browses : \A e \in telling'[o] : e[1] = p => e[2] = services'[p]
                 /\ (\A o \in Browses : \A e \in telling'[o] : e[1] # p) => seen'[p] = services'[p]
      <3>1. ~Central!ToldLater(b, p)
        BY <1>3, <2>7
      <3>2. \A o \in Browses : o # b => \A e \in telling'[o] : e[1] # p
        BY <2>3, <3>1 DEF Central!ToldLater
      <3>3. \A e \in telling'[b] : e[1] = p /\ e[2] = services'[p]
        BY <2>2, <2>3
      <3>4. <<p, new>> \in telling'[b] /\ <<p, new>>[1] = p
        BY <2>3
      <3>5. ~\A o \in Browses : \A e \in telling'[o] : e[1] # p
        BY <3>4
      <3>. QED
        BY <3>2, <3>3, <3>5
    <2>8. ChangesAreTold'
      BY <2>6, <2>7 DEF ChangesAreTold, Central!Groups
    <2>. QED
      BY <2>4, <2>5, <2>8 DEF TellingInv
  <1>. QED
    BY <1>2, <1>3 DEF Central!HandleEvent

\* The subscribers are told of the service of a group, unless the group is crossed.
LEMMA NotifyKeeps ==
  ASSUME TellingInv, NEW b \in Browses, NEW e \in telling[b], seen' = [seen EXCEPT ![e[1]] = e[2]],
         telling' = [telling EXCEPT ![b] = {}], UNCHANGED <<services, crossed>>
  PROVE  TellingInv'
  <1>1. seen' = [seen EXCEPT ![e[1]] = e[2]]
    OBVIOUS
  <1>2. telling' = [telling EXCEPT ![b] = {}] /\ UNCHANGED <<services, crossed>>
    OBVIOUS
  <1>3. TellingTypes /\ e[1] \in Central!Groups /\ e[2] \in CRecords
    BY DEF TellingInv, TellingTypes
  <1>4. telling'[b] = {} /\ \A o \in Browses : o # b => telling'[o] = telling[o]
    BY <1>2, <1>3 DEF TellingTypes
  <1>5. seen'[e[1]] = e[2] /\ \A p \in Central!Groups : p # e[1] => seen'[p] = seen[p]
    BY <1>1, <1>3 DEF TellingTypes
  <1>6. TellingTypes'
    BY <1>1, <1>2, <1>3 DEF TellingTypes
  <1>7. OneTelling'
    BY <1>4 DEF TellingInv, OneTelling
  <1>8. ASSUME NEW p \in Central!Groups \ crossed
        PROVE  /\ \A o \in Browses : \A f \in telling'[o] : f[1] = p => f[2] = services[p]
               /\ (\A o \in Browses : \A f \in telling'[o] : f[1] # p) => seen'[p] = services[p]
    <2>1. /\ \A o \in Browses : \A f \in telling[o] : f[1] = p => f[2] = services[p]
          /\ (\A o \in Browses : \A f \in telling[o] : f[1] # p) => seen[p] = services[p]
      BY <1>8 DEF TellingInv, ChangesAreTold
    <2>2. CASE p = e[1]
      BY <1>4, <1>5, <2>1, <2>2
    <2>3. CASE p # e[1]
      <3>1. \A f \in telling[b] : f[1] # p
        BY <2>3 DEF TellingInv, OneTelling
      <3>. QED
        BY <1>4, <1>5, <2>1, <2>3, <3>1
    <2>. QED
      BY <2>2, <2>3
  <1>. QED
    BY <1>2, <1>6, <1>7, <1>8 DEF TellingInv, ChangesAreTold, Central!Groups

LEMMA TellingStarts == Central!Init => TellingInv
  BY DEF Central!Init, TellingInv, TellingTypes, OneTelling, ChangesAreTold, CRecords

LEMMA TellingStep == CentralInv /\ TellingInv /\ [Central!Next]_centrals => TellingInv'
  <1>. SUFFICES ASSUME CentralInv, TellingInv, [Central!Next]_centrals PROVE TellingInv'
    OBVIOUS
  <1>1. ASSUME UNCHANGED <<services, telling, seen, crossed>> PROVE TellingInv'
    BY <1>1 DEF TellingInv, TellingTypes, OneTelling, ChangesAreTold
  <1>2. ASSUME NEW b \in Browses, NEW g \in Gateways, Central!Entry(b, g) PROVE TellingInv'
    <2>1. world[g] \in Central!Records /\ \E type : Central!HandleEvent(b, type, world[g])
      BY <1>2, CentralConstants, EntryDoes DEF CentralInv
    <2>2. telling[b] = {} /\ UNCHANGED seen
      BY <1>2 DEF Central!Entry, Central!Selects
    <2>. QED
      BY <2>1, <2>2, EventIsTold DEF CentralInv
  <1>3. ASSUME NEW b \in Browses, NEW r \in queue[b], Central!Remove(b, r) PROVE TellingInv'
    <2>1. r \in Central!Records /\ Central!HandleEvent(b, "removed", r)
      BY <1>3, RemoveDoes DEF CentralInv
    <2>2. telling[b] = {} /\ UNCHANGED seen
      BY <1>3 DEF Central!Remove
    <2>. QED
      BY <2>1, <2>2, EventIsTold DEF CentralInv
  <1>4. ASSUME NEW b \in Browses, Central!Notify(b) PROVE TellingInv'
    BY <1>4, NotifyKeeps DEF Central!Notify, Central!tracker
  <1>5. CASE Central!Close \/ \E g \in Gateways : Central!Advertise(g)
    BY <1>1, <1>5 DEF Central!Close, Central!Advertise, Central!tracker, Central!told
  <1>6. CASE \E c \in Starters : Central!Start(c) \/ Central!Browse(c)
    BY <1>1, <1>6 DEF Central!Start, Central!Browse, Central!told
  <1>7. ASSUME NEW b \in Browses,
               Central!ContextEnds(b) \/ Central!BrowseEnds(b) \/ Central!Sweep(b)
                 \/ \E g \in Gateways : Central!Expire(b, g)
        PROVE  TellingInv'
    BY <1>1, <1>7 DEF Central!ContextEnds, Central!BrowseEnds, Central!Sweep, Central!Expire,
                      Central!tracker, Central!told
  <1>8. CASE UNCHANGED centrals
    BY <1>1, <1>8 DEF centrals
  <1>. QED
    BY <1>2, <1>3, <1>4, <1>5, <1>6, <1>7, <1>8 DEF Central!Next

LEMMA CentralInvFollows == CentralInv /\ TellingInv => Central!TypeOK /\ Central!ServicesFollow
  <1>. SUFFICES ASSUME CentralInv, TellingInv PROVE Central!TypeOK /\ Central!ServicesFollow
    OBVIOUS
  <1>1. Central!TypeOK
    BY
    DEF CentralInv, ServiceTypes, BrowseTypes, KnownTypes, TellingInv, TellingTypes, CRecords,
        Central!TypeOK
  <1>2. ASSUME steady, NEW b \in Browses, NEW g \in Gateways, Central!Plain(g),
               browse[b] # "unused",
               queue[b] = {}
        PROVE  services[GroupOf[g]] =
                 IF known[b][g] # NoRecord /\ Central!Valid(known[b][g]) THEN known[b][g] ELSE NoRecord
    <2>1. /\ known[b][g] # NoRecord /\ Central!Valid(known[b][g]) => services[GroupOf[g]] = known[b][g]
          /\ services[GroupOf[g]] # NoRecord => services[GroupOf[g]] = known[b][g]
      BY <1>2 DEF CentralInv, ServiceIsKnown
    <2>2. services[GroupOf[g]] # NoRecord => Central!Valid(services[GroupOf[g]])
      BY DEF CentralInv, ServicesAreValid, Central!Groups
    <2>. QED
      BY <2>1, <2>2
  <1>3. \A p \in Central!Groups \ crossed :
          (\A b \in Browses : \A e \in telling[b] : e[1] # p) => seen[p] = services[p]
    BY DEF TellingInv, ChangesAreTold
  <1>. QED
    BY <1>1, <1>2, <1>3 DEF Central!ServicesFollow

-----------------------------------------------------------------------------
(* The steps of the scan for cameras *)

\* Candidates are handed out in increasing order and none is passed over.
LEMMA AfterIsNext ==
  ASSUME NEW a \in Nat
  PROVE  /\ Hosts!After(a) \in Hosts!Candidates \cup {Net}
         /\ \A c \in Hosts!Candidates : c < Hosts!After(a) => c <= a
  <1>. DEFINE rest == {c \in Hosts!Candidates : c > a}
  <1>1. Hosts!Candidates \subseteq Nat /\ Net \in Nat
    BY HostConstants DEF HostConstants, Hosts!Candidates, Hosts!Addresses
  <1>2. CASE rest = {}
    BY <1>1, <1>2 DEF Hosts!After
  <1>3. CASE rest # {}
    <2>. DEFINE least == CHOOSE c \in rest : \A o \in rest : c <= o
    <2>1. Hosts!After(a) = least
      BY <1>3 DEF Hosts!After
    <2>2. rest \subseteq Nat /\ rest \subseteq Hosts!Candidates
      BY <1>1
    <2>3. \A c \in Hosts!Candidates : c > a => c \in rest
      OBVIOUS
    <2>. HIDE DEF rest
    <2>4. \E c \in rest : \A o \in rest : c <= o
      BY <1>3, <2>2, LeastNumber
    <2>5. least \in rest /\ \A o \in rest : least <= o
      BY <2>4
    <2>. HIDE DEF least
    <2>. QED
      BY <1>1, <2>1, <2>2, <2>3, <2>5
  <1>. QED
    BY <1>2, <1>3

LEMMA CandidatesAre ==
  Hosts!Candidates \subseteq Nat /\ Net \in Nat /\ \A c \in Hosts!Candidates : c # 0 /\ c < Net
  BY HostConstants DEF HostConstants, Hosts!Candidates, Hosts!Addresses

LEMMA ScanStarts == Hosts!Init => ScanInv
  <1>. SUFFICES ASSUME Hosts!Init PROVE ScanInv
    OBVIOUS
  <1>1. {FALSE} \subseteq BOOLEAN
    OBVIOUS
  <1>2. Hosts!After(0) \in Hosts!Candidates \cup {Net} /\ \A c \in Hosts!Candidates : ~(c < Hosts!After(0))
    <2>1. \A c \in Hosts!Candidates : c < Hosts!After(0) => c <= 0
      BY AfterIsNext
    <2>. QED
      BY <2>1, AfterIsNext, CandidatesAre
  <1>3. ScanTypes
    BY <1>1, <1>2 DEF Hosts!Init, ScanTypes
  <1>. QED
    BY <1>2, <1>3
    DEF Hosts!Init, ScanInv, BusyHasHost, HandedIsAsked, AllIsHanded, AnswersAreHeard, EndIsLast

LEMMA ScanTypeStep ==
  ScanTypes /\ BusyHasHost /\ [Hosts!Next]_scanning => ScanTypes'
  <1>. SUFFICES ASSUME ScanTypes, BusyHasHost, [Hosts!Next]_scanning PROVE ScanTypes'
    OBVIOUS
  <1>1. ASSUME NEW w \in Workers, Hosts!Take(w) PROVE ScanTypes'
    <2>1. /\ feeder = "offer" /\ next < Net /\ worker[w] = "idle" /\ next' = Hosts!After(next)
          /\ worker' = [worker EXCEPT ![w] = "busy"] /\ host' = [host EXCEPT ![w] = next]
          /\ UNCHANGED <<cameras, feeder, probed, results, stopped, returned>>
      BY <1>1 DEF Hosts!Take
    <2>2. next \in Hosts!Candidates /\ next \in Nat
      BY <2>1, CandidatesAre DEF ScanTypes
    <2>3. /\ next' \in Hosts!Candidates \cup {Net}
          /\ \A c \in Hosts!Candidates : c < next' => c <= next
      BY <2>1, <2>2, AfterIsNext
    <2>4. /\ worker'[w] = "busy" /\ host'[w] = next
          /\ \A x \in Workers : x # w => worker'[x] = worker[x] /\ host'[x] = host[x]
      BY <2>1 DEF ScanTypes
    <2>. QED
      BY <2>1, <2>2, <2>3 DEF ScanTypes
  <1>2. ASSUME NEW w \in Workers, Hosts!Probe(w) PROVE ScanTypes'
    <2>1. /\ worker[w] = "busy" /\ worker' = [worker EXCEPT ![w] = "idle"]
          /\ host' = [host EXCEPT ![w] = Nobody] /\ probed' = probed \cup {host[w]}
          /\ results' = results \cup ({host[w]} \cap cameras) \/ (stopped /\ results' = results)
          /\ UNCHANGED <<cameras, feeder, next, stopped, returned>>
      BY <1>2 DEF Hosts!Probe
    <2>2. host[w] \in Hosts!Candidates
      BY <2>1 DEF BusyHasHost
    <2>3. /\ worker'[w] = "idle"
          /\ \A x \in Workers : x # w => worker'[x] = worker[x] /\ host'[x] = host[x]
      BY <2>1 DEF ScanTypes
    <2>. QED
      BY <2>1, <2>2 DEF ScanTypes
  <1>3. CASE Hosts!FeederStops
    BY <1>3
    DEF Hosts!FeederStops, ScanTypes
  <1>4. CASE Hosts!FeederEnds
    BY <1>4
    DEF Hosts!FeederEnds, ScanTypes
  <1>5. CASE Hosts!Return
    BY <1>5
    DEF Hosts!Return, ScanTypes
  <1>6. CASE Hosts!Cancel
    BY <1>6
    DEF Hosts!Cancel, Hosts!scan, ScanTypes
  <1>7. ASSUME NEW w \in Workers, Hosts!WorkerEnds(w) PROVE ScanTypes'
    BY <1>7
    DEF Hosts!WorkerEnds, ScanTypes
  <1>8. CASE UNCHANGED scanning
    BY <1>8
    DEF scanning, ScanTypes
  <1>. QED
    BY <1>1, <1>2, <1>3, <1>4, <1>5, <1>6, <1>7, <1>8
    DEF Hosts!Next

LEMMA BusyStep ==
  ScanTypes /\ BusyHasHost /\ [Hosts!Next]_scanning => BusyHasHost'
  <1>. SUFFICES ASSUME ScanTypes, BusyHasHost, [Hosts!Next]_scanning PROVE BusyHasHost'
    OBVIOUS
  <1>1. ASSUME NEW w \in Workers, Hosts!Take(w) PROVE BusyHasHost'
    <2>1. /\ feeder = "offer" /\ next < Net /\ worker[w] = "idle" /\ next' = Hosts!After(next)
          /\ worker' = [worker EXCEPT ![w] = "busy"] /\ host' = [host EXCEPT ![w] = next]
          /\ UNCHANGED <<cameras, feeder, probed, results, stopped, returned>>
      BY <1>1 DEF Hosts!Take
    <2>2. next \in Hosts!Candidates /\ next \in Nat
      BY <2>1, CandidatesAre DEF ScanTypes
    <2>3. /\ next' \in Hosts!Candidates \cup {Net}
          /\ \A c \in Hosts!Candidates : c < next' => c <= next
      BY <2>1, <2>2, AfterIsNext
    <2>4. /\ worker'[w] = "busy" /\ host'[w] = next
          /\ \A x \in Workers : x # w => worker'[x] = worker[x] /\ host'[x] = host[x]
      BY <2>1 DEF ScanTypes
    <2>. QED
      BY <2>1, <2>2, <2>4 DEF BusyHasHost
  <1>2. ASSUME NEW w \in Workers, Hosts!Probe(w) PROVE BusyHasHost'
    <2>1. /\ worker[w] = "busy" /\ worker' = [worker EXCEPT ![w] = "idle"]
          /\ host' = [host EXCEPT ![w] = Nobody] /\ probed' = probed \cup {host[w]}
          /\ results' = results \cup ({host[w]} \cap cameras) \/ (stopped /\ results' = results)
          /\ UNCHANGED <<cameras, feeder, next, stopped, returned>>
      BY <1>2 DEF Hosts!Probe
    <2>2. host[w] \in Hosts!Candidates
      BY <2>1 DEF BusyHasHost
    <2>3. /\ worker'[w] = "idle"
          /\ \A x \in Workers : x # w => worker'[x] = worker[x] /\ host'[x] = host[x]
      BY <2>1 DEF ScanTypes
    <2>. QED
      BY <2>1, <2>3 DEF BusyHasHost
  <1>3. CASE Hosts!FeederStops
    BY <1>3
    DEF Hosts!FeederStops, ScanTypes, BusyHasHost
  <1>4. CASE Hosts!FeederEnds
    BY <1>4
    DEF Hosts!FeederEnds, ScanTypes, BusyHasHost
  <1>5. CASE Hosts!Return
    BY <1>5
    DEF Hosts!Return, ScanTypes, BusyHasHost
  <1>6. CASE Hosts!Cancel
    BY <1>6
    DEF Hosts!Cancel, Hosts!scan, ScanTypes, BusyHasHost
  <1>7. ASSUME NEW w \in Workers, Hosts!WorkerEnds(w) PROVE BusyHasHost'
    BY <1>7
    DEF Hosts!WorkerEnds, ScanTypes, BusyHasHost
  <1>8. CASE UNCHANGED scanning
    BY <1>8
    DEF scanning, ScanTypes, BusyHasHost
  <1>. QED
    BY <1>1, <1>2, <1>3, <1>4, <1>5, <1>6, <1>7, <1>8
    DEF Hosts!Next

LEMMA HandedStep ==
  ScanTypes /\ BusyHasHost /\ HandedIsAsked /\ [Hosts!Next]_scanning => HandedIsAsked'
  <1>. SUFFICES ASSUME ScanTypes, BusyHasHost, HandedIsAsked, [Hosts!Next]_scanning
                PROVE  HandedIsAsked'
    OBVIOUS
  <1>1. ASSUME NEW w \in Workers, Hosts!Take(w) PROVE HandedIsAsked'
    <2>1. /\ feeder = "offer" /\ next < Net /\ worker[w] = "idle" /\ next' = Hosts!After(next)
          /\ worker' = [worker EXCEPT ![w] = "busy"] /\ host' = [host EXCEPT ![w] = next]
          /\ UNCHANGED <<cameras, feeder, probed, results, stopped, returned>>
      BY <1>1 DEF Hosts!Take
    <2>2. next \in Hosts!Candidates /\ next \in Nat
      BY <2>1, CandidatesAre DEF ScanTypes
    <2>3. /\ next' \in Hosts!Candidates \cup {Net}
          /\ \A c \in Hosts!Candidates : c < next' => c <= next
      BY <2>1, <2>2, AfterIsNext
    <2>4. /\ worker'[w] = "busy" /\ host'[w] = next
          /\ \A x \in Workers : x # w => worker'[x] = worker[x] /\ host'[x] = host[x]
      BY <2>1 DEF ScanTypes
    <2>5. ASSUME NEW c \in Hosts!Candidates, c < next'
          PROVE  c \in probed \/ \E x \in Workers : worker'[x] = "busy" /\ host'[x] = c
      <3>1. c < next \/ c = next
        BY <2>2, <2>3, <2>5, CandidatesAre
      <3>2. ASSUME c < next, c \notin probed
            PROVE  \E x \in Workers : worker'[x] = "busy" /\ host'[x] = c
        <4>1. PICK x \in Workers : worker[x] = "busy" /\ host[x] = c
          BY <3>2 DEF HandedIsAsked
        <4>. QED
          BY <2>1, <2>4, <4>1
      <3>. QED
        BY <2>4, <3>1, <3>2
    <2>. QED
      BY <2>1, <2>5 DEF HandedIsAsked
  <1>2. ASSUME NEW w \in Workers, Hosts!Probe(w) PROVE HandedIsAsked'
    <2>1. /\ worker[w] = "busy" /\ worker' = [worker EXCEPT ![w] = "idle"]
          /\ host' = [host EXCEPT ![w] = Nobody] /\ probed' = probed \cup {host[w]}
          /\ results' = results \cup ({host[w]} \cap cameras) \/ (stopped /\ results' = results)
          /\ UNCHANGED <<cameras, feeder, next, stopped, returned>>
      BY <1>2 DEF Hosts!Probe
    <2>2. host[w] \in Hosts!Candidates
      BY <2>1 DEF BusyHasHost
    <2>3. /\ worker'[w] = "idle"
          /\ \A x \in Workers : x # w => worker'[x] = worker[x] /\ host'[x] = host[x]
      BY <2>1 DEF ScanTypes
    <2>4. ASSUME NEW c \in Hosts!Candidates, c < next, c \notin probed'
          PROVE  \E x \in Workers : worker'[x] = "busy" /\ host'[x] = c
      <3>1. PICK x \in Workers : worker[x] = "busy" /\ host[x] = c
        BY <2>1, <2>4 DEF HandedIsAsked
      <3>2. x # w
        BY <2>1, <2>4, <3>1
      <3>. QED
        BY <2>3, <3>1, <3>2
    <2>. QED
      BY <2>1, <2>4 DEF HandedIsAsked
  <1>3. ASSUME NEW w \in Workers, Hosts!WorkerEnds(w) PROVE HandedIsAsked'
    <2>1. UNCHANGED <<next, probed, host>>
      BY <1>3 DEF Hosts!WorkerEnds
    <2>2. \A x \in Workers : worker[x] = "busy" => worker'[x] = "busy"
      BY <1>3 DEF Hosts!WorkerEnds, ScanTypes
    <2>. QED
      BY <2>1, <2>2 DEF HandedIsAsked
  <1>4. CASE Hosts!FeederStops
    BY <1>4
    DEF Hosts!FeederStops, ScanTypes, HandedIsAsked
  <1>5. CASE Hosts!FeederEnds
    BY <1>5
    DEF Hosts!FeederEnds, ScanTypes, HandedIsAsked
  <1>6. CASE Hosts!Return
    BY <1>6
    DEF Hosts!Return, ScanTypes, HandedIsAsked
  <1>7. CASE Hosts!Cancel
    BY <1>7
    DEF Hosts!Cancel, Hosts!scan, ScanTypes, HandedIsAsked
  <1>8. CASE UNCHANGED scanning
    BY <1>8
    DEF scanning, ScanTypes, HandedIsAsked
  <1>. QED
    BY <1>1, <1>2, <1>3, <1>4, <1>5, <1>6, <1>7, <1>8
    DEF Hosts!Next

LEMMA AllHandedStep ==
  ScanTypes /\ AllIsHanded /\ [Hosts!Next]_scanning => AllIsHanded'
  <1>. SUFFICES ASSUME ScanTypes, AllIsHanded, [Hosts!Next]_scanning PROVE AllIsHanded'
    OBVIOUS
  <1>1. CASE Hosts!FeederStops
    BY <1>1
    DEF Hosts!FeederStops, AllIsHanded
  <1>2. CASE Hosts!FeederEnds
    BY <1>2
    DEF Hosts!FeederEnds, AllIsHanded
  <1>3. CASE Hosts!Return
    BY <1>3
    DEF Hosts!Return, AllIsHanded
  <1>4. CASE Hosts!Cancel
    BY <1>4
    DEF Hosts!Cancel, Hosts!scan, AllIsHanded
  <1>5. ASSUME NEW w \in Workers, Hosts!Take(w) PROVE AllIsHanded'
    BY <1>5
    DEF Hosts!Take, AllIsHanded
  <1>6. ASSUME NEW w \in Workers, Hosts!Probe(w) PROVE AllIsHanded'
    BY <1>6
    DEF Hosts!Probe, AllIsHanded
  <1>7. ASSUME NEW w \in Workers, Hosts!WorkerEnds(w) PROVE AllIsHanded'
    BY <1>7
    DEF Hosts!WorkerEnds, AllIsHanded
  <1>8. CASE UNCHANGED scanning
    BY <1>8
    DEF scanning, AllIsHanded
  <1>. QED
    BY <1>1, <1>2, <1>3, <1>4, <1>5, <1>6, <1>7, <1>8
    DEF Hosts!Next

LEMMA AnswersStep ==
  ScanTypes /\ BusyHasHost /\ AnswersAreHeard /\ [Hosts!Next]_scanning => AnswersAreHeard'
  <1>. SUFFICES ASSUME ScanTypes, BusyHasHost, AnswersAreHeard, [Hosts!Next]_scanning
                PROVE  AnswersAreHeard'
    OBVIOUS
  <1>1. CASE Hosts!FeederStops
    BY <1>1
    DEF Hosts!FeederStops, AnswersAreHeard
  <1>2. CASE Hosts!FeederEnds
    BY <1>2
    DEF Hosts!FeederEnds, AnswersAreHeard
  <1>3. CASE Hosts!Return
    BY <1>3
    DEF Hosts!Return, AnswersAreHeard
  <1>4. CASE Hosts!Cancel
    BY <1>4
    DEF Hosts!Cancel, Hosts!scan, AnswersAreHeard
  <1>5. ASSUME NEW w \in Workers, Hosts!Take(w) PROVE AnswersAreHeard'
    BY <1>5
    DEF Hosts!Take, AnswersAreHeard
  <1>6. ASSUME NEW w \in Workers, Hosts!Probe(w) PROVE AnswersAreHeard'
    BY <1>6
    DEF Hosts!Probe, AnswersAreHeard
  <1>7. ASSUME NEW w \in Workers, Hosts!WorkerEnds(w) PROVE AnswersAreHeard'
    BY <1>7
    DEF Hosts!WorkerEnds, AnswersAreHeard
  <1>8. CASE UNCHANGED scanning
    BY <1>8
    DEF scanning, AnswersAreHeard
  <1>. QED
    BY <1>1, <1>2, <1>3, <1>4, <1>5, <1>6, <1>7, <1>8
    DEF Hosts!Next

LEMMA EndStep ==
  ScanTypes /\ EndIsLast /\ [Hosts!Next]_scanning => EndIsLast'
  <1>. SUFFICES ASSUME ScanTypes, EndIsLast, [Hosts!Next]_scanning PROVE EndIsLast'
    OBVIOUS
  <1>1. CASE Hosts!FeederStops
    BY <1>1
    DEF Hosts!FeederStops, ScanTypes, EndIsLast
  <1>2. CASE Hosts!FeederEnds
    BY <1>2
    DEF Hosts!FeederEnds, ScanTypes, EndIsLast
  <1>3. CASE Hosts!Return
    BY <1>3
    DEF Hosts!Return, ScanTypes, EndIsLast
  <1>4. CASE Hosts!Cancel
    BY <1>4
    DEF Hosts!Cancel, Hosts!scan, ScanTypes, EndIsLast
  <1>5. ASSUME NEW w \in Workers, Hosts!Take(w) PROVE EndIsLast'
    BY <1>5
    DEF Hosts!Take, ScanTypes, EndIsLast
  <1>6. ASSUME NEW w \in Workers, Hosts!Probe(w) PROVE EndIsLast'
    BY <1>6
    DEF Hosts!Probe, ScanTypes, EndIsLast
  <1>7. ASSUME NEW w \in Workers, Hosts!WorkerEnds(w) PROVE EndIsLast'
    BY <1>7
    DEF Hosts!WorkerEnds, ScanTypes, EndIsLast
  <1>8. CASE UNCHANGED scanning
    BY <1>8
    DEF scanning, ScanTypes, EndIsLast
  <1>. QED
    BY <1>1, <1>2, <1>3, <1>4, <1>5, <1>6, <1>7, <1>8
    DEF Hosts!Next

LEMMA ScanStep == ScanInv /\ [Hosts!Next]_scanning => ScanInv'
  BY ScanTypeStep, BusyStep, HandedStep, AllHandedStep, AnswersStep, EndStep DEF ScanInv

LEMMA ScanInvFinds == ScanInv => Hosts!TypeOK /\ Hosts!ScanIsComplete
  <1>. SUFFICES ASSUME ScanInv PROVE Hosts!TypeOK /\ Hosts!ScanIsComplete
    OBVIOUS
  <1>1. Hosts!Candidates \subseteq Hosts!Addresses
    BY DEF Hosts!Candidates
  <1>2. Hosts!TypeOK
    BY <1>1 DEF ScanInv, ScanTypes, AnswersAreHeard, Hosts!TypeOK
  <1>3. ASSUME returned, ~stopped PROVE results = cameras \cap Hosts!Candidates
    <2>1. next = Net /\ \A x \in Workers : worker[x] = "ended"
      BY <1>3 DEF ScanInv, EndIsLast, AllIsHanded
    <2>2. Hosts!Candidates \subseteq probed
      BY <2>1, CandidatesAre DEF ScanInv, HandedIsAsked
    <2>3. probed \subseteq Hosts!Candidates
      BY DEF ScanInv, ScanTypes
    <2>. QED
      BY <1>3, <2>2, <2>3 DEF ScanInv, AnswersAreHeard
  <1>. QED
    BY <1>2, <1>3 DEF ScanInv, EndIsLast, Hosts!ScanIsComplete

-----------------------------------------------------------------------------
(* The searches together *)

\* The three searches keep their invariants whatever the network, the callers and the ends of
\* contexts do: who is still to be told what, what stands behind a service, and where each candidate
\* is (network.go, mdns.go, native_discovery.go).
THEOREM NetworkIsSound == MCSpec => []NetworkInv
  <1>1. MCInit => NetworkInv
    BY MonitorStarts, CentralStarts, TellingStarts, ScanStarts DEF MCInit, NetworkInv
  <1>2. NetworkInv /\ [MCNext]_<<part, monitor, centrals, scanning>> => NetworkInv'
    <2>. SUFFICES ASSUME NetworkInv, [MCNext]_<<part, monitor, centrals, scanning>>
                  PROVE  NetworkInv'
      OBVIOUS
    <2>1. [Next]_monitor /\ [Central!Next]_centrals /\ [Hosts!Next]_scanning
      BY DEF MCNext
    <2>. QED
      BY <2>1, MonitorStep, CentralStep, TellingStep, ScanStep DEF NetworkInv
  <1>. QED
    BY <1>1, <1>2, PTL DEF MCSpec

\* Monitor, gateways and scan keep their types: an address taken for an interface is always an IPv4
\* one that is not the loopback (network.go systemNetworkInspector).
THEOREM NetworkTypeCorrect == MCSpec => []NetworkTypeOK
  <1>1. NetworkInv => NetworkTypeOK
    BY MonitorInvKnows, CentralInvFollows, ScanInvFinds DEF NetworkInv, NetworkTypeOK
  <1>. QED
    BY <1>1, NetworkIsSound, PTL

\* Whoever was told of everything by refreshes that did not overlap knows the status and the
\* interfaces once no callback is outstanding, however often it all changed (network.go Refresh).
THEOREM SubscribersStayInformed == MCSpec => []SubscribersKnow
  <1>1. NetworkInv => SubscribersKnow
    BY MonitorInvKnows DEF NetworkInv
  <1>. QED
    BY <1>1, NetworkIsSound, PTL

\* With one browse the services of plain gateways are their valid records, whatever expires and
\* returns, and a scan that was not cancelled returns every camera among the candidates, for any
\* number of workers and addresses (mdns.go handleEvent, native_discovery.go).
THEOREM SearchesAlwaysFind == MCSpec => []SearchesFind
  <1>1. NetworkInv => SearchesFind
    BY CentralInvFollows, ScanInvFinds DEF NetworkInv, SearchesFind
  <1>. QED
    BY <1>1, NetworkIsSound, PTL
================================================================================
