----------------------------- MODULE CloudCatalog -----------------------------
(***************************************************************************)
(* GetDevices of the cloud client (cloud.go): the homes and the pages of   *)
(* their rooms, the details of the devices in chunks and pages, the        *)
(* devices others share, and the nesting of sub-devices; and GetScenes,    *)
(* home by home; while the account changes between the requests.           *)
(***************************************************************************)
EXTENDS Naturals, FiniteSets, SequencesExt

CONSTANTS
  Order,      \* the device ids, in the order of the server's lists and of sort.Strings
  ParentOf,   \* of a sub-device (the id with a suffix ".s<n>"), or NoDevice
  PageOf,     \* the page of the home listing a device is on
  Homes, Rooms, Selected,
  ChunkSize,  \* cloudDeviceChunkSize
  PageSize,   \* devices the server puts on a page
  MaxChanges, \* changes of the account meanwhile (bound)
  NoDevice, NoPlace

Dids == ToSet(Order)
Direct == "direct" \* in the home, in none of its rooms
Places == Homes \X (Rooms \cup {Direct})
SharedPlace == <<"owner", "shared_device">>

VARIABLES
  place,      \* environment: where a device is, or nowhere
  usable,     \* environment: devices whose record has all the fields
  shared,     \* environment: devices with an owner
  wholeScenes,\* environment: homes whose scene has all the fields
  changes, touched, \* history: changes, and the devices and homes changed
  job,        \* devices or scenes
  pc,         \* home, rooms, detail, shared, scenes, done, failed
  page,       \* the page of the home listing asked next
  listed,     \* places seen in the listing: <<home, room, did>>
  todo,       \* device ids of the chunks to ask
  paged,      \* devices of the list asked now that earlier pages had
  details,    \* devices whose details were received
  strangers,  \* shared devices received
  homesLeft, scenes, \* homes still to ask for their scenes, homes whose scene was received
  top, at, kids, hollow \* the snapshot: devices, their places, children, parents without details

account == <<place, usable, shared, wholeScenes, changes, touched>>
snapshot == <<top, at, kids, hollow>>
fetch == <<pc, page, listed, todo, paged, details, strangers>>
sceneFetch == <<job, homesLeft, scenes>>
catalog == <<account, fetch, sceneFetch, snapshot>>

TypeOK ==
  /\ place \in [Dids -> Places \cup {NoPlace}] /\ usable \subseteq Dids /\ shared \subseteq Dids
  /\ wholeScenes \subseteq Homes /\ homesLeft \subseteq Homes /\ scenes \subseteq Homes
  /\ changes \in 0..MaxChanges /\ touched \subseteq Dids \cup Homes /\ job \in {"devices", "scenes"}
  /\ pc \in {"home", "rooms", "detail", "shared", "scenes", "done", "failed"}
  /\ page \in Nat /\ listed \subseteq Homes \X (Rooms \cup {Direct}) \X Dids
  /\ todo \subseteq Dids /\ paged \subseteq Dids
  /\ details \subseteq Dids /\ strangers \subseteq Dids
  /\ top \subseteq Dids /\ at \in [Dids -> Places \cup {SharedPlace, NoPlace}]
  /\ kids \in [Dids -> SUBSET Dids] /\ hollow \subseteq Dids

Init ==
  /\ place \in [Dids -> {p \in Places : p[2] # Direct \/ p[1] \in Selected}]
  /\ usable = Dids /\ shared \in {{}, {Order[Len(Order)]}}
  /\ wholeScenes \in {Homes, {}} /\ changes = 0 /\ touched = {}
  /\ job \in {"devices", "scenes"} /\ homesLeft = {} /\ scenes = {}
  /\ pc = "home" /\ page = 1 /\ listed = {} /\ todo = {} /\ paged = {} /\ details = {} /\ strangers = {}
  /\ top = {} /\ at = [d \in Dids |-> NoPlace] /\ kids = [d \in Dids |-> {}] /\ hollow = {}

-----------------------------------------------------------------------------
\* Somebody moves, removes, breaks or shares a device.
Change(d) ==
  /\ pc \notin {"done", "failed"} /\ changes < MaxChanges
  /\ changes' = changes + 1 /\ touched' = touched \cup {d}
  /\ \/ \E p \in (Places \cup {NoPlace}) \ {place[d]} : place' = [place EXCEPT ![d] = p] /\ UNCHANGED <<usable, shared>>
     \/ usable' = usable \ {d} /\ d \in usable /\ UNCHANGED <<place, shared>>
     \/ shared' = shared \cup {d} /\ d \notin shared /\ UNCHANGED <<place, usable>>
  /\ UNCHANGED <<wholeScenes, fetch, sceneFetch, snapshot>>

\* Somebody edits the scene of a home.
ChangeScene(h) ==
  /\ pc \notin {"done", "failed"} /\ changes < MaxChanges
  /\ changes' = changes + 1 /\ touched' = touched \cup {h}
  /\ wholeScenes' = IF h \in wholeScenes THEN wholeScenes \ {h} ELSE wholeScenes \cup {h}
  /\ UNCHANGED <<place, usable, shared, fetch, sceneFetch, snapshot>>

\* normalizeDeviceRecord: records without all their fields are left out.
Usable(ds) == ds \cap usable

\* A page of the listing; records of homes and rooms without an id are left out.
Listing(n) == {<<place[d][1], place[d][2], d>> : d \in {x \in Dids : place[x] # NoPlace /\ PageOf[x] = n}}
More(n) == \E d \in Dids : place[d] # NoPlace /\ PageOf[d] > n
Base(found) == {x[3] : x \in {y \in found : y[1] \in Selected}}

\* The first n of some devices, in order.
Position(d) == CHOOSE i \in DOMAIN Order : Order[i] = d
First(n, ds) == {d \in ds : Cardinality({x \in ds : Position(x) < Position(d)}) < n}

\* selectSceneHomes: in order.
SceneHomes == Selected

\* The listing is complete: without devices there is nothing to detail.
Listed(found) ==
  /\ listed' = found /\ todo' = Base(found) /\ paged' = {}
  /\ pc' = IF job = "scenes" THEN "scenes" ELSE IF Base(found) = {} THEN "shared" ELSE "detail"
  /\ homesLeft' = SceneHomes /\ UNCHANGED <<page, details, strangers>>

\* GetHomeInfos and fetchAllDevRoomPages: further pages add devices to the homes of the first.
FetchListing ==
  /\ pc \in {"home", "rooms"}
  /\ LET found == listed \cup Listing(page) IN
     IF More(page)
     THEN pc' = "rooms" /\ page' = page + 1 /\ listed' = found
          /\ UNCHANGED <<todo, paged, details, strangers, homesLeft>>
     ELSE Listed(found)
  /\ UNCHANGED <<account, job, scenes, snapshot>>

\* Mutation of Chunk: a full chunk is one device short.
ChunkShort(ds) == First(IF Cardinality(ds) > ChunkSize THEN ChunkSize - 1 ELSE ChunkSize, ds)

Chunk(ds) == First(ChunkSize, ds)

\* A page of fetchDeviceListPage: of the devices asked, the next ones.
Page(ds) == First(PageSize, ds \ paged)

\* GetDevicesByDID: chunk by chunk, page by page; with what of them is usable.
FetchDetails ==
  LET had == paged \cup Page(Chunk(todo)) IN
  /\ pc = "detail"
  /\ details' = details \cup Usable(Page(Chunk(todo)))
  /\ IF Chunk(todo) \ had # {} THEN paged' = had /\ UNCHANGED <<pc, todo>>
     ELSE LET rest == todo \ First(ChunkSize, todo) IN
          /\ todo' = rest /\ paged' = {} /\ pc' = IF rest = {} THEN "shared" ELSE pc
  /\ UNCHANGED <<account, sceneFetch, page, listed, strangers, snapshot>>

\* discoverSeparatedSharedDevices: the whole list, of which only devices with an owner count.
FetchShared ==
  /\ pc = "shared" /\ paged # Dids
  /\ strangers' = strangers \cup (Usable(Page(Dids)) \cap shared)
  /\ paged' = paged \cup Page(Dids)
  /\ UNCHANGED <<account, sceneFetch, pc, page, listed, todo, details, snapshot>>

\* normalizeSceneRecord.
UsableScenes(hs) == hs \cap wholeScenes

\* fetchManualScenes of the selected homes, in order; a scene without all its fields is left out.
FetchScenes ==
  /\ pc = "scenes"
  /\ LET h == CHOOSE x \in homesLeft : TRUE IN
     IF homesLeft = {} THEN pc' = "done" /\ UNCHANGED <<homesLeft, scenes>>
     ELSE homesLeft' = homesLeft \ {h} /\ scenes' = scenes \cup UsableScenes({h}) /\ UNCHANGED pc
  /\ UNCHANGED <<account, job, page, listed, todo, paged, details, strangers, snapshot>>

\* A request fails, or answers with a code or without a result: there is no snapshot.
Fails ==
  /\ pc \in {"home", "rooms", "detail", "shared", "scenes"} /\ pc' = "failed"
  /\ UNCHANGED <<account, sceneFetch, page, listed, todo, paged, details, strangers, snapshot>>

\* baseDeviceByDID: some home that lists the device, in it a room before the home itself.
BaseOf(d) ==
  LET in == {x \in listed : x[3] = d /\ x[1] \in Selected} IN
  {<<x[1], x[2]>> : x \in {y \in in : y[2] # Direct \/ ~\E o \in in : o[1] = y[1] /\ o[2] # Direct}}

\* mergeSharedDevices: shared devices come with their owner's place, also those listed in a home.
Found == {d \in details : BaseOf(d) # {}} \cup strangers

\* Mutation of Nests: a sub-device is nested whether or not its parent is there.
NestsAnywhere(d, early) == ParentOf[d] # NoDevice

\* nestSubDevices goes through the devices in any order and deletes those it nests: a device whose
\* parent is a sub-device itself is nested only if it comes earlier.
Moves(d) == ParentOf[d] # NoDevice /\ ParentOf[d] \in Found
Nests(d, early) == Moves(d) /\ (Moves(ParentOf[d]) => d \in early)

Finish ==
  /\ pc = "shared" /\ paged = Dids /\ pc' = "done"
  /\ \E early \in SUBSET {d \in Found : Moves(d) /\ Moves(ParentOf[d])},
        pick \in {f \in [Dids -> Places \cup {SharedPlace, NoPlace}] :
                    \A d \in Dids : f[d] \in IF d \in strangers THEN {SharedPlace}
                                             ELSE IF d \in Found THEN BaseOf(d) ELSE {NoPlace}} :
       LET nested == {d \in Found : Nests(d, early)} IN
       /\ kids' = [p \in Dids |-> {d \in nested : ParentOf[d] = p}]
       /\ hollow' = {ParentOf[d] : d \in nested} \cap nested
       /\ top' = (Found \ nested) \cup hollow' /\ at' = pick
  /\ UNCHANGED <<account, sceneFetch, page, listed, todo, paged, details, strangers>>

Next ==
  \/ \E d \in Dids : Change(d)
  \/ \E h \in Homes : ChangeScene(h)
  \/ FetchListing \/ FetchDetails \/ FetchShared \/ FetchScenes \/ Fails \/ Finish

Spec == Init /\ [][Next]_catalog

-----------------------------------------------------------------------------
\* What the account says of a device: reference for the snapshot.
Belongs(d) == d \in usable /\ (d \in shared \/ (place[d] # NoPlace /\ place[d][1] \in Selected))
InSnapshot(d) == d \in top \/ \E p \in Dids : d \in kids[p]

\* A device that nobody touched during the fetch is in the snapshot exactly if the account has it,
\* at its place, and below its parent if that is there and no sub-device itself; whatever else
\* changed (GetDevices).  The scenes are those of the selected homes that have all their fields
\* (GetScenes).
SnapshotIsTrue ==
  /\ pc = "done" /\ job = "scenes" => scenes \ touched = (Selected \cap wholeScenes) \ touched
  /\ pc = "done" /\ job = "devices" => \A d \in Dids \ touched :
       /\ InSnapshot(d) = Belongs(d)
       /\ Belongs(d) => at[d] = IF d \in shared THEN SharedPlace ELSE place[d]
       /\ ParentOf[d] # NoDevice /\ ParentOf[d] \notin touched /\ Belongs(d) =>
            IF Belongs(ParentOf[d])
            THEN d \in kids[ParentOf[d]] \/ (d \in top /\ ParentOf[ParentOf[d]] # NoDevice)
            ELSE d \in top

\* Expected of the code but not kept by it (README, "What the code does not keep"):
\* every device of the snapshot has its details, also when sub-devices have sub-devices
\* (nestSubDevices, cloud.go:840-869).
NoneIsHollow == hollow = {}

\* Expected of the code but not kept by it (README, "What the code does not keep"):
\* "GetDevices fetches devices for the selected homes" (cloud.go:327): shared devices of any home
\* and owner come too.
OnlySelected ==
  pc = "done" /\ job = "devices" => \A d \in Dids : InSnapshot(d) /\ d \notin touched => place[d] # NoPlace /\ place[d][1] \in Selected
=============================================================================
