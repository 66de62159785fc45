------------------------------ MODULE MCAccounts ------------------------------
(***************************************************************************)
(* TLC instance of AuthUpkeep, ConfigStore, CloudCatalog, CommandRouting   *)
(* and SpecParser: the client's account, its documents, and what it does   *)
(* with the devices of the account.  They have no variable in common: each *)
(* is checked with the others at rest.                                     *)
(***************************************************************************)
EXTENDS AuthUpkeep, Sequences, TLC

CONSTANTS a, sub, b, Users, Patches, Queries, MaxSaves,
          Order, ParentOf, PageOf, Homes, Rooms, Selected, ChunkSize, PageSize, MaxChanges,
          NoDevice, NoPlace,
          Callers, MaxMoves,
          Parsers, Urns, BaseURN, Instances, Information, RuleSets, RemoteText, LocalText,
          Language, DefaultLanguage, MaxParses

VARIABLES part, document, caller, plan, want, opened, answer, saves, restarts, expected, written, raced,
          place, usable, shared, wholeScenes, changes, touched, job, phase, page, listed, todo, paged, details,
          strangers, homesLeft, scenes, top, at, kids, hollow,
          auto, hasCloud, routes, lanOn, auth, moves,
          stage, op, seen, route, since, bears, flight, reached, done, reply,
          published, rules, cache, parser, urn, fresh, raw, spec, truncated, parses, met, refreshed, least

Store == INSTANCE ConfigStore WITH
           file <- document, pc <- caller, crashes <- restarts, overlap <- raced
Catalog == INSTANCE CloudCatalog WITH pc <- phase
Routing == INSTANCE CommandRouting WITH pc <- stage, answer <- reply
Specs == INSTANCE SpecParser WITH pc <- parser, opened <- truncated, overlap <- met

storing == <<document, caller, plan, want, opened, answer, saves, restarts, expected, written, raced>>
fetching == <<place, usable, shared, wholeScenes, changes, touched, job, phase, page, listed, todo, paged, details,
              strangers, homesLeft, scenes, top, at, kids, hollow>>
routing == <<auto, hasCloud, routes, lanOn, auth, moves,
             stage, op, seen, route, since, bears, flight, reached, done, reply>>
parsing == <<published, rules, cache, parser, urn, fresh, raw, spec, truncated, parses, met, refreshed, least>>

\* Documents are sequences of entries with distinct keys, and some are asked for.
ASSUME StoreConstants ==
  /\ MaxSaves \in Nat /\ Queries # {}
  /\ Patches \subseteq Seq(UNION {Store!Entries(d) : d \in Patches})
  /\ \A d \in Patches : Store!Distinct(d)

\* Pages are numbered from 1, and the id of a sub-device ends with that of one device.
ASSUME CatalogConstants ==
  /\ Order \in Seq(Catalog!Dids) /\ Order # << >> /\ MaxChanges \in Nat
  /\ Selected \subseteq Homes /\ PageOf \in [Catalog!Dids -> Nat \ {0}]
  /\ ParentOf \in [Catalog!Dids -> Catalog!Dids \cup {NoDevice}] /\ NoDevice \notin Catalog!Dids

\* A token is issued before the first refresh; bounds are numbers.
ASSUME UpkeepConstants == MaxToken \in Nat \ {0} /\ MaxKey \in Nat /\ MaxCrashes \in Nat

ASSUME RoutingConstants == MaxMoves \in Nat

\* There is a device, and the server publishes numbered instances from the first on; an entry of
\* the rules is an alias or a list of patches (spec_rules.go loadSpecModifications).
ASSUME SpecConstants ==
  /\ Urns # {} /\ IsFiniteSet(Urns) /\ MaxParses \in Nat
  /\ \A r \in RuleSets : /\ IsFiniteSet(DOMAIN r.alias) /\ IsFiniteSet(DOMAIN r.patches)
                         /\ DOMAIN r.alias \cap DOMAIN r.patches = {}
  /\ 1 \in Specs!Versions /\ Specs!Versions \subseteq Nat \ {0}

\* Patches of one key and of two, and what is asked for.
SomePatches == {<<<<"x", 1>>>>, <<<<"y", 1>>>>, <<<<"y", 2>>, <<"x", 2>>>>}
SomeQueries == {{"x"}, {"x", "y"}}

\* A device with a sub-device on the next page, and one more device on the last page.
Devices == <<a, sub, b>>
Parents == a :> NoDevice @@ sub :> a @@ b :> NoDevice
Pages == a :> 1 @@ sub :> 2 @@ b :> 3

\* Two devices; the second version of their instance has lost an event and gained a service.
SomeUrns == {"u1", "u2"}
Bases == "u1" :> "b1" @@ "u2" :> "b3"
First ==
  {<<s, "service", 0>> : s \in 1..3}
    \cup {<<2, "property", 1>>, <<2, "property", 2>>, <<3, "event", 1>>, <<3, "action", 1>>}
Published ==
  <<First, (First \ {<<3, "event", 1>>}) \cup {<<4, "service", 0>>, <<4, "property", 1>>}>>

\* Rules of two releases: elements and whole services hidden, by id or all of them, elements added,
\* aliases that end, that end at an entry without patches, and that go round.
SomeRules ==
  {[hidden  |-> "b1" :> {<<2, "property", 1>>, <<3, "event", 0>>} @@ "b3" :> {},
    added   |-> "u1" :> {<<2, "property", 1>>} @@ "u2" :> {},
    alias   |-> "u1" :> "u2" @@ "u2" :> "u3",
    patches |-> "u3" :> {<<2, "property", 2>>, <<3, "action", 1>>}],
   [hidden  |-> "b1" :> {<<3, "service", 0>>} @@ "b3" :> {<<0, "service", 0>>},
    added   |-> "u1" :> {} @@ "u2" :> {},
    alias   |-> "u1" :> "u2" @@ "u2" :> "u1",
    patches |-> "u3" :> {<<2, "property", 2>>}]}

\* Texts of the user's language, at the server or with the program, are few; those of the default are not.
Remote == "zh" :> {<<2, "property", 2>>} @@ "en" :> First
Embedded ==
  "b1" :> ("zh" :> {} @@ "en" :> {<<2, "service", 0>>})
    @@ "b3" :> ("zh" :> {<<2, "service", 0>>} @@ "en" :> {<<3, "service", 0>>})

MCInit ==
  /\ part \in {"upkeep", "store", "catalog", "routing", "specs"}
  /\ Init /\ Store!Init /\ Catalog!Init /\ Routing!Init /\ Specs!Init
  /\ part # "routing" => auto /\ hasCloud
  /\ part # "specs" => DOMAIN rules.patches = {"u3"} /\ Cardinality(rules.patches["u3"]) = 1
  \* One of the initial states of the account while it is at rest.
  /\ part # "catalog" =>
       shared = {} /\ wholeScenes = {} /\ job = "scenes" /\ \A d \in DOMAIN place : \E h \in Selected : place[d] = <<h, "direct">>

MCNext ==
  /\ UNCHANGED part
  /\ \/ part = "upkeep" /\ Next /\ UNCHANGED <<storing, fetching, routing, parsing>>
     \/ part = "store" /\ Store!Next /\ UNCHANGED <<upkeep, fetching, routing, parsing>>
     \/ part = "catalog" /\ Catalog!Next /\ UNCHANGED <<upkeep, storing, routing, parsing>>
     \/ part = "routing" /\ Routing!Next /\ UNCHANGED <<upkeep, storing, fetching, parsing>>
     \/ part = "specs" /\ Specs!Next /\ UNCHANGED <<upkeep, storing, fetching, routing>>

\* The tasks, the users and the parsers are alike.
Symmetry == Permutations(Tasks) \cup Permutations(Users) \cup Permutations(Parsers)

MCSpec == MCInit /\ [][MCNext]_<<part, upkeep, storing, fetching, routing, parsing>>

\* The variables of the models have their types.
AccountsTypeOK == TypeOK /\ Store!TypeOK /\ Catalog!TypeOK /\ Routing!TypeOK /\ Specs!TypeOK

\* AuthUpkeep: the token on disk is the one in use, and the stored certificate certifies the stored key,
\* unless tasks overlap or a readable key was taken for missing (client.go RefreshOAuthInfo,
\* RefreshUserCert; cert.go).
CredentialsMatch == StoredIsUsed /\ PairMatches

\* ConfigStore: a load returns one of the documents saved, and updates that do not overlap and
\* are not cut off all take effect (storage.go readHashed, UpdateUserConfig).
SavedIsKept == Store!LoadedWasSaved /\ Store!UpdatesAreKept

\* CloudCatalog: the snapshot is true of every device nobody touched during the fetch
\* (cloud.go, GetDevices).
SnapshotIsTrue == Catalog!SnapshotIsTrue

\* CommandRouting: a command is sent once, in the mode asked for, with an account no older than
\* the call, and what is reported successful was done (client.go SetProperty, InvokeAction,
\* GetProperty; cloud.go postJSON).
CommandsAreRouted ==
  /\ Routing!CommandsGoOnce /\ Routing!SuccessWasDone
  /\ Routing!ModeIsObeyed /\ Routing!PiecesAreInForce

\* SpecParser: a spec hides what its rules exclude, has the patches of its own device and one
\* language, and is not older than the last refresh (spec_parser.go normalizeInstance,
\* resolveModification, loadTranslations, Refresh).
SpecsAreTrue ==
  /\ Specs!FilteredIsHidden /\ Specs!PatchesAreItsOwn
  /\ Specs!OneLanguage /\ Specs!RefreshIsSeen
=============================================================================
