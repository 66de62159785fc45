------------------------------ MODULE SpecParser ------------------------------
(***************************************************************************)
(* Parse and Refresh of the spec parser (spec_parser.go): the cache, the   *)
(* instance and the translations fetched from the spec server, and the     *)
(* embedded rules (spec_rules.go) that hide, add and patch elements; while *)
(* new instances are published, requests fail and goroutines overlap.      *)
(***************************************************************************)
EXTENDS Naturals, FiniteSets

CONSTANTS
  Parsers,    \* goroutines
  Urns, BaseURN, \* urns of devices, and what normalizeDeviceURN makes of them
  Instances,  \* per version: the elements of the published instance
  Information,\* the service ids of device-information
  RuleSets,   \* rules of the releases: [hidden, added, alias, patches]
  RemoteText, LocalText, \* [languages -> keys of elements with a text]; per base urn for the latter
  Language, DefaultLanguage,
  MaxParses   \* bound

\* An element: its service, its kind, and its id, 0 for the service itself.
Elements == UNION {Instances[v] : v \in DOMAIN Instances}
Versions == DOMAIN Instances

VARIABLES
  published,  \* environment: the version of the instance at the server
  rules,      \* the embedded rules of the running release
  cache,      \* per urn: the file of the cached spec
  pc,         \* per parser: idle, load, instance, texts, open, write, ok, failed
  urn, fresh, \* per parser: what it parses, whether it skips the cache
  raw, spec,  \* per parser: the version fetched, the result
  opened,     \* per parser: the file was written since the parser truncated it
  parses, overlap, \* history: parses, and whether two of one urn overlapped or a write was cut off
  refreshed,  \* history: per urn the version the last finished refresh fetched
  least       \* history: per parser, refreshed when its parse began

parsers == <<pc, urn, fresh, raw, spec, opened>>
history == <<refreshed, least>>
parsing == <<published, rules, cache, parsers, parses, overlap, history>>

AnyUrn == CHOOSE u \in Urns : TRUE
NoSpec == [version |-> 0]
Missing == [state |-> "missing", spec |-> NoSpec]
Torn == [state |-> "torn", spec |-> NoSpec]
Whole(s) == [state |-> "whole", spec |-> s]

Init ==
  /\ published = 1 /\ rules \in RuleSets /\ cache = [u \in Urns |-> Missing]
  /\ pc = [p \in Parsers |-> "idle"] /\ urn = [p \in Parsers |-> AnyUrn] /\ fresh = [p \in Parsers |-> FALSE]
  /\ raw = [p \in Parsers |-> 0] /\ spec = [p \in Parsers |-> NoSpec] /\ opened = [p \in Parsers |-> FALSE]
  /\ parses = 0 /\ overlap = FALSE /\ refreshed = [u \in Urns |-> 0] /\ least = [p \in Parsers |-> 0]

-----------------------------------------------------------------------------
(* normalizeInstance, with the rules of a release *)

\* Mutation of ServiceHidden: a service by its own id only.
ServiceHiddenPlain(f, siid) == <<siid, "service", 0>> \in f
ServiceHidden(f, siid) == <<siid, "service", 0>> \in f \/ <<0, "service", 0>> \in f
\* An element by its id, or with all of its service.
ElementHidden(f, e) == e \in f \/ <<e[1], e[2], 0>> \in f

\* Rules hide elements of the instance, never of the addition.
Own(r, u, version) ==
  LET f == r.hidden[BaseURN[u]] IN
  {e \in Instances[version] : ~ServiceHidden(f, e[1]) /\ (e[2] = "service" \/ ~ElementHidden(f, e))}
Elemental(r, u, version) == {e \in Own(r, u, version) \cup r.added[u] : e[1] \notin Information}

\* resolveModification: the end of a chain of aliases; a missing end or a loop stops it where it is.
Named(r) == Urns \cup DOMAIN r.alias \cup DOMAIN r.patches
Stops(r, x, seen) ==
  \/ x \notin DOMAIN r.alias
  \/ r.alias[x] \notin DOMAIN r.alias \cup DOMAIN r.patches
  \/ x \in seen
\* Mutation of Resolve: one alias is followed.
ResolveOnce(r, u) == IF Stops(r, u, {}) THEN u ELSE r.alias[u]
Resolve(r, u) ==
  LET Follow[seen \in SUBSET Named(r)] ==
        [x \in Named(r) |-> IF Stops(r, x, seen) THEN x ELSE Follow[seen \cup {x}][r.alias[x]]]
  IN Follow[{}][u]

\* findPropertyPatch: patches of properties are applied, the others are decoded and left.
Patched(r, u) == IF Resolve(r, u) \in DOMAIN r.patches
                 THEN {e \in r.patches[Resolve(r, u)] : e[2] = "property"} ELSE {}

\* loadTranslations: remote and local texts of the language, or those of the default language when
\* there are none.
Texts(u, remote, language) == (IF remote THEN RemoteText[language] ELSE {}) \cup LocalText[BaseURN[u]][language]
TextLanguage(u, remote) == IF Texts(u, remote, Language) # {} THEN Language ELSE DefaultLanguage

Normalized(r, u, version, remote) ==
  LET elements == Elemental(r, u, version) IN
  [version |-> version, rules |-> r, elements |-> elements, patched |-> elements \cap Patched(r, u),
   remote |-> remote, language |-> TextLanguage(u, remote),
   translated |-> elements \cap Texts(u, remote, TextLanguage(u, remote))]

-----------------------------------------------------------------------------
Goto(p, step) == pc' = [pc EXCEPT ![p] = step]
Busy(p) == pc[p] \notin {"idle", "ok", "failed"}
Meets(p) == \E q \in Parsers \ {p} : Busy(q)
Fail(p) == Goto(p, "failed") /\ UNCHANGED <<urn, fresh, raw, spec>>

\* A new version of the instance.
Publish ==
  /\ published + 1 \in Versions /\ published' = published + 1
  /\ UNCHANGED <<rules, cache, parsers, parses, overlap, history>>

\* The program is started again, maybe of another release; a write is cut off.
Restart ==
  /\ parses < MaxParses /\ parses' = parses + 1
  /\ rules' \in RuleSets
  /\ pc' = [p \in Parsers |-> "idle"] /\ raw' = [p \in Parsers |-> 0] /\ spec' = [p \in Parsers |-> NoSpec]
  /\ opened' = [p \in Parsers |-> FALSE]
  /\ urn' = [p \in Parsers |-> AnyUrn] /\ fresh' = [p \in Parsers |-> FALSE] /\ least' = [p \in Parsers |-> 0]
  /\ overlap' = (overlap \/ \E p \in Parsers : pc[p] = "write")
  /\ UNCHANGED <<published, cache, refreshed>>

\* Parse, or one urn of Refresh, which does not look at the cache.
Begin(p, u, refresh) ==
  /\ ~Busy(p) /\ parses < MaxParses /\ parses' = parses + 1
  /\ Goto(p, IF refresh THEN "instance" ELSE "load")
  /\ urn' = [urn EXCEPT ![p] = u] /\ fresh' = [fresh EXCEPT ![p] = refresh]
  /\ raw' = [raw EXCEPT ![p] = 0] /\ spec' = [spec EXCEPT ![p] = NoSpec]
  /\ overlap' = (overlap \/ Meets(p))
  /\ least' = [least EXCEPT ![p] = refreshed[u]]
  /\ UNCHANGED <<published, rules, cache, opened, refreshed>>

\* loadCachedSpec: a cached spec is returned as it is, a torn one is an error.
LoadCached(p) ==
  /\ pc[p] = "load"
  /\ LET c == cache[urn[p]] IN
     CASE c.state = "torn" -> Fail(p)
       [] c.state = "missing" -> Goto(p, "instance") /\ UNCHANGED <<urn, fresh, raw, spec>>
       [] OTHER -> Goto(p, "ok") /\ spec' = [spec EXCEPT ![p] = c.spec] /\ UNCHANGED <<urn, fresh, raw>>
  /\ UNCHANGED <<published, rules, cache, opened, parses, overlap, history>>

\* fetchInstance; a failure ends the parse, and the refresh of the urns that follow.
FetchInstance(p) ==
  /\ pc[p] = "instance"
  /\ \/ Goto(p, "texts") /\ raw' = [raw EXCEPT ![p] = published] /\ UNCHANGED <<urn, fresh, spec>>
     \/ Fail(p)
  /\ UNCHANGED <<published, rules, cache, opened, parses, overlap, history>>

\* fetchRemoteTranslations may fail, which is no failure of the parse.
Normalize(p) ==
  /\ pc[p] = "texts"
  /\ \E remote \in BOOLEAN : spec' = [spec EXCEPT ![p] = Normalized(rules, urn[p], raw[p], remote)]
  /\ Goto(p, "open")
  /\ UNCHANGED <<published, rules, cache, urn, fresh, raw, opened, parses, overlap, history>>

\* saveCachedSpec: the file is truncated, or not opened.
OpenCache(p) ==
  /\ pc[p] = "open"
  /\ \/ /\ Goto(p, "write") /\ cache' = [cache EXCEPT ![urn[p]] = Torn]
        /\ opened' = [opened EXCEPT ![p] = FALSE] /\ UNCHANGED <<urn, fresh, raw, spec>>
     \/ Fail(p) /\ UNCHANGED <<cache, opened>>
  /\ UNCHANGED <<published, rules, parses, overlap, history>>

\* The bytes are written from the start: what another parser wrote meanwhile may show behind them.
SaveCached(p) ==
  /\ pc[p] = "write" /\ Goto(p, "ok")
  /\ \E written \in {Whole(spec[p])} \cup (IF opened[p] THEN {Torn} ELSE {}) :
       cache' = [cache EXCEPT ![urn[p]] = written]
  /\ opened' = [q \in Parsers |-> opened[q] \/ (q # p /\ pc[q] = "write" /\ urn[q] = urn[p])]
  /\ refreshed' = IF fresh[p] THEN [refreshed EXCEPT ![urn[p]] = raw[p]] ELSE refreshed
  /\ UNCHANGED <<published, rules, urn, fresh, raw, spec, parses, overlap, least>>

ParserStep(p) ==
  \/ \E u \in Urns, refresh \in BOOLEAN : Begin(p, u, refresh)
  \/ LoadCached(p) \/ FetchInstance(p) \/ Normalize(p) \/ OpenCache(p) \/ SaveCached(p)

Next == Publish \/ Restart \/ \E p \in Parsers : ParserStep(p)

Spec == Init /\ [][Next]_parsing

-----------------------------------------------------------------------------
TypeOK ==
  /\ published \in Versions /\ rules \in RuleSets
  /\ \A u \in Urns : cache[u].state \in {"missing", "torn", "whole"} /\ refreshed[u] \in 0..published
  /\ pc \in [Parsers -> {"idle", "load", "instance", "texts", "open", "write", "ok", "failed"}]
  /\ urn \in [Parsers -> Urns] /\ fresh \in [Parsers -> BOOLEAN] /\ opened \in [Parsers -> BOOLEAN]
  /\ least \in [Parsers -> Versions \cup {0}]
  /\ raw \in [Parsers -> Versions \cup {0}] /\ parses \in 0..MaxParses /\ overlap \in BOOLEAN

Done(p) == pc[p] = "ok"

\* What the filter of a device excludes is in none of its specs, however often it was cached, and
\* what it does not exclude is (spec_parser.go serviceFiltered, propertyFiltered).
FilteredIsHidden ==
  \A p \in Parsers : Done(p) =>
    LET s == spec[p]  f == s.rules.hidden[BaseURN[urn[p]]]
        Excluded(e) == <<0, "service", 0>> \in f \/ <<e[1], "service", 0>> \in f
                       \/ (e[2] # "service" /\ (e \in f \/ <<e[1], e[2], 0>> \in f))
    IN \A e \in Elements \ s.rules.added[urn[p]] :
         e \in s.elements <=> e \in Instances[s.version] /\ e[1] \notin Information /\ ~Excluded(e)

\* What the aliases lead to from a urn: the least set that holds it and is closed under them.
Led(r) == Named(r) \cup {r.alias[x] : x \in DOMAIN r.alias}
Closed(r, S) == \A x \in S \cap DOMAIN r.alias : r.alias[x] \in S
Reachable(r, u) == {x \in Led(r) : \A S \in SUBSET Led(r) : u \in S /\ Closed(r, S) => x \in S}
EndsOf(r, u) == (Reachable(r, u) \ DOMAIN r.alias) \cap DOMAIN r.patches

\* A device gets the patches at the end of its chain of aliases: none of an entry on the way, and
\* never those of a device its chain does not reach (resolveModification).
PatchesAreItsOwn ==
  \A p \in Parsers : Done(p) =>
    LET r == spec[p].rules IN
    spec[p].patched =
      {e \in spec[p].elements : e[2] = "property" /\ \E x \in EndsOf(r, urn[p]) : e \in r.patches[x]}

\* A spec is in one language: the user's when there is any text in it (loadTranslations).
OneLanguage ==
  \A p \in Parsers : Done(p) =>
    LET s == spec[p]  known == Texts(urn[p], s.remote, Language) IN
    /\ s.elements \cap known \subseteq s.translated
    /\ known # {} => s.translated \subseteq known

\* Unless parses overlap or a write is cut off, no parse after a refresh returns an older instance.
RefreshIsSeen == ~overlap => \A p \in Parsers : Done(p) => spec[p].version >= least[p]

-----------------------------------------------------------------------------
\* Expected of the code but not kept by it (README, "What the code does not keep"):
\* a cached spec obeys the rules of the running release.
RulesAreInForce == \A p \in Parsers : Done(p) => spec[p].rules = rules

\* Expected of the code but not kept by it (README, "What the code does not keep"):
\* a refresh is not undone by a parse that began before it.
RefreshIsKept == \A p \in Parsers : Done(p) => spec[p].version >= least[p]

\* Expected of the code but not kept by it (README, "What the code does not keep"):
\* a torn file does not fail the parse.
TornIsRefetched == [][\A p \in Parsers : pc[p] = "load" => pc'[p] # "failed"]_parsing

\* Expected of the code but not kept by it (README, "What the code does not keep"):
\* an outage of the translations is not remembered.
OutageIsForgotten == \A u \in Urns : cache[u].state = "whole" => cache[u].spec.remote
=============================================================================
