------------------------------ MODULE ConfigStore ------------------------------
(***************************************************************************)
(* Typed payloads in hashed files (storage.go), seen at one document of    *)
(* the user configuration: it is saved whole, loaded, merged with patches  *)
(* and removed by goroutines that share no lock, and the process may crash *)
(* while a file is written.                                                *)
(***************************************************************************)
EXTENDS Naturals, Sequences, FiniteSets, SequencesExt

CONSTANTS
  Users,      \* goroutines that use the storage
  Patches,    \* documents they write: sequences of entries <<key, value>> with distinct keys
  Queries,    \* sets of keys they ask for
  MaxSaves,   \* saves (bound)
  MaxCrashes  \* crashes (bound)

VARIABLES
  file,       \* the document's file: its state, and the document it holds when whole
  pc,         \* per user: idle, read, open, write
  plan,       \* per user: the document it merges or writes
  want,       \* history: per user, the patch and whether it replaces
  opened,     \* users whose file descriptor predates the content of the file
  answer,     \* history: per user, the document its last load returned
  saves, crashes,
  expected,   \* history: the entries the completed calls ask for, as a set
  written,    \* history: the documents that were written completely
  overlap     \* history: two calls that write overlapped, or a crash or a failure cut one off

disk == <<file, opened>>
call == <<pc, plan, want, answer>>
history == <<expected, written, overlap>>
store == <<disk, call, saves, crashes, history>>

Entries(doc) == ToSet(doc)
KeysOf(doc) == {e[1] : e \in Entries(doc)}
Distinct(doc) == \A i, j \in DOMAIN doc : doc[i][1] = doc[j][1] => i = j

None == [state |-> "none", doc |-> << >>]
Torn == [state |-> "torn", doc |-> << >>]
Whole(doc) == [state |-> "whole", doc |-> doc]

TypeOK ==
  /\ file.state \in {"none", "torn", "whole"} /\ opened \subseteq Users
  /\ pc \in [Users -> {"idle", "read", "open", "write"}]
  /\ saves \in 0..MaxSaves /\ crashes \in 0..MaxCrashes /\ overlap \in BOOLEAN
  /\ \A d \in written \cup {file.doc} \cup {plan[u] : u \in Users} : Distinct(d)

Init ==
  /\ file = None /\ opened = {} /\ saves = 0 /\ crashes = 0
  /\ pc = [u \in Users |-> "idle"] /\ plan = [u \in Users |-> << >>]
  /\ want = [u \in Users |-> [patch |-> << >>, all |-> FALSE]] /\ answer = [u \in Users |-> << >>]
  /\ expected = {} /\ written = {<< >>} /\ overlap = FALSE

-----------------------------------------------------------------------------
\* Mutation of Put: an entry of a known key is appended too.
PutBehind(doc, e) == Append(doc, e)

\* One entry of a patch: it replaces the entry of its key, or is appended.
Put(doc, e) ==
  IF e[1] \in KeysOf(doc) THEN [i \in DOMAIN doc |-> IF doc[i][1] = e[1] THEN e ELSE doc[i]]
  ELSE Append(doc, e)

\* mergeUserConfigDocuments: the entries of the patch, one by one.
MergeDocuments(current, patch) ==
  LET merged[i \in 0..Len(patch)] == IF i = 0 THEN current ELSE Put(merged[i - 1], patch[i])
  IN merged[Len(patch)]

\* filterUserConfigDocument.
Filter(doc, keys) == SelectSeq(doc, LAMBDA e : e[1] \in keys)

Busy == \E u \in Users : pc[u] # "idle"
Begin(u, step, doc) ==
  /\ want' = [want EXCEPT ![u] = [patch |-> doc, all |-> step = "open"]]
  /\ pc[u] = "idle" /\ saves < MaxSaves /\ saves' = saves + 1
  /\ pc' = [pc EXCEPT ![u] = step] /\ plan' = [plan EXCEPT ![u] = doc]
  /\ overlap' = (overlap \/ Busy)
Idle(u) == pc' = [pc EXCEPT ![u] = "idle"] /\ plan' = [plan EXCEPT ![u] = << >>]

\* UpdateUserConfig with replace, and SaveJSON: the document is written whatever is stored.
Replace(u, doc) ==
  /\ Begin(u, "open", doc) /\ UNCHANGED <<disk, answer, crashes, expected, written>>

\* UpdateUserConfig without: the stored document is read first; an empty patch does nothing.
Update(u, patch) ==
  /\ patch # << >> /\ Begin(u, "read", patch) /\ UNCHANGED <<disk, answer, crashes, expected, written>>

\* LoadUserConfig: a missing document is empty, one whose hash does not match is an error.
ReadForUpdate(u) ==
  /\ pc[u] = "read"
  /\ IF file.state = "torn" THEN Idle(u)
     ELSE /\ pc' = [pc EXCEPT ![u] = "open"]
          /\ plan' = [plan EXCEPT ![u] = MergeDocuments(file.doc, plan[u])]
  /\ UNCHANGED <<disk, want, answer, saves, crashes, history>>

\* os.WriteFile truncates the file, or fails.
Open(u) ==
  /\ pc[u] = "open"
  /\ \/ /\ pc' = [pc EXCEPT ![u] = "write"] /\ file' = Torn /\ opened' = {}
        /\ UNCHANGED <<plan, overlap>>
     \/ Idle(u) /\ overlap' = TRUE /\ UNCHANGED disk
  /\ UNCHANGED <<want, answer, saves, crashes, expected, written>>

\* The bytes are written from the start: a longer document written meanwhile shows behind them.
Write(u) ==
  /\ pc[u] = "write" /\ Idle(u)
  /\ file' = IF u \in opened /\ (file = Torn \/ Len(file.doc) > Len(plan[u])) THEN Torn ELSE Whole(plan[u])
  /\ opened' = (opened \cup {o \in Users : pc[o] = "write"}) \ {u}
  /\ expected' = Entries(want[u].patch) \cup
       (IF want[u].all THEN {} ELSE {e \in expected : e[1] \notin KeysOf(want[u].patch)})
  /\ written' = written \cup {plan[u]}
  /\ UNCHANGED <<want, answer, saves, crashes, overlap>>

\* Remove, RemoveDomain and Clear, and UpdateUserConfig without a patch; a missing file is no error.
Delete(u) ==
  /\ pc[u] = "idle" /\ file # None /\ saves < MaxSaves /\ saves' = saves + 1
  /\ file' = None /\ overlap' = (overlap \/ Busy) /\ expected' = {} /\ written' = written
  /\ opened' = opened \cup {o \in Users : pc[o] = "write"}
  /\ UNCHANGED <<call, crashes>>

\* Mutation of Load: the hash is not compared.
LoadUnchecked(u, keys) ==
  /\ pc[u] = "idle"
  /\ answer' = [answer EXCEPT ![u] =
       Filter(IF file = Torn THEN <<<<CHOOSE k \in keys : TRUE, "torn">>>> ELSE file.doc, keys)]
  /\ UNCHANGED <<disk, pc, plan, want, saves, crashes, history>>

\* LoadUserConfig of some keys.
Load(u, keys) ==
  /\ pc[u] = "idle" /\ file # Torn
  /\ answer' = [answer EXCEPT ![u] = Filter(file.doc, keys)]
  /\ UNCHANGED <<disk, pc, plan, want, saves, crashes, history>>

\* The process crashes: what was being written is torn.
Crash ==
  /\ crashes < MaxCrashes /\ crashes' = crashes + 1
  /\ pc' = [u \in Users |-> "idle"] /\ plan' = [u \in Users |-> << >>] /\ opened' = {}
  /\ overlap' = (overlap \/ Busy)
  /\ UNCHANGED <<file, want, answer, saves, expected, written>>

Next ==
  \/ Crash
  \/ \E u \in Users :
       \/ ReadForUpdate(u) \/ Open(u) \/ Write(u) \/ Delete(u)
       \/ \E d \in Patches : Replace(u, d) \/ Update(u, d)
       \/ \E q \in Queries : Load(u, q)

Spec == Init /\ [][Next]_store

-----------------------------------------------------------------------------
\* Whatever a load returns was written by one save: no mixture, no torn document (readHashed).
LoadedWasSaved ==
  \A u \in Users : \E d \in written, q \in Queries : answer[u] = << >> \/ answer[u] = Filter(d, q)

\* Updates that do not overlap and are not cut off all take effect (UpdateUserConfig).
UpdatesAreKept ==
  ~overlap /\ ~Busy => file # Torn /\ Entries(file.doc) = expected

\* Expected of the code but not kept by it (README, "What the code does not keep"):
\* two updates of different keys are both kept (UpdateUserConfig reads and writes without a lock).
NoUpdateIsLost ==
  ~Busy /\ crashes = 0 /\ file.state = "whole" => {e[1] : e \in expected} \subseteq KeysOf(file.doc)
=============================================================================
