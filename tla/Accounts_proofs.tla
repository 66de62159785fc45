---------------------------- MODULE Accounts_proofs ----------------------------
(***************************************************************************)
(* Proofs about MCAccounts: the upkeep of the credentials (AuthUpkeep),    *)
(* the routing of commands (CommandRouting), the cached specs              *)
(* (SpecParser), the stored documents (ConfigStore) and the devices and    *)
(* scenes of the account (CloudCatalog), for any number of tasks, callers, *)
(* parsers, users, entries, devices and pages.                             *)
(***************************************************************************)
EXTENDS MCAccounts, SequenceTheorems, FiniteSetTheorems, WellFoundedInduction, TLAPS

(* The upkeep of the credentials *)

FileTypes == [state : {"none", "empty", "torn", "whole"}, value : 0..(MaxToken + MaxKey)]

FilesTyped == file \in [Files -> FileTypes]

NumbersTyped ==
  /\ issued \in 1..MaxToken /\ agedTokens \subseteq 1..MaxToken
  /\ cloudToken \in 0..MaxToken /\ pushToken \in 0..MaxToken
  /\ keys \in 0..MaxKey /\ crashes \in 0..MaxCrashes

FlagsTyped == {certAged, oauthTimer, certTimer, overlap, replaced} \subseteq BOOLEAN

TasksTyped ==
  /\ pc \in [Tasks -> {"idle"} \cup OAuthSteps \cup CertSteps]
  /\ loc \in [Tasks -> 0..(MaxToken + MaxKey)] /\ goesOn \in [Tasks -> BOOLEAN]

UpkeepTypes == FilesTyped /\ NumbersTyped /\ FlagsTyped /\ TasksTyped

\* Every token on disk, in use or in hand is one the server issued; 0 stands for none.
TokensAreIssued ==
  /\ file["config"].value \in 0..issued /\ cloudToken \in 0..issued /\ pushToken \in 0..issued
  /\ \A t \in Tasks : pc[t] \in OAuthSteps => loc[t] \in 0..issued

\* Two tasks are never at the same job.
TasksAreAlone ==
  \A t, u \in Tasks : t # u =>
    /\ ~(pc[t] \in OAuthSteps /\ pc[u] \in OAuthSteps)
    /\ ~(pc[t] \in CertSteps /\ pc[u] \in CertSteps)

\* From its answer on a task holds the newest token, and it stores it when both clients use it.
TokenInHand ==
  /\ \A t \in Tasks :
       /\ pc[t] \in {"auth", "push", "merge", "openConfig", "writeConfig"} => loc[t] = issued
       /\ pc[t] \in {"push", "merge", "openConfig", "writeConfig"} => cloudToken = issued
       /\ pc[t] \in {"merge", "openConfig", "writeConfig"} => pushToken = issued
  /\ file["config"].state = "whole" =>
       file["config"].value <= cloudToken /\ (file["config"].value <= pushToken)

\* A key is replaced only while there is no certificate, or after the stored one was taken for missing,
\* and certified only when it is stored.
KeyInHand ==
  /\ \A t \in Tasks :
       /\ pc[t] \in {"openKey", "writeKey"} => replaced \/ file["cert"].state # "whole"
       /\ pc[t] \in {"central", "openCert", "writeCert"} =>
            file["key"].state = "whole" /\ loc[t] = file["key"].value
  /\ file["cert"].state = "whole" /\ ~replaced =>
       file["key"].state = "whole" /\ file["cert"].value = file["key"].value

AloneUnlessOverlap == ~overlap => TasksAreAlone
TokenUnlessOverlap == ~overlap => TokenInHand
KeyUnlessOverlap == ~overlap => KeyInHand

UpkeepInv ==
  /\ UpkeepTypes /\ TokensAreIssued
  /\ AloneUnlessOverlap /\ TokenUnlessOverlap /\ KeyUnlessOverlap

-----------------------------------------------------------------------------
(* Steps of the upkeep *)

\* What is written to a file has its type.
LEMMA FileValues ==
  /\ None \in FileTypes /\ Empty \in FileTypes /\ Torn \in FileTypes
  /\ 0 \in 0..(MaxToken + MaxKey)
  /\ \A v \in 0..(MaxToken + MaxKey) : Whole(v) \in FileTypes
  /\ \A x \in FileTypes : x.value \in 0..(MaxToken + MaxKey)
  BY UpkeepConstants DEF UpkeepConstants, None, Empty, Torn, Whole, FileTypes

\* LoadUserKey has three outcomes, whatever the stored key is.
LEMMA KeyIsLoaded ==
  ASSUME FilesTyped, NEW t \in Tasks, LoadUserKey(t)
  PROVE  /\ pc[t] = "key" /\ UNCHANGED <<disk, issued, memory, crashes>>
         /\ \/ /\ keys < MaxKey /\ keys' = keys + 1 /\ Hold(t, "openKey", keys + 1) /\ Quiet
               /\ replaced' = (replaced \/ file["key"].state = "whole")
            \/ End(t) /\ UNCHANGED <<keys, replaced>>
            \/ /\ file["key"].state = "whole" /\ Hold(t, "central", file["key"].value)
               /\ Quiet /\ UNCHANGED <<keys, replaced>>
  BY DEF LoadUserKey, FilesTyped, FileTypes, Files

\* A step moves its task to a step, with a token or a key of the right size.
LEMMA HoldTyped ==
  ASSUME TasksTyped, NEW t \in Tasks, NEW to \in {"idle"} \cup OAuthSteps \cup CertSteps,
         NEW v \in 0..(MaxToken + MaxKey), Hold(t, to, v), Quiet
  PROVE  TasksTyped'
  BY DEF TasksTyped, Hold, Goto, Quiet

LEMMA GotoTyped ==
  ASSUME TasksTyped, NEW t \in Tasks, NEW to \in {"idle"} \cup OAuthSteps \cup CertSteps,
         Goto(t, to), Quiet, UNCHANGED loc
  PROVE  TasksTyped'
  BY DEF TasksTyped, Goto, Quiet

LEMMA EndTyped ==
  ASSUME TasksTyped, NEW t \in Tasks, End(t)
  PROVE  TasksTyped'
  <1>1. \E to \in {"idle"} \cup OAuthSteps \cup CertSteps : pc' = [pc EXCEPT ![t] = to]
    BY DEF End, Hold, Goto, CertSteps
  <1>2. 0 \in 0..(MaxToken + MaxKey)
    BY UpkeepConstants DEF UpkeepConstants
  <1>. QED
    BY <1>1, <1>2 DEF End, Hold, TasksTyped

LEMMA BeginTyped ==
  ASSUME TasksTyped, NEW t \in Tasks, NEW first \in {"load", "ca"}, NEW more \in BOOLEAN,
         NEW steps, Begin(t, steps, first, more)
  PROVE  TasksTyped'
  BY UpkeepConstants DEF UpkeepConstants, TasksTyped, Begin, Hold, Goto, OAuthSteps, CertSteps

LEMMA FilesStep ==
  UpkeepTypes /\ TokensAreIssued /\ [Next]_upkeep => FilesTyped'
  <1>. SUFFICES ASSUME UpkeepTypes, TokensAreIssued, [Next]_upkeep PROVE FilesTyped'
    OBVIOUS
  <1>1. ASSUME NEW t \in Tasks, LoadUserKey(t) PROVE FilesTyped'
    BY <1>1, KeyIsLoaded, FileValues
    DEF End, Hold, Goto, Quiet, disk, memory, UpkeepTypes, FilesTyped, TasksTyped, Files
  <1>2. CASE Age
    BY <1>2, FileValues
    DEF Age, task, memory, UpkeepTypes, FilesTyped, TasksTyped, Files
  <1>3. CASE Crash
    BY <1>3, FileValues
    DEF Crash, Left, UpkeepTypes, FilesTyped, TasksTyped, Files
  <1>4. ASSUME NEW t \in Tasks, NetworkUp(t) PROVE FilesTyped'
    BY <1>4, FileValues
    DEF NetworkUp, Begin, Hold, Goto, disk, memory, UpkeepTypes, FilesTyped, TasksTyped, Files
  <1>5. ASSUME NEW t \in Tasks, OAuthTimerFires(t) PROVE FilesTyped'
    BY <1>5, FileValues
    DEF OAuthTimerFires, Begin, Hold, Goto, disk, UpkeepTypes, FilesTyped, TasksTyped, Files
  <1>6. ASSUME NEW t \in Tasks, CertTimerFires(t) PROVE FilesTyped'
    BY <1>6, FileValues
    DEF CertTimerFires, Begin, Hold, Goto, disk, UpkeepTypes, FilesTyped, TasksTyped, Files
  <1>7. ASSUME NEW t \in Tasks, Load(t) PROVE FilesTyped'
    BY <1>7, FileValues
    DEF Load, End, Hold, Goto, Quiet, disk, memory, UpkeepTypes, FilesTyped, TasksTyped, Files
  <1>8. ASSUME NEW t \in Tasks, RefreshToken(t) PROVE FilesTyped'
    BY <1>8, FileValues
    DEF RefreshToken, End, Hold, Goto, Quiet, disk, memory, UpkeepTypes, FilesTyped, TasksTyped,
        Files
  <1>9. ASSUME NEW t \in Tasks, UpdateAuth(t) PROVE FilesTyped'
    BY <1>9, FileValues
    DEF UpdateAuth, Goto, Quiet, disk, UpkeepTypes, FilesTyped, TasksTyped, Files
  <1>10. ASSUME NEW t \in Tasks, RefreshAccessToken(t) PROVE FilesTyped'
    BY <1>10, FileValues
    DEF RefreshAccessToken, End, Hold, Goto, Quiet, disk, UpkeepTypes, FilesTyped, TasksTyped,
        Files
  <1>11. ASSUME NEW t \in Tasks, Merge(t) PROVE FilesTyped'
    BY <1>11, FileValues
    DEF Merge, End, Hold, Goto, Quiet, disk, memory, UpkeepTypes, FilesTyped, TasksTyped, Files
  <1>12. ASSUME NEW t \in Tasks, OpenConfig(t) PROVE FilesTyped'
    BY <1>12, FileValues
    DEF OpenConfig, Open, End, Hold, Goto, Quiet, memory, UpkeepTypes, FilesTyped, TasksTyped,
        Files
  <1>13. ASSUME NEW t \in Tasks, WriteConfig(t) PROVE FilesTyped'
    BY <1>13, FileValues
    DEF WriteConfig, End, Hold, Goto, UpkeepTypes, FilesTyped, TasksTyped, Files
  <1>14. ASSUME NEW t \in Tasks, WriteFails(t) PROVE FilesTyped'
    BY <1>14, FileValues
    DEF WriteFails, End, Hold, Goto, Written, memory, UpkeepTypes, FilesTyped, TasksTyped, Files
  <1>15. ASSUME NEW t \in Tasks, VerifyCACert(t) PROVE FilesTyped'
    BY <1>15, FileValues
    DEF VerifyCACert, End, Hold, Goto, Quiet, disk, memory, UpkeepTypes, FilesTyped, TasksTyped,
        Files
  <1>16. ASSUME NEW t \in Tasks, OpenCA(t) PROVE FilesTyped'
    BY <1>16, FileValues
    DEF OpenCA, Open, End, Hold, Goto, Quiet, memory, UpkeepTypes, FilesTyped, TasksTyped, Files
  <1>17. ASSUME NEW t \in Tasks, WriteCA(t) PROVE FilesTyped'
    BY <1>17, FileValues
    DEF WriteCA, End, Hold, Goto, Quiet, memory, UpkeepTypes, FilesTyped, TasksTyped, Files
  <1>18. ASSUME NEW t \in Tasks, UserCertRemaining(t) PROVE FilesTyped'
    BY <1>18, FileValues
    DEF UserCertRemaining, End, Hold, Goto, Quiet, disk, UpkeepTypes, FilesTyped, TasksTyped,
        Files
  <1>19. ASSUME NEW t \in Tasks, OpenKey(t) PROVE FilesTyped'
    BY <1>19, FileValues
    DEF OpenKey, Open, End, Hold, Goto, Quiet, memory, UpkeepTypes, FilesTyped, TasksTyped,
        Files
  <1>20. ASSUME NEW t \in Tasks, WriteKey(t) PROVE FilesTyped'
    BY <1>20, FileValues
    DEF WriteKey, Goto, Quiet, memory, UpkeepTypes, FilesTyped, TasksTyped, Files
  <1>21. ASSUME NEW t \in Tasks, GetCentralCert(t) PROVE FilesTyped'
    BY <1>21, FileValues
    DEF GetCentralCert, End, Hold, Goto, Quiet, disk, memory, UpkeepTypes, FilesTyped,
        TasksTyped, Files
  <1>22. ASSUME NEW t \in Tasks, OpenCert(t) PROVE FilesTyped'
    BY <1>22, FileValues
    DEF OpenCert, Open, End, Hold, Goto, Quiet, memory, UpkeepTypes, FilesTyped, TasksTyped,
        Files
  <1>23. ASSUME NEW t \in Tasks, WriteCert(t) PROVE FilesTyped'
    BY <1>23, FileValues
    DEF WriteCert, Goto, Quiet, memory, UpkeepTypes, FilesTyped, TasksTyped, Files
  <1>24. ASSUME NEW t \in Tasks, Again(t) PROVE FilesTyped'
    BY <1>24, FileValues
    DEF Again, End, Hold, Goto, disk, UpkeepTypes, FilesTyped, TasksTyped, Files
  <1>25. CASE UNCHANGED upkeep
    BY <1>25
    DEF upkeep, disk, memory, task, UpkeepTypes, FilesTyped, TasksTyped, Files
  <1>. QED
    BY <1>1, <1>2, <1>3, <1>4, <1>5, <1>6, <1>7, <1>8, <1>9, <1>10, <1>11, <1>12, <1>13, <1>14,
       <1>15, <1>16, <1>17, <1>18, <1>19, <1>20, <1>21, <1>22, <1>23, <1>24, <1>25
    DEF Next, OAuth, Cert

LEMMA NumbersStep ==
  UpkeepTypes /\ TokensAreIssued /\ [Next]_upkeep => NumbersTyped'
  <1>. SUFFICES ASSUME UpkeepTypes, TokensAreIssued, [Next]_upkeep PROVE NumbersTyped'
    OBVIOUS
  <1>1. CASE Age
    <2>1. agedTokens' \subseteq agedTokens \cup 1..issued
      BY <1>1 DEF Age
    <2>2. 1..issued \subseteq 1..MaxToken
      BY UpkeepConstants DEF UpkeepTypes, NumbersTyped, UpkeepConstants
    <2>. QED
      BY <1>1, <2>1, <2>2 DEF Age, memory, UpkeepTypes, NumbersTyped
  <1>2. ASSUME NEW t \in Tasks, LoadUserKey(t) PROVE NumbersTyped'
    <2>1. keys' \in 0..MaxKey /\ UNCHANGED <<disk, issued, memory, crashes>>
      BY <1>2, KeyIsLoaded, UpkeepConstants DEF UpkeepTypes, NumbersTyped, UpkeepConstants
    <2>. QED
      BY <1>2, <2>1 DEF disk, memory, UpkeepTypes, NumbersTyped
  <1>3. CASE Crash
    BY <1>3, UpkeepConstants
    DEF Crash, Left, UpkeepTypes, NumbersTyped, TokensAreIssued, UpkeepConstants, OAuthSteps,
        FilesTyped, FileTypes, Files
  <1>4. ASSUME NEW t \in Tasks, NetworkUp(t) PROVE NumbersTyped'
    BY <1>4, UpkeepConstants
    DEF NetworkUp, Begin, Hold, Goto, disk, memory, UpkeepTypes, NumbersTyped, TokensAreIssued,
        UpkeepConstants, OAuthSteps, FilesTyped, FileTypes, Files
  <1>5. ASSUME NEW t \in Tasks, OAuthTimerFires(t) PROVE NumbersTyped'
    BY <1>5, UpkeepConstants
    DEF OAuthTimerFires, Begin, Hold, Goto, disk, UpkeepTypes, NumbersTyped, TokensAreIssued,
        UpkeepConstants, OAuthSteps, FilesTyped, FileTypes, Files
  <1>6. ASSUME NEW t \in Tasks, CertTimerFires(t) PROVE NumbersTyped'
    BY <1>6, UpkeepConstants
    DEF CertTimerFires, Begin, Hold, Goto, disk, UpkeepTypes, NumbersTyped, TokensAreIssued,
        UpkeepConstants, OAuthSteps, FilesTyped, FileTypes, Files
  <1>7. ASSUME NEW t \in Tasks, Load(t) PROVE NumbersTyped'
    BY <1>7, UpkeepConstants
    DEF Load, End, Hold, Goto, Quiet, disk, memory, UpkeepTypes, NumbersTyped, TokensAreIssued,
        UpkeepConstants, OAuthSteps, FilesTyped, FileTypes, Files
  <1>8. ASSUME NEW t \in Tasks, RefreshToken(t) PROVE NumbersTyped'
    BY <1>8, UpkeepConstants
    DEF RefreshToken, End, Hold, Goto, Quiet, disk, memory, UpkeepTypes, NumbersTyped,
        TokensAreIssued, UpkeepConstants, OAuthSteps, FilesTyped, FileTypes, Files
  <1>9. ASSUME NEW t \in Tasks, UpdateAuth(t) PROVE NumbersTyped'
    BY <1>9, UpkeepConstants
    DEF UpdateAuth, Goto, Quiet, disk, UpkeepTypes, NumbersTyped, TokensAreIssued,
        UpkeepConstants, OAuthSteps, FilesTyped, FileTypes, Files
  <1>10. ASSUME NEW t \in Tasks, RefreshAccessToken(t) PROVE NumbersTyped'
    BY <1>10, UpkeepConstants
    DEF RefreshAccessToken, End, Hold, Goto, Quiet, disk, UpkeepTypes, NumbersTyped,
        TokensAreIssued, UpkeepConstants, OAuthSteps, FilesTyped, FileTypes, Files
  <1>11. ASSUME NEW t \in Tasks, Merge(t) PROVE NumbersTyped'
    BY <1>11, UpkeepConstants
    DEF Merge, End, Hold, Goto, Quiet, disk, memory, UpkeepTypes, NumbersTyped, TokensAreIssued,
        UpkeepConstants, OAuthSteps, FilesTyped, FileTypes, Files
  <1>12. ASSUME NEW t \in Tasks, OpenConfig(t) PROVE NumbersTyped'
    BY <1>12, UpkeepConstants
    DEF OpenConfig, Open, End, Hold, Goto, Quiet, memory, UpkeepTypes, NumbersTyped,
        TokensAreIssued, UpkeepConstants, OAuthSteps, FilesTyped, FileTypes, Files
  <1>13. ASSUME NEW t \in Tasks, WriteConfig(t) PROVE NumbersTyped'
    BY <1>13, UpkeepConstants
    DEF WriteConfig, End, Hold, Goto, UpkeepTypes, NumbersTyped, TokensAreIssued,
        UpkeepConstants, OAuthSteps, FilesTyped, FileTypes, Files
  <1>14. ASSUME NEW t \in Tasks, WriteFails(t) PROVE NumbersTyped'
    BY <1>14, UpkeepConstants
    DEF WriteFails, End, Hold, Goto, Written, memory, UpkeepTypes, NumbersTyped,
        TokensAreIssued, UpkeepConstants, OAuthSteps, FilesTyped, FileTypes, Files
  <1>15. ASSUME NEW t \in Tasks, VerifyCACert(t) PROVE NumbersTyped'
    BY <1>15, UpkeepConstants
    DEF VerifyCACert, End, Hold, Goto, Quiet, disk, memory, UpkeepTypes, NumbersTyped,
        TokensAreIssued, UpkeepConstants, OAuthSteps, FilesTyped, FileTypes, Files
  <1>16. ASSUME NEW t \in Tasks, OpenCA(t) PROVE NumbersTyped'
    BY <1>16, UpkeepConstants
    DEF OpenCA, Open, End, Hold, Goto, Quiet, memory, UpkeepTypes, NumbersTyped,
        TokensAreIssued, UpkeepConstants, OAuthSteps, FilesTyped, FileTypes, Files
  <1>17. ASSUME NEW t \in Tasks, WriteCA(t) PROVE NumbersTyped'
    BY <1>17, UpkeepConstants
    DEF WriteCA, End, Hold, Goto, Quiet, memory, UpkeepTypes, NumbersTyped, TokensAreIssued,
        UpkeepConstants, OAuthSteps, FilesTyped, FileTypes, Files
  <1>18. ASSUME NEW t \in Tasks, UserCertRemaining(t) PROVE NumbersTyped'
    BY <1>18, UpkeepConstants
    DEF UserCertRemaining, End, Hold, Goto, Quiet, disk, UpkeepTypes, NumbersTyped,
        TokensAreIssued, UpkeepConstants, OAuthSteps, FilesTyped, FileTypes, Files
  <1>19. ASSUME NEW t \in Tasks, OpenKey(t) PROVE NumbersTyped'
    BY <1>19, UpkeepConstants
    DEF OpenKey, Open, End, Hold, Goto, Quiet, memory, UpkeepTypes, NumbersTyped,
        TokensAreIssued, UpkeepConstants, OAuthSteps, FilesTyped, FileTypes, Files
  <1>20. ASSUME NEW t \in Tasks, WriteKey(t) PROVE NumbersTyped'
    BY <1>20, UpkeepConstants
    DEF WriteKey, Goto, Quiet, memory, UpkeepTypes, NumbersTyped, TokensAreIssued,
        UpkeepConstants, OAuthSteps, FilesTyped, FileTypes, Files
  <1>21. ASSUME NEW t \in Tasks, GetCentralCert(t) PROVE NumbersTyped'
    BY <1>21, UpkeepConstants
    DEF GetCentralCert, End, Hold, Goto, Quiet, disk, memory, UpkeepTypes, NumbersTyped,
        TokensAreIssued, UpkeepConstants, OAuthSteps, FilesTyped, FileTypes, Files
  <1>22. ASSUME NEW t \in Tasks, OpenCert(t) PROVE NumbersTyped'
    BY <1>22, UpkeepConstants
    DEF OpenCert, Open, End, Hold, Goto, Quiet, memory, UpkeepTypes, NumbersTyped,
        TokensAreIssued, UpkeepConstants, OAuthSteps, FilesTyped, FileTypes, Files
  <1>23. ASSUME NEW t \in Tasks, WriteCert(t) PROVE NumbersTyped'
    BY <1>23, UpkeepConstants
    DEF WriteCert, Goto, Quiet, memory, UpkeepTypes, NumbersTyped, TokensAreIssued,
        UpkeepConstants, OAuthSteps, FilesTyped, FileTypes, Files
  <1>24. ASSUME NEW t \in Tasks, Again(t) PROVE NumbersTyped'
    BY <1>24, UpkeepConstants
    DEF Again, End, Hold, Goto, disk, UpkeepTypes, NumbersTyped, TokensAreIssued,
        UpkeepConstants, OAuthSteps, FilesTyped, FileTypes, Files
  <1>25. CASE UNCHANGED upkeep
    BY <1>25
    DEF upkeep, disk, memory, task, UpkeepTypes, NumbersTyped, TokensAreIssued, UpkeepConstants,
        OAuthSteps, FilesTyped, FileTypes, Files
  <1>. QED
    BY <1>1, <1>2, <1>3, <1>4, <1>5, <1>6, <1>7, <1>8, <1>9, <1>10, <1>11, <1>12, <1>13, <1>14,
       <1>15, <1>16, <1>17, <1>18, <1>19, <1>20, <1>21, <1>22, <1>23, <1>24, <1>25
    DEF Next, OAuth, Cert

LEMMA FlagsStep ==
  UpkeepTypes /\ [Next]_upkeep => FlagsTyped'
  <1>. SUFFICES ASSUME UpkeepTypes, [Next]_upkeep PROVE FlagsTyped'
    OBVIOUS
  <1>1. ASSUME NEW t \in Tasks, LoadUserKey(t) PROVE FlagsTyped'
    BY <1>1, KeyIsLoaded
    DEF End, Hold, Goto, Quiet, disk, memory, UpkeepTypes, FlagsTyped
  <1>2. CASE Age
    BY <1>2
    DEF Age, task, memory, UpkeepTypes, FlagsTyped
  <1>3. CASE Crash
    BY <1>3
    DEF Crash, Left, UpkeepTypes, FlagsTyped
  <1>4. ASSUME NEW t \in Tasks, NetworkUp(t) PROVE FlagsTyped'
    BY <1>4
    DEF NetworkUp, Begin, Hold, Goto, disk, memory, UpkeepTypes, FlagsTyped
  <1>5. ASSUME NEW t \in Tasks, OAuthTimerFires(t) PROVE FlagsTyped'
    BY <1>5
    DEF OAuthTimerFires, Begin, Hold, Goto, disk, UpkeepTypes, FlagsTyped
  <1>6. ASSUME NEW t \in Tasks, CertTimerFires(t) PROVE FlagsTyped'
    BY <1>6
    DEF CertTimerFires, Begin, Hold, Goto, disk, UpkeepTypes, FlagsTyped
  <1>7. ASSUME NEW t \in Tasks, Load(t) PROVE FlagsTyped'
    BY <1>7
    DEF Load, End, Hold, Goto, Quiet, disk, memory, UpkeepTypes, FlagsTyped
  <1>8. ASSUME NEW t \in Tasks, RefreshToken(t) PROVE FlagsTyped'
    BY <1>8
    DEF RefreshToken, End, Hold, Goto, Quiet, disk, memory, UpkeepTypes, FlagsTyped
  <1>9. ASSUME NEW t \in Tasks, UpdateAuth(t) PROVE FlagsTyped'
    BY <1>9
    DEF UpdateAuth, Goto, Quiet, disk, UpkeepTypes, FlagsTyped
  <1>10. ASSUME NEW t \in Tasks, RefreshAccessToken(t) PROVE FlagsTyped'
    BY <1>10
    DEF RefreshAccessToken, End, Hold, Goto, Quiet, disk, UpkeepTypes, FlagsTyped
  <1>11. ASSUME NEW t \in Tasks, Merge(t) PROVE FlagsTyped'
    BY <1>11
    DEF Merge, End, Hold, Goto, Quiet, disk, memory, UpkeepTypes, FlagsTyped
  <1>12. ASSUME NEW t \in Tasks, OpenConfig(t) PROVE FlagsTyped'
    BY <1>12
    DEF OpenConfig, Open, End, Hold, Goto, Quiet, memory, UpkeepTypes, FlagsTyped
  <1>13. ASSUME NEW t \in Tasks, WriteConfig(t) PROVE FlagsTyped'
    BY <1>13
    DEF WriteConfig, End, Hold, Goto, UpkeepTypes, FlagsTyped
  <1>14. ASSUME NEW t \in Tasks, WriteFails(t) PROVE FlagsTyped'
    BY <1>14
    DEF WriteFails, End, Hold, Goto, Written, memory, UpkeepTypes, FlagsTyped
  <1>15. ASSUME NEW t \in Tasks, VerifyCACert(t) PROVE FlagsTyped'
    BY <1>15
    DEF VerifyCACert, End, Hold, Goto, Quiet, disk, memory, UpkeepTypes, FlagsTyped
  <1>16. ASSUME NEW t \in Tasks, OpenCA(t) PROVE FlagsTyped'
    BY <1>16
    DEF OpenCA, Open, End, Hold, Goto, Quiet, memory, UpkeepTypes, FlagsTyped
  <1>17. ASSUME NEW t \in Tasks, WriteCA(t) PROVE FlagsTyped'
    BY <1>17
    DEF WriteCA, End, Hold, Goto, Quiet, memory, UpkeepTypes, FlagsTyped
  <1>18. ASSUME NEW t \in Tasks, UserCertRemaining(t) PROVE FlagsTyped'
    BY <1>18
    DEF UserCertRemaining, End, Hold, Goto, Quiet, disk, UpkeepTypes, FlagsTyped
  <1>19. ASSUME NEW t \in Tasks, OpenKey(t) PROVE FlagsTyped'
    BY <1>19
    DEF OpenKey, Open, End, Hold, Goto, Quiet, memory, UpkeepTypes, FlagsTyped
  <1>20. ASSUME NEW t \in Tasks, WriteKey(t) PROVE FlagsTyped'
    BY <1>20
    DEF WriteKey, Goto, Quiet, memory, UpkeepTypes, FlagsTyped
  <1>21. ASSUME NEW t \in Tasks, GetCentralCert(t) PROVE FlagsTyped'
    BY <1>21
    DEF GetCentralCert, End, Hold, Goto, Quiet, disk, memory, UpkeepTypes, FlagsTyped
  <1>22. ASSUME NEW t \in Tasks, OpenCert(t) PROVE FlagsTyped'
    BY <1>22
    DEF OpenCert, Open, End, Hold, Goto, Quiet, memory, UpkeepTypes, FlagsTyped
  <1>23. ASSUME NEW t \in Tasks, WriteCert(t) PROVE FlagsTyped'
    BY <1>23
    DEF WriteCert, Goto, Quiet, memory, UpkeepTypes, FlagsTyped
  <1>24. ASSUME NEW t \in Tasks, Again(t) PROVE FlagsTyped'
    BY <1>24
    DEF Again, End, Hold, Goto, disk, UpkeepTypes, FlagsTyped
  <1>25. CASE UNCHANGED upkeep
    BY <1>25
    DEF upkeep, disk, memory, task, UpkeepTypes, FlagsTyped
  <1>. QED
    BY <1>1, <1>2, <1>3, <1>4, <1>5, <1>6, <1>7, <1>8, <1>9, <1>10, <1>11, <1>12, <1>13, <1>14,
       <1>15, <1>16, <1>17, <1>18, <1>19, <1>20, <1>21, <1>22, <1>23, <1>24, <1>25
    DEF Next, OAuth, Cert

LEMMA TasksStep ==
  UpkeepTypes /\ TokensAreIssued /\ [Next]_upkeep => TasksTyped'
  <1>. SUFFICES ASSUME UpkeepTypes, TokensAreIssued, [Next]_upkeep PROVE TasksTyped'
    OBVIOUS
  <1>1. ASSUME NEW t \in Tasks, LoadUserKey(t) PROVE TasksTyped'
    BY <1>1, KeyIsLoaded, UpkeepConstants, EndTyped, HoldTyped, GotoTyped, BeginTyped
    DEF Quiet, disk, memory, UpkeepTypes, NumbersTyped, TasksTyped, FilesTyped, FileTypes,
        UpkeepConstants, OAuthSteps, CertSteps, Files
  <1>2. CASE Age
    BY <1>2, UpkeepConstants, EndTyped, HoldTyped, GotoTyped, BeginTyped
    DEF Age, task, memory, UpkeepTypes, NumbersTyped, TasksTyped, FilesTyped, FileTypes,
        UpkeepConstants, OAuthSteps, CertSteps, Files
  <1>3. CASE Crash
    BY <1>3, UpkeepConstants, EndTyped, HoldTyped, GotoTyped, BeginTyped
    DEF Crash, Left, UpkeepTypes, NumbersTyped, TasksTyped, FilesTyped, FileTypes,
        UpkeepConstants, OAuthSteps, CertSteps, Files
  <1>4. ASSUME NEW t \in Tasks, NetworkUp(t) PROVE TasksTyped'
    BY <1>4, UpkeepConstants, EndTyped, HoldTyped, GotoTyped, BeginTyped
    DEF NetworkUp, disk, memory, UpkeepTypes, NumbersTyped, TasksTyped, FilesTyped, FileTypes,
        UpkeepConstants, OAuthSteps, CertSteps, Files
  <1>5. ASSUME NEW t \in Tasks, OAuthTimerFires(t) PROVE TasksTyped'
    BY <1>5, UpkeepConstants, EndTyped, HoldTyped, GotoTyped, BeginTyped
    DEF OAuthTimerFires, disk, UpkeepTypes, NumbersTyped, TasksTyped, FilesTyped, FileTypes,
        UpkeepConstants, OAuthSteps, CertSteps, Files
  <1>6. ASSUME NEW t \in Tasks, CertTimerFires(t) PROVE TasksTyped'
    BY <1>6, UpkeepConstants, EndTyped, HoldTyped, GotoTyped, BeginTyped
    DEF CertTimerFires, disk, UpkeepTypes, NumbersTyped, TasksTyped, FilesTyped, FileTypes,
        UpkeepConstants, OAuthSteps, CertSteps, Files
  <1>7. ASSUME NEW t \in Tasks, Load(t) PROVE TasksTyped'
    BY <1>7, UpkeepConstants, EndTyped, HoldTyped, GotoTyped, BeginTyped
    DEF Load, Quiet, disk, memory, UpkeepTypes, NumbersTyped, TasksTyped, FilesTyped, FileTypes,
        UpkeepConstants, OAuthSteps, CertSteps, Files
  <1>8. ASSUME NEW t \in Tasks, RefreshToken(t) PROVE TasksTyped'
    BY <1>8, UpkeepConstants, EndTyped, HoldTyped, GotoTyped, BeginTyped
    DEF RefreshToken, Quiet, disk, memory, UpkeepTypes, NumbersTyped, TasksTyped, FilesTyped,
        FileTypes, UpkeepConstants, OAuthSteps, CertSteps, Files
  <1>9. ASSUME NEW t \in Tasks, UpdateAuth(t) PROVE TasksTyped'
    BY <1>9, UpkeepConstants, EndTyped, HoldTyped, GotoTyped, BeginTyped
    DEF UpdateAuth, Quiet, disk, UpkeepTypes, NumbersTyped, TasksTyped, FilesTyped, FileTypes,
        UpkeepConstants, OAuthSteps, CertSteps, Files
  <1>10. ASSUME NEW t \in Tasks, RefreshAccessToken(t) PROVE TasksTyped'
    BY <1>10, UpkeepConstants, EndTyped, HoldTyped, GotoTyped, BeginTyped
    DEF RefreshAccessToken, Quiet, disk, UpkeepTypes, NumbersTyped, TasksTyped, FilesTyped,
        FileTypes, UpkeepConstants, OAuthSteps, CertSteps, Files
  <1>11. ASSUME NEW t \in Tasks, Merge(t) PROVE TasksTyped'
    BY <1>11, UpkeepConstants, EndTyped, HoldTyped, GotoTyped, BeginTyped
    DEF Merge, Quiet, disk, memory, UpkeepTypes, NumbersTyped, TasksTyped, FilesTyped,
        FileTypes, UpkeepConstants, OAuthSteps, CertSteps, Files
  <1>12. ASSUME NEW t \in Tasks, OpenConfig(t) PROVE TasksTyped'
    BY <1>12, UpkeepConstants, EndTyped, HoldTyped, GotoTyped, BeginTyped
    DEF OpenConfig, Open, Quiet, memory, UpkeepTypes, NumbersTyped, TasksTyped, FilesTyped,
        FileTypes, UpkeepConstants, OAuthSteps, CertSteps, Files
  <1>13. ASSUME NEW t \in Tasks, WriteConfig(t) PROVE TasksTyped'
    BY <1>13, UpkeepConstants, EndTyped, HoldTyped, GotoTyped, BeginTyped
    DEF WriteConfig, UpkeepTypes, NumbersTyped, TasksTyped, FilesTyped, FileTypes,
        UpkeepConstants, OAuthSteps, CertSteps, Files
  <1>14. ASSUME NEW t \in Tasks, WriteFails(t) PROVE TasksTyped'
    BY <1>14, UpkeepConstants, EndTyped, HoldTyped, GotoTyped, BeginTyped
    DEF WriteFails, Written, memory, UpkeepTypes, NumbersTyped, TasksTyped, FilesTyped,
        FileTypes, UpkeepConstants, OAuthSteps, CertSteps, Files
  <1>15. ASSUME NEW t \in Tasks, VerifyCACert(t) PROVE TasksTyped'
    BY <1>15, UpkeepConstants, EndTyped, HoldTyped, GotoTyped, BeginTyped
    DEF VerifyCACert, Quiet, disk, memory, UpkeepTypes, NumbersTyped, TasksTyped, FilesTyped,
        FileTypes, UpkeepConstants, OAuthSteps, CertSteps, Files
  <1>16. ASSUME NEW t \in Tasks, OpenCA(t) PROVE TasksTyped'
    BY <1>16, UpkeepConstants, EndTyped, HoldTyped, GotoTyped, BeginTyped
    DEF OpenCA, Open, Quiet, memory, UpkeepTypes, NumbersTyped, TasksTyped, FilesTyped,
        FileTypes, UpkeepConstants, OAuthSteps, CertSteps, Files
  <1>17. ASSUME NEW t \in Tasks, WriteCA(t) PROVE TasksTyped'
    BY <1>17, UpkeepConstants, EndTyped, HoldTyped, GotoTyped, BeginTyped
    DEF WriteCA, Quiet, memory, UpkeepTypes, NumbersTyped, TasksTyped, FilesTyped, FileTypes,
        UpkeepConstants, OAuthSteps, CertSteps, Files
  <1>18. ASSUME NEW t \in Tasks, UserCertRemaining(t) PROVE TasksTyped'
    BY <1>18, UpkeepConstants, EndTyped, HoldTyped, GotoTyped, BeginTyped
    DEF UserCertRemaining, Quiet, disk, UpkeepTypes, NumbersTyped, TasksTyped, FilesTyped,
        FileTypes, UpkeepConstants, OAuthSteps, CertSteps, Files
  <1>19. ASSUME NEW t \in Tasks, OpenKey(t) PROVE TasksTyped'
    BY <1>19, UpkeepConstants, EndTyped, HoldTyped, GotoTyped, BeginTyped
    DEF OpenKey, Open, Quiet, memory, UpkeepTypes, NumbersTyped, TasksTyped, FilesTyped,
        FileTypes, UpkeepConstants, OAuthSteps, CertSteps, Files
  <1>20. ASSUME NEW t \in Tasks, WriteKey(t) PROVE TasksTyped'
    BY <1>20, UpkeepConstants, EndTyped, HoldTyped, GotoTyped, BeginTyped
    DEF WriteKey, Quiet, memory, UpkeepTypes, NumbersTyped, TasksTyped, FilesTyped, FileTypes,
        UpkeepConstants, OAuthSteps, CertSteps, Files
  <1>21. ASSUME NEW t \in Tasks, GetCentralCert(t) PROVE TasksTyped'
    BY <1>21, UpkeepConstants, EndTyped, HoldTyped, GotoTyped, BeginTyped
    DEF GetCentralCert, Quiet, disk, memory, UpkeepTypes, NumbersTyped, TasksTyped, FilesTyped,
        FileTypes, UpkeepConstants, OAuthSteps, CertSteps, Files
  <1>22. ASSUME NEW t \in Tasks, OpenCert(t) PROVE TasksTyped'
    BY <1>22, UpkeepConstants, EndTyped, HoldTyped, GotoTyped, BeginTyped
    DEF OpenCert, Open, Quiet, memory, UpkeepTypes, NumbersTyped, TasksTyped, FilesTyped,
        FileTypes, UpkeepConstants, OAuthSteps, CertSteps, Files
  <1>23. ASSUME NEW t \in Tasks, WriteCert(t) PROVE TasksTyped'
    BY <1>23, UpkeepConstants, EndTyped, HoldTyped, GotoTyped, BeginTyped
    DEF WriteCert, Quiet, memory, UpkeepTypes, NumbersTyped, TasksTyped, FilesTyped, FileTypes,
        UpkeepConstants, OAuthSteps, CertSteps, Files
  <1>24. ASSUME NEW t \in Tasks, Again(t) PROVE TasksTyped'
    BY <1>24, UpkeepConstants, EndTyped, HoldTyped, GotoTyped, BeginTyped
    DEF Again, disk, UpkeepTypes, NumbersTyped, TasksTyped, FilesTyped, FileTypes,
        UpkeepConstants, OAuthSteps, CertSteps, Files
  <1>25. CASE UNCHANGED upkeep
    BY <1>25
    DEF upkeep, disk, memory, task, UpkeepTypes, NumbersTyped, TasksTyped, FilesTyped,
        FileTypes, UpkeepConstants, OAuthSteps, CertSteps, Files
  <1>. QED
    BY <1>1, <1>2, <1>3, <1>4, <1>5, <1>6, <1>7, <1>8, <1>9, <1>10, <1>11, <1>12, <1>13, <1>14,
       <1>15, <1>16, <1>17, <1>18, <1>19, <1>20, <1>21, <1>22, <1>23, <1>24, <1>25
    DEF Next, OAuth, Cert

LEMMA TokensStep ==
  UpkeepTypes /\ TokensAreIssued /\ [Next]_upkeep => TokensAreIssued'
  <1>. SUFFICES ASSUME UpkeepTypes, TokensAreIssued, [Next]_upkeep PROVE TokensAreIssued'
    OBVIOUS
  <1>1. ASSUME NEW t \in Tasks, LoadUserKey(t) PROVE TokensAreIssued'
    BY <1>1, KeyIsLoaded, UpkeepConstants
    DEF End, Hold, Goto, Quiet, disk, memory, Whole, Empty, Torn, UpkeepTypes, NumbersTyped,
        FilesTyped, FlagsTyped, TasksTyped, FileTypes, UpkeepConstants, TokensAreIssued,
        OAuthSteps, CertSteps, Files
  <1>2. CASE Age
    BY <1>2, UpkeepConstants
    DEF Age, task, memory, Whole, Empty, Torn, UpkeepTypes, NumbersTyped, FilesTyped,
        FlagsTyped, TasksTyped, FileTypes, UpkeepConstants, TokensAreIssued, OAuthSteps,
        CertSteps, Files
  <1>3. CASE Crash
    BY <1>3, UpkeepConstants
    DEF Crash, Left, Whole, Empty, Torn, UpkeepTypes, NumbersTyped, FilesTyped, FlagsTyped,
        TasksTyped, FileTypes, UpkeepConstants, TokensAreIssued, OAuthSteps, CertSteps, Files
  <1>4. ASSUME NEW t \in Tasks, NetworkUp(t) PROVE TokensAreIssued'
    BY <1>4, UpkeepConstants
    DEF NetworkUp, Begin, Hold, Goto, disk, memory, Whole, Empty, Torn, UpkeepTypes,
        NumbersTyped, FilesTyped, FlagsTyped, TasksTyped, FileTypes, UpkeepConstants,
        TokensAreIssued, OAuthSteps, CertSteps, Files
  <1>5. ASSUME NEW t \in Tasks, OAuthTimerFires(t) PROVE TokensAreIssued'
    BY <1>5, UpkeepConstants
    DEF OAuthTimerFires, Begin, Hold, Goto, disk, Whole, Empty, Torn, UpkeepTypes, NumbersTyped,
        FilesTyped, FlagsTyped, TasksTyped, FileTypes, UpkeepConstants, TokensAreIssued,
        OAuthSteps, CertSteps, Files
  <1>6. ASSUME NEW t \in Tasks, CertTimerFires(t) PROVE TokensAreIssued'
    BY <1>6, UpkeepConstants
    DEF CertTimerFires, Begin, Hold, Goto, disk, Whole, Empty, Torn, UpkeepTypes, NumbersTyped,
        FilesTyped, FlagsTyped, TasksTyped, FileTypes, UpkeepConstants, TokensAreIssued,
        OAuthSteps, CertSteps, Files
  <1>7. ASSUME NEW t \in Tasks, Load(t) PROVE TokensAreIssued'
    BY <1>7, UpkeepConstants
    DEF Load, End, Hold, Goto, Quiet, disk, memory, Whole, Empty, Torn, UpkeepTypes,
        NumbersTyped, FilesTyped, FlagsTyped, TasksTyped, FileTypes, UpkeepConstants,
        TokensAreIssued, OAuthSteps, CertSteps, Files
  <1>8. ASSUME NEW t \in Tasks, RefreshToken(t) PROVE TokensAreIssued'
    BY <1>8, UpkeepConstants
    DEF RefreshToken, End, Hold, Goto, Quiet, disk, memory, Whole, Empty, Torn, UpkeepTypes,
        NumbersTyped, FilesTyped, FlagsTyped, TasksTyped, FileTypes, UpkeepConstants,
        TokensAreIssued, OAuthSteps, CertSteps, Files
  <1>9. ASSUME NEW t \in Tasks, UpdateAuth(t) PROVE TokensAreIssued'
    BY <1>9, UpkeepConstants
    DEF UpdateAuth, Goto, Quiet, disk, Whole, Empty, Torn, UpkeepTypes, NumbersTyped,
        FilesTyped, FlagsTyped, TasksTyped, FileTypes, UpkeepConstants, TokensAreIssued,
        OAuthSteps, CertSteps, Files
  <1>10. ASSUME NEW t \in Tasks, RefreshAccessToken(t) PROVE TokensAreIssued'
    BY <1>10, UpkeepConstants
    DEF RefreshAccessToken, End, Hold, Goto, Quiet, disk, Whole, Empty, Torn, UpkeepTypes,
        NumbersTyped, FilesTyped, FlagsTyped, TasksTyped, FileTypes, UpkeepConstants,
        TokensAreIssued, OAuthSteps, CertSteps, Files
  <1>11. ASSUME NEW t \in Tasks, Merge(t) PROVE TokensAreIssued'
    BY <1>11, UpkeepConstants
    DEF Merge, End, Hold, Goto, Quiet, disk, memory, Whole, Empty, Torn, UpkeepTypes,
        NumbersTyped, FilesTyped, FlagsTyped, TasksTyped, FileTypes, UpkeepConstants,
        TokensAreIssued, OAuthSteps, CertSteps, Files
  <1>12. ASSUME NEW t \in Tasks, OpenConfig(t) PROVE TokensAreIssued'
    BY <1>12, UpkeepConstants
    DEF OpenConfig, Open, End, Hold, Goto, Quiet, memory, Whole, Empty, Torn, UpkeepTypes,
        NumbersTyped, FilesTyped, FlagsTyped, TasksTyped, FileTypes, UpkeepConstants,
        TokensAreIssued, OAuthSteps, CertSteps, Files
  <1>13. ASSUME NEW t \in Tasks, WriteConfig(t) PROVE TokensAreIssued'
    BY <1>13, UpkeepConstants
    DEF WriteConfig, End, Hold, Goto, Whole, Empty, Torn, UpkeepTypes, NumbersTyped, FilesTyped,
        FlagsTyped, TasksTyped, FileTypes, UpkeepConstants, TokensAreIssued, OAuthSteps,
        CertSteps, Files
  <1>14. ASSUME NEW t \in Tasks, WriteFails(t) PROVE TokensAreIssued'
    BY <1>14, UpkeepConstants
    DEF WriteFails, End, Hold, Goto, Written, memory, Whole, Empty, Torn, UpkeepTypes,
        NumbersTyped, FilesTyped, FlagsTyped, TasksTyped, FileTypes, UpkeepConstants,
        TokensAreIssued, OAuthSteps, CertSteps, Files
  <1>15. ASSUME NEW t \in Tasks, VerifyCACert(t) PROVE TokensAreIssued'
    BY <1>15, UpkeepConstants
    DEF VerifyCACert, End, Hold, Goto, Quiet, disk, memory, Whole, Empty, Torn, UpkeepTypes,
        NumbersTyped, FilesTyped, FlagsTyped, TasksTyped, FileTypes, UpkeepConstants,
        TokensAreIssued, OAuthSteps, CertSteps, Files
  <1>16. ASSUME NEW t \in Tasks, OpenCA(t) PROVE TokensAreIssued'
    BY <1>16, UpkeepConstants
    DEF OpenCA, Open, End, Hold, Goto, Quiet, memory, Whole, Empty, Torn, UpkeepTypes,
        NumbersTyped, FilesTyped, FlagsTyped, TasksTyped, FileTypes, UpkeepConstants,
        TokensAreIssued, OAuthSteps, CertSteps, Files
  <1>17. ASSUME NEW t \in Tasks, WriteCA(t) PROVE TokensAreIssued'
    BY <1>17, UpkeepConstants
    DEF WriteCA, End, Hold, Goto, Quiet, memory, Whole, Empty, Torn, UpkeepTypes, NumbersTyped,
        FilesTyped,
        FlagsTyped, TasksTyped, FileTypes, UpkeepConstants, TokensAreIssued, OAuthSteps,
        CertSteps, Files
  <1>18. ASSUME NEW t \in Tasks, UserCertRemaining(t) PROVE TokensAreIssued'
    BY <1>18, UpkeepConstants
    DEF UserCertRemaining, End, Hold, Goto, Quiet, disk, Whole, Empty, Torn, UpkeepTypes,
        NumbersTyped, FilesTyped, FlagsTyped, TasksTyped, FileTypes, UpkeepConstants,
        TokensAreIssued, OAuthSteps, CertSteps, Files
  <1>19. ASSUME NEW t \in Tasks, OpenKey(t) PROVE TokensAreIssued'
    BY <1>19, UpkeepConstants
    DEF OpenKey, Open, End, Hold, Goto, Quiet, memory, Whole, Empty, Torn, UpkeepTypes,
        NumbersTyped, FilesTyped, FlagsTyped, TasksTyped, FileTypes, UpkeepConstants,
        TokensAreIssued, OAuthSteps, CertSteps, Files
  <1>20. ASSUME NEW t \in Tasks, WriteKey(t) PROVE TokensAreIssued'
    BY <1>20, UpkeepConstants
    DEF WriteKey, Goto, Quiet, memory, Whole, Empty, Torn, UpkeepTypes, NumbersTyped,
        FilesTyped, FlagsTyped, TasksTyped, FileTypes, UpkeepConstants, TokensAreIssued,
        OAuthSteps, CertSteps, Files
  <1>21. ASSUME NEW t \in Tasks, GetCentralCert(t) PROVE TokensAreIssued'
    BY <1>21, UpkeepConstants
    DEF GetCentralCert, End, Hold, Goto, Quiet, disk, memory, Whole, Empty, Torn, UpkeepTypes,
        NumbersTyped, FilesTyped, FlagsTyped, TasksTyped, FileTypes, UpkeepConstants,
        TokensAreIssued, OAuthSteps, CertSteps, Files
  <1>22. ASSUME NEW t \in Tasks, OpenCert(t) PROVE TokensAreIssued'
    BY <1>22, UpkeepConstants
    DEF OpenCert, Open, End, Hold, Goto, Quiet, memory, Whole, Empty, Torn, UpkeepTypes,
        NumbersTyped, FilesTyped, FlagsTyped, TasksTyped, FileTypes, UpkeepConstants,
        TokensAreIssued, OAuthSteps, CertSteps, Files
  <1>23. ASSUME NEW t \in Tasks, WriteCert(t) PROVE TokensAreIssued'
    BY <1>23, UpkeepConstants
    DEF WriteCert, Goto, Quiet, memory, Whole, Empty, Torn, UpkeepTypes, NumbersTyped,
        FilesTyped, FlagsTyped, TasksTyped, FileTypes, UpkeepConstants, TokensAreIssued,
        OAuthSteps, CertSteps, Files
  <1>24. ASSUME NEW t \in Tasks, Again(t) PROVE TokensAreIssued'
    BY <1>24, UpkeepConstants
    DEF Again, End, Hold, Goto, disk, Whole, Empty, Torn, UpkeepTypes, NumbersTyped, FilesTyped,
        FlagsTyped, TasksTyped, FileTypes, UpkeepConstants, TokensAreIssued, OAuthSteps,
        CertSteps, Files
  <1>25. CASE UNCHANGED upkeep
    BY <1>25
    DEF upkeep, disk, memory, task, Whole, Empty, Torn, UpkeepTypes, NumbersTyped, FilesTyped,
        FlagsTyped, TasksTyped, FileTypes, UpkeepConstants, TokensAreIssued, OAuthSteps,
        CertSteps, Files
  <1>. QED
    BY <1>1, <1>2, <1>3, <1>4, <1>5, <1>6, <1>7, <1>8, <1>9, <1>10, <1>11, <1>12, <1>13, <1>14,
       <1>15, <1>16, <1>17, <1>18, <1>19, <1>20, <1>21, <1>22, <1>23, <1>24, <1>25
    DEF Next, OAuth, Cert

LEMMA AloneStep ==
  UpkeepTypes /\ AloneUnlessOverlap /\ [Next]_upkeep => AloneUnlessOverlap'
  <1>. SUFFICES ASSUME UpkeepTypes, AloneUnlessOverlap, [Next]_upkeep PROVE AloneUnlessOverlap'
    OBVIOUS
  <1>1. ASSUME NEW t \in Tasks, CertTimerFires(t) PROVE AloneUnlessOverlap'
    <2>1. overlap' = (overlap \/ \E o \in Tasks \ {t} : pc[o] \in CertSteps)
      BY <1>1 DEF CertTimerFires, Begin
    <2>2. pc[t] = "idle" /\ pc' = [pc EXCEPT ![t] = "ca"]
      BY <1>1 DEF CertTimerFires, Begin, Hold, Goto
    <2>3. "ca" \notin OAuthSteps
      BY DEF OAuthSteps
    <2>. QED
      BY <2>1, <2>2, <2>3 DEF UpkeepTypes, FlagsTyped, TasksTyped, AloneUnlessOverlap, TasksAreAlone
  <1>2. ASSUME NEW t \in Tasks, LoadUserKey(t) PROVE AloneUnlessOverlap'
    BY <1>2, KeyIsLoaded, UpkeepConstants
    DEF End, Hold, Goto, Quiet, disk, memory, UpkeepTypes, FlagsTyped, TasksTyped,
        AloneUnlessOverlap, TasksAreAlone, OAuthSteps, CertSteps
  <1>3. CASE Age
    BY <1>3, UpkeepConstants
    DEF Age, task, memory, UpkeepTypes, FlagsTyped, TasksTyped, AloneUnlessOverlap,
        TasksAreAlone, OAuthSteps, CertSteps
  <1>4. CASE Crash
    BY <1>4, UpkeepConstants
    DEF Crash, Left, UpkeepTypes, FlagsTyped, TasksTyped, AloneUnlessOverlap, TasksAreAlone,
        OAuthSteps, CertSteps
  <1>5. ASSUME NEW t \in Tasks, NetworkUp(t) PROVE AloneUnlessOverlap'
    BY <1>5, UpkeepConstants, ZenonT(60)
    DEF NetworkUp, Begin, Hold, Goto, disk, memory, UpkeepTypes, FlagsTyped, TasksTyped,
        AloneUnlessOverlap, TasksAreAlone, OAuthSteps, CertSteps
  <1>6. ASSUME NEW t \in Tasks, OAuthTimerFires(t) PROVE AloneUnlessOverlap'
    BY <1>6, UpkeepConstants, ZenonT(60)
    DEF OAuthTimerFires, Begin, Hold, Goto, disk, UpkeepTypes, FlagsTyped, TasksTyped,
        AloneUnlessOverlap, TasksAreAlone, OAuthSteps, CertSteps
  <1>7. ASSUME NEW t \in Tasks, Load(t) PROVE AloneUnlessOverlap'
    BY <1>7, UpkeepConstants
    DEF Load, End, Hold, Goto, Quiet, disk, memory, UpkeepTypes, FlagsTyped, TasksTyped,
        AloneUnlessOverlap, TasksAreAlone, OAuthSteps, CertSteps
  <1>8. ASSUME NEW t \in Tasks, RefreshToken(t) PROVE AloneUnlessOverlap'
    BY <1>8, UpkeepConstants
    DEF RefreshToken, End, Hold, Goto, Quiet, disk, memory, UpkeepTypes, FlagsTyped, TasksTyped,
        AloneUnlessOverlap, TasksAreAlone, OAuthSteps, CertSteps
  <1>9. ASSUME NEW t \in Tasks, UpdateAuth(t) PROVE AloneUnlessOverlap'
    BY <1>9, UpkeepConstants
    DEF UpdateAuth, Goto, Quiet, disk, UpkeepTypes, FlagsTyped, TasksTyped, AloneUnlessOverlap,
        TasksAreAlone, OAuthSteps, CertSteps
  <1>10. ASSUME NEW t \in Tasks, RefreshAccessToken(t) PROVE AloneUnlessOverlap'
    BY <1>10, UpkeepConstants
    DEF RefreshAccessToken, End, Hold, Goto, Quiet, disk, UpkeepTypes, FlagsTyped, TasksTyped,
        AloneUnlessOverlap, TasksAreAlone, OAuthSteps, CertSteps
  <1>11. ASSUME NEW t \in Tasks, Merge(t) PROVE AloneUnlessOverlap'
    BY <1>11, UpkeepConstants
    DEF Merge, End, Hold, Goto, Quiet, disk, memory, UpkeepTypes, FlagsTyped, TasksTyped,
        AloneUnlessOverlap, TasksAreAlone, OAuthSteps, CertSteps
  <1>12. ASSUME NEW t \in Tasks, OpenConfig(t) PROVE AloneUnlessOverlap'
    BY <1>12, UpkeepConstants
    DEF OpenConfig, Open, End, Hold, Goto, Quiet, memory, UpkeepTypes, FlagsTyped, TasksTyped,
        AloneUnlessOverlap, TasksAreAlone, OAuthSteps, CertSteps
  <1>13. ASSUME NEW t \in Tasks, WriteConfig(t) PROVE AloneUnlessOverlap'
    BY <1>13, UpkeepConstants
    DEF WriteConfig, End, Hold, Goto, UpkeepTypes, FlagsTyped, TasksTyped, AloneUnlessOverlap,
        TasksAreAlone, OAuthSteps, CertSteps
  <1>14. ASSUME NEW t \in Tasks, WriteFails(t) PROVE AloneUnlessOverlap'
    BY <1>14, UpkeepConstants
    DEF WriteFails, End, Hold, Goto, Written, memory, UpkeepTypes, FlagsTyped, TasksTyped,
        AloneUnlessOverlap, TasksAreAlone, OAuthSteps, CertSteps
  <1>15. ASSUME NEW t \in Tasks, VerifyCACert(t) PROVE AloneUnlessOverlap'
    BY <1>15, UpkeepConstants
    DEF VerifyCACert, End, Hold, Goto, Quiet, disk, memory, UpkeepTypes, FlagsTyped, TasksTyped,
        AloneUnlessOverlap, TasksAreAlone, OAuthSteps, CertSteps
  <1>16. ASSUME NEW t \in Tasks, OpenCA(t) PROVE AloneUnlessOverlap'
    BY <1>16, UpkeepConstants
    DEF OpenCA, Open, End, Hold, Goto, Quiet, memory, UpkeepTypes, FlagsTyped, TasksTyped,
        AloneUnlessOverlap, TasksAreAlone, OAuthSteps, CertSteps
  <1>17. ASSUME NEW t \in Tasks, WriteCA(t) PROVE AloneUnlessOverlap'
    BY <1>17, UpkeepConstants
    DEF WriteCA, End, Hold, Goto, Quiet, memory, UpkeepTypes, FlagsTyped, TasksTyped,
        AloneUnlessOverlap,
        TasksAreAlone, OAuthSteps, CertSteps
  <1>18. ASSUME NEW t \in Tasks, UserCertRemaining(t) PROVE AloneUnlessOverlap'
    BY <1>18, UpkeepConstants
    DEF UserCertRemaining, End, Hold, Goto, Quiet, disk, UpkeepTypes, FlagsTyped, TasksTyped,
        AloneUnlessOverlap, TasksAreAlone, OAuthSteps, CertSteps
  <1>19. ASSUME NEW t \in Tasks, OpenKey(t) PROVE AloneUnlessOverlap'
    BY <1>19, UpkeepConstants
    DEF OpenKey, Open, End, Hold, Goto, Quiet, memory, UpkeepTypes, FlagsTyped, TasksTyped,
        AloneUnlessOverlap, TasksAreAlone, OAuthSteps, CertSteps
  <1>20. ASSUME NEW t \in Tasks, WriteKey(t) PROVE AloneUnlessOverlap'
    BY <1>20, UpkeepConstants
    DEF WriteKey, Goto, Quiet, memory, UpkeepTypes, FlagsTyped, TasksTyped, AloneUnlessOverlap,
        TasksAreAlone, OAuthSteps, CertSteps
  <1>21. ASSUME NEW t \in Tasks, GetCentralCert(t) PROVE AloneUnlessOverlap'
    BY <1>21, UpkeepConstants
    DEF GetCentralCert, End, Hold, Goto, Quiet, disk, memory, UpkeepTypes, FlagsTyped,
        TasksTyped, AloneUnlessOverlap, TasksAreAlone, OAuthSteps, CertSteps
  <1>22. ASSUME NEW t \in Tasks, OpenCert(t) PROVE AloneUnlessOverlap'
    BY <1>22, UpkeepConstants
    DEF OpenCert, Open, End, Hold, Goto, Quiet, memory, UpkeepTypes, FlagsTyped, TasksTyped,
        AloneUnlessOverlap, TasksAreAlone, OAuthSteps, CertSteps
  <1>23. ASSUME NEW t \in Tasks, WriteCert(t) PROVE AloneUnlessOverlap'
    BY <1>23, UpkeepConstants
    DEF WriteCert, Goto, Quiet, memory, UpkeepTypes, FlagsTyped, TasksTyped, AloneUnlessOverlap,
        TasksAreAlone, OAuthSteps, CertSteps
  <1>24. ASSUME NEW t \in Tasks, Again(t) PROVE AloneUnlessOverlap'
    BY <1>24, UpkeepConstants
    DEF Again, End, Hold, Goto, disk, UpkeepTypes, FlagsTyped, TasksTyped, AloneUnlessOverlap,
        TasksAreAlone, OAuthSteps, CertSteps
  <1>25. CASE UNCHANGED upkeep
    BY <1>25
    DEF upkeep, disk, memory, task, UpkeepTypes, FlagsTyped, TasksTyped, AloneUnlessOverlap,
        TasksAreAlone, OAuthSteps, CertSteps
  <1>. QED
    BY <1>1, <1>2, <1>3, <1>4, <1>5, <1>6, <1>7, <1>8, <1>9, <1>10, <1>11, <1>12, <1>13, <1>14,
       <1>15, <1>16, <1>17, <1>18, <1>19, <1>20, <1>21, <1>22, <1>23, <1>24, <1>25
    DEF Next, OAuth, Cert

LEMMA TokenInHandStep ==
  UpkeepTypes /\ TokensAreIssued /\ AloneUnlessOverlap /\ TokenUnlessOverlap
    /\ [Next]_upkeep => TokenUnlessOverlap'
  <1>. SUFFICES ASSUME UpkeepTypes, TokensAreIssued, AloneUnlessOverlap, TokenUnlessOverlap, [Next]_upkeep
                PROVE  TokenUnlessOverlap'
    OBVIOUS
  <1>1. ASSUME NEW t \in Tasks, LoadUserKey(t) PROVE TokenUnlessOverlap'
    BY <1>1, KeyIsLoaded, UpkeepConstants
    DEF End, Hold, Goto, Quiet, disk, memory, Whole, Empty, Torn, UpkeepTypes, NumbersTyped,
        FilesTyped, FlagsTyped, TasksTyped, FileTypes, UpkeepConstants, TokensAreIssued,
        AloneUnlessOverlap, TasksAreAlone, TokenUnlessOverlap, TokenInHand, OAuthSteps, Files
  <1>2. CASE Age
    BY <1>2, UpkeepConstants
    DEF Age, task, memory, Whole, Empty, Torn, UpkeepTypes, NumbersTyped, FilesTyped,
        FlagsTyped, TasksTyped, FileTypes, UpkeepConstants, TokensAreIssued, AloneUnlessOverlap,
        TasksAreAlone, TokenUnlessOverlap, TokenInHand, OAuthSteps, Files
  <1>3. CASE Crash
    BY <1>3, UpkeepConstants
    DEF Crash, Left, Whole, Empty, Torn, UpkeepTypes, NumbersTyped, FilesTyped, FlagsTyped,
        TasksTyped, FileTypes, UpkeepConstants, TokensAreIssued, AloneUnlessOverlap,
        TasksAreAlone, TokenUnlessOverlap, TokenInHand, OAuthSteps, Files
  <1>4. ASSUME NEW t \in Tasks, NetworkUp(t) PROVE TokenUnlessOverlap'
    BY <1>4, UpkeepConstants
    DEF NetworkUp, Begin, Hold, Goto, disk, memory, Whole, Empty, Torn, UpkeepTypes,
        NumbersTyped, FilesTyped, FlagsTyped, TasksTyped, FileTypes, UpkeepConstants,
        TokensAreIssued, AloneUnlessOverlap, TasksAreAlone, TokenUnlessOverlap, TokenInHand,
        OAuthSteps, Files
  <1>5. ASSUME NEW t \in Tasks, OAuthTimerFires(t) PROVE TokenUnlessOverlap'
    BY <1>5, UpkeepConstants
    DEF OAuthTimerFires, Begin, Hold, Goto, disk, Whole, Empty, Torn, UpkeepTypes, NumbersTyped,
        FilesTyped, FlagsTyped, TasksTyped, FileTypes, UpkeepConstants, TokensAreIssued,
        AloneUnlessOverlap, TasksAreAlone, TokenUnlessOverlap, TokenInHand, OAuthSteps, Files
  <1>6. ASSUME NEW t \in Tasks, CertTimerFires(t) PROVE TokenUnlessOverlap'
    BY <1>6, UpkeepConstants
    DEF CertTimerFires, Begin, Hold, Goto, disk, Whole, Empty, Torn, UpkeepTypes, NumbersTyped,
        FilesTyped, FlagsTyped, TasksTyped, FileTypes, UpkeepConstants, TokensAreIssued,
        AloneUnlessOverlap, TasksAreAlone, TokenUnlessOverlap, TokenInHand, OAuthSteps, Files
  <1>7. ASSUME NEW t \in Tasks, Load(t) PROVE TokenUnlessOverlap'
    BY <1>7, UpkeepConstants
    DEF Load, End, Hold, Goto, Quiet, disk, memory, Whole, Empty, Torn, UpkeepTypes,
        NumbersTyped, FilesTyped, FlagsTyped, TasksTyped, FileTypes, UpkeepConstants,
        TokensAreIssued, AloneUnlessOverlap, TasksAreAlone, TokenUnlessOverlap, TokenInHand,
        OAuthSteps, Files
  <1>8. ASSUME NEW t \in Tasks, RefreshToken(t) PROVE TokenUnlessOverlap'
    BY <1>8, UpkeepConstants
    DEF RefreshToken, End, Hold, Goto, Quiet, disk, memory, Whole, Empty, Torn, UpkeepTypes,
        NumbersTyped, FilesTyped, FlagsTyped, TasksTyped, FileTypes, UpkeepConstants,
        TokensAreIssued, AloneUnlessOverlap, TasksAreAlone, TokenUnlessOverlap, TokenInHand,
        OAuthSteps, Files
  <1>9. ASSUME NEW t \in Tasks, UpdateAuth(t) PROVE TokenUnlessOverlap'
    BY <1>9, UpkeepConstants
    DEF UpdateAuth, Goto, Quiet, disk, Whole, Empty, Torn, UpkeepTypes, NumbersTyped,
        FilesTyped, FlagsTyped, TasksTyped, FileTypes, UpkeepConstants, TokensAreIssued,
        AloneUnlessOverlap, TasksAreAlone, TokenUnlessOverlap, TokenInHand, OAuthSteps, Files
  <1>10. ASSUME NEW t \in Tasks, RefreshAccessToken(t) PROVE TokenUnlessOverlap'
    BY <1>10, UpkeepConstants
    DEF RefreshAccessToken, End, Hold, Goto, Quiet, disk, Whole, Empty, Torn, UpkeepTypes,
        NumbersTyped, FilesTyped, FlagsTyped, TasksTyped, FileTypes, UpkeepConstants,
        TokensAreIssued, AloneUnlessOverlap, TasksAreAlone, TokenUnlessOverlap, TokenInHand,
        OAuthSteps, Files
  <1>11. ASSUME NEW t \in Tasks, Merge(t) PROVE TokenUnlessOverlap'
    BY <1>11, UpkeepConstants
    DEF Merge, End, Hold, Goto, Quiet, disk, memory, Whole, Empty, Torn, UpkeepTypes,
        NumbersTyped, FilesTyped, FlagsTyped, TasksTyped, FileTypes, UpkeepConstants,
        TokensAreIssued, AloneUnlessOverlap, TasksAreAlone, TokenUnlessOverlap, TokenInHand,
        OAuthSteps, Files
  <1>12. ASSUME NEW t \in Tasks, OpenConfig(t) PROVE TokenUnlessOverlap'
    BY <1>12, UpkeepConstants
    DEF OpenConfig, Open, End, Hold, Goto, Quiet, memory, Whole, Empty, Torn, UpkeepTypes,
        NumbersTyped, FilesTyped, FlagsTyped, TasksTyped, FileTypes, UpkeepConstants,
        TokensAreIssued, AloneUnlessOverlap, TasksAreAlone, TokenUnlessOverlap, TokenInHand,
        OAuthSteps, Files
  <1>13. ASSUME NEW t \in Tasks, WriteConfig(t) PROVE TokenUnlessOverlap'
    BY <1>13, UpkeepConstants
    DEF WriteConfig, End, Hold, Goto, Whole, Empty, Torn, UpkeepTypes, NumbersTyped, FilesTyped,
        FlagsTyped, TasksTyped, FileTypes, UpkeepConstants, TokensAreIssued, AloneUnlessOverlap,
        TasksAreAlone, TokenUnlessOverlap, TokenInHand, OAuthSteps, Files
  <1>14. ASSUME NEW t \in Tasks, WriteFails(t) PROVE TokenUnlessOverlap'
    BY <1>14, UpkeepConstants
    DEF WriteFails, End, Hold, Goto, Written, memory, Whole, Empty, Torn, UpkeepTypes,
        NumbersTyped, FilesTyped, FlagsTyped, TasksTyped, FileTypes, UpkeepConstants,
        TokensAreIssued, AloneUnlessOverlap, TasksAreAlone, TokenUnlessOverlap, TokenInHand,
        OAuthSteps, Files
  <1>15. ASSUME NEW t \in Tasks, VerifyCACert(t) PROVE TokenUnlessOverlap'
    BY <1>15, UpkeepConstants
    DEF VerifyCACert, End, Hold, Goto, Quiet, disk, memory, Whole, Empty, Torn, UpkeepTypes,
        NumbersTyped, FilesTyped, FlagsTyped, TasksTyped, FileTypes, UpkeepConstants,
        TokensAreIssued, AloneUnlessOverlap, TasksAreAlone, TokenUnlessOverlap, TokenInHand,
        OAuthSteps, Files
  <1>16. ASSUME NEW t \in Tasks, OpenCA(t) PROVE TokenUnlessOverlap'
    BY <1>16, UpkeepConstants
    DEF OpenCA, Open, End, Hold, Goto, Quiet, memory, Whole, Empty, Torn, UpkeepTypes,
        NumbersTyped, FilesTyped, FlagsTyped, TasksTyped, FileTypes, UpkeepConstants,
        TokensAreIssued, AloneUnlessOverlap, TasksAreAlone, TokenUnlessOverlap, TokenInHand,
        OAuthSteps, Files
  <1>17. ASSUME NEW t \in Tasks, WriteCA(t) PROVE TokenUnlessOverlap'
    BY <1>17, UpkeepConstants
    DEF WriteCA, End, Hold, Goto, Quiet, memory, Whole, Empty, Torn, UpkeepTypes, NumbersTyped,
        FilesTyped,
        FlagsTyped, TasksTyped, FileTypes, UpkeepConstants, TokensAreIssued, AloneUnlessOverlap,
        TasksAreAlone, TokenUnlessOverlap, TokenInHand, OAuthSteps, Files
  <1>18. ASSUME NEW t \in Tasks, UserCertRemaining(t) PROVE TokenUnlessOverlap'
    BY <1>18, UpkeepConstants
    DEF UserCertRemaining, End, Hold, Goto, Quiet, disk, Whole, Empty, Torn, UpkeepTypes,
        NumbersTyped, FilesTyped, FlagsTyped, TasksTyped, FileTypes, UpkeepConstants,
        TokensAreIssued, AloneUnlessOverlap, TasksAreAlone, TokenUnlessOverlap, TokenInHand,
        OAuthSteps, Files
  <1>19. ASSUME NEW t \in Tasks, OpenKey(t) PROVE TokenUnlessOverlap'
    BY <1>19, UpkeepConstants
    DEF OpenKey, Open, End, Hold, Goto, Quiet, memory, Whole, Empty, Torn, UpkeepTypes,
        NumbersTyped, FilesTyped, FlagsTyped, TasksTyped, FileTypes, UpkeepConstants,
        TokensAreIssued, AloneUnlessOverlap, TasksAreAlone, TokenUnlessOverlap, TokenInHand,
        OAuthSteps, Files
  <1>20. ASSUME NEW t \in Tasks, WriteKey(t) PROVE TokenUnlessOverlap'
    BY <1>20, UpkeepConstants
    DEF WriteKey, Goto, Quiet, memory, Whole, Empty, Torn, UpkeepTypes, NumbersTyped,
        FilesTyped, FlagsTyped, TasksTyped, FileTypes, UpkeepConstants, TokensAreIssued,
        AloneUnlessOverlap, TasksAreAlone, TokenUnlessOverlap, TokenInHand, OAuthSteps, Files
  <1>21. ASSUME NEW t \in Tasks, GetCentralCert(t) PROVE TokenUnlessOverlap'
    BY <1>21, UpkeepConstants
    DEF GetCentralCert, End, Hold, Goto, Quiet, disk, memory, Whole, Empty, Torn, UpkeepTypes,
        NumbersTyped, FilesTyped, FlagsTyped, TasksTyped, FileTypes, UpkeepConstants,
        TokensAreIssued, AloneUnlessOverlap, TasksAreAlone, TokenUnlessOverlap, TokenInHand,
        OAuthSteps, Files
  <1>22. ASSUME NEW t \in Tasks, OpenCert(t) PROVE TokenUnlessOverlap'
    BY <1>22, UpkeepConstants
    DEF OpenCert, Open, End, Hold, Goto, Quiet, memory, Whole, Empty, Torn, UpkeepTypes,
        NumbersTyped, FilesTyped, FlagsTyped, TasksTyped, FileTypes, UpkeepConstants,
        TokensAreIssued, AloneUnlessOverlap, TasksAreAlone, TokenUnlessOverlap, TokenInHand,
        OAuthSteps, Files
  <1>23. ASSUME NEW t \in Tasks, WriteCert(t) PROVE TokenUnlessOverlap'
    BY <1>23, UpkeepConstants
    DEF WriteCert, Goto, Quiet, memory, Whole, Empty, Torn, UpkeepTypes, NumbersTyped,
        FilesTyped, FlagsTyped, TasksTyped, FileTypes, UpkeepConstants, TokensAreIssued,
        AloneUnlessOverlap, TasksAreAlone, TokenUnlessOverlap, TokenInHand, OAuthSteps, Files
  <1>24. ASSUME NEW t \in Tasks, Again(t) PROVE TokenUnlessOverlap'
    BY <1>24, UpkeepConstants
    DEF Again, End, Hold, Goto, disk, Whole, Empty, Torn, UpkeepTypes, NumbersTyped, FilesTyped,
        FlagsTyped, TasksTyped, FileTypes, UpkeepConstants, TokensAreIssued, AloneUnlessOverlap,
        TasksAreAlone, TokenUnlessOverlap, TokenInHand, OAuthSteps, Files
  <1>25. CASE UNCHANGED upkeep
    BY <1>25
    DEF upkeep, disk, memory, task, Whole, Empty, Torn, UpkeepTypes, NumbersTyped, FilesTyped,
        FlagsTyped, TasksTyped, FileTypes, UpkeepConstants, TokensAreIssued, AloneUnlessOverlap,
        TasksAreAlone, TokenUnlessOverlap, TokenInHand, OAuthSteps, Files
  <1>. QED
    BY <1>1, <1>2, <1>3, <1>4, <1>5, <1>6, <1>7, <1>8, <1>9, <1>10, <1>11, <1>12, <1>13, <1>14,
       <1>15, <1>16, <1>17, <1>18, <1>19, <1>20, <1>21, <1>22, <1>23, <1>24, <1>25
    DEF Next, OAuth, Cert

LEMMA KeyInHandStep ==
  UpkeepTypes /\ AloneUnlessOverlap /\ KeyUnlessOverlap /\ [Next]_upkeep => KeyUnlessOverlap'
  <1>. SUFFICES ASSUME UpkeepTypes, AloneUnlessOverlap, KeyUnlessOverlap, [Next]_upkeep
                PROVE  KeyUnlessOverlap'
    OBVIOUS
  <1>1. ASSUME NEW t \in Tasks, LoadUserKey(t), ~overlap' PROVE KeyInHand'
    <2>1. /\ pc[t] = "key" /\ file' = file /\ ~overlap /\ KeyInHand
          /\ pc \in [Tasks -> {"idle"} \cup OAuthSteps \cup CertSteps] /\ loc \in [Tasks -> 0..(MaxToken + MaxKey)]
      BY <1>1, KeyIsLoaded
      DEF disk, End, Quiet, UpkeepTypes, FlagsTyped, TasksTyped, KeyUnlessOverlap
    <2>2. CASE /\ Hold(t, "openKey", keys + 1)
               /\ replaced' = (replaced \/ file["key"].state = "whole")
      <3>1. replaced \in BOOLEAN
        BY DEF UpkeepTypes, FlagsTyped
      <3>2. replaced => replaced'
        BY <2>2, Zenon
      <3>3. replaced' \/ file["cert"].state # "whole"
        BY <2>1, <2>2, <3>1, <3>2, Zenon DEF KeyInHand
      <3>. QED
        BY <2>1, <2>2, <3>2, <3>3 DEF KeyInHand, Hold, Goto
    <2>3. CASE End(t) /\ UNCHANGED replaced
      BY <2>1, <2>3 DEF KeyInHand, End, Hold, Goto, OAuthSteps
    <2>4. CASE file["key"].state = "whole" /\ Hold(t, "central", file["key"].value) /\ UNCHANGED replaced
      BY <2>1, <2>4 DEF KeyInHand, Hold, Goto
    <2>. QED
      BY <1>1, KeyIsLoaded, <2>2, <2>3, <2>4 DEF UpkeepTypes
  <1>2. CASE Age
    BY <1>2, UpkeepConstants
    DEF Age, task, memory, Whole, Empty, Torn, UpkeepTypes, NumbersTyped, FilesTyped,
        FlagsTyped, TasksTyped, FileTypes, AloneUnlessOverlap, TasksAreAlone, KeyUnlessOverlap,
        KeyInHand, CertSteps, Files
  <1>3. CASE Crash
    BY <1>3, UpkeepConstants
    DEF Crash, Left, Whole, Empty, Torn, UpkeepTypes, NumbersTyped, FilesTyped, FlagsTyped,
        TasksTyped, FileTypes, AloneUnlessOverlap, TasksAreAlone, KeyUnlessOverlap, KeyInHand,
        CertSteps, Files
  <1>4. ASSUME NEW t \in Tasks, NetworkUp(t) PROVE KeyUnlessOverlap'
    BY <1>4, UpkeepConstants
    DEF NetworkUp, Begin, Hold, Goto, disk, memory, Whole, Empty, Torn, UpkeepTypes,
        NumbersTyped, FilesTyped, FlagsTyped, TasksTyped, FileTypes, AloneUnlessOverlap,
        TasksAreAlone, KeyUnlessOverlap, KeyInHand, CertSteps, Files
  <1>5. ASSUME NEW t \in Tasks, OAuthTimerFires(t) PROVE KeyUnlessOverlap'
    BY <1>5, UpkeepConstants
    DEF OAuthTimerFires, Begin, Hold, Goto, disk, Whole, Empty, Torn, UpkeepTypes, NumbersTyped,
        FilesTyped, FlagsTyped, TasksTyped, FileTypes, AloneUnlessOverlap, TasksAreAlone,
        KeyUnlessOverlap, KeyInHand, CertSteps, Files
  <1>6. ASSUME NEW t \in Tasks, CertTimerFires(t) PROVE KeyUnlessOverlap'
    BY <1>6, UpkeepConstants
    DEF CertTimerFires, Begin, Hold, Goto, disk, Whole, Empty, Torn, UpkeepTypes, NumbersTyped,
        FilesTyped, FlagsTyped, TasksTyped, FileTypes, AloneUnlessOverlap, TasksAreAlone,
        KeyUnlessOverlap, KeyInHand, CertSteps, Files
  <1>7. ASSUME NEW t \in Tasks, Load(t) PROVE KeyUnlessOverlap'
    BY <1>7, UpkeepConstants
    DEF Load, End, Hold, Goto, Quiet, disk, memory, Whole, Empty, Torn, UpkeepTypes,
        NumbersTyped, FilesTyped, FlagsTyped, TasksTyped, FileTypes, AloneUnlessOverlap,
        TasksAreAlone, KeyUnlessOverlap, KeyInHand, CertSteps, Files
  <1>8. ASSUME NEW t \in Tasks, RefreshToken(t) PROVE KeyUnlessOverlap'
    BY <1>8, UpkeepConstants
    DEF RefreshToken, End, Hold, Goto, Quiet, disk, memory, Whole, Empty, Torn, UpkeepTypes,
        NumbersTyped, FilesTyped, FlagsTyped, TasksTyped, FileTypes, AloneUnlessOverlap,
        TasksAreAlone, KeyUnlessOverlap, KeyInHand, CertSteps, Files
  <1>9. ASSUME NEW t \in Tasks, UpdateAuth(t) PROVE KeyUnlessOverlap'
    BY <1>9, UpkeepConstants
    DEF UpdateAuth, Goto, Quiet, disk, Whole, Empty, Torn, UpkeepTypes, NumbersTyped,
        FilesTyped, FlagsTyped, TasksTyped, FileTypes, AloneUnlessOverlap, TasksAreAlone,
        KeyUnlessOverlap, KeyInHand, CertSteps, Files
  <1>10. ASSUME NEW t \in Tasks, RefreshAccessToken(t) PROVE KeyUnlessOverlap'
    BY <1>10, UpkeepConstants
    DEF RefreshAccessToken, End, Hold, Goto, Quiet, disk, Whole, Empty, Torn, UpkeepTypes,
        NumbersTyped, FilesTyped, FlagsTyped, TasksTyped, FileTypes, AloneUnlessOverlap,
        TasksAreAlone, KeyUnlessOverlap, KeyInHand, CertSteps, Files
  <1>11. ASSUME NEW t \in Tasks, Merge(t) PROVE KeyUnlessOverlap'
    BY <1>11, UpkeepConstants
    DEF Merge, End, Hold, Goto, Quiet, disk, memory, Whole, Empty, Torn, UpkeepTypes,
        NumbersTyped, FilesTyped, FlagsTyped, TasksTyped, FileTypes, AloneUnlessOverlap,
        TasksAreAlone, KeyUnlessOverlap, KeyInHand, CertSteps, Files
  <1>12. ASSUME NEW t \in Tasks, OpenConfig(t) PROVE KeyUnlessOverlap'
    BY <1>12, UpkeepConstants
    DEF OpenConfig, Open, End, Hold, Goto, Quiet, memory, Whole, Empty, Torn, UpkeepTypes,
        NumbersTyped, FilesTyped, FlagsTyped, TasksTyped, FileTypes, AloneUnlessOverlap,
        TasksAreAlone, KeyUnlessOverlap, KeyInHand, CertSteps, Files
  <1>13. ASSUME NEW t \in Tasks, WriteConfig(t) PROVE KeyUnlessOverlap'
    BY <1>13, UpkeepConstants
    DEF WriteConfig, End, Hold, Goto, Whole, Empty, Torn, UpkeepTypes, NumbersTyped, FilesTyped,
        FlagsTyped, TasksTyped, FileTypes, AloneUnlessOverlap, TasksAreAlone, KeyUnlessOverlap,
        KeyInHand, CertSteps, Files
  <1>14. ASSUME NEW t \in Tasks, WriteFails(t) PROVE KeyUnlessOverlap'
    BY <1>14, UpkeepConstants
    DEF WriteFails, End, Hold, Goto, Written, memory, Whole, Empty, Torn, UpkeepTypes,
        NumbersTyped, FilesTyped, FlagsTyped, TasksTyped, FileTypes, AloneUnlessOverlap,
        TasksAreAlone, KeyUnlessOverlap, KeyInHand, CertSteps, Files
  <1>15. ASSUME NEW t \in Tasks, VerifyCACert(t) PROVE KeyUnlessOverlap'
    BY <1>15, UpkeepConstants
    DEF VerifyCACert, End, Hold, Goto, Quiet, disk, memory, Whole, Empty, Torn, UpkeepTypes,
        NumbersTyped, FilesTyped, FlagsTyped, TasksTyped, FileTypes, AloneUnlessOverlap,
        TasksAreAlone, KeyUnlessOverlap, KeyInHand, CertSteps, Files
  <1>16. ASSUME NEW t \in Tasks, OpenCA(t) PROVE KeyUnlessOverlap'
    BY <1>16, UpkeepConstants
    DEF OpenCA, Open, End, Hold, Goto, Quiet, memory, Whole, Empty, Torn, UpkeepTypes,
        NumbersTyped, FilesTyped, FlagsTyped, TasksTyped, FileTypes, AloneUnlessOverlap,
        TasksAreAlone, KeyUnlessOverlap, KeyInHand, CertSteps, Files
  <1>17. ASSUME NEW t \in Tasks, WriteCA(t) PROVE KeyUnlessOverlap'
    BY <1>17, UpkeepConstants
    DEF WriteCA, End, Hold, Goto, Quiet, memory, Whole, Empty, Torn, UpkeepTypes, NumbersTyped,
        FilesTyped,
        FlagsTyped, TasksTyped, FileTypes, AloneUnlessOverlap, TasksAreAlone, KeyUnlessOverlap,
        KeyInHand, CertSteps, Files
  <1>18. ASSUME NEW t \in Tasks, UserCertRemaining(t) PROVE KeyUnlessOverlap'
    BY <1>18, UpkeepConstants
    DEF UserCertRemaining, End, Hold, Goto, Quiet, disk, Whole, Empty, Torn, UpkeepTypes,
        NumbersTyped, FilesTyped, FlagsTyped, TasksTyped, FileTypes, AloneUnlessOverlap,
        TasksAreAlone, KeyUnlessOverlap, KeyInHand, CertSteps, Files
  <1>19. ASSUME NEW t \in Tasks, OpenKey(t) PROVE KeyUnlessOverlap'
    BY <1>19, UpkeepConstants
    DEF OpenKey, Open, End, Hold, Goto, Quiet, memory, Whole, Empty, Torn, UpkeepTypes,
        NumbersTyped, FilesTyped, FlagsTyped, TasksTyped, FileTypes, AloneUnlessOverlap,
        TasksAreAlone, KeyUnlessOverlap, KeyInHand, CertSteps, Files
  <1>20. ASSUME NEW t \in Tasks, WriteKey(t) PROVE KeyUnlessOverlap'
    BY <1>20, UpkeepConstants
    DEF WriteKey, Goto, Quiet, memory, Whole, Empty, Torn, UpkeepTypes, NumbersTyped,
        FilesTyped, FlagsTyped, TasksTyped, FileTypes, AloneUnlessOverlap, TasksAreAlone,
        KeyUnlessOverlap, KeyInHand, CertSteps, Files
  <1>21. ASSUME NEW t \in Tasks, GetCentralCert(t) PROVE KeyUnlessOverlap'
    BY <1>21, UpkeepConstants
    DEF GetCentralCert, End, Hold, Goto, Quiet, disk, memory, Whole, Empty, Torn, UpkeepTypes,
        NumbersTyped, FilesTyped, FlagsTyped, TasksTyped, FileTypes, AloneUnlessOverlap,
        TasksAreAlone, KeyUnlessOverlap, KeyInHand, CertSteps, Files
  <1>22. ASSUME NEW t \in Tasks, OpenCert(t) PROVE KeyUnlessOverlap'
    BY <1>22, UpkeepConstants
    DEF OpenCert, Open, End, Hold, Goto, Quiet, memory, Whole, Empty, Torn, UpkeepTypes,
        NumbersTyped, FilesTyped, FlagsTyped, TasksTyped, FileTypes, AloneUnlessOverlap,
        TasksAreAlone, KeyUnlessOverlap, KeyInHand, CertSteps, Files
  <1>23. ASSUME NEW t \in Tasks, WriteCert(t) PROVE KeyUnlessOverlap'
    BY <1>23, UpkeepConstants
    DEF WriteCert, Goto, Quiet, memory, Whole, Empty, Torn, UpkeepTypes, NumbersTyped,
        FilesTyped, FlagsTyped, TasksTyped, FileTypes, AloneUnlessOverlap, TasksAreAlone,
        KeyUnlessOverlap, KeyInHand, CertSteps, Files
  <1>24. ASSUME NEW t \in Tasks, Again(t) PROVE KeyUnlessOverlap'
    BY <1>24, UpkeepConstants
    DEF Again, End, Hold, Goto, disk, Whole, Empty, Torn, UpkeepTypes, NumbersTyped, FilesTyped,
        FlagsTyped, TasksTyped, FileTypes, AloneUnlessOverlap, TasksAreAlone, KeyUnlessOverlap,
        KeyInHand, CertSteps, Files
  <1>25. CASE UNCHANGED upkeep
    BY <1>25
    DEF upkeep, disk, memory, task, Whole, Empty, Torn, UpkeepTypes, NumbersTyped, FilesTyped,
        FlagsTyped, TasksTyped, FileTypes, AloneUnlessOverlap, TasksAreAlone, KeyUnlessOverlap,
        KeyInHand, CertSteps, Files
  <1>. QED
    BY <1>1, <1>2, <1>3, <1>4, <1>5, <1>6, <1>7, <1>8, <1>9, <1>10, <1>11, <1>12, <1>13, <1>14,
       <1>15, <1>16, <1>17, <1>18, <1>19, <1>20, <1>21, <1>22, <1>23, <1>24, <1>25
    DEF Next, OAuth, Cert, KeyUnlessOverlap

LEMMA UpkeepStarts == Init => UpkeepInv
  <1>. SUFFICES ASSUME Init PROVE UpkeepInv
    OBVIOUS
  <1>1. UpkeepTypes
    <2>1. FilesTyped
      <3>1. Whole(1) \in FileTypes /\ None \in FileTypes
        BY UpkeepConstants, FileValues DEF UpkeepConstants
      <3>. QED
        BY <3>1 DEF Init, FilesTyped
    <2>2. NumbersTyped
      BY UpkeepConstants DEF UpkeepConstants, Init, NumbersTyped
    <2>3. FlagsTyped
      BY DEF Init, FlagsTyped
    <2>4. TasksTyped
      BY UpkeepConstants DEF UpkeepConstants, Init, TasksTyped
    <2>. QED
      BY <2>1, <2>2, <2>3, <2>4 DEF UpkeepTypes
  <1>2. file["config"] = Whole(1) /\ file["cert"] = None
    BY DEF Init, Files
  <1>. QED
    BY <1>1, <1>2
    DEF Init, UpkeepInv, TokensAreIssued, AloneUnlessOverlap, TasksAreAlone, TokenUnlessOverlap,
        TokenInHand, KeyUnlessOverlap, KeyInHand, OAuthSteps, CertSteps, Whole, None

\* UpkeepInv is inductive.
LEMMA UpkeepStep == UpkeepInv /\ [Next]_upkeep => UpkeepInv'
  BY FilesStep, NumbersStep, FlagsStep, TasksStep, TokensStep, AloneStep, TokenInHandStep,
     KeyInHandStep
  DEF UpkeepInv, UpkeepTypes

-----------------------------------------------------------------------------
(* The routing of commands *)

Backends == Routing!Backends

CallTypes ==
  /\ stage \in [Callers -> {"idle", "build", "send", "sent", "answered", "ok", "failed"}]
  /\ op \in [Callers -> Routing!Ops] /\ seen \in [Callers -> SUBSET Backends]
  /\ route \in [Callers -> Backends \cup {"none"}]
  /\ flight \subseteq Callers \X Backends /\ done \in [Callers -> SUBSET Backends]
  /\ reply \in [Callers -> {"none", "ok", "code", "malformed", "error"}]

SequenceTypes ==
  /\ since \in [Callers -> 0..MaxMoves] /\ bears \in [Callers -> Seq(Nat)]
  /\ reached \in [Callers -> Seq(Backends)]

Environment ==
  /\ {auto, hasCloud, lanOn} \subseteq BOOLEAN /\ routes \subseteq Backends
  /\ moves \in 0..MaxMoves /\ auth \in 0..moves

RoutingTypes == Environment /\ CallTypes /\ SequenceTypes

Begun == {"build", "send"}

\* A request goes to the route chosen, in cloud mode to no local one.
RoutesAreTaken ==
  \A c \in Callers :
    /\ stage[c] \in {"build", "send", "sent", "answered", "ok"} => route[c] # "none"
    /\ stage[c] = "build" => route[c] = "cloud"
    /\ ~auto /\ op[c] # "group" => route[c] \in {"cloud", "none"}

\* A caller asks twice at most; only a read whose request to the cloud failed asks again.
AttemptsAreCounted ==
  \A c \in Callers :
    /\ Len(reached[c]) <= 2
    /\ stage[c] = "idle" => reached[c] = << >>
    /\ stage[c] \in Begun => Len(reached[c]) <= 1
    /\ op[c] # "read" \/ route[c] = "cloud" =>
         Len(reached[c]) <= 1 /\ (stage[c] \in Begun => reached[c] = << >>)

CloudOnly ==
  \A c \in Callers : ~auto /\ op[c] # "group" => \A i \in 1..Len(reached[c]) : reached[c][i] = "cloud"

\* The request of a command is on its way to the route chosen only, and nowhere before it was sent;
\* whoever answers that it is done has done it.
CommandsAreTraced ==
  \A c \in Callers :
    /\ stage[c] = "idle" => done[c] = {} /\ \A x \in Backends : <<c, x>> \notin flight
    /\ op[c] \in Routing!Commands =>
         /\ stage[c] \in Begun => done[c] = {} /\ \A x \in Backends : <<c, x>> \notin flight
         /\ done[c] \subseteq {route[c]}
         /\ \A x \in Backends : <<c, x>> \in flight => x = route[c]
         /\ stage[c] = "ok" \/ (stage[c] = "answered" /\ reply[c] = "ok") => done[c] = {route[c]}

\* The account is read after the request began, a piece at a time.
PiecesAreFresh ==
  \A c \in Callers :
    /\ since[c] <= auth /\ Len(bears[c]) <= Routing!Pieces
    /\ stage[c] = "build" => Len(bears[c]) <= Routing!Pieces - 1
    /\ \A i \in 1..Len(bears[c]) : bears[c][i] >= since[c]

RoutingInv ==
  /\ RoutingTypes /\ RoutesAreTaken /\ AttemptsAreCounted
  /\ CloudOnly /\ CommandsAreTraced /\ PiecesAreFresh

-----------------------------------------------------------------------------
(* Steps of the routing *)

\* A sequence is longer by one after an Append, and the same before its end.
LEMMA Appended ==
  ASSUME NEW S, NEW s \in Seq(S), NEW e \in S
  PROVE  /\ Append(s, e) \in Seq(S) /\ Len(s) \in Nat /\ Len(Append(s, e)) = Len(s) + 1
         /\ DOMAIN s = 1..Len(s)
         /\ \A i \in 1..Len(s) : Append(s, e)[i] = s[i]
         /\ Append(s, e)[Len(s) + 1] = e
  OBVIOUS

LEMMA EmptySequence == ASSUME NEW S PROVE << >> \in Seq(S) /\ Len(<< >>) = 0
  OBVIOUS

\* Where a request goes.
LEMMA RouteIsChosen ==
  ASSUME {auto, hasCloud} \subseteq BOOLEAN, NEW s \in SUBSET Backends
  PROVE  /\ Routing!Local(s) \in (Backends \cup {"none"}) \ {"cloud"}
         /\ ~auto => Routing!Local(s) = "none"
         /\ \A o \in Routing!Ops :
              /\ Routing!Route(o, s) \in Backends \cup {"none"}
              /\ ~auto /\ o # "group" => Routing!Route(o, s) \in {"cloud", "none"}
  BY DEF Backends, Routing!Backends, Routing!Ops, Routing!Commands, Routing!Local, Routing!Route,
         Routing!ReadRoute, Routing!CommandRoute, Routing!GroupRoute

LEMMA EnvironmentStep ==
  RoutingTypes /\ [Routing!Next]_Routing!routing => Environment'
  <1>. SUFFICES ASSUME RoutingTypes, [Routing!Next]_Routing!routing PROVE Environment'
    OBVIOUS
  <1>1. CASE Routing!Move
    <2>1. routes' \subseteq Backends
      BY <1>1 DEF Routing!Move, RoutingTypes, Environment, Backends
    <2>2. lanOn' \in BOOLEAN
      BY <1>1 DEF Routing!Move, RoutingTypes, Environment
    <2>3. moves' \in 0..MaxMoves /\ auth' \in 0..moves' /\ UNCHANGED <<auto, hasCloud>>
      BY <1>1, RoutingConstants DEF Routing!Move, RoutingTypes, Environment, RoutingConstants
    <2>. QED
      BY <2>1, <2>2, <2>3 DEF RoutingTypes, Environment
  <1>2. CASE Routing!UpdateAuth
    BY <1>2, RoutingConstants
    DEF Routing!UpdateAuth, Routing!calls, RoutingTypes, Environment, RoutingConstants
  <1>3. ASSUME NEW c \in Callers, NEW o \in Routing!Ops, Routing!Call(c, o) PROVE Environment'
    BY <1>3, RoutingConstants
    DEF Routing!Call, Routing!Go, Routing!environment, RoutingTypes, Environment,
        RoutingConstants
  <1>4. ASSUME NEW c \in Callers, Routing!ReadPiece(c) PROVE Environment'
    BY <1>4, RoutingConstants
    DEF Routing!ReadPiece, Routing!environment, RoutingTypes, Environment, RoutingConstants
  <1>5. ASSUME NEW c \in Callers, Routing!Send(c) PROVE Environment'
    BY <1>5, RoutingConstants
    DEF Routing!Send, Routing!Answer, Routing!environment, RoutingTypes, Environment,
        RoutingConstants
  <1>6. ASSUME NEW c \in Callers, Routing!GiveUp(c) PROVE Environment'
    BY <1>6, RoutingConstants
    DEF Routing!GiveUp, Routing!Answer, Routing!environment, RoutingTypes, Environment,
        RoutingConstants
  <1>7. ASSUME NEW c \in Callers, Routing!Return(c) PROVE Environment'
    BY <1>7, RoutingConstants
    DEF Routing!Return, Routing!Go, Routing!environment, RoutingTypes, Environment,
        RoutingConstants
  <1>8. ASSUME NEW c \in Callers, Routing!Forget(c) PROVE Environment'
    BY <1>8, RoutingConstants
    DEF Routing!Forget, Routing!environment, RoutingTypes, Environment, RoutingConstants
  <1>9. ASSUME NEW c \in Callers, NEW x \in Backends, Routing!Execute(c, x) PROVE Environment'
    BY <1>9, RoutingConstants
    DEF Routing!Execute, Routing!Answer, Routing!Awaits, Routing!environment, RoutingTypes,
        Environment, RoutingConstants
  <1>10. ASSUME NEW c \in Callers, NEW x \in Backends, Routing!Refuse(c, x) PROVE Environment'
    BY <1>10, RoutingConstants
    DEF Routing!Refuse, Routing!Answer, Routing!Awaits, Routing!environment, RoutingTypes,
        Environment, RoutingConstants
  <1>11. CASE UNCHANGED Routing!routing
    BY <1>11
    DEF Routing!routing, Routing!environment, Routing!calls, RoutingTypes, Environment,
        RoutingConstants
  <1>. QED
    BY <1>1, <1>2, <1>3, <1>4, <1>5, <1>6, <1>7, <1>8, <1>9, <1>10, <1>11
    DEF Backends, Routing!Next, Routing!CallerStep

LEMMA CallTypesStep ==
  RoutingTypes /\ RoutesAreTaken /\ [Routing!Next]_Routing!routing => CallTypes'
  <1>. SUFFICES ASSUME RoutingTypes, RoutesAreTaken, [Routing!Next]_Routing!routing
                PROVE  CallTypes'
    OBVIOUS
  <1>1. ASSUME NEW c \in Callers, Routing!Send(c) PROVE CallTypes'
    <2>1. CASE route[c] = "lan" /\ ~lanOn
      BY <1>1, <2>1 DEF Routing!Send, Routing!Answer, Routing!environment, RoutingTypes, CallTypes
    <2>2. CASE ~(route[c] = "lan" /\ ~lanOn)
      <3>1. route[c] \in Backends
        BY <1>1 DEF Routing!Send, RoutesAreTaken, RoutingTypes, CallTypes
      <3>. QED
        BY <1>1, <2>2, <3>1 DEF Routing!Send, Routing!environment, RoutingTypes, CallTypes
    <2>. QED
      BY <2>1, <2>2
  <1>2. ASSUME NEW c \in Callers, Routing!Forget(c) PROVE CallTypes'
    <2>1. "read" \in Routing!Ops
      BY DEF Routing!Ops
    <2>. QED
      BY <1>2, <2>1 DEF Routing!Forget, Routing!environment, RoutingTypes, CallTypes
  <1>3. CASE Routing!Move
    BY <1>3, RouteIsChosen
    DEF Routing!Move, Routing!calls, RoutingTypes, Environment, CallTypes
  <1>4. CASE Routing!UpdateAuth
    BY <1>4, RouteIsChosen
    DEF Routing!UpdateAuth, Routing!calls, RoutingTypes, Environment, CallTypes
  <1>5. ASSUME NEW c \in Callers, NEW o \in Routing!Ops, Routing!Call(c, o) PROVE CallTypes'
    BY <1>5, RouteIsChosen
    DEF Routing!Call, Routing!Go, Routing!environment, RoutingTypes, Environment, CallTypes
  <1>6. ASSUME NEW c \in Callers, Routing!ReadPiece(c) PROVE CallTypes'
    BY <1>6, RouteIsChosen
    DEF Routing!ReadPiece, Routing!environment, RoutingTypes, Environment, CallTypes
  <1>7. ASSUME NEW c \in Callers, Routing!GiveUp(c) PROVE CallTypes'
    BY <1>7, RouteIsChosen
    DEF Routing!GiveUp, Routing!Answer, Routing!environment, RoutingTypes, Environment,
        CallTypes
  <1>8. ASSUME NEW c \in Callers, Routing!Return(c) PROVE CallTypes'
    BY <1>8, RouteIsChosen
    DEF Routing!Return, Routing!Go, Routing!environment, RoutingTypes, Environment, CallTypes
  <1>9. ASSUME NEW c \in Callers, NEW x \in Backends, Routing!Execute(c, x) PROVE CallTypes'
    BY <1>9, RouteIsChosen
    DEF Routing!Execute, Routing!Answer, Routing!Awaits, Routing!environment, RoutingTypes,
        Environment, CallTypes
  <1>10. ASSUME NEW c \in Callers, NEW x \in Backends, Routing!Refuse(c, x) PROVE CallTypes'
    BY <1>10, RouteIsChosen
    DEF Routing!Refuse, Routing!Answer, Routing!Awaits, Routing!environment, RoutingTypes,
        Environment, CallTypes
  <1>11. CASE UNCHANGED Routing!routing
    BY <1>11
    DEF Routing!routing, Routing!environment, Routing!calls, RoutingTypes, Environment,
        CallTypes
  <1>. QED
    BY <1>1, <1>2, <1>3, <1>4, <1>5, <1>6, <1>7, <1>8, <1>9, <1>10, <1>11
    DEF Backends, Routing!Next, Routing!CallerStep

LEMMA SequenceTypesStep ==
  RoutingTypes /\ RoutesAreTaken /\ [Routing!Next]_Routing!routing => SequenceTypes'
  <1>. SUFFICES ASSUME RoutingTypes, RoutesAreTaken, [Routing!Next]_Routing!routing
                PROVE  SequenceTypes'
    OBVIOUS
  <1>1. ASSUME NEW c \in Callers, Routing!Send(c) PROVE SequenceTypes'
    <2>1. CASE route[c] = "lan" /\ ~lanOn
      BY <1>1, <2>1
      DEF Routing!Send, Routing!Answer, Routing!environment, RoutingTypes, SequenceTypes
    <2>2. CASE ~(route[c] = "lan" /\ ~lanOn)
      <3>1. route[c] \in Backends
        BY <1>1 DEF Routing!Send, RoutesAreTaken, RoutingTypes, CallTypes
      <3>2. Append(reached[c], route[c]) \in Seq(Backends)
        BY <3>1, Appended DEF RoutingTypes, Environment, SequenceTypes
      <3>. QED
        BY <1>1, <2>2, <3>2 DEF Routing!Send, Routing!environment, RoutingTypes, SequenceTypes
    <2>. QED
      BY <2>1, <2>2
  <1>2. ASSUME NEW c \in Callers, Routing!Return(c) PROVE SequenceTypes'
    <2>1. UNCHANGED reached /\ (bears' = bears \/ bears' = [bears EXCEPT ![c] = << >>])
      BY <1>2 DEF Routing!Return, Routing!Go
    <2>2. since' = since \/ since' = [since EXCEPT ![c] = auth]
      BY <1>2 DEF Routing!Return, Routing!Go
    <2>3. auth \in 0..MaxMoves /\ << >> \in Seq(Nat)
      BY RoutingConstants DEF RoutingConstants, RoutingTypes, Environment
    <2>. QED
      BY <2>1, <2>2, <2>3 DEF RoutingTypes, Environment, SequenceTypes
  <1>3. CASE Routing!Move
    BY <1>3, RoutingConstants, Appended, EmptySequence
    DEF Routing!Move, Routing!calls, RoutingTypes, Environment, CallTypes, SequenceTypes,
        RoutingConstants
  <1>4. CASE Routing!UpdateAuth
    BY <1>4, RoutingConstants, Appended, EmptySequence
    DEF Routing!UpdateAuth, Routing!calls, RoutingTypes, Environment, CallTypes, SequenceTypes,
        RoutingConstants
  <1>5. ASSUME NEW c \in Callers, NEW o \in Routing!Ops, Routing!Call(c, o) PROVE SequenceTypes'
    BY <1>5, RoutingConstants, Appended, EmptySequence
    DEF Routing!Call, Routing!Go, Routing!environment, RoutingTypes, Environment, CallTypes,
        SequenceTypes, RoutingConstants
  <1>6. ASSUME NEW c \in Callers, Routing!ReadPiece(c) PROVE SequenceTypes'
    BY <1>6, RoutingConstants, Appended, EmptySequence
    DEF Routing!ReadPiece, Routing!environment, RoutingTypes, Environment, CallTypes,
        SequenceTypes, RoutingConstants
  <1>7. ASSUME NEW c \in Callers, Routing!GiveUp(c) PROVE SequenceTypes'
    BY <1>7, RoutingConstants, Appended, EmptySequence
    DEF Routing!GiveUp, Routing!Answer, Routing!environment, RoutingTypes, Environment,
        CallTypes, SequenceTypes, RoutingConstants
  <1>8. ASSUME NEW c \in Callers, Routing!Forget(c) PROVE SequenceTypes'
    BY <1>8, RoutingConstants, Appended, EmptySequence
    DEF Routing!Forget, Routing!environment, RoutingTypes, Environment, CallTypes,
        SequenceTypes, RoutingConstants
  <1>9. ASSUME NEW c \in Callers, NEW x \in Backends, Routing!Execute(c, x) PROVE SequenceTypes'
    BY <1>9, RoutingConstants, Appended, EmptySequence
    DEF Routing!Execute, Routing!Answer, Routing!Awaits, Routing!environment, RoutingTypes,
        Environment, CallTypes, SequenceTypes, RoutingConstants
  <1>10. ASSUME NEW c \in Callers, NEW x \in Backends, Routing!Refuse(c, x) PROVE SequenceTypes'
    BY <1>10, RoutingConstants, Appended, EmptySequence
    DEF Routing!Refuse, Routing!Answer, Routing!Awaits, Routing!environment, RoutingTypes,
        Environment, CallTypes, SequenceTypes, RoutingConstants
  <1>11. CASE UNCHANGED Routing!routing
    BY <1>11
    DEF Routing!routing, Routing!environment, Routing!calls, RoutingTypes, Environment,
        CallTypes, SequenceTypes, RoutingConstants
  <1>. QED
    BY <1>1, <1>2, <1>3, <1>4, <1>5, <1>6, <1>7, <1>8, <1>9, <1>10, <1>11
    DEF Backends, Routing!Next, Routing!CallerStep

LEMMA RoutesStep ==
  RoutingTypes /\ RoutesAreTaken /\ [Routing!Next]_Routing!routing => RoutesAreTaken'
  <1>. SUFFICES ASSUME RoutingTypes, RoutesAreTaken, [Routing!Next]_Routing!routing
                PROVE  RoutesAreTaken'
    OBVIOUS
  <1>1. CASE Routing!Move
    BY <1>1, RouteIsChosen
    DEF Routing!Move, Routing!calls, RoutingTypes, Environment, CallTypes, RoutesAreTaken
  <1>2. CASE Routing!UpdateAuth
    BY <1>2, RouteIsChosen
    DEF Routing!UpdateAuth, Routing!calls, RoutingTypes, Environment, CallTypes, RoutesAreTaken
  <1>3. ASSUME NEW c \in Callers, NEW o \in Routing!Ops,
               Routing!Call(c, o)
        PROVE  RoutesAreTaken'
    BY <1>3, RouteIsChosen
    DEF Routing!Call, Routing!Go, Routing!environment, RoutingTypes, Environment, CallTypes,
        RoutesAreTaken
  <1>4. ASSUME NEW c \in Callers, Routing!ReadPiece(c) PROVE RoutesAreTaken'
    BY <1>4, RouteIsChosen
    DEF Routing!ReadPiece, Routing!environment, RoutingTypes, Environment, CallTypes,
        RoutesAreTaken
  <1>5. ASSUME NEW c \in Callers, Routing!Send(c) PROVE RoutesAreTaken'
    BY <1>5, RouteIsChosen
    DEF Routing!Send, Routing!Answer, Routing!environment, RoutingTypes, Environment, CallTypes,
        RoutesAreTaken
  <1>6. ASSUME NEW c \in Callers, Routing!GiveUp(c) PROVE RoutesAreTaken'
    BY <1>6, RouteIsChosen
    DEF Routing!GiveUp, Routing!Answer, Routing!environment, RoutingTypes, Environment,
        CallTypes, RoutesAreTaken
  <1>7. ASSUME NEW c \in Callers, Routing!Return(c) PROVE RoutesAreTaken'
    BY <1>7, RouteIsChosen
    DEF Routing!Return, Routing!Go, Routing!environment, RoutingTypes, Environment, CallTypes,
        RoutesAreTaken
  <1>8. ASSUME NEW c \in Callers, Routing!Forget(c) PROVE RoutesAreTaken'
    BY <1>8, RouteIsChosen
    DEF Routing!Forget, Routing!environment, RoutingTypes, Environment, CallTypes,
        RoutesAreTaken
  <1>9. ASSUME NEW c \in Callers, NEW x \in Backends,
               Routing!Execute(c, x)
        PROVE  RoutesAreTaken'
    BY <1>9, RouteIsChosen
    DEF Routing!Execute, Routing!Answer, Routing!Awaits, Routing!environment, RoutingTypes,
        Environment, CallTypes, RoutesAreTaken
  <1>10. ASSUME NEW c \in Callers, NEW x \in Backends,
               Routing!Refuse(c, x)
        PROVE  RoutesAreTaken'
    BY <1>10, RouteIsChosen
    DEF Routing!Refuse, Routing!Answer, Routing!Awaits, Routing!environment, RoutingTypes,
        Environment, CallTypes, RoutesAreTaken
  <1>11. CASE UNCHANGED Routing!routing
    BY <1>11
    DEF Routing!routing, Routing!environment, Routing!calls, RoutingTypes, Environment,
        CallTypes, RoutesAreTaken
  <1>. QED
    BY <1>1, <1>2, <1>3, <1>4, <1>5, <1>6, <1>7, <1>8, <1>9, <1>10, <1>11
    DEF Backends, Routing!Next, Routing!CallerStep

LEMMA AttemptsStep ==
  RoutingTypes /\ AttemptsAreCounted /\ [Routing!Next]_Routing!routing => AttemptsAreCounted'
  <1>. SUFFICES ASSUME RoutingTypes, AttemptsAreCounted, [Routing!Next]_Routing!routing
                PROVE  AttemptsAreCounted'
    OBVIOUS
  <1>1. ASSUME NEW c \in Callers, Routing!Return(c) PROVE AttemptsAreCounted'
    <2>1. UNCHANGED <<op, reached>>
      BY <1>1 DEF Routing!Return
    <2>2. stage[c] = "answered" /\ \E s \in {"build", "send", "ok", "failed"} : stage' = [stage EXCEPT ![c] = s]
      BY <1>1 DEF Routing!Return, Routing!Go
    <2>3. CASE route' = route /\ stage'[c] \notin Begun
      BY <2>1, <2>2, <2>3 DEF RoutingTypes, CallTypes, AttemptsAreCounted, Begun
    <2>4. CASE ~(route' = route /\ stage'[c] \notin Begun)
      <3>1. op[c] = "read" /\ route[c] = "cloud" /\ route' = [route EXCEPT ![c] = Routing!Local(seen[c])]
        BY <1>1, <2>4 DEF Routing!Return, Routing!Go, RoutingTypes, CallTypes, Begun
      <3>2. Routing!Local(seen[c]) # "cloud"
        BY RouteIsChosen DEF RoutingTypes, Environment, CallTypes
      <3>. QED
        BY <2>1, <2>2, <3>1, <3>2 DEF RoutingTypes, CallTypes, AttemptsAreCounted, Begun
    <2>. QED
      BY <2>3, <2>4
  <1>2. CASE Routing!Move
    BY <1>2, RouteIsChosen, Appended, EmptySequence
    DEF Routing!Move, Routing!calls, RoutingTypes, Environment, CallTypes, SequenceTypes,
        AttemptsAreCounted, Begun
  <1>3. CASE Routing!UpdateAuth
    BY <1>3, RouteIsChosen, Appended, EmptySequence
    DEF Routing!UpdateAuth, Routing!calls, RoutingTypes, Environment, CallTypes, SequenceTypes,
        AttemptsAreCounted, Begun
  <1>4. ASSUME NEW c \in Callers, NEW o \in Routing!Ops,
               Routing!Call(c, o)
        PROVE  AttemptsAreCounted'
    BY <1>4, RouteIsChosen, Appended, EmptySequence
    DEF Routing!Call, Routing!Go, Routing!environment, RoutingTypes, Environment, CallTypes,
        SequenceTypes, AttemptsAreCounted, Begun
  <1>5. ASSUME NEW c \in Callers, Routing!ReadPiece(c) PROVE AttemptsAreCounted'
    BY <1>5, RouteIsChosen, Appended, EmptySequence
    DEF Routing!ReadPiece, Routing!environment, RoutingTypes, Environment, CallTypes,
        SequenceTypes, AttemptsAreCounted, Begun
  <1>6. ASSUME NEW c \in Callers, Routing!Send(c) PROVE AttemptsAreCounted'
    BY <1>6, RouteIsChosen, Appended, EmptySequence
    DEF Routing!Send, Routing!Answer, Routing!environment, RoutingTypes, Environment, CallTypes,
        SequenceTypes, AttemptsAreCounted, Begun
  <1>7. ASSUME NEW c \in Callers, Routing!GiveUp(c) PROVE AttemptsAreCounted'
    BY <1>7, RouteIsChosen, Appended, EmptySequence
    DEF Routing!GiveUp, Routing!Answer, Routing!environment, RoutingTypes, Environment,
        CallTypes, SequenceTypes, AttemptsAreCounted, Begun
  <1>8. ASSUME NEW c \in Callers, Routing!Forget(c) PROVE AttemptsAreCounted'
    BY <1>8, RouteIsChosen, Appended, EmptySequence
    DEF Routing!Forget, Routing!environment, RoutingTypes, Environment, CallTypes,
        SequenceTypes, AttemptsAreCounted, Begun
  <1>9. ASSUME NEW c \in Callers, NEW x \in Backends,
               Routing!Execute(c, x)
        PROVE  AttemptsAreCounted'
    BY <1>9, RouteIsChosen, Appended, EmptySequence
    DEF Routing!Execute, Routing!Answer, Routing!Awaits, Routing!environment, RoutingTypes,
        Environment, CallTypes, SequenceTypes, AttemptsAreCounted, Begun
  <1>10. ASSUME NEW c \in Callers, NEW x \in Backends,
               Routing!Refuse(c, x)
        PROVE  AttemptsAreCounted'
    <2>1. UNCHANGED <<reached, op, route>>
      BY <1>10 DEF Routing!Refuse
    <2>2. \A d \in Callers : stage'[d] = stage[d] \/ stage'[d] = "answered"
      BY <1>10 DEF Routing!Refuse, Routing!Answer, RoutingTypes, CallTypes
    <2>. QED
      BY <2>1, <2>2 DEF AttemptsAreCounted, Begun
  <1>11. CASE UNCHANGED Routing!routing
    BY <1>11
    DEF Routing!routing, Routing!environment, Routing!calls, RoutingTypes, Environment,
        CallTypes, SequenceTypes, AttemptsAreCounted, Begun
  <1>. QED
    BY <1>1, <1>2, <1>3, <1>4, <1>5, <1>6, <1>7, <1>8, <1>9, <1>10, <1>11
    DEF Backends, Routing!Next, Routing!CallerStep

LEMMA CloudOnlyStep ==
  RoutingTypes /\ RoutesAreTaken /\ AttemptsAreCounted /\ CloudOnly
    /\ [Routing!Next]_Routing!routing => CloudOnly'
  <1>. SUFFICES ASSUME RoutingTypes, RoutesAreTaken, AttemptsAreCounted, CloudOnly, [Routing!Next]_Routing!routing
                PROVE  CloudOnly'
    OBVIOUS
  <1>1. ASSUME NEW c \in Callers, Routing!Send(c) PROVE CloudOnly'
    <2>1. CASE route[c] = "lan" /\ ~lanOn
      BY <1>1, <2>1 DEF Routing!Send, Routing!Answer, Routing!environment, RoutingTypes, CloudOnly
    <2>2. CASE ~(route[c] = "lan" /\ ~lanOn)
      <3>1. route[c] \in Backends
        BY <1>1 DEF Routing!Send, RoutesAreTaken, RoutingTypes, CallTypes
      <3>2. ~auto /\ op[c] # "group" => route[c] = "cloud"
        BY <3>1 DEF RoutesAreTaken, Backends, Routing!Backends
      <3>3. UNCHANGED <<op, auto>>
        BY <1>1 DEF Routing!Send, Routing!environment
      <3>4. reached' = [reached EXCEPT ![c] = Append(reached[c], route[c])]
        BY <1>1, <2>2 DEF Routing!Send, Routing!environment
      <3>5. reached[c] \in Seq(Backends)
        BY DEF RoutingTypes, Environment, SequenceTypes
      <3>. DEFINE s == Append(reached[c], route[c])
      <3>6. /\ Len(s) = Len(reached[c]) + 1 /\ Len(reached[c]) \in Nat
            /\ \A i \in 1..Len(reached[c]) : s[i] = reached[c][i]
            /\ s[Len(reached[c]) + 1] = route[c]
        BY <3>1, <3>5, Appended
      <3>7. reached' = [reached EXCEPT ![c] = s]
        BY <3>4
      <3>. HIDE DEF s
      <3>8. ~auto /\ op[c] # "group" => \A i \in 1..Len(s) : s[i] = "cloud"
        <4>1. ~auto /\ op[c] # "group" => \A i \in 1..Len(reached[c]) : reached[c][i] = "cloud"
          BY DEF CloudOnly
        <4>2. \A i \in 1..Len(s) : i \in 1..Len(reached[c]) \/ i = Len(reached[c]) + 1
          BY <3>6
        <4>. QED
          BY <3>2, <3>6, <4>1, <4>2
      <3>. QED
        BY <3>3, <3>7, <3>8 DEF RoutingTypes, Environment, SequenceTypes, CloudOnly
    <2>. QED
      BY <2>1, <2>2
  <1>2. CASE Routing!Move
    BY <1>2, Appended, EmptySequence
    DEF Routing!Move, Routing!calls, RoutingTypes, Environment, CallTypes, SequenceTypes,
        RoutesAreTaken, CloudOnly, AttemptsAreCounted
  <1>3. CASE Routing!UpdateAuth
    BY <1>3, Appended, EmptySequence
    DEF Routing!UpdateAuth, Routing!calls, RoutingTypes, Environment, CallTypes, SequenceTypes,
        RoutesAreTaken, CloudOnly, AttemptsAreCounted
  <1>4. ASSUME NEW c \in Callers, NEW o \in Routing!Ops, Routing!Call(c, o) PROVE CloudOnly'
    BY <1>4, Appended, EmptySequence
    DEF Routing!Call, Routing!Go, Routing!environment, RoutingTypes, Environment, CallTypes,
        SequenceTypes, RoutesAreTaken, CloudOnly, AttemptsAreCounted
  <1>5. ASSUME NEW c \in Callers, Routing!ReadPiece(c) PROVE CloudOnly'
    BY <1>5, Appended, EmptySequence
    DEF Routing!ReadPiece, Routing!environment, RoutingTypes, Environment, CallTypes,
        SequenceTypes, RoutesAreTaken, CloudOnly, AttemptsAreCounted
  <1>6. ASSUME NEW c \in Callers, Routing!GiveUp(c) PROVE CloudOnly'
    BY <1>6, Appended, EmptySequence
    DEF Routing!GiveUp, Routing!Answer, Routing!environment, RoutingTypes, Environment,
        CallTypes, SequenceTypes, RoutesAreTaken, CloudOnly, AttemptsAreCounted
  <1>7. ASSUME NEW c \in Callers, Routing!Return(c) PROVE CloudOnly'
    BY <1>7, Appended, EmptySequence
    DEF Routing!Return, Routing!Go, Routing!environment, RoutingTypes, Environment, CallTypes,
        SequenceTypes, RoutesAreTaken, CloudOnly, AttemptsAreCounted
  <1>8. ASSUME NEW c \in Callers, Routing!Forget(c) PROVE CloudOnly'
    BY <1>8, Appended, EmptySequence
    DEF Routing!Forget, Routing!environment, RoutingTypes, Environment, CallTypes,
        SequenceTypes, RoutesAreTaken, CloudOnly, AttemptsAreCounted
  <1>9. ASSUME NEW c \in Callers, NEW x \in Backends, Routing!Execute(c, x) PROVE CloudOnly'
    BY <1>9, Appended, EmptySequence
    DEF Routing!Execute, Routing!Answer, Routing!Awaits, Routing!environment, RoutingTypes,
        Environment, CallTypes, SequenceTypes, RoutesAreTaken, CloudOnly, AttemptsAreCounted
  <1>10. ASSUME NEW c \in Callers, NEW x \in Backends, Routing!Refuse(c, x) PROVE CloudOnly'
    BY <1>10, Appended, EmptySequence
    DEF Routing!Refuse, Routing!Answer, Routing!Awaits, Routing!environment, RoutingTypes,
        Environment, CallTypes, SequenceTypes, RoutesAreTaken, CloudOnly, AttemptsAreCounted
  <1>11. CASE UNCHANGED Routing!routing
    BY <1>11
    DEF Routing!routing, Routing!environment, Routing!calls, RoutingTypes, Environment,
        CallTypes, SequenceTypes, RoutesAreTaken, CloudOnly, AttemptsAreCounted
  <1>. QED
    BY <1>1, <1>2, <1>3, <1>4, <1>5, <1>6, <1>7, <1>8, <1>9, <1>10, <1>11
    DEF Backends, Routing!Next, Routing!CallerStep

LEMMA TracedStep ==
  RoutingTypes /\ RoutesAreTaken /\ CommandsAreTraced
    /\ [Routing!Next]_Routing!routing => CommandsAreTraced'
  <1>. SUFFICES ASSUME RoutingTypes, RoutesAreTaken, CommandsAreTraced, [Routing!Next]_Routing!routing
                PROVE  CommandsAreTraced'
    OBVIOUS
  <1>1. ASSUME NEW c \in Callers, Routing!Forget(c) PROVE CommandsAreTraced'
    <2>1. \A x \in Backends : <<c, x>> \notin flight
      BY <1>1 DEF Routing!Forget, Backends
    <2>2. op' = [op EXCEPT ![c] = "read"] /\ done' = [done EXCEPT ![c] = {}] /\ UNCHANGED flight
      BY <1>1 DEF Routing!Forget
    <2>3. \A d \in Callers \ {c} : /\ stage'[d] = stage[d] /\ op'[d] = op[d] /\ done'[d] = done[d]
                                 /\ route'[d] = route[d] /\ reply'[d] = reply[d]
      BY <1>1 DEF Routing!Forget, RoutingTypes, CallTypes
    <2>4. op'[c] = "read" /\ done'[c] = {}
      BY <2>2 DEF RoutingTypes, CallTypes
    <2>. QED
      BY <2>1, <2>2, <2>3, <2>4 DEF CommandsAreTraced, Routing!Commands
  <1>2. CASE Routing!Move
    BY <1>2, RouteIsChosen
    DEF Routing!Move, Routing!calls, RoutingTypes, Environment, CallTypes, RoutesAreTaken,
        CommandsAreTraced, Begun, Routing!Commands, Routing!Accepted
  <1>3. CASE Routing!UpdateAuth
    BY <1>3, RouteIsChosen
    DEF Routing!UpdateAuth, Routing!calls, RoutingTypes, Environment, CallTypes, RoutesAreTaken,
        CommandsAreTraced, Begun, Routing!Commands, Routing!Accepted
  <1>4. ASSUME NEW c \in Callers, NEW o \in Routing!Ops,
               Routing!Call(c, o)
        PROVE  CommandsAreTraced'
    BY <1>4, RouteIsChosen
    DEF Routing!Call, Routing!Go, Routing!environment, RoutingTypes, Environment, CallTypes,
        RoutesAreTaken, CommandsAreTraced, Begun, Routing!Commands, Routing!Accepted
  <1>5. ASSUME NEW c \in Callers, Routing!ReadPiece(c) PROVE CommandsAreTraced'
    BY <1>5, RouteIsChosen
    DEF Routing!ReadPiece, Routing!environment, RoutingTypes, Environment, CallTypes,
        RoutesAreTaken, CommandsAreTraced, Begun, Routing!Commands, Routing!Accepted
  <1>6. ASSUME NEW c \in Callers, Routing!Send(c) PROVE CommandsAreTraced'
    BY <1>6, RouteIsChosen
    DEF Routing!Send, Routing!Answer, Routing!environment, RoutingTypes, Environment, CallTypes,
        RoutesAreTaken, CommandsAreTraced, Begun, Routing!Commands, Routing!Accepted
  <1>7. ASSUME NEW c \in Callers, Routing!GiveUp(c) PROVE CommandsAreTraced'
    BY <1>7, RouteIsChosen
    DEF Routing!GiveUp, Routing!Answer, Routing!environment, RoutingTypes, Environment,
        CallTypes, RoutesAreTaken, CommandsAreTraced, Begun, Routing!Commands, Routing!Accepted
  <1>8. ASSUME NEW c \in Callers, Routing!Return(c) PROVE CommandsAreTraced'
    BY <1>8, RouteIsChosen
    DEF Routing!Return, Routing!Go, Routing!environment, RoutingTypes, Environment, CallTypes,
        RoutesAreTaken, CommandsAreTraced, Begun, Routing!Commands, Routing!Accepted
  <1>9. ASSUME NEW c \in Callers, NEW x \in Backends,
               Routing!Execute(c, x)
        PROVE  CommandsAreTraced'
    BY <1>9, RouteIsChosen
    DEF Routing!Execute, Routing!Answer, Routing!Awaits, Routing!environment, RoutingTypes,
        Environment, CallTypes, RoutesAreTaken, CommandsAreTraced, Begun, Routing!Commands,
        Routing!Accepted
  <1>10. ASSUME NEW c \in Callers, NEW x \in Backends,
               Routing!Refuse(c, x)
        PROVE  CommandsAreTraced'
    BY <1>10, RouteIsChosen
    DEF Routing!Refuse, Routing!Answer, Routing!Awaits, Routing!environment, RoutingTypes,
        Environment, CallTypes, RoutesAreTaken, CommandsAreTraced, Begun, Routing!Commands,
        Routing!Accepted
  <1>11. CASE UNCHANGED Routing!routing
    BY <1>11
    DEF Routing!routing, Routing!environment, Routing!calls, RoutingTypes, Environment,
        CallTypes, RoutesAreTaken, CommandsAreTraced, Begun, Routing!Commands, Routing!Accepted
  <1>. QED
    BY <1>1, <1>2, <1>3, <1>4, <1>5, <1>6, <1>7, <1>8, <1>9, <1>10, <1>11
    DEF Backends, Routing!Next, Routing!CallerStep

LEMMA PiecesStep ==
  RoutingTypes /\ PiecesAreFresh /\ [Routing!Next]_Routing!routing => PiecesAreFresh'
  <1>. SUFFICES ASSUME RoutingTypes, PiecesAreFresh, [Routing!Next]_Routing!routing
                PROVE  PiecesAreFresh'
    OBVIOUS
  <1>1. ASSUME NEW c \in Callers, Routing!ReadPiece(c) PROVE PiecesAreFresh'
    <2>. DEFINE s == Append(bears[c], auth)
    <2>1. auth \in Nat /\ bears[c] \in Seq(Nat)
      BY DEF RoutingTypes, Environment, SequenceTypes
    <2>2. /\ Len(s) = Len(bears[c]) + 1 /\ Len(bears[c]) \in Nat
          /\ \A i \in 1..Len(bears[c]) : s[i] = bears[c][i]
          /\ s[Len(bears[c]) + 1] = auth
      BY <2>1, Appended
    <2>3. /\ bears' = [bears EXCEPT ![c] = s] /\ UNCHANGED <<auth, since>> /\ stage[c] = "build"
          /\ stage' = [stage EXCEPT ![c] = IF Len(bears[c]) = Routing!Pieces - 1 THEN "send" ELSE "build"]
      BY <1>1 DEF Routing!ReadPiece, Routing!environment
    <2>. HIDE DEF s
    <2>4. \A i \in 1..Len(s) : s[i] >= since[c]
      <3>1. \A i \in 1..Len(s) : i \in 1..Len(bears[c]) \/ i = Len(bears[c]) + 1
        BY <2>2
      <3>2. auth >= since[c] /\ \A i \in 1..Len(bears[c]) : bears[c][i] >= since[c]
        BY <2>1 DEF PiecesAreFresh, RoutingTypes, SequenceTypes
      <3>. QED
        BY <2>2, <3>1, <3>2
    <2>5. \A d \in Callers \ {c} : stage'[d] = stage[d] /\ bears'[d] = bears[d]
      BY <2>3 DEF RoutingTypes, CallTypes, SequenceTypes
    <2>6. bears'[c] = s /\ stage'[c] = IF Len(bears[c]) = Routing!Pieces - 1 THEN "send" ELSE "build"
      BY <2>3 DEF RoutingTypes, CallTypes, SequenceTypes
    <2>7. Len(bears[c]) <= 3 /\ since[c] <= auth
      BY <2>3 DEF PiecesAreFresh, Routing!Pieces
    <2>8. Len(s) <= 4 /\ (stage'[c] = "build" => Len(s) <= 3)
      <3>1. stage'[c] = "build" => Len(bears[c]) # 3
        BY <2>6 DEF Routing!Pieces
      <3>2. \A n \in Nat : n <= 3 => n + 1 <= 4 /\ (n # 3 => n + 1 <= 3)
        OBVIOUS
      <3>. QED
        BY <2>2, <2>7, <3>1, <3>2, Zenon
    <2>. QED
      BY <2>3, <2>4, <2>5, <2>6, <2>7, <2>8 DEF PiecesAreFresh, Routing!Pieces
  <1>2. CASE Routing!Move
    BY <1>2, Appended, EmptySequence
    DEF Routing!Move, Routing!calls, RoutingTypes, Environment, CallTypes, SequenceTypes,
        PiecesAreFresh, Routing!Pieces
  <1>3. CASE Routing!UpdateAuth
    BY <1>3, Appended, EmptySequence
    DEF Routing!UpdateAuth, Routing!calls, RoutingTypes, Environment, CallTypes, SequenceTypes,
        PiecesAreFresh, Routing!Pieces
  <1>4. ASSUME NEW c \in Callers, NEW o \in Routing!Ops,
               Routing!Call(c, o)
        PROVE  PiecesAreFresh'
    BY <1>4, Appended, EmptySequence
    DEF Routing!Call, Routing!Go, Routing!environment, RoutingTypes, Environment, CallTypes,
        SequenceTypes, PiecesAreFresh, Routing!Pieces
  <1>5. ASSUME NEW c \in Callers, Routing!Send(c) PROVE PiecesAreFresh'
    BY <1>5, Appended, EmptySequence
    DEF Routing!Send, Routing!Answer, Routing!environment, RoutingTypes, Environment, CallTypes,
        SequenceTypes, PiecesAreFresh, Routing!Pieces
  <1>6. ASSUME NEW c \in Callers, Routing!GiveUp(c) PROVE PiecesAreFresh'
    BY <1>6, Appended, EmptySequence
    DEF Routing!GiveUp, Routing!Answer, Routing!environment, RoutingTypes, Environment,
        CallTypes, SequenceTypes, PiecesAreFresh, Routing!Pieces
  <1>7. ASSUME NEW c \in Callers, Routing!Return(c) PROVE PiecesAreFresh'
    <2>1. /\ UNCHANGED auth /\ stage[c] = "answered"
          /\ \/ since' = [since EXCEPT ![c] = auth] /\ bears' = [bears EXCEPT ![c] = << >>]
             \/ UNCHANGED <<since, bears>> /\ stage'[c] # "build"
      BY <1>7 DEF Routing!Return, Routing!Go, Routing!environment, RoutingTypes, CallTypes
    <2>2. \A d \in Callers \ {c} : stage'[d] = stage[d]
      BY <1>7 DEF Routing!Return, Routing!Go, RoutingTypes, CallTypes
    <2>3. \A d \in Callers \ {c} : since'[d] = since[d] /\ bears'[d] = bears[d]
      BY <2>1 DEF RoutingTypes, SequenceTypes
    <2>4. \/ since'[c] = auth /\ bears'[c] = << >>
          \/ since'[c] = since[c] /\ bears'[c] = bears[c] /\ stage'[c] # "build"
      BY <2>1 DEF RoutingTypes, SequenceTypes
    <2>5. auth \in Nat /\ Len(<< >>) = 0
      BY RoutingConstants, EmptySequence DEF RoutingConstants, RoutingTypes, Environment
    <2>. QED
      BY <2>1, <2>2, <2>3, <2>4, <2>5 DEF PiecesAreFresh, Routing!Pieces
  <1>8. ASSUME NEW c \in Callers, Routing!Forget(c) PROVE PiecesAreFresh'
    BY <1>8, Appended, EmptySequence
    DEF Routing!Forget, Routing!environment, RoutingTypes, Environment, CallTypes,
        SequenceTypes, PiecesAreFresh, Routing!Pieces
  <1>9. ASSUME NEW c \in Callers, NEW x \in Backends,
               Routing!Execute(c, x)
        PROVE  PiecesAreFresh'
    BY <1>9, Appended, EmptySequence
    DEF Routing!Execute, Routing!Answer, Routing!Awaits, Routing!environment, RoutingTypes,
        Environment, CallTypes, SequenceTypes, PiecesAreFresh, Routing!Pieces
  <1>10. ASSUME NEW c \in Callers, NEW x \in Backends,
               Routing!Refuse(c, x)
        PROVE  PiecesAreFresh'
    BY <1>10, Appended, EmptySequence
    DEF Routing!Refuse, Routing!Answer, Routing!Awaits, Routing!environment, RoutingTypes,
        Environment, CallTypes, SequenceTypes, PiecesAreFresh, Routing!Pieces
  <1>11. CASE UNCHANGED Routing!routing
    BY <1>11
    DEF Routing!routing, Routing!environment, Routing!calls, RoutingTypes, Environment,
        CallTypes, SequenceTypes, PiecesAreFresh, Routing!Pieces
  <1>. QED
    BY <1>1, <1>2, <1>3, <1>4, <1>5, <1>6, <1>7, <1>8, <1>9, <1>10, <1>11
    DEF Backends, Routing!Next, Routing!CallerStep

LEMMA RoutingStarts == Routing!Init => RoutingInv
  <1>. SUFFICES ASSUME Routing!Init PROVE RoutingInv
    OBVIOUS
  <1>1. RoutingTypes
    <2>1. CallTypes
      BY DEF Routing!Init, CallTypes, Routing!Ops, Backends
    <2>2. SequenceTypes
      BY RoutingConstants, EmptySequence DEF Routing!Init, SequenceTypes, RoutingConstants
    <2>3. Environment
      BY RoutingConstants DEF Routing!Init, Environment, Backends, RoutingConstants
    <2>. QED
      BY <2>1, <2>2, <2>3 DEF RoutingTypes
  <1>. QED
    BY <1>1, EmptySequence
    DEF Routing!Init, RoutingInv, RoutesAreTaken, AttemptsAreCounted, CloudOnly,
        CommandsAreTraced, PiecesAreFresh, Routing!Commands, Routing!Pieces

\* RoutingInv is inductive.
LEMMA RoutingStep == RoutingInv /\ [Routing!Next]_Routing!routing => RoutingInv'
  BY EnvironmentStep, CallTypesStep, SequenceTypesStep, RoutesStep, AttemptsStep, CloudOnlyStep,
     TracedStep, PiecesStep
  DEF RoutingInv, RoutingTypes

-----------------------------------------------------------------------------
(* The specs of the devices *)

Versions == Specs!Versions

ParserTypes ==
  /\ parser \in [Parsers -> {"idle", "load", "instance", "texts", "open", "write", "ok", "failed"}]
  /\ urn \in [Parsers -> Urns] /\ fresh \in [Parsers -> BOOLEAN]
  /\ raw \in [Parsers -> Versions \cup {0}] /\ least \in [Parsers -> Versions \cup {0}]
  /\ truncated \in [Parsers -> BOOLEAN]

SpecTypes ==
  /\ published \in Versions /\ rules \in RuleSets
  /\ parses \in 0..MaxParses
  /\ DOMAIN cache = Urns /\ (\A u \in Urns : cache[u].state \in {"missing", "torn", "whole"})
  /\ refreshed \in [Urns -> Versions \cup {0}] /\ DOMAIN spec = Parsers

MetTyped == met \in BOOLEAN

ParsingTypes == ParserTypes /\ SpecTypes /\ MetTyped

\* What normalizing makes of a published instance of the device, by the rules of some release.
Normal(u, s) ==
  \E r \in RuleSets, v \in Versions, remote \in BOOLEAN : s = Specs!Normalized(r, u, v, remote)

\* A spec that is cached, returned or about to be written was normalized for its device.
SpecsAreNormal ==
  /\ \A u \in Urns : cache[u].state = "whole" => Normal(u, cache[u].spec)
  /\ \A p \in Parsers : parser[p] \in {"open", "write", "ok"} => Normal(urn[p], spec[p])

\* What was fetched had been published, and what a refresh is remembered by was fetched.
FetchesAreRecent ==
  /\ \A u \in Urns : refreshed[u] <= published
  /\ \A p \in Parsers :
       /\ parser[p] \in {"texts", "open", "write"} => raw[p] \in Versions /\ raw[p] <= published
       /\ parser[p] \in {"open", "write"} => spec[p].version = raw[p]

\* One parser is at work at most, with a device nobody refreshed since it began; the cache and the
\* specs returned are as new as the last refresh each of them followed.
RefreshesAreKept ==
  /\ \A p, q \in Parsers : Specs!Busy(p) /\ Specs!Busy(q) => p = q
  /\ \A p \in Parsers :
       /\ Specs!Busy(p) => least[p] = refreshed[urn[p]]
       /\ parser[p] \in {"texts", "open", "write"} => raw[p] >= least[p]
       /\ parser[p] = "ok" => spec[p].version >= least[p]
  /\ \A u \in Urns : cache[u].state = "whole" => cache[u].spec.version >= refreshed[u]

KeptUnlessMet == ~met => RefreshesAreKept

SpecsInv == ParsingTypes /\ SpecsAreNormal /\ FetchesAreRecent /\ KeptUnlessMet

-----------------------------------------------------------------------------
(* Steps of the parsers *)

LEMMA VersionsAreNumbers == Versions \subseteq Nat /\ Versions \cup {0} \subseteq Nat
  BY SpecConstants DEF SpecConstants, Versions

\* What is normalized is normal, and of the version it was made of.
LEMMA NormalIs ==
  ASSUME NEW r \in RuleSets, NEW u \in Urns, NEW v \in Versions, NEW remote \in BOOLEAN
  PROVE  Normal(u, Specs!Normalized(r, u, v, remote))
  BY DEF Normal

LEMMA VersionIs ==
  \A r, u, v, remote : Specs!Normalized(r, u, v, remote).version = v
  BY DEF Specs!Normalized

LEMMA ParserTypesStep ==
  ParsingTypes /\ [Specs!Next]_Specs!parsing => ParserTypes'
  <1>. SUFFICES ASSUME ParsingTypes, [Specs!Next]_Specs!parsing PROVE ParserTypes'
    OBVIOUS
  <1>1. CASE Specs!Publish
    BY <1>1, SpecConstants
    DEF Specs!Publish, Specs!parsers, Specs!history, ParsingTypes, ParserTypes, SpecTypes,
        SpecConstants, Versions
  <1>2. CASE Specs!Restart
    BY <1>2, SpecConstants
    DEF Specs!Restart, Specs!AnyUrn, Specs!NoSpec, ParsingTypes, ParserTypes, SpecTypes,
        SpecConstants, Versions
  <1>3. ASSUME NEW p \in Parsers, NEW u \in Urns, NEW refresh \in BOOLEAN,
               Specs!Begin(p, u, refresh)
        PROVE  ParserTypes'
    BY <1>3, SpecConstants
    DEF Specs!Begin, Specs!Goto, Specs!NoSpec, Specs!Busy, Specs!Meets, ParsingTypes,
        ParserTypes, SpecTypes, SpecConstants, Versions
  <1>4. ASSUME NEW p \in Parsers, Specs!LoadCached(p) PROVE ParserTypes'
    BY <1>4, SpecConstants
    DEF Specs!LoadCached, Specs!Goto, Specs!Fail, Specs!history, ParsingTypes, ParserTypes,
        SpecTypes, SpecConstants, Versions
  <1>5. ASSUME NEW p \in Parsers, Specs!FetchInstance(p) PROVE ParserTypes'
    BY <1>5, SpecConstants
    DEF Specs!FetchInstance, Specs!Goto, Specs!Fail, Specs!history, ParsingTypes, ParserTypes,
        SpecTypes, SpecConstants, Versions
  <1>6. ASSUME NEW p \in Parsers, Specs!Normalize(p) PROVE ParserTypes'
    BY <1>6, SpecConstants
    DEF Specs!Normalize, Specs!Goto, Specs!history, ParsingTypes, ParserTypes, SpecTypes,
        SpecConstants, Versions
  <1>7. ASSUME NEW p \in Parsers, Specs!OpenCache(p) PROVE ParserTypes'
    BY <1>7, SpecConstants
    DEF Specs!OpenCache, Specs!Goto, Specs!Fail, Specs!history, Specs!Torn, ParsingTypes,
        ParserTypes, SpecTypes, SpecConstants, Versions
  <1>8. ASSUME NEW p \in Parsers, Specs!SaveCached(p) PROVE ParserTypes'
    BY <1>8, SpecConstants
    DEF Specs!SaveCached, Specs!Goto, Specs!Torn, Specs!Whole, ParsingTypes, ParserTypes,
        SpecTypes, SpecConstants, Versions
  <1>9. CASE UNCHANGED Specs!parsing
    BY <1>9
    DEF Specs!parsing, Specs!parsers, Specs!history, ParsingTypes, ParserTypes, SpecTypes,
        SpecConstants, Versions
  <1>. QED
    BY <1>1, <1>2, <1>3, <1>4, <1>5, <1>6, <1>7, <1>8, <1>9
    DEF Specs!Next, Specs!ParserStep

LEMMA SpecTypesStep ==
  ParsingTypes /\ FetchesAreRecent /\ [Specs!Next]_Specs!parsing => SpecTypes'
  <1>. SUFFICES ASSUME ParsingTypes, FetchesAreRecent, [Specs!Next]_Specs!parsing PROVE SpecTypes'
    OBVIOUS
  <1>1. CASE Specs!Publish
    BY <1>1, SpecConstants
    DEF Specs!Publish, Specs!parsers, Specs!history, ParsingTypes, ParserTypes, SpecTypes,
        FetchesAreRecent, SpecConstants, Versions
  <1>2. CASE Specs!Restart
    BY <1>2, SpecConstants
    DEF Specs!Restart, Specs!AnyUrn, Specs!NoSpec, ParsingTypes, ParserTypes, SpecTypes,
        FetchesAreRecent, SpecConstants, Versions
  <1>3. ASSUME NEW p \in Parsers, NEW u \in Urns, NEW refresh \in BOOLEAN,
               Specs!Begin(p, u, refresh)
        PROVE  SpecTypes'
    BY <1>3, SpecConstants
    DEF Specs!Begin, Specs!Goto, Specs!NoSpec, Specs!Busy, Specs!Meets, ParsingTypes,
        ParserTypes, SpecTypes, FetchesAreRecent, SpecConstants, Versions
  <1>4. ASSUME NEW p \in Parsers, Specs!LoadCached(p) PROVE SpecTypes'
    BY <1>4, SpecConstants
    DEF Specs!LoadCached, Specs!Goto, Specs!Fail, Specs!history, ParsingTypes, ParserTypes,
        SpecTypes, FetchesAreRecent, SpecConstants, Versions
  <1>5. ASSUME NEW p \in Parsers, Specs!FetchInstance(p) PROVE SpecTypes'
    BY <1>5, SpecConstants
    DEF Specs!FetchInstance, Specs!Goto, Specs!Fail, Specs!history, ParsingTypes, ParserTypes,
        SpecTypes, FetchesAreRecent, SpecConstants, Versions
  <1>6. ASSUME NEW p \in Parsers, Specs!Normalize(p) PROVE SpecTypes'
    BY <1>6, SpecConstants
    DEF Specs!Normalize, Specs!Goto, Specs!history, ParsingTypes, ParserTypes, SpecTypes,
        FetchesAreRecent, SpecConstants, Versions
  <1>7. ASSUME NEW p \in Parsers, Specs!OpenCache(p) PROVE SpecTypes'
    BY <1>7, SpecConstants
    DEF Specs!OpenCache, Specs!Goto, Specs!Fail, Specs!history, Specs!Torn, ParsingTypes,
        ParserTypes, SpecTypes, FetchesAreRecent, SpecConstants, Versions
  <1>8. ASSUME NEW p \in Parsers, Specs!SaveCached(p) PROVE SpecTypes'
    BY <1>8, SpecConstants
    DEF Specs!SaveCached, Specs!Goto, Specs!Torn, Specs!Whole, ParsingTypes, ParserTypes,
        SpecTypes, FetchesAreRecent, SpecConstants, Versions
  <1>9. CASE UNCHANGED Specs!parsing
    BY <1>9
    DEF Specs!parsing, Specs!parsers, Specs!history, ParsingTypes, ParserTypes, SpecTypes,
        FetchesAreRecent, SpecConstants, Versions
  <1>. QED
    BY <1>1, <1>2, <1>3, <1>4, <1>5, <1>6, <1>7, <1>8, <1>9
    DEF Specs!Next, Specs!ParserStep

LEMMA MetStep ==
  ParsingTypes /\ [Specs!Next]_Specs!parsing => MetTyped'
  <1>. SUFFICES ASSUME ParsingTypes, [Specs!Next]_Specs!parsing PROVE MetTyped'
    OBVIOUS
  <1>1. CASE Specs!Publish
    BY <1>1
    DEF Specs!Publish, Specs!parsers, Specs!history, ParsingTypes, MetTyped
  <1>2. CASE Specs!Restart
    BY <1>2
    DEF Specs!Restart, Specs!AnyUrn, Specs!NoSpec, ParsingTypes, MetTyped
  <1>3. ASSUME NEW p \in Parsers, NEW u \in Urns, NEW refresh \in BOOLEAN,
               Specs!Begin(p, u, refresh)
        PROVE  MetTyped'
    BY <1>3
    DEF Specs!Begin, Specs!Goto, Specs!NoSpec, Specs!Busy, Specs!Meets, ParsingTypes, MetTyped
  <1>4. ASSUME NEW p \in Parsers, Specs!LoadCached(p) PROVE MetTyped'
    BY <1>4
    DEF Specs!LoadCached, Specs!Goto, Specs!Fail, Specs!history, ParsingTypes, MetTyped
  <1>5. ASSUME NEW p \in Parsers, Specs!FetchInstance(p) PROVE MetTyped'
    BY <1>5
    DEF Specs!FetchInstance, Specs!Goto, Specs!Fail, Specs!history, ParsingTypes, MetTyped
  <1>6. ASSUME NEW p \in Parsers, Specs!Normalize(p) PROVE MetTyped'
    BY <1>6
    DEF Specs!Normalize, Specs!Goto, Specs!history, ParsingTypes, MetTyped
  <1>7. ASSUME NEW p \in Parsers, Specs!OpenCache(p) PROVE MetTyped'
    BY <1>7
    DEF Specs!OpenCache, Specs!Goto, Specs!Fail, Specs!history, Specs!Torn, ParsingTypes,
        MetTyped
  <1>8. ASSUME NEW p \in Parsers, Specs!SaveCached(p) PROVE MetTyped'
    BY <1>8
    DEF Specs!SaveCached, Specs!Goto, Specs!Torn, Specs!Whole, ParsingTypes, MetTyped
  <1>9. CASE UNCHANGED Specs!parsing
    BY <1>9
    DEF Specs!parsing, Specs!parsers, Specs!history, ParsingTypes, MetTyped
  <1>. QED
    BY <1>1, <1>2, <1>3, <1>4, <1>5, <1>6, <1>7, <1>8, <1>9
    DEF Specs!Next, Specs!ParserStep

LEMMA NormalStep ==
  ParsingTypes /\ FetchesAreRecent /\ SpecsAreNormal
    /\ [Specs!Next]_Specs!parsing => SpecsAreNormal'
  <1>. SUFFICES ASSUME ParsingTypes, FetchesAreRecent, SpecsAreNormal, [Specs!Next]_Specs!parsing
                PROVE  SpecsAreNormal'
    OBVIOUS
  <1>1. CASE Specs!Publish
    BY <1>1, NormalIs
    DEF Specs!Publish, Specs!parsers, Specs!history, ParsingTypes, ParserTypes, SpecTypes,
        FetchesAreRecent, SpecsAreNormal
  <1>2. CASE Specs!Restart
    BY <1>2, NormalIs
    DEF Specs!Restart, Specs!AnyUrn, Specs!NoSpec, ParsingTypes, ParserTypes, SpecTypes,
        FetchesAreRecent, SpecsAreNormal
  <1>3. ASSUME NEW p \in Parsers, NEW u \in Urns, NEW refresh \in BOOLEAN,
               Specs!Begin(p, u, refresh)
        PROVE  SpecsAreNormal'
    BY <1>3, NormalIs
    DEF Specs!Begin, Specs!Goto, Specs!NoSpec, Specs!Busy, Specs!Meets, ParsingTypes,
        ParserTypes, SpecTypes, FetchesAreRecent, SpecsAreNormal
  <1>4. ASSUME NEW p \in Parsers, Specs!LoadCached(p) PROVE SpecsAreNormal'
    BY <1>4, NormalIs
    DEF Specs!LoadCached, Specs!Goto, Specs!Fail, Specs!history, ParsingTypes, ParserTypes,
        SpecTypes, FetchesAreRecent, SpecsAreNormal
  <1>5. ASSUME NEW p \in Parsers, Specs!FetchInstance(p) PROVE SpecsAreNormal'
    BY <1>5, NormalIs
    DEF Specs!FetchInstance, Specs!Goto, Specs!Fail, Specs!history, ParsingTypes, ParserTypes,
        SpecTypes, FetchesAreRecent, SpecsAreNormal
  <1>6. ASSUME NEW p \in Parsers, Specs!Normalize(p) PROVE SpecsAreNormal'
    BY <1>6, NormalIs
    DEF Specs!Normalize, Specs!Goto, Specs!history, ParsingTypes, ParserTypes, SpecTypes,
        FetchesAreRecent, SpecsAreNormal
  <1>7. ASSUME NEW p \in Parsers, Specs!OpenCache(p) PROVE SpecsAreNormal'
    BY <1>7, NormalIs
    DEF Specs!OpenCache, Specs!Goto, Specs!Fail, Specs!history, Specs!Torn, ParsingTypes,
        ParserTypes, SpecTypes, FetchesAreRecent, SpecsAreNormal
  <1>8. ASSUME NEW p \in Parsers, Specs!SaveCached(p) PROVE SpecsAreNormal'
    BY <1>8, NormalIs
    DEF Specs!SaveCached, Specs!Goto, Specs!Torn, Specs!Whole, ParsingTypes, ParserTypes,
        SpecTypes, FetchesAreRecent, SpecsAreNormal
  <1>9. CASE UNCHANGED Specs!parsing
    BY <1>9
    DEF Specs!parsing, Specs!parsers, Specs!history, ParsingTypes, ParserTypes, SpecTypes,
        FetchesAreRecent, SpecsAreNormal
  <1>. QED
    BY <1>1, <1>2, <1>3, <1>4, <1>5, <1>6, <1>7, <1>8, <1>9
    DEF Specs!Next, Specs!ParserStep

LEMMA RecentStep ==
  ParsingTypes /\ FetchesAreRecent /\ [Specs!Next]_Specs!parsing => FetchesAreRecent'
  <1>. SUFFICES ASSUME ParsingTypes, FetchesAreRecent, [Specs!Next]_Specs!parsing
                PROVE  FetchesAreRecent'
    OBVIOUS
  <1>1. CASE Specs!Publish
    <2>1. published' = published + 1 /\ UNCHANGED <<parser, raw, spec, refreshed>>
      BY <1>1 DEF Specs!Publish, Specs!parsers, Specs!history
    <2>2. published \in Nat /\ (\A u \in Urns : refreshed[u] \in Nat) /\ Versions \subseteq Nat
      BY VersionsAreNumbers DEF ParsingTypes, SpecTypes
    <2>3. \A n \in Nat : n <= published => n <= published'
      BY <2>1, <2>2
    <2>. QED
      BY <2>1, <2>2, <2>3 DEF FetchesAreRecent
  <1>2. CASE Specs!Restart
    BY <1>2, SpecConstants, VersionIs
    DEF Specs!Restart, Specs!AnyUrn, Specs!NoSpec, ParsingTypes, ParserTypes, SpecTypes,
        FetchesAreRecent, SpecConstants, Versions
  <1>3. ASSUME NEW p \in Parsers, NEW u \in Urns, NEW refresh \in BOOLEAN,
               Specs!Begin(p, u, refresh)
        PROVE  FetchesAreRecent'
    BY <1>3, SpecConstants, VersionIs
    DEF Specs!Begin, Specs!Goto, Specs!NoSpec, Specs!Busy, Specs!Meets, ParsingTypes,
        ParserTypes, SpecTypes, FetchesAreRecent, SpecConstants, Versions
  <1>4. ASSUME NEW p \in Parsers, Specs!LoadCached(p) PROVE FetchesAreRecent'
    BY <1>4, SpecConstants, VersionIs
    DEF Specs!LoadCached, Specs!Goto, Specs!Fail, Specs!history, ParsingTypes, ParserTypes,
        SpecTypes, FetchesAreRecent, SpecConstants, Versions
  <1>5. ASSUME NEW p \in Parsers, Specs!FetchInstance(p) PROVE FetchesAreRecent'
    BY <1>5, SpecConstants, VersionIs
    DEF Specs!FetchInstance, Specs!Goto, Specs!Fail, Specs!history, ParsingTypes, ParserTypes,
        SpecTypes, FetchesAreRecent, SpecConstants, Versions
  <1>6. ASSUME NEW p \in Parsers, Specs!Normalize(p) PROVE FetchesAreRecent'
    BY <1>6, SpecConstants, VersionIs
    DEF Specs!Normalize, Specs!Goto, Specs!history, ParsingTypes, ParserTypes, SpecTypes,
        FetchesAreRecent, SpecConstants, Versions
  <1>7. ASSUME NEW p \in Parsers, Specs!OpenCache(p) PROVE FetchesAreRecent'
    BY <1>7, SpecConstants, VersionIs
    DEF Specs!OpenCache, Specs!Goto, Specs!Fail, Specs!history, Specs!Torn, ParsingTypes,
        ParserTypes, SpecTypes, FetchesAreRecent, SpecConstants, Versions
  <1>8. ASSUME NEW p \in Parsers, Specs!SaveCached(p) PROVE FetchesAreRecent'
    BY <1>8, SpecConstants, VersionIs
    DEF Specs!SaveCached, Specs!Goto, Specs!Torn, Specs!Whole, ParsingTypes, ParserTypes,
        SpecTypes, FetchesAreRecent, SpecConstants, Versions
  <1>9. CASE UNCHANGED Specs!parsing
    BY <1>9
    DEF Specs!parsing, Specs!parsers, Specs!history, ParsingTypes, ParserTypes, SpecTypes,
        FetchesAreRecent, SpecConstants, Versions
  <1>. QED
    BY <1>1, <1>2, <1>3, <1>4, <1>5, <1>6, <1>7, <1>8, <1>9
    DEF Specs!Next, Specs!ParserStep

LEMMA KeptStep ==
  ParsingTypes /\ FetchesAreRecent /\ KeptUnlessMet
    /\ [Specs!Next]_Specs!parsing => KeptUnlessMet'
  <1>. SUFFICES ASSUME ParsingTypes, FetchesAreRecent, KeptUnlessMet, [Specs!Next]_Specs!parsing
                PROVE  KeptUnlessMet'
    OBVIOUS
  <1>1. ASSUME NEW p \in Parsers, NEW u \in Urns, NEW refresh \in BOOLEAN,
               Specs!Begin(p, u, refresh)
        PROVE  KeptUnlessMet'
    <2>. SUFFICES ASSUME ~met' PROVE RefreshesAreKept'
      BY DEF KeptUnlessMet
    <2>1. RefreshesAreKept /\ \A q \in Parsers \ {p} : ~Specs!Busy(q)
      BY <1>1 DEF Specs!Begin, Specs!Meets, KeptUnlessMet, ParsingTypes, MetTyped
    <2>2. /\ parser'[p] \in {"instance", "load"} /\ urn'[p] = u /\ least'[p] = refreshed[u]
          /\ UNCHANGED <<cache, refreshed>>
          /\ \A q \in Parsers \ {p} : /\ parser'[q] = parser[q] /\ urn'[q] = urn[q] /\ raw'[q] = raw[q]
                                       /\ spec'[q] = spec[q] /\ least'[q] = least[q]
      BY <1>1 DEF Specs!Begin, Specs!Goto, ParsingTypes, ParserTypes, SpecTypes
    <2>. QED
      BY <2>1, <2>2 DEF RefreshesAreKept, Specs!Busy
  <1>2. ASSUME NEW p \in Parsers, Specs!SaveCached(p) PROVE KeptUnlessMet'
    <2>. SUFFICES ASSUME ~met' PROVE RefreshesAreKept'
      BY DEF KeptUnlessMet
    <2>1. RefreshesAreKept /\ parser[p] = "write" /\ Specs!Busy(p)
      BY <1>2 DEF Specs!SaveCached, KeptUnlessMet, Specs!Busy
    <2>2. \A q \in Parsers \ {p} : ~Specs!Busy(q)
      BY <2>1 DEF RefreshesAreKept
    <2>3. /\ parser' = [parser EXCEPT ![p] = "ok"] /\ UNCHANGED <<urn, raw, spec, least>>
          /\ refreshed' = refreshed \/ refreshed' = [refreshed EXCEPT ![urn[p]] = raw[p]]
      BY <1>2 DEF Specs!SaveCached, Specs!Goto
    <2>4. /\ \A u \in Urns \ {urn[p]} : cache'[u] = cache[u]
          /\ cache'[urn[p]].state = "whole" => cache'[urn[p]].spec = spec[p]
      BY <1>2 DEF Specs!SaveCached, Specs!Torn, Specs!Whole, ParsingTypes, ParserTypes, SpecTypes
    <2>5. spec[p].version = raw[p] /\ raw[p] >= least[p] /\ least[p] = refreshed[urn[p]] /\ urn[p] \in Urns
      BY <2>1 DEF RefreshesAreKept, FetchesAreRecent, ParsingTypes, ParserTypes
    <2>6. \A u \in Urns : cache'[u].state = "whole" => cache'[u].spec.version >= refreshed'[u]
      <3>1. raw[p] \in Nat /\ least[p] \in Nat
        BY VersionsAreNumbers DEF ParsingTypes, ParserTypes
      <3>2. spec[p].version >= refreshed'[urn[p]]
        BY <2>3, <2>5, <3>1 DEF ParsingTypes, SpecTypes
      <3>3. \A u \in Urns \ {urn[p]} : refreshed'[u] = refreshed[u]
        BY <2>3 DEF ParsingTypes, SpecTypes
      <3>. QED
        BY <2>1, <2>4, <3>2, <3>3 DEF RefreshesAreKept
    <2>7. \A q \in Parsers : ~Specs!Busy(q)' /\ (parser'[q] = "ok" => spec'[q].version >= least'[q])
      BY <2>1, <2>2, <2>3, <2>5 DEF RefreshesAreKept, Specs!Busy, ParsingTypes, ParserTypes
    <2>. QED
      BY <2>6, <2>7 DEF RefreshesAreKept, Specs!Busy
  <1>3. CASE Specs!Publish
    BY <1>3, SpecConstants, VersionIs
    DEF Specs!Publish, Specs!parsers, Specs!history, ParsingTypes, ParserTypes, SpecTypes,
        MetTyped, FetchesAreRecent, KeptUnlessMet, RefreshesAreKept, Specs!Busy, SpecConstants,
        Versions
  <1>4. CASE Specs!Restart
    BY <1>4, SpecConstants, VersionIs
    DEF Specs!Restart, Specs!AnyUrn, Specs!NoSpec, ParsingTypes, ParserTypes, SpecTypes,
        MetTyped, FetchesAreRecent, KeptUnlessMet, RefreshesAreKept, Specs!Busy, SpecConstants,
        Versions
  <1>5. ASSUME NEW p \in Parsers, Specs!LoadCached(p) PROVE KeptUnlessMet'
    BY <1>5, SpecConstants, VersionIs
    DEF Specs!LoadCached, Specs!Goto, Specs!Fail, Specs!history, ParsingTypes, ParserTypes,
        SpecTypes, MetTyped, FetchesAreRecent, KeptUnlessMet, RefreshesAreKept, Specs!Busy,
        SpecConstants, Versions
  <1>6. ASSUME NEW p \in Parsers, Specs!FetchInstance(p) PROVE KeptUnlessMet'
    BY <1>6, SpecConstants, VersionIs
    DEF Specs!FetchInstance, Specs!Goto, Specs!Fail, Specs!history, ParsingTypes, ParserTypes,
        SpecTypes, MetTyped, FetchesAreRecent, KeptUnlessMet, RefreshesAreKept, Specs!Busy,
        SpecConstants, Versions
  <1>7. ASSUME NEW p \in Parsers, Specs!Normalize(p) PROVE KeptUnlessMet'
    BY <1>7, SpecConstants, VersionIs
    DEF Specs!Normalize, Specs!Goto, Specs!history, ParsingTypes, ParserTypes, SpecTypes,
        MetTyped, FetchesAreRecent, KeptUnlessMet, RefreshesAreKept, Specs!Busy, SpecConstants,
        Versions
  <1>8. ASSUME NEW p \in Parsers, Specs!OpenCache(p) PROVE KeptUnlessMet'
    BY <1>8, SpecConstants, VersionIs
    DEF Specs!OpenCache, Specs!Goto, Specs!Fail, Specs!history, Specs!Torn, ParsingTypes,
        ParserTypes, SpecTypes, MetTyped, FetchesAreRecent, KeptUnlessMet, RefreshesAreKept,
        Specs!Busy, SpecConstants, Versions
  <1>9. CASE UNCHANGED Specs!parsing
    BY <1>9
    DEF Specs!parsing, Specs!parsers, Specs!history, ParsingTypes, ParserTypes, SpecTypes,
        MetTyped, FetchesAreRecent, KeptUnlessMet, RefreshesAreKept, Specs!Busy, SpecConstants,
        Versions
  <1>. QED
    BY <1>1, <1>2, <1>3, <1>4, <1>5, <1>6, <1>7, <1>8, <1>9
    DEF Specs!Next, Specs!ParserStep

-----------------------------------------------------------------------------
(* Chains of aliases *)

\* Every set of numbers has a least one.
LEMMA LeastNumber == ASSUME NEW T, T \subseteq Nat, T # {} PROVE \E x \in T : \A y \in T : x <= y
  <1>. DEFINE R == OpToRel(<, Nat)
  <1>1. R = {ss \in Nat \X Nat : ss[1] < ss[2]}
    BY DEF OpToRel
  <1>2. IsWellFoundedOn(R, Nat)
    BY NatLessThanWellFounded
  <1>. HIDE DEF R
  <1>3. PICK x \in T : \A y \in T : <<y, x>> \notin R
    BY <1>2, WFMin
  <1>4. ASSUME NEW y \in T, y < x PROVE <<y, x>> \in R
    <2>. DEFINE ss == <<y, x>>
    <2>1. ss \in Nat \X Nat /\ ss[1] < ss[2]
      BY <1>4
    <2>. HIDE DEF ss
    <2>2. ss \in R
      BY <1>1, <2>1
    <2>. QED
      BY <2>2 DEF ss
  <1>5. ASSUME NEW y \in T PROVE x <= y
    <2>1. ~(y < x)
      BY <1>3, <1>4
    <2>. QED
      BY <2>1
  <1>. QED
    BY <1>5

\* A set that holds 0 and every successor of its numbers holds all of them.
LEMMA Induction ==
  ASSUME NEW T, 0 \in T, \A n \in Nat : n \in T => n + 1 \in T PROVE Nat \subseteq T
  <1>. SUFFICES ASSUME Nat \ T # {} PROVE FALSE
    OBVIOUS
  <1>1. PICK x \in Nat \ T : \A y \in Nat \ T : x <= y
    BY LeastNumber
  <1>2. x # 0 /\ x - 1 \in Nat /\ x - 1 \in T
    BY <1>1
  <1>3. x \in T
    BY <1>1, <1>2
  <1>. QED
    BY <1>1, <1>3

\* What is left to see shrinks with every urn that is seen.
LEMMA LessIsLeft ==
  ASSUME NEW N, IsFiniteSet(N), NEW past \in SUBSET N, NEW x \in N \ past
  PROVE  /\ Cardinality(N \ past) \in Nat /\ Cardinality(N \ (past \cup {x})) \in Nat
         /\ Cardinality(N \ past) = Cardinality(N \ (past \cup {x})) + 1
  <1>1. IsFiniteSet(N \ past) /\ x \in N \ past /\ N \ (past \cup {x}) = (N \ past) \ {x}
    BY FS_Difference
  <1>2. Cardinality((N \ past) \ {x}) = Cardinality(N \ past) - 1 /\ IsFiniteSet((N \ past) \ {x})
    BY <1>1, FS_RemoveElement
  <1>3. Cardinality(N \ past) \in Nat /\ Cardinality((N \ past) \ {x}) \in Nat
    BY <1>1, <1>2, FS_CardinalityType
  <1>. QED
    BY <1>1, <1>2, <1>3

\* One step of Follow, in a function that need not be Follow.
Followed(r, g, past, x) ==
  IF Specs!Stops(r, x, past) THEN x ELSE g[past \cup {x}][r.alias[x]]

\* Follow is a function: the recursion ends, whatever the aliases are.
LEMMA FollowExists ==
  ASSUME NEW r \in RuleSets
  PROVE  \E F : F = [past \in SUBSET Specs!Named(r) |-> [x \in Specs!Named(r) |-> Followed(r, F, past, x)]]
  <1>. DEFINE N == Specs!Named(r)
              Tables == [SUBSET N -> [N -> N]]
              T == {n \in Nat : \E g \in Tables : \A past \in SUBSET N : \A x \in N :
                      Cardinality(N \ past) <= n => g[past][x] = Followed(r, g, past, x)}
  <1>1. IsFiniteSet(N) /\ \A past \in SUBSET N : Cardinality(N \ past) \in Nat
    <2>1. IsFiniteSet(N)
      BY SpecConstants, FS_Union DEF SpecConstants, Specs!Named
    <2>. QED
      BY <2>1, FS_Difference, FS_CardinalityType
  <1>2. \A past \in SUBSET N, x \in N :
          Specs!Stops(r, x, past) \/ (x \notin past /\ r.alias[x] \in N)
    BY DEF Specs!Stops, Specs!Named
  <1>. HIDE DEF N
  <1>3. 0 \in T
    <2>. DEFINE g == [past \in SUBSET N |-> [x \in N |-> x]]
    <2>1. ASSUME NEW past \in SUBSET N, NEW x \in N, Cardinality(N \ past) <= 0
          PROVE  Specs!Stops(r, x, past)
      <3>1. N \ past = {}
        <4>1. IsFiniteSet(N \ past) /\ Cardinality(N \ past) = 0
          BY <1>1, <2>1, FS_Difference
        <4>. QED
          BY <4>1, FS_EmptySet
      <3>. QED
        BY <3>1 DEF Specs!Stops
    <2>2. g \in Tables /\ \A past \in SUBSET N : \A x \in N : g[past][x] = x
      OBVIOUS
    <2>. HIDE DEF g
    <2>3. \A past \in SUBSET N : \A x \in N :
            Cardinality(N \ past) <= 0 => g[past][x] = Followed(r, g, past, x)
      BY <2>1, <2>2 DEF Followed
    <2>. QED
      BY <2>2, <2>3
  <1>4. ASSUME NEW n \in Nat, n \in T PROVE n + 1 \in T
    <2>1. PICK g \in Tables : \A past \in SUBSET N : \A x \in N :
                 Cardinality(N \ past) <= n => g[past][x] = Followed(r, g, past, x)
      BY <1>4
    <2>. DEFINE h == [past \in SUBSET N |-> [x \in N |-> Followed(r, g, past, x)]]
    <2>2. \A past \in SUBSET N : \A x \in N : h[past][x] = Followed(r, g, past, x)
      OBVIOUS
    <2>3. h \in Tables
      BY <1>2 DEF Followed
    <2>. HIDE DEF h
    <2>4. ASSUME NEW past \in SUBSET N, NEW x \in N, Cardinality(N \ past) <= n + 1
          PROVE  h[past][x] = Followed(r, h, past, x)
      <3>1. CASE Specs!Stops(r, x, past)
        BY <2>2, <3>1 DEF Followed
      <3>2. CASE ~Specs!Stops(r, x, past)
        <4>1. x \in N \ past /\ r.alias[x] \in N /\ past \cup {x} \in SUBSET N
          BY <1>2, <3>2
        <4>2. Cardinality(N \ (past \cup {x})) <= n
          BY <1>1, <2>4, <4>1, LessIsLeft
        <4>3. g[past \cup {x}][r.alias[x]] = Followed(r, g, past \cup {x}, r.alias[x])
          BY <2>1, <4>1, <4>2
        <4>4. h[past \cup {x}][r.alias[x]] = g[past \cup {x}][r.alias[x]]
          BY <2>2, <4>1, <4>3
        <4>. QED
          BY <2>2, <3>2, <4>4 DEF Followed
      <3>. QED
        BY <3>1, <3>2
    <2>. QED
      BY <2>3, <2>4
  <1>5. Cardinality(N) \in T
    <2>. HIDE DEF T
    <2>1. Nat \subseteq T
      BY <1>3, <1>4, Induction
    <2>. QED
      BY <1>1, <2>1, FS_CardinalityType
  <1>6. PICK F \in Tables : \A past \in SUBSET N : \A x \in N : F[past][x] = Followed(r, F, past, x)
    <2>1. \A past \in SUBSET N : Cardinality(N \ past) <= Cardinality(N)
      BY <1>1, FS_Subset
    <2>. QED
      BY <1>5, <2>1
  <1>7. F = [past \in SUBSET N |-> [x \in N |-> Followed(r, F, past, x)]]
    <2>1. \A past \in SUBSET N : F[past] = [x \in N |-> Followed(r, F, past, x)]
      BY <1>6
    <2>. QED
      BY <2>1
  <1>. QED
    BY <1>7 DEF N

\* An end of a chain is at hand when the recursion stops: the urns seen led to it, and nothing else
\* is reached from the first.
Settles(r, u, y) ==
  /\ y \in Specs!Reachable(r, u) /\ Specs!EndsOf(r, u) \subseteq {y}
  /\ y \in DOMAIN r.patches => y \notin DOMAIN r.alias

\* The urns seen on the way from u to x: each has an alias, and leads to another of them or to x.
OnTheWay(r, u, past, x) ==
  /\ u \in past \cup {x} /\ x \in Specs!Reachable(r, u)
  /\ \A s \in past : s \in DOMAIN r.alias /\ r.alias[s] \in past \cup {x}

\* A set closed under the aliases that holds u holds everything u leads to.
LEMMA ClosedHoldsAll ==
  ASSUME NEW r, NEW u, NEW S \in SUBSET Specs!Led(r), u \in S, Specs!Closed(r, S)
  PROVE  Specs!Reachable(r, u) \subseteq S
  BY DEF Specs!Reachable

LEMMA ReachableIsClosed ==
  ASSUME NEW r, NEW u, NEW x \in Specs!Reachable(r, u) \cap DOMAIN r.alias
  PROVE  r.alias[x] \in Specs!Reachable(r, u)
  BY DEF Specs!Reachable, Specs!Closed, Specs!Led

\* Where the recursion stops, the chain has been settled.
LEMMA StopsSettled ==
  ASSUME NEW r \in RuleSets, NEW u, NEW past \in SUBSET Specs!Named(r), NEW x \in Specs!Named(r),
         OnTheWay(r, u, past, x), Specs!Stops(r, x, past)
  PROVE  Settles(r, u, x)
  <1>1. DOMAIN r.alias \cap DOMAIN r.patches = {}
    BY SpecConstants DEF SpecConstants
  <1>. DEFINE W == past \cup {x}
  <1>2. W \subseteq Specs!Led(r) /\ u \in W
    BY DEF OnTheWay, Specs!Led
  <1>3. CASE x \notin DOMAIN r.alias
    <2>1. Specs!Closed(r, W)
      BY <1>3 DEF OnTheWay, Specs!Closed
    <2>2. Specs!Reachable(r, u) \subseteq W
      BY <1>2, <2>1, ClosedHoldsAll
    <2>. QED
      BY <1>3, <2>2 DEF Settles, OnTheWay, Specs!EndsOf
  <1>4. CASE x \in DOMAIN r.alias /\ x \in past
    <2>1. Specs!Closed(r, W)
      BY <1>4 DEF OnTheWay, Specs!Closed
    <2>2. Specs!Reachable(r, u) \subseteq W
      BY <1>2, <2>1, ClosedHoldsAll
    <2>. QED
      BY <1>1, <1>4, <2>2 DEF Settles, OnTheWay, Specs!EndsOf
  <1>5. CASE x \in DOMAIN r.alias /\ r.alias[x] \notin DOMAIN r.alias \cup DOMAIN r.patches
    <2>1. Specs!Closed(r, W \cup {r.alias[x]})
      BY <1>5 DEF OnTheWay, Specs!Closed
    <2>2. W \cup {r.alias[x]} \in SUBSET Specs!Led(r)
      BY <1>2, <1>5 DEF Specs!Led
    <2>3. Specs!Reachable(r, u) \subseteq W \cup {r.alias[x]}
      BY <1>2, <2>1, <2>2, ClosedHoldsAll
    <2>. QED
      BY <1>1, <1>5, <2>3 DEF Settles, OnTheWay, Specs!EndsOf
  <1>. QED
    BY <1>3, <1>4, <1>5 DEF Specs!Stops

\* Whatever Follow returns settles the chain of aliases of the urn it started from.
LEMMA FollowSettles ==
  ASSUME NEW r \in RuleSets, NEW u, NEW F,
         F = [past \in SUBSET Specs!Named(r) |-> [x \in Specs!Named(r) |-> Followed(r, F, past, x)]],
         NEW past \in SUBSET Specs!Named(r), NEW x \in Specs!Named(r), OnTheWay(r, u, past, x)
  PROVE  Settles(r, u, F[past][x])
  <1>. DEFINE N == Specs!Named(r)
              Wrong(k) == \E s \in SUBSET N, y \in N :
                            /\ Cardinality(N \ s) = k /\ OnTheWay(r, u, s, y)
                            /\ ~Settles(r, u, F[s][y])
              T == {k \in Nat : Wrong(k)}
  <1>1. IsFiniteSet(N) /\ \A s \in SUBSET N : Cardinality(N \ s) \in Nat
    <2>1. IsFiniteSet(N)
      BY SpecConstants, FS_Union DEF SpecConstants, Specs!Named
    <2>. QED
      BY <2>1, FS_Difference, FS_CardinalityType
  <1>2. \A s \in SUBSET N, y \in N : F[s][y] = Followed(r, F, s, y)
    <2>1. \A s \in SUBSET N : F[s] = [y \in N |-> Followed(r, F, s, y)]
      OBVIOUS
    <2>. QED
      BY <2>1
  <1>3. T = {}
    <2>. SUFFICES ASSUME T # {} PROVE FALSE
      OBVIOUS
    <2>1. PICK k \in T : \A l \in T : k <= l
      BY LeastNumber
    <2>2. PICK s \in SUBSET N, y \in N : /\ Cardinality(N \ s) = k /\ OnTheWay(r, u, s, y)
                                         /\ ~Settles(r, u, F[s][y])
      BY <2>1
    <2>3. CASE Specs!Stops(r, y, s)
      BY <1>2, <2>2, <2>3, StopsSettled DEF Followed
    <2>4. CASE ~Specs!Stops(r, y, s)
      <3>. DEFINE s2 == s \cup {y}
                  y2 == r.alias[y]
      <3>1. y \in DOMAIN r.alias /\ y \in N \ s /\ y2 \in N /\ s2 \in SUBSET N
        BY <2>4 DEF Specs!Stops, Specs!Named
      <3>2. OnTheWay(r, u, s2, y2)
        <4>1. y2 \in Specs!Reachable(r, u)
          BY <2>2, <3>1, ReachableIsClosed DEF OnTheWay
        <4>. QED
          BY <2>2, <3>1, <4>1 DEF OnTheWay
      <3>3. F[s][y] = F[s2][y2]
        BY <1>2, <2>4 DEF Followed
      <3>4. Cardinality(N \ s2) \in Nat /\ Cardinality(N \ s) = Cardinality(N \ s2) + 1
        BY <1>1, <3>1, LessIsLeft
      <3>5. Cardinality(N \ s2) \in T
        BY <2>2, <3>1, <3>2, <3>3, <3>4
      <3>6. k <= Cardinality(N \ s2) /\ Cardinality(N \ s) = k
        BY <2>1, <2>2, <3>5
      <3>. QED
        BY <3>4, <3>6
    <2>. QED
      BY <2>3, <2>4
  <1>. QED
    BY <1>1, <1>3

\* resolveModification returns the end of the chain, or an entry without patches when it has none.
LEMMA ResolveSettles ==
  ASSUME NEW r \in RuleSets, NEW u \in Urns
  PROVE  Settles(r, u, Specs!Resolve(r, u))
  <1>1. PICK F : /\ F = [past \in SUBSET Specs!Named(r) |->
                           [x \in Specs!Named(r) |-> Followed(r, F, past, x)]]
                 /\ Specs!Resolve(r, u) = F[{}][u]
    BY FollowExists DEF Specs!Resolve, Followed
  <1>2. u \in Specs!Named(r) /\ {} \in SUBSET Specs!Named(r) /\ u \in Specs!Reachable(r, u)
    BY DEF Specs!Named, Specs!Led, Specs!Reachable
  <1>3. OnTheWay(r, u, {}, u)
    BY <1>2 DEF OnTheWay
  <1>4. F = [past \in SUBSET Specs!Named(r) |-> [x \in Specs!Named(r) |-> Followed(r, F, past, x)]]
    BY <1>1
  <1>5. Settles(r, u, F[{}][u])
    BY <1>2, <1>3, <1>4, FollowSettles
  <1>. QED
    BY <1>1, <1>5

\* A device is patched by the ends of its chain of aliases, and by nothing else.
LEMMA PatchedByEnds ==
  ASSUME NEW r \in RuleSets, NEW u \in Urns
  PROVE  Specs!Patched(r, u) =
           {e \in UNION {r.patches[x] : x \in Specs!EndsOf(r, u)} : e[2] = "property"}
  <1>. DEFINE y == Specs!Resolve(r, u)
  <1>1. Settles(r, u, y)
    BY ResolveSettles
  <1>2. CASE y \in DOMAIN r.patches
    <2>1. Specs!EndsOf(r, u) = {y}
      BY <1>1, <1>2 DEF Settles, Specs!EndsOf
    <2>. QED
      BY <1>2, <2>1 DEF Specs!Patched
  <1>3. CASE y \notin DOMAIN r.patches
    <2>1. Specs!EndsOf(r, u) = {}
      BY <1>1, <1>3 DEF Settles, Specs!EndsOf
    <2>. QED
      BY <1>3, <2>1 DEF Specs!Patched
  <1>. QED
    BY <1>2, <1>3

LEMMA SpecsStart == Specs!Init => SpecsInv
  <1>. SUFFICES ASSUME Specs!Init PROVE SpecsInv
    OBVIOUS
  <1>1. Specs!AnyUrn \in Urns
    BY SpecConstants DEF SpecConstants, Specs!AnyUrn
  <1>2. ParserTypes
    BY <1>1 DEF Specs!Init, ParserTypes
  <1>3. SpecTypes
    BY SpecConstants DEF SpecConstants, Versions, Specs!Init, SpecTypes, Specs!Missing
  <1>4. MetTyped
    BY DEF Specs!Init, MetTyped
  <1>. QED
    BY <1>2, <1>3, <1>4, SpecConstants
    DEF SpecConstants, Versions, Specs!Init, SpecsInv, ParsingTypes, SpecsAreNormal,
        FetchesAreRecent, KeptUnlessMet,
        RefreshesAreKept, Specs!Missing, Specs!Busy

\* SpecsInv is inductive.
LEMMA SpecsStep == SpecsInv /\ [Specs!Next]_Specs!parsing => SpecsInv'
  BY ParserTypesStep, SpecTypesStep, MetStep, NormalStep, RecentStep, KeptStep
  DEF SpecsInv, ParsingTypes

\* A normal spec is filtered, and in one language.
LEMMA NormalIsFiltered == SpecsInv => Specs!FilteredIsHidden
  <1>. SUFFICES ASSUME SpecsInv, NEW p \in Parsers, parser[p] = "ok",
                       NEW e \in Specs!Elements \ spec[p].rules.added[urn[p]]
                PROVE  LET f == spec[p].rules.hidden[BaseURN[urn[p]]] IN
                       e \in spec[p].elements <=>
                         /\ e \in Instances[spec[p].version] /\ e[1] \notin Information
                         /\ ~(\/ <<0, "service", 0>> \in f \/ <<e[1], "service", 0>> \in f
                              \/ e[2] # "service" /\ (e \in f \/ <<e[1], e[2], 0>> \in f))
    BY DEF Specs!FilteredIsHidden, Specs!Done
  <1>1. PICK r \in RuleSets, v \in Versions, remote \in BOOLEAN :
             spec[p] = Specs!Normalized(r, urn[p], v, remote)
    BY DEF SpecsInv, SpecsAreNormal, Normal
  <1>2. spec[p].rules = r /\ spec[p].version = v /\ spec[p].elements = Specs!Elemental(r, urn[p], v)
    BY <1>1 DEF Specs!Normalized
  <1>3. e \in Specs!Elemental(r, urn[p], v) <=> e \in Specs!Own(r, urn[p], v) /\ e[1] \notin Information
    BY <1>2 DEF Specs!Elemental
  <1>4. e \in Specs!Own(r, urn[p], v) <=>
          LET f == r.hidden[BaseURN[urn[p]]] IN
          /\ e \in Instances[v] /\ ~Specs!ServiceHidden(f, e[1])
          /\ e[2] = "service" \/ ~Specs!ElementHidden(f, e)
    BY DEF Specs!Own
  <1>. QED
    BY <1>2, <1>3, <1>4 DEF Specs!ServiceHidden, Specs!ElementHidden

LEMMA NormalIsInOneLanguage == SpecsInv => Specs!OneLanguage
  <1>. SUFFICES ASSUME SpecsInv, NEW p \in Parsers, parser[p] = "ok",
                       NEW r \in RuleSets, NEW v \in Versions, NEW remote \in BOOLEAN,
                       spec[p] = Specs!Normalized(r, urn[p], v, remote)
                PROVE  LET s == spec[p]  known == Specs!Texts(urn[p], s.remote, Language) IN
                       /\ s.elements \cap known \subseteq s.translated
                       /\ known # {} => s.translated \subseteq known
    BY DEF SpecsInv, SpecsAreNormal, Normal, Specs!OneLanguage, Specs!Done
  <1>1. /\ spec[p].remote = remote
        /\ spec[p].translated =
             spec[p].elements \cap Specs!Texts(urn[p], remote, Specs!TextLanguage(urn[p], remote))
    BY DEF Specs!Normalized
  <1>2. Specs!Texts(urn[p], remote, Language) # {} => Specs!TextLanguage(urn[p], remote) = Language
    BY DEF Specs!TextLanguage
  <1>. QED
    BY <1>1, <1>2

LEMMA NormalIsPatched == SpecsInv => Specs!PatchesAreItsOwn
  <1>. SUFFICES ASSUME SpecsInv, NEW p \in Parsers, parser[p] = "ok"
                PROVE  LET r == spec[p].rules IN
                       spec[p].patched = {e \in spec[p].elements :
                         e[2] = "property" /\ \E x \in Specs!EndsOf(r, urn[p]) : e \in r.patches[x]}
    BY DEF Specs!PatchesAreItsOwn, Specs!Done
  <1>1. PICK r \in RuleSets, v \in Versions, remote \in BOOLEAN :
             spec[p] = Specs!Normalized(r, urn[p], v, remote)
    BY DEF SpecsInv, SpecsAreNormal, Normal
  <1>2. spec[p].rules = r /\ spec[p].patched = spec[p].elements \cap Specs!Patched(r, urn[p])
    BY <1>1 DEF Specs!Normalized
  <1>3. urn[p] \in Urns
    BY DEF SpecsInv, ParsingTypes, ParserTypes
  <1>4. Specs!Patched(r, urn[p]) =
          {e \in UNION {r.patches[x] : x \in Specs!EndsOf(r, urn[p])} : e[2] = "property"}
    BY <1>3, PatchedByEnds
  <1>. QED
    BY <1>2, <1>4

-----------------------------------------------------------------------------
(* Documents *)

Items == UNION {Store!Entries(d) : d \in Patches}
Docs == {d \in Seq(Items) : Store!Distinct(d)}

StoreTypes ==
  /\ document \in [state : {"none", "torn", "whole"}, doc : Docs]
  /\ opened \subseteq Users /\ caller \in [Users -> {"idle", "read", "open", "write"}]
  /\ plan \in [Users -> Docs] /\ want \in [Users -> [patch : Docs, all : BOOLEAN]]
  /\ saves \in 0..MaxSaves /\ restarts \in 0..MaxCrashes /\ {raced} \subseteq BOOLEAN
  /\ written \subseteq Docs /\ << >> \in written

\* What the file holds is a document that was written whole, or nothing.
LoadsAreSaved == document.doc \in written /\ DOMAIN answer = Users /\ Store!LoadedWasSaved

\* The document the calls ask for so far is stored.
Settled == document.state # "torn" /\ Store!Entries(document.doc) = expected

\* The entries that the call of a user is to leave behind.
Asked(u) ==
  Store!Entries(want[u].patch) \cup
    (IF want[u].all THEN {} ELSE {e \in expected : e[1] \notin Store!KeysOf(want[u].patch)})

\* A call that is alone finds what was asked for so far, and writes what it is to leave behind.
WritesAlone ==
  /\ \A u, v \in Users : u # v => caller[u] = "idle" \/ caller[v] = "idle"
  /\ (\A u \in Users : caller[u] = "idle") => Settled
  /\ \A u \in Users :
       /\ caller[u] = "read" => Settled /\ plan[u] = want[u].patch /\ ~want[u].all
       /\ caller[u] \in {"open", "write"} => Store!Entries(plan[u]) = Asked(u)
       /\ caller[u] = "write" => u \notin opened

AloneUnlessRaced == ~raced => WritesAlone

StoreInv == StoreTypes /\ LoadsAreSaved /\ AloneUnlessRaced

-----------------------------------------------------------------------------
(* The entries of a document *)

LEMMA EntriesAre ==
  ASSUME NEW d \in Docs
  PROVE  /\ Len(d) \in Nat /\ DOMAIN d = 1..Len(d) /\ d \in [1..Len(d) -> Items]
         /\ Store!Entries(d) = {d[i] : i \in 1..Len(d)}
         /\ Store!KeysOf(d) = {d[i][1] : i \in 1..Len(d)}
         /\ \A i, j \in 1..Len(d) : d[i][1] = d[j][1] => i = j
  <1>1. Len(d) \in Nat /\ DOMAIN d = 1..Len(d) /\ d \in [1..Len(d) -> Items]
    BY DEF Docs
  <1>2. Store!Entries(d) = {d[i] : i \in 1..Len(d)}
    BY <1>1 DEF Store!Entries, Store!ToSet
  <1>3. Store!KeysOf(d) = {d[i][1] : i \in 1..Len(d)}
    BY <1>2 DEF Store!KeysOf
  <1>4. Store!Distinct(d)
    BY DEF Docs
  <1>. QED
    BY <1>1, <1>2, <1>3, <1>4 DEF Store!Distinct

LEMMA PatchesAreDocs == Patches \subseteq Docs /\ << >> \in Docs
  <1>1. << >> \in Seq(Items) /\ DOMAIN << >> = {}
    BY EmptySequence
  <1>2. Store!Distinct(<< >>)
    BY <1>1, Zenon DEF Store!Distinct
  <1>. QED
    BY <1>1, <1>2, StoreConstants DEF StoreConstants, Docs, Items

\* A document with distinct keys is what its places say.
LEMMA IsDocument ==
  ASSUME NEW n \in Nat, NEW d \in [1..n -> Items], \A i, j \in 1..n : d[i][1] = d[j][1] => i = j
  PROVE  d \in Docs /\ Len(d) = n
  <1>1. d \in Seq(Items)
    BY SeqDef
  <1>2. Len(d) = n
    BY <1>1
  <1>3. DOMAIN d = 1..n
    OBVIOUS
  <1>. QED
    BY <1>1, <1>2, <1>3 DEF Docs, Store!Distinct

\* An entry that is put replaces the one of its key, if there is one.
LEMMA PutReplaces ==
  ASSUME NEW d \in Docs, NEW e \in Items
  PROVE  /\ Store!Put(d, e) \in Docs
         /\ Store!Entries(Store!Put(d, e)) = {e} \cup {x \in Store!Entries(d) : x[1] # e[1]}
  <1>1. CASE e[1] \in Store!KeysOf(d)
    <2>. DEFINE r == [i \in 1..Len(d) |-> IF d[i][1] = e[1] THEN e ELSE d[i]]
    <2>1. Store!Put(d, e) = r
      BY <1>1, EntriesAre DEF Store!Put
    <2>2. r \in [1..Len(d) -> Items] /\ \A i \in 1..Len(d) : r[i] = IF d[i][1] = e[1] THEN e ELSE d[i]
      BY EntriesAre
    <2>3. \E k \in 1..Len(d) : d[k][1] = e[1]
      BY <1>1, EntriesAre
    <2>. HIDE DEF r
    <2>4. \A i, j \in 1..Len(d) : r[i][1] = r[j][1] => i = j
      BY <2>2, EntriesAre
    <2>5. r \in Docs /\ Len(r) = Len(d)
      BY <2>2, <2>4, EntriesAre, IsDocument
    <2>6. Store!Entries(r) = {r[i] : i \in 1..Len(d)}
      BY <2>5, EntriesAre
    <2>7. Store!Entries(d) = {d[i] : i \in 1..Len(d)}
      BY EntriesAre
    <2>8. Store!Entries(r) = {e} \cup {x \in Store!Entries(d) : x[1] # e[1]}
      BY <2>2, <2>3, <2>6, <2>7
    <2>. QED
      BY <2>1, <2>5, <2>8
  <1>2. CASE e[1] \notin Store!KeysOf(d)
    <2>. DEFINE r == Append(d, e)
    <2>1. Store!Put(d, e) = r
      BY <1>2 DEF Store!Put
    <2>2. PICK n \in Nat : n = Len(d)
      BY EntriesAre
    <2>3. /\ r \in [1..(n + 1) -> Items] /\ r[n + 1] = e /\ \A i \in 1..n : r[i] = d[i]
      <3>1. d \in Seq(Items)
        BY DEF Docs
      <3>2. r \in Seq(Items) /\ Len(r) = n + 1
        BY <2>2, <3>1
      <3>3. r[n + 1] = e /\ \A i \in 1..n : r[i] = d[i]
        BY <2>2, <3>1
      <3>. HIDE DEF r
      <3>4. r \in [1..(n + 1) -> Items]
        BY <3>2
      <3>. QED
        BY <3>3, <3>4
    <2>. HIDE DEF r
    <2>4. \A i \in 1..n : d[i][1] # e[1]
      BY <1>2, <2>2, EntriesAre
    <2>5. \A i \in 1..(n + 1) : i \in 1..n \/ i = n + 1
      OBVIOUS
    <2>6. \A i, j \in 1..n : d[i][1] = d[j][1] => i = j
      BY <2>2, EntriesAre
    <2>7. \A i, j \in 1..(n + 1) : r[i][1] = r[j][1] => i = j
      BY <2>3, <2>4, <2>5, <2>6
    <2>8. r \in Docs /\ Len(r) = n + 1
      BY <2>3, <2>7, IsDocument
    <2>9. Store!Entries(r) = {r[i] : i \in 1..(n + 1)}
      BY <2>8, EntriesAre
    <2>10. Store!Entries(d) = {d[i] : i \in 1..n}
      BY <2>2, EntriesAre
    <2>11. Store!Entries(r) = {e} \cup {x \in Store!Entries(d) : x[1] # e[1]}
      BY <2>3, <2>4, <2>5, <2>9, <2>10
    <2>. QED
      BY <2>1, <2>8, <2>11
  <1>. QED
    BY <1>1, <1>2

Loop(c, p, m) == CHOOSE F : F = [i \in 0..m |-> IF i = 0 THEN c ELSE Store!Put(F[i - 1], p[i])]

\* The loop over a patch is a function.
LEMMA LoopIs ==
  ASSUME NEW c, NEW p, NEW m \in Nat
  PROVE  Loop(c, p, m) =
           [i \in 0..m |-> IF i = 0 THEN c ELSE Store!Put(Loop(c, p, m)[i - 1], p[i])]
  <1>. DEFINE G(n, F) == F = [i \in 0..n |-> IF i = 0 THEN c ELSE Store!Put(F[i - 1], p[i])]
              T == {n \in Nat : \E F : G(n, F)}
  <1>1. 0 \in T
    <2>. DEFINE F == [i \in 0..0 |-> c]
    <2>1. F = [i \in 0..0 |-> IF i = 0 THEN c ELSE Store!Put(F[i - 1], p[i])]
      OBVIOUS
    <2>. QED
      BY <2>1
  <1>2. ASSUME NEW n \in Nat, n \in T PROVE n + 1 \in T
    <2>1. PICK F : F = [i \in 0..n |-> IF i = 0 THEN c ELSE Store!Put(F[i - 1], p[i])]
      BY <1>2
    <2>. DEFINE H == [i \in 0..(n + 1) |-> IF i <= n THEN F[i] ELSE Store!Put(F[n], p[n + 1])]
    <2>2. \A i \in 0..n : H[i] = F[i] /\ F[i] = IF i = 0 THEN c ELSE Store!Put(F[i - 1], p[i])
      BY <2>1
    <2>3. H[n + 1] = Store!Put(F[n], p[n + 1])
      OBVIOUS
    <2>4. DOMAIN H = 0..(n + 1) /\ H = [i \in 0..(n + 1) |-> H[i]]
      OBVIOUS
    <2>. HIDE DEF H
    <2>5. ASSUME NEW i \in 0..(n + 1)
          PROVE  H[i] = IF i = 0 THEN c ELSE Store!Put(H[i - 1], p[i])
      <3>1. CASE i = n + 1
        <4>1. i - 1 = n /\ i # 0 /\ H[n] = F[n]
          BY <2>2, <3>1
        <4>. QED
          BY <2>3, <3>1, <4>1
      <3>2. CASE i \in 0..n /\ i # 0
        <4>1. i - 1 \in 0..n
          BY <3>2
        <4>2. H[i - 1] = F[i - 1] /\ H[i] = F[i] /\ F[i] = Store!Put(F[i - 1], p[i])
          BY <2>2, <3>2, <4>1
        <4>. QED
          BY <3>2, <4>2
      <3>3. CASE i = 0
        BY <2>2, <3>3
      <3>. QED
        BY <3>1, <3>2, <3>3
    <2>6. H = [i \in 0..(n + 1) |-> IF i = 0 THEN c ELSE Store!Put(H[i - 1], p[i])]
      BY <2>4, <2>5, Zenon
    <2>. QED
      BY <2>6
  <1>. HIDE DEF G
  <1>3. Nat \subseteq T
    <2>. HIDE DEF T
    <2>. QED
      BY <1>1, <1>2, Induction
  <1>4. \E F : F = [i \in 0..m |-> IF i = 0 THEN c ELSE Store!Put(F[i - 1], p[i])]
    BY <1>3 DEF G
  <1>. QED
    BY <1>4, Zenon DEF Loop

\* A merge takes the entries of the patch, and of the document those of other keys.
LEMMA MergeReplaces ==
  ASSUME NEW c \in Docs, NEW p \in Docs
  PROVE  /\ Store!MergeDocuments(c, p) \in Docs
         /\ Store!Entries(Store!MergeDocuments(c, p)) =
              Store!Entries(p) \cup {e \in Store!Entries(c) : e[1] \notin Store!KeysOf(p)}
  <1>1. PICK m \in Nat : m = Len(p)
    BY EntriesAre
  <1>. DEFINE F == Loop(c, p, m)
  <1>2. Store!MergeDocuments(c, p) = F[m]
    BY <1>1 DEF Store!MergeDocuments, Loop
  <1>3. F = [i \in 0..m |-> IF i = 0 THEN c ELSE Store!Put(F[i - 1], p[i])]
    BY <1>1, LoopIs
  <1>. HIDE DEF F
  <1>4. F[0] = c /\ \A n \in 0..m : n + 1 <= m => F[n + 1] = Store!Put(F[n], p[n + 1])
    BY <1>3
  <1>5. \A i \in 1..m : p[i] \in Items
    BY <1>1, EntriesAre
  <1>. DEFINE Done(n) == {p[j] : j \in 1..n} \cup {x \in Store!Entries(c) : \A j \in 1..n : x[1] # p[j][1]}
              T == {n \in Nat : n <= m => F[n] \in Docs /\ Store!Entries(F[n]) = Done(n)}
  <1>6. 0 \in T
    <2>1. 1..0 = {}
      OBVIOUS
    <2>2. Done(0) = Store!Entries(c)
      BY <2>1
    <2>. QED
      BY <1>4, <2>2
  <1>7. ASSUME NEW n \in Nat, n \in T PROVE n + 1 \in T
    <2>. SUFFICES ASSUME n + 1 <= m
                  PROVE  F[n + 1] \in Docs /\ Store!Entries(F[n + 1]) = Done(n + 1)
      OBVIOUS
    <2>1. F[n] \in Docs /\ Store!Entries(F[n]) = Done(n)
      BY <1>7
    <2>2. p[n + 1] \in Items /\ F[n + 1] = Store!Put(F[n], p[n + 1])
      BY <1>4, <1>5
    <2>3. /\ F[n + 1] \in Docs
          /\ Store!Entries(F[n + 1]) = {p[n + 1]} \cup {x \in Done(n) : x[1] # p[n + 1][1]}
      BY <2>1, <2>2, PutReplaces
    <2>4. 1..(n + 1) = (1..n) \cup {n + 1} /\ n + 1 \notin 1..n
      OBVIOUS
    <2>5. \A j \in 1..n : p[j][1] # p[n + 1][1]
      <3>1. \A i, j \in 1..m : p[i][1] = p[j][1] => i = j
        BY <1>1, EntriesAre
      <3>. QED
        BY <3>1
    <2>6. Done(n + 1) = {p[n + 1]} \cup {x \in Done(n) : x[1] # p[n + 1][1]}
      BY <2>4, <2>5
    <2>. QED
      BY <2>3, <2>6
  <1>8. F[m] \in Docs /\ Store!Entries(F[m]) = Done(m)
    <2>1. Nat \subseteq T
      <3>. HIDE DEF T
      <3>. QED
        BY <1>6, <1>7, Induction
    <2>. QED
      BY <2>1
  <1>9. Done(m) = Store!Entries(p) \cup {e \in Store!Entries(c) : e[1] \notin Store!KeysOf(p)}
    BY <1>1, EntriesAre
  <1>. QED
    BY <1>2, <1>8, <1>9

-----------------------------------------------------------------------------
(* Steps of the documents *)

LEMMA StoreStarts == Store!Init => StoreInv
  <1>. SUFFICES ASSUME Store!Init PROVE StoreInv
    OBVIOUS
  <1>1. << >> \in Docs /\ \E q \in Queries : TRUE
    BY PatchesAreDocs, StoreConstants DEF StoreConstants
  <1>2. document = [state |-> "none", doc |-> << >>] /\ written = {<< >>} /\ answer = [u \in Users |-> << >>]
    BY DEF Store!Init, Store!None
  <1>3. StoreTypes
    <2>1. {raced} \subseteq BOOLEAN
      BY Zenon DEF Store!Init
    <2>. QED
      BY <1>1, <1>2, <2>1, UpkeepConstants, StoreConstants
      DEF StoreTypes, Store!Init, UpkeepConstants, StoreConstants
  <1>4. LoadsAreSaved
    BY <1>1, <1>2 DEF LoadsAreSaved, Store!LoadedWasSaved
  <1>5. Settled
    <2>1. Store!Entries(<< >>) = {}
      BY <1>1, EntriesAre
    <2>. QED
      BY <1>2, <2>1 DEF Settled, Store!Init
  <1>6. WritesAlone
    BY <1>5 DEF WritesAlone, Store!Init
  <1>. QED
    BY <1>3, <1>4, <1>6 DEF StoreInv, AloneUnlessRaced

\* The parts of the types, for the steps that change a few of them.
CallTyped ==
  /\ caller \in [Users -> {"idle", "read", "open", "write"}] /\ plan \in [Users -> Docs]
  /\ want \in [Users -> [patch : Docs, all : BOOLEAN]]

FileTyped ==
  /\ document \in [state : {"none", "torn", "whole"}, doc : Docs] /\ opened \subseteq Users
  /\ written \subseteq Docs /\ << >> \in written

CountsTyped == saves \in 0..MaxSaves /\ restarts \in 0..MaxCrashes /\ {raced} \subseteq BOOLEAN

LEMMA CallTypedStep == StoreTypes /\ Store!Next => CallTyped'
  <1>. SUFFICES ASSUME StoreTypes, Store!Next PROVE CallTyped'
    OBVIOUS
  <1>. USE DEF StoreTypes, CallTyped
  <1>1. << >> \in Docs /\ Patches \subseteq Docs
    BY PatchesAreDocs
  <1>2. ASSUME NEW u \in Users, NEW d \in Docs, NEW s \in {"read", "open"}, Store!Begin(u, s, d)
        PROVE  CallTyped'
    <2>1. [patch |-> d, all |-> s = "open"] \in [patch : Docs, all : BOOLEAN]
      BY Zenon
    <2>. DEFINE w == [patch |-> d, all |-> s = "open"]
    <2>2. want' = [want EXCEPT ![u] = w] /\ w \in [patch : Docs, all : BOOLEAN]
      BY <1>2, <2>1, Zenon DEF Store!Begin
    <2>. HIDE DEF w
    <2>3. want' \in [Users -> [patch : Docs, all : BOOLEAN]]
      BY <2>2
    <2>. QED
      BY <1>2, <2>3 DEF Store!Begin
  <1>3. ASSUME NEW u \in Users, Store!Idle(u), want' = want PROVE CallTyped'
    BY <1>1, <1>3 DEF Store!Idle
  <1>4. CASE Store!Crash
    BY <1>1, <1>4 DEF Store!Crash
  <1>5. ASSUME NEW u \in Users, Store!ReadForUpdate(u) PROVE CallTyped'
    <2>1. want' = want
      BY <1>5 DEF Store!ReadForUpdate
    <2>2. CASE Store!Idle(u)
      BY <1>3, <2>1, <2>2
    <2>3. CASE ~Store!Idle(u)
      <3>1. Store!MergeDocuments(document.doc, plan[u]) \in Docs
        BY MergeReplaces
      <3>2. /\ caller' = [caller EXCEPT ![u] = "open"]
            /\ plan' = [plan EXCEPT ![u] = Store!MergeDocuments(document.doc, plan[u])]
        BY <1>5, <2>3 DEF Store!ReadForUpdate
      <3>. QED
        BY <2>1, <3>1, <3>2
    <2>. QED
      BY <2>2, <2>3
  <1>6. ASSUME NEW u \in Users, Store!Open(u) PROVE CallTyped'
    <2>1. want' = want
      BY <1>6 DEF Store!Open
    <2>2. CASE Store!Idle(u)
      BY <1>3, <2>1, <2>2
    <2>3. CASE ~Store!Idle(u)
      BY <1>6, <2>3 DEF Store!Open
    <2>. QED
      BY <2>2, <2>3
  <1>7. ASSUME NEW u \in Users, Store!Write(u) PROVE CallTyped'
    BY <1>3, <1>7 DEF Store!Write
  <1>8. ASSUME NEW u \in Users, Store!Delete(u) PROVE CallTyped'
    BY <1>8 DEF Store!Delete, Store!call
  <1>9. ASSUME NEW u \in Users, NEW d \in Patches, Store!Replace(u, d) \/ Store!Update(u, d) PROVE CallTyped'
    BY <1>1, <1>2, <1>9 DEF Store!Replace, Store!Update
  <1>10. ASSUME NEW u \in Users, NEW q \in Queries, Store!Load(u, q) PROVE CallTyped'
    BY <1>10 DEF Store!Load
  <1>. QED
    BY <1>4, <1>5, <1>6, <1>7, <1>8, <1>9, <1>10 DEF Store!Next

LEMMA FileTypedStep == StoreTypes /\ Store!Next => FileTyped'
  <1>. SUFFICES ASSUME StoreTypes, Store!Next PROVE FileTyped'
    OBVIOUS
  <1>. USE DEF StoreTypes, FileTyped
  <1>1. << >> \in Docs
    BY PatchesAreDocs
  <1>2. /\ Store!Torn \in [state : {"none", "torn", "whole"}, doc : Docs]
        /\ Store!None \in [state : {"none", "torn", "whole"}, doc : Docs]
        /\ \A d \in Docs : Store!Whole(d) \in [state : {"none", "torn", "whole"}, doc : Docs]
    BY <1>1 DEF Store!Torn, Store!None, Store!Whole
  <1>3. CASE document' = document /\ opened' \subseteq opened /\ written' = written
    BY <1>3
  <1>4. ASSUME NEW u \in Users, Store!Open(u) PROVE FileTyped'
    <2>1. CASE document' = Store!Torn /\ opened' = {}
      BY <1>2, <1>4, <2>1 DEF Store!Open
    <2>2. CASE UNCHANGED Store!disk
      BY <1>3, <1>4, <2>2 DEF Store!Open, Store!disk
    <2>. QED
      BY <1>4, <2>1, <2>2 DEF Store!Open
  <1>5. ASSUME NEW u \in Users, Store!Write(u) PROVE FileTyped'
    <2>1. document' = Store!Torn \/ document' = Store!Whole(plan[u])
      BY <1>5 DEF Store!Write
    <2>. QED
      BY <1>2, <1>5, <2>1 DEF Store!Write
  <1>6. ASSUME NEW u \in Users, Store!Delete(u) PROVE FileTyped'
    BY <1>2, <1>6 DEF Store!Delete
  <1>7. CASE Store!Crash
    BY <1>3, <1>7 DEF Store!Crash
  <1>8. ASSUME NEW u \in Users, Store!ReadForUpdate(u) PROVE FileTyped'
    BY <1>3, <1>8 DEF Store!ReadForUpdate, Store!disk, Store!history
  <1>9. ASSUME NEW u \in Users, NEW d \in Patches, Store!Replace(u, d) \/ Store!Update(u, d) PROVE FileTyped'
    BY <1>3, <1>9 DEF Store!Replace, Store!Update, Store!disk
  <1>10. ASSUME NEW u \in Users, NEW q \in Queries, Store!Load(u, q) PROVE FileTyped'
    BY <1>3, <1>10 DEF Store!Load, Store!disk, Store!history
  <1>. QED
    BY <1>4, <1>5, <1>6, <1>7, <1>8, <1>9, <1>10 DEF Store!Next

LEMMA CountsTypedStep == StoreTypes /\ Store!Next => CountsTyped'
  <1>. SUFFICES ASSUME StoreTypes, Store!Next PROVE CountsTyped'
    OBVIOUS
  <1>1. MaxSaves \in Nat /\ MaxCrashes \in Nat
    BY StoreConstants, UpkeepConstants DEF StoreConstants, UpkeepConstants
  <1>2. saves' = saves \/ (saves < MaxSaves /\ saves' = saves + 1)
    BY DEF Store!Next, Store!Crash, Store!ReadForUpdate, Store!Open, Store!Write, Store!Delete,
           Store!Replace, Store!Update, Store!Begin, Store!Load
  <1>3. restarts' = restarts \/ (restarts < MaxCrashes /\ restarts' = restarts + 1)
    BY DEF Store!Next, Store!Crash, Store!ReadForUpdate, Store!Open, Store!Write, Store!Delete,
           Store!Replace, Store!Update, Store!Begin, Store!Load
  <1>4. {raced} \subseteq BOOLEAN
    BY DEF StoreTypes
  <1>5. {raced'} \subseteq BOOLEAN
    <2>1. CASE raced' = raced
      BY <1>4, <2>1
    <2>2. CASE raced' = TRUE
      BY <2>2, Zenon
    <2>3. CASE raced' = (raced \/ Store!Busy)
      BY <2>3, Zenon
    <2>. QED
      BY <2>1, <2>2, <2>3
      DEF Store!Next, Store!Crash, Store!ReadForUpdate, Store!Open, Store!Write, Store!Delete,
          Store!Replace, Store!Update, Store!Begin, Store!Load, Store!history
  <1>. QED
    BY <1>1, <1>2, <1>3, <1>5 DEF StoreTypes, CountsTyped

LEMMA LoadsStep == StoreTypes /\ LoadsAreSaved /\ Store!Next => LoadsAreSaved'
  <1>. SUFFICES ASSUME StoreTypes, LoadsAreSaved, Store!Next PROVE LoadsAreSaved'
    OBVIOUS
  <1>. USE DEF LoadsAreSaved, Store!LoadedWasSaved
  <1>1. << >> \in written /\ \E q \in Queries : TRUE
    BY StoreConstants DEF StoreTypes, StoreConstants
  <1>2. CASE answer' = answer /\ document'.doc \in written' /\ written \subseteq written'
    BY <1>2
  <1>3. Store!None.doc = << >> /\ Store!Torn.doc = << >> /\ \A d : Store!Whole(d).doc = d
    BY DEF Store!None, Store!Torn, Store!Whole
  <1>4. CASE Store!Crash
    BY <1>2, <1>4 DEF Store!Crash
  <1>5. ASSUME NEW u \in Users, Store!ReadForUpdate(u) PROVE LoadsAreSaved'
    BY <1>2, <1>5 DEF Store!ReadForUpdate, Store!disk, Store!history
  <1>6. ASSUME NEW u \in Users, Store!Open(u) PROVE LoadsAreSaved'
    <2>1. document' = document \/ document' = Store!Torn
      BY <1>6 DEF Store!Open, Store!disk
    <2>. QED
      BY <1>1, <1>2, <1>3, <1>6, <2>1 DEF Store!Open
  <1>7. ASSUME NEW u \in Users, Store!Write(u) PROVE LoadsAreSaved'
    <2>1. document' = Store!Torn \/ document' = Store!Whole(plan[u])
      BY <1>7 DEF Store!Write
    <2>2. written' = written \cup {plan[u]} /\ answer' = answer
      BY <1>7 DEF Store!Write
    <2>. QED
      BY <1>1, <1>2, <1>3, <2>1, <2>2
  <1>8. ASSUME NEW u \in Users, Store!Delete(u) PROVE LoadsAreSaved'
    BY <1>1, <1>2, <1>3, <1>8 DEF Store!Delete, Store!call
  <1>9. ASSUME NEW u \in Users, NEW d \in Patches, Store!Replace(u, d) \/ Store!Update(u, d)
        PROVE  LoadsAreSaved'
    BY <1>2, <1>9 DEF Store!Replace, Store!Update, Store!disk
  <1>10. ASSUME NEW u \in Users, NEW q \in Queries, Store!Load(u, q) PROVE LoadsAreSaved'
    <2>1. document' = document /\ written' = written
      BY <1>10 DEF Store!Load, Store!disk, Store!history
    <2>2. answer' = [answer EXCEPT ![u] = Store!Filter(document.doc, q)]
      BY <1>10 DEF Store!Load
    <2>3. ASSUME NEW v \in Users
          PROVE  \E d \in written, r \in Queries : answer'[v] = << >> \/ answer'[v] = Store!Filter(d, r)
      <3>1. CASE v = u
        BY <2>2, <3>1
      <3>2. CASE v # u
        BY <2>2, <3>2
      <3>. QED
        BY <3>1, <3>2
    <2>. QED
      BY <2>1, <2>2, <2>3
  <1>. QED
    BY <1>4, <1>5, <1>6, <1>7, <1>8, <1>9, <1>10 DEF Store!Next

LEMMA WritesStep == StoreTypes /\ AloneUnlessRaced /\ Store!Next => AloneUnlessRaced'
  <1>. SUFFICES ASSUME StoreTypes, AloneUnlessRaced, Store!Next, ~raced' PROVE WritesAlone'
    BY DEF AloneUnlessRaced
  <1>. USE DEF WritesAlone
  <1>1. WritesAlone
    BY DEF AloneUnlessRaced, Store!Next, Store!Crash, Store!ReadForUpdate, Store!Open, Store!Write,
           Store!Delete, Store!Replace, Store!Update, Store!Begin, Store!Load, Store!history
  <1>2. Patches \subseteq Docs /\ << >> \in Docs /\ Store!Entries(<< >>) = {}
    BY PatchesAreDocs, EntriesAre
  <1>3. /\ Store!None = [state |-> "none", doc |-> << >>]
        /\ \A d : Store!Whole(d).state = "whole" /\ Store!Whole(d).doc = d
    BY DEF Store!None, Store!Whole
  <1>4. ASSUME NEW u \in Users, NEW d \in Docs, NEW s \in {"read", "open"}, Store!Begin(u, s, d),
               document' = document, opened' = opened, expected' = expected
        PROVE  WritesAlone'
    <2>1. \A v \in Users : caller[v] = "idle"
      BY <1>4 DEF Store!Begin, Store!Busy
    <2>2. Settled /\ Settled'
      BY <1>1, <1>4, <2>1 DEF Settled
    <2>3. /\ caller' = [caller EXCEPT ![u] = s] /\ plan' = [plan EXCEPT ![u] = d]
          /\ want' = [want EXCEPT ![u] = [patch |-> d, all |-> s = "open"]]
      BY <1>4 DEF Store!Begin
    <2>4. /\ caller'[u] = s /\ \A v \in Users : v # u => caller'[v] = "idle"
          /\ plan'[u] = d /\ want'[u].patch = d /\ want'[u].all = (s = "open")
      BY <2>1, <2>3 DEF StoreTypes
    <2>5. s = "open" => Store!Entries(plan'[u]) = Asked(u)'
      BY <2>4 DEF Asked
    <2>. QED
      BY <2>2, <2>4, <2>5
  <1>5. CASE Store!Crash
    <2>1. \A v \in Users : caller[v] = "idle"
      BY <1>5 DEF Store!Crash, Store!Busy
    <2>2. Settled'
      BY <1>1, <1>5, <2>1 DEF Store!Crash, Settled
    <2>. QED
      BY <1>5, <2>2 DEF Store!Crash
  <1>6. ASSUME NEW u \in Users, Store!ReadForUpdate(u) PROVE WritesAlone'
    <2>1. caller[u] = "read" /\ Settled /\ plan[u] = want[u].patch /\ ~want[u].all
      BY <1>1, <1>6 DEF Store!ReadForUpdate
    <2>2. /\ caller' = [caller EXCEPT ![u] = "open"]
          /\ plan' = [plan EXCEPT ![u] = Store!MergeDocuments(document.doc, plan[u])]
          /\ want' = want /\ document' = document /\ opened' = opened /\ expected' = expected
      BY <1>6, <2>1 DEF Store!ReadForUpdate, Settled, Store!disk, Store!history
    <2>3. Store!Entries(Store!MergeDocuments(document.doc, plan[u])) =
            Store!Entries(plan[u]) \cup {e \in Store!Entries(document.doc) : e[1] \notin Store!KeysOf(plan[u])}
      BY MergeReplaces DEF StoreTypes
    <2>4. Store!Entries(plan'[u]) = Asked(u)'
      BY <2>1, <2>2, <2>3 DEF Settled, Asked, StoreTypes
    <2>5. caller'[u] = "open" /\ \A v \in Users : v # u => caller'[v] = "idle"
      BY <1>1, <2>1, <2>2 DEF StoreTypes
    <2>. QED
      BY <2>4, <2>5
  <1>7. ASSUME NEW u \in Users, Store!Open(u) PROVE WritesAlone'
    <2>1. caller[u] = "open" /\ Store!Entries(plan[u]) = Asked(u)
      BY <1>1, <1>7 DEF Store!Open
    <2>2. /\ caller' = [caller EXCEPT ![u] = "write"] /\ opened' = {} /\ plan' = plan
          /\ want' = want /\ expected' = expected
      BY <1>7 DEF Store!Open
    <2>3. Asked(u)' = Asked(u) /\ plan'[u] = plan[u]
      BY <2>2 DEF Asked
    <2>4. caller'[u] = "write" /\ \A v \in Users : v # u => caller'[v] = "idle"
      BY <1>1, <2>1, <2>2 DEF StoreTypes
    <2>. QED
      BY <2>1, <2>2, <2>3, <2>4
  <1>8. ASSUME NEW u \in Users, Store!Write(u) PROVE WritesAlone'
    <2>1. caller[u] = "write" /\ Store!Entries(plan[u]) = Asked(u) /\ u \notin opened
      BY <1>1, <1>8 DEF Store!Write
    <2>2. document' = Store!Whole(plan[u]) /\ expected' = Asked(u)
      BY <1>8, <2>1 DEF Store!Write, Asked
    <2>3. Settled'
      BY <1>3, <2>1, <2>2 DEF Settled
    <2>4. \A v \in Users : caller'[v] = "idle"
      BY <1>1, <1>8, <2>1 DEF Store!Write, Store!Idle, StoreTypes
    <2>. QED
      BY <2>3, <2>4
  <1>9. ASSUME NEW u \in Users, Store!Delete(u) PROVE WritesAlone'
    <2>1. \A v \in Users : caller[v] = "idle"
      BY <1>9 DEF Store!Delete, Store!Busy
    <2>2. Settled'
      BY <1>2, <1>3, <1>9 DEF Store!Delete, Settled
    <2>. QED
      BY <1>9, <2>1, <2>2 DEF Store!Delete, Store!call
  <1>10. ASSUME NEW u \in Users, NEW d \in Patches, Store!Replace(u, d) \/ Store!Update(u, d)
         PROVE  WritesAlone'
    BY <1>2, <1>4, <1>10 DEF Store!Replace, Store!Update, Store!disk
  <1>11. ASSUME NEW u \in Users, NEW q \in Queries, Store!Load(u, q) PROVE WritesAlone'
    <2>1. /\ caller' = caller /\ plan' = plan /\ want' = want /\ document' = document
          /\ opened' = opened /\ expected' = expected
      BY <1>11 DEF Store!Load, Store!disk, Store!history
    <2>. QED
      BY <1>1, <2>1 DEF Settled, Asked
  <1>. QED
    BY <1>5, <1>6, <1>7, <1>8, <1>9, <1>10, <1>11 DEF Store!Next

LEMMA StoreStep == StoreInv /\ [Store!Next]_Store!store => StoreInv'
  <1>1. CASE Store!Next
    BY <1>1, CallTypedStep, FileTypedStep, CountsTypedStep, LoadsStep, WritesStep
    DEF StoreInv, StoreTypes, CallTyped, FileTyped, CountsTyped
  <1>2. CASE UNCHANGED Store!store
    BY <1>2
    DEF StoreInv, StoreTypes, LoadsAreSaved, AloneUnlessRaced, WritesAlone, Settled, Asked,
        Store!LoadedWasSaved, Store!store, Store!disk, Store!call, Store!history
  <1>. QED
    BY <1>1, <1>2

-----------------------------------------------------------------------------
(* The devices of the account *)

\* The places at which the listing has shown a device.
Shown(d) == {x \in listed : x[3] = d}

\* The place of a device, as the listing shows it.
Shows(d) == IF place[d] = NoPlace THEN {} ELSE {<<place[d][1], place[d][2], d>>}

\* The devices that nobody has touched.
Same == Catalog!Dids \ touched

\* A fetch begins with nothing, and is for devices or for scenes.
FetchOrder ==
  /\ page # 0 /\ (phase = "home" => page = 1)
  /\ phase \in {"home", "rooms"} => details = {} /\ strangers = {} /\ paged = {} /\ scenes = {}
  /\ phase = "home" => listed = {}
  /\ phase \in {"detail", "shared"} => job = "devices"
  /\ phase = "scenes" => job = "scenes"

\* The pages read so far show each device that nobody touched at its place, and nowhere else.
ListingIsTrue ==
  \A d \in Same :
    /\ phase \in {"home", "rooms"} => Shown(d) = IF PageOf[d] < page THEN Shows(d) ELSE {}
    /\ phase \in {"detail", "shared"} => Shown(d) = Shows(d)

\* The details are those of the usable devices asked for so far.
DetailsAreTrue ==
  /\ phase = "detail" => /\ paged \subseteq Catalog!Chunk(todo) /\ todo \subseteq Catalog!Base(listed)
                       /\ strangers = {}
  /\ phase = "detail" => \A d \in Same :
       d \in details <=> d \in usable /\ d \in Catalog!Base(listed) /\ (d \in todo => d \in paged)
  /\ phase = "shared" => \A d \in Same : d \in details <=> d \in usable /\ d \in Catalog!Base(listed)

\* The shared devices are those of the pages read so far.
StrangersAreTrue ==
  phase = "shared" => \A d \in Same : d \in strangers <=> d \in usable /\ d \in shared /\ d \in paged

\* The scenes are those of the homes asked so far.
ScenesAreTrue ==
  phase = "scenes" =>
    homesLeft \subseteq Selected /\ scenes \ touched = ((Selected \ homesLeft) \cap wholeScenes) \ touched

CatalogInv ==
  /\ Catalog!TypeOK /\ FetchOrder /\ ListingIsTrue /\ DetailsAreTrue /\ StrangersAreTrue
  /\ ScenesAreTrue /\ Catalog!SnapshotIsTrue

LEMMA CatalogStarts == Catalog!Init => CatalogInv
  <1>. SUFFICES ASSUME Catalog!Init PROVE CatalogInv
    OBVIOUS
  <1>. USE DEF Catalog!Init
  <1>1. Order \in Seq(Catalog!Dids) /\ Order[Len(Order)] \in Catalog!Dids
    BY CatalogConstants DEF CatalogConstants
  <1>2. Catalog!TypeOK
    BY <1>1, CatalogConstants DEF Catalog!TypeOK, CatalogConstants
  <1>3. ListingIsTrue
    BY CatalogConstants DEF ListingIsTrue, Same, Shown, CatalogConstants
  <1>. QED
    BY <1>2, <1>3
    DEF CatalogInv, FetchOrder, DetailsAreTrue, StrangersAreTrue, ScenesAreTrue,
        Catalog!SnapshotIsTrue

\* A page and a chunk are part of what is asked.
LEMMA PageIsPart ==
  ASSUME NEW ds PROVE Catalog!Page(ds) \subseteq ds \ paged /\ Catalog!Chunk(ds) \subseteq ds
  BY DEF Catalog!Page, Catalog!Chunk, Catalog!First

\* What a change leaves alone.
LEMMA ChangeSpares ==
  ASSUME NEW d \in Catalog!Dids, Catalog!TypeOK, Catalog!Change(d), NEW e \in Catalog!Dids, e # d
  PROVE  place'[e] = place[e] /\ (e \in usable' <=> e \in usable) /\ (e \in shared' <=> e \in shared)
  BY DEF Catalog!Change, Catalog!TypeOK

LEMMA ChangeTouches ==
  ASSUME NEW d \in Catalog!Dids, Catalog!TypeOK, Catalog!Change(d)
  PROVE  /\ touched' = touched \cup {d} /\ phase \notin {"done", "failed"}
         /\ UNCHANGED <<wholeScenes, phase, page, listed, todo, paged, details, strangers,
                        job, homesLeft, scenes, top, at, kids, hollow>>
         /\ \A e \in Same' : /\ e \in Same /\ place'[e] = place[e]
                             /\ (e \in usable' <=> e \in usable) /\ (e \in shared' <=> e \in shared)
  <1>1. /\ touched' = touched \cup {d} /\ phase \notin {"done", "failed"}
        /\ UNCHANGED <<wholeScenes, phase, page, listed, todo, paged, details, strangers,
                       job, homesLeft, scenes, top, at, kids, hollow>>
    BY DEF Catalog!Change, Catalog!fetch, Catalog!sceneFetch, Catalog!snapshot
  <1>2. ASSUME NEW e \in Same'
        PROVE  /\ e \in Same /\ place'[e] = place[e]
               /\ (e \in usable' <=> e \in usable) /\ (e \in shared' <=> e \in shared)
    <2>1. e \in Catalog!Dids /\ e # d /\ e \in Same
      BY <1>1 DEF Same
    <2>. QED
      BY <2>1, ChangeSpares
  <1>. QED
    BY <1>1, <1>2

LEMMA SceneTouches ==
  ASSUME NEW h \in Homes, Catalog!TypeOK, Catalog!ChangeScene(h)
  PROVE  /\ touched' = touched \cup {h} /\ phase \notin {"done", "failed"} /\ Same' \subseteq Same
         /\ UNCHANGED <<place, usable, shared, phase, page, listed, todo, paged, details, strangers,
                        job, homesLeft, scenes, top, at, kids, hollow>>
         /\ wholeScenes' \ touched' = wholeScenes \ touched'
  BY DEF Catalog!ChangeScene, Catalog!fetch, Catalog!sceneFetch, Catalog!snapshot, Same

LEMMA ListedKnows ==
  ASSUME NEW found, Catalog!Listed(found), job \in {"devices", "scenes"}
  PROVE  /\ listed' = found /\ paged' = {} /\ todo' = Catalog!Base(found) /\ homesLeft' = Selected
         /\ UNCHANGED <<page, details, strangers>>
         /\ \/ phase' = "scenes" /\ job = "scenes"
            \/ phase' = "shared" /\ job = "devices" /\ Catalog!Base(found) = {}
            \/ phase' = "detail" /\ job = "devices"
  BY DEF Catalog!Listed, Catalog!SceneHomes

\* What a step of the fetch of the listing does.
LEMMA ListingStep ==
  ASSUME Catalog!TypeOK, Catalog!FetchListing
  PROVE  /\ phase \in {"home", "rooms"} /\ listed' = listed \cup Catalog!Listing(page)
         /\ UNCHANGED <<place, usable, shared, wholeScenes, changes, touched,
                        job, scenes, details, strangers, top, at, kids, hollow>>
         /\ \/ /\ phase' = "rooms" /\ page' = page + 1
               /\ UNCHANGED <<todo, paged, homesLeft>>
            \/ /\ ~Catalog!More(page) /\ page' = page
               /\ paged' = {} /\ todo' = Catalog!Base(listed') /\ homesLeft' = Selected
               /\ \/ phase' = "scenes" /\ job = "scenes"
                  \/ phase' = "shared" /\ job = "devices" /\ Catalog!Base(listed') = {}
                  \/ phase' = "detail" /\ job = "devices"
  <1>1. job \in {"devices", "scenes"}
    BY DEF Catalog!TypeOK
  <1>2. /\ phase \in {"home", "rooms"}
        /\ UNCHANGED <<place, usable, shared, wholeScenes, changes, touched,
                       job, scenes, top, at, kids, hollow>>
    BY DEF Catalog!FetchListing, Catalog!account, Catalog!snapshot
  <1>3. CASE Catalog!More(page)
    BY <1>2, <1>3 DEF Catalog!FetchListing
  <1>4. CASE ~Catalog!More(page)
    <2>1. Catalog!Listed(listed \cup Catalog!Listing(page))
      BY <1>4 DEF Catalog!FetchListing
    <2>. QED
      BY <1>1, <1>2, <1>4, <2>1, ListedKnows
  <1>. QED
    BY <1>3, <1>4

\* What a step of the fetch of the details does.
LEMMA DetailsStep ==
  ASSUME Catalog!FetchDetails
  PROVE  /\ phase = "detail"
         /\ details' = details \cup (Catalog!Page(Catalog!Chunk(todo)) \cap usable)
         /\ UNCHANGED <<place, usable, shared, wholeScenes, changes, touched, page, listed,
                        job, homesLeft, scenes, strangers, top, at, kids, hollow>>
         /\ \/ /\ paged' = paged \cup Catalog!Page(Catalog!Chunk(todo))
               /\ UNCHANGED <<phase, todo>>
            \/ /\ Catalog!Chunk(todo) \subseteq paged \cup Catalog!Page(Catalog!Chunk(todo))
               /\ todo' = todo \ Catalog!Chunk(todo) /\ paged' = {}
               /\ \/ phase' = "shared" /\ todo' = {}
                  \/ phase' = "detail"
  <1>1. /\ phase = "detail"
        /\ details' = details \cup (Catalog!Page(Catalog!Chunk(todo)) \cap usable)
        /\ UNCHANGED <<place, usable, shared, wholeScenes, changes, touched, page, listed,
                       job, homesLeft, scenes, strangers, top, at, kids, hollow>>
    BY
    DEF Catalog!FetchDetails, Catalog!Usable, Catalog!account, Catalog!sceneFetch,
        Catalog!snapshot
  <1>. DEFINE had == paged \cup Catalog!Page(Catalog!Chunk(todo))
  <1>2. CASE Catalog!Chunk(todo) \ had # {}
    BY <1>1, <1>2 DEF Catalog!FetchDetails
  <1>3. CASE Catalog!Chunk(todo) \ had = {}
    BY <1>1, <1>3 DEF Catalog!FetchDetails, Catalog!Chunk
  <1>. QED
    BY <1>2, <1>3

\* What a step of the fetch of the shared devices does.
LEMMA SharedStep ==
  ASSUME Catalog!FetchShared
  PROVE  /\ phase = "shared" /\ paged' = paged \cup Catalog!Page(Catalog!Dids)
         /\ strangers' = strangers \cup (Catalog!Page(Catalog!Dids) \cap usable \cap shared)
         /\ UNCHANGED <<place, usable, shared, wholeScenes, changes, touched, phase, page, listed, todo, details,
                        job, homesLeft, scenes, top, at, kids, hollow>>
  BY DEF Catalog!FetchShared, Catalog!Usable, Catalog!account, Catalog!sceneFetch, Catalog!snapshot

\* What a step of the fetch of the scenes does.
LEMMA ScenesStep ==
  ASSUME Catalog!FetchScenes
  PROVE  /\ phase = "scenes"
         /\ UNCHANGED <<place, usable, shared, wholeScenes, changes, touched, page, listed, todo, paged,
                        details, strangers, job, top, at, kids, hollow>>
         /\ \/ homesLeft = {} /\ phase' = "done" /\ UNCHANGED <<homesLeft, scenes>>
            \/ \E h \in homesLeft : /\ homesLeft' = homesLeft \ {h} /\ phase' = phase
                                    /\ scenes' = scenes \cup ({h} \cap wholeScenes)
  <1>1. /\ phase = "scenes"
        /\ UNCHANGED <<place, usable, shared, wholeScenes, changes, touched, page, listed, todo, paged,
                       details, strangers, job, top, at, kids, hollow>>
    BY DEF Catalog!FetchScenes, Catalog!account, Catalog!snapshot
  <1>2. CASE homesLeft = {}
    BY <1>1, <1>2 DEF Catalog!FetchScenes
  <1>3. CASE homesLeft # {}
    <2>. DEFINE h == CHOOSE x \in homesLeft : TRUE
    <2>1. h \in homesLeft
      BY <1>3
    <2>2. /\ homesLeft' = homesLeft \ {h} /\ phase' = phase
          /\ scenes' = scenes \cup ({h} \cap wholeScenes)
      BY <1>3 DEF Catalog!FetchScenes, Catalog!UsableScenes
    <2>. QED
      BY <1>1, <2>1, <2>2
  <1>. QED
    BY <1>2, <1>3

LEMMA FailsStep ==
  ASSUME Catalog!Fails
  PROVE  /\ phase' = "failed"
         /\ UNCHANGED <<place, usable, shared, wholeScenes, changes, touched, page, listed, todo, paged,
                        details, strangers, job, homesLeft, scenes, top, at, kids, hollow>>
  BY DEF Catalog!Fails, Catalog!account, Catalog!sceneFetch, Catalog!snapshot

LEMMA FinishStep ==
  ASSUME Catalog!Finish
  PROVE  /\ phase = "shared" /\ paged = Catalog!Dids /\ phase' = "done"
         /\ UNCHANGED <<place, usable, shared, wholeScenes, changes, touched, page, listed, todo, paged,
                        details, strangers, job, homesLeft, scenes>>
  BY DEF Catalog!Finish, Catalog!account, Catalog!sceneFetch

\* The snapshot that a fetch ends with.
LEMMA FinishNests ==
  ASSUME Catalog!Finish
  PROVE  \E early, pick :
           /\ pick \in [Catalog!Dids -> Catalog!Places \cup {Catalog!SharedPlace, NoPlace}]
           /\ \A e \in Catalog!Dids :
                pick[e] \in IF e \in strangers THEN {Catalog!SharedPlace}
                            ELSE IF e \in Catalog!Found THEN Catalog!BaseOf(e) ELSE {NoPlace}
           /\ LET nested == {e \in Catalog!Found : Catalog!Nests(e, early)} IN
              /\ kids' = [p \in Catalog!Dids |-> {e \in nested : ParentOf[e] = p}]
              /\ hollow' = {ParentOf[e] : e \in nested} \cap nested
              /\ top' = (Catalog!Found \ nested) \cup hollow' /\ at' = pick
  <1>. DEFINE Picks == {f \in [Catalog!Dids -> Catalog!Places \cup {Catalog!SharedPlace, NoPlace}] :
                          \A d \in Catalog!Dids :
                            f[d] \in IF d \in strangers THEN {Catalog!SharedPlace}
                                     ELSE IF d \in Catalog!Found THEN Catalog!BaseOf(d) ELSE {NoPlace}}
  <1>1. PICK early \in SUBSET {d \in Catalog!Found : Catalog!Moves(d) /\ Catalog!Moves(ParentOf[d])},
             pick \in Picks :
          LET nested == {d \in Catalog!Found : Catalog!Nests(d, early)} IN
          /\ kids' = [p \in Catalog!Dids |-> {d \in nested : ParentOf[d] = p}]
          /\ hollow' = {ParentOf[d] : d \in nested} \cap nested
          /\ top' = (Catalog!Found \ nested) \cup hollow' /\ at' = pick
    BY Zenon DEF Catalog!Finish
  <1>2. /\ pick \in [Catalog!Dids -> Catalog!Places \cup {Catalog!SharedPlace, NoPlace}]
        /\ \A e \in Catalog!Dids :
             pick[e] \in IF e \in strangers THEN {Catalog!SharedPlace}
                         ELSE IF e \in Catalog!Found THEN Catalog!BaseOf(e) ELSE {NoPlace}
    BY Zenon
  <1>. QED
    BY <1>1, <1>2, Zenon

\* The listing of a page, of one device.
LEMMA ListingShows ==
  ASSUME Catalog!TypeOK, NEW n \in Nat, NEW d \in Catalog!Dids
  PROVE  {x \in Catalog!Listing(n) : x[3] = d} = IF PageOf[d] = n THEN Shows(d) ELSE {}
  BY DEF Catalog!Listing, Shows

LEMMA CatalogTypesStep == Catalog!TypeOK /\ Catalog!Next => Catalog!TypeOK'
  <1>. SUFFICES ASSUME Catalog!TypeOK, Catalog!Next PROVE Catalog!TypeOK'
    OBVIOUS
  <1>. USE DEF Catalog!TypeOK
  <1>1. MaxChanges \in Nat /\ Selected \subseteq Homes
    BY CatalogConstants DEF CatalogConstants
  <1>2. ASSUME NEW d \in Catalog!Dids, Catalog!Change(d) PROVE Catalog!TypeOK'
    BY <1>1, <1>2, ChangeTouches DEF Catalog!Change
  <1>3. ASSUME NEW h \in Homes, Catalog!ChangeScene(h) PROVE Catalog!TypeOK'
    <2>1. wholeScenes' \subseteq Homes
      BY <1>3 DEF Catalog!ChangeScene
    <2>2. changes' \in 0..MaxChanges
      BY <1>1, <1>3 DEF Catalog!ChangeScene
    <2>3. touched' \subseteq Catalog!Dids \cup Homes
      BY <1>3 DEF Catalog!ChangeScene
    <2>4. UNCHANGED <<place, usable, shared, phase, page, listed, todo, paged, details, strangers,
                      job, homesLeft, scenes, top, at, kids, hollow>>
      BY <1>3, SceneTouches
    <2>. QED
      BY <2>1, <2>2, <2>3, <2>4
  <1>4. CASE Catalog!FetchListing
    <2>1. Catalog!Listing(page) \subseteq Homes \X (Rooms \cup {Catalog!Direct}) \X Catalog!Dids
      BY DEF Catalog!Listing, Catalog!Places
    <2>2. listed' \subseteq Homes \X (Rooms \cup {Catalog!Direct}) \X Catalog!Dids
      BY <1>4, <2>1, ListingStep
    <2>3. Catalog!Base(listed') \subseteq Catalog!Dids
      BY <2>2 DEF Catalog!Base
    <2>4. page' \in Nat
      BY <1>4, ListingStep
    <2>5. todo' \subseteq Catalog!Dids /\ paged' \subseteq Catalog!Dids /\ homesLeft' \subseteq Homes
      BY <1>1, <1>4, <2>3, ListingStep
    <2>6. phase' \in {"home", "rooms", "detail", "shared", "scenes", "done", "failed"}
      BY <1>4, ListingStep
    <2>7. UNCHANGED <<place, usable, shared, wholeScenes, changes, touched,
                      job, scenes, details, strangers, top, at, kids, hollow>>
      BY <1>4, ListingStep
    <2>. QED
      BY <2>2, <2>4, <2>5, <2>6, <2>7
  <1>5. CASE Catalog!FetchDetails
    <2>1. Catalog!Page(Catalog!Chunk(todo)) \subseteq Catalog!Dids
      BY PageIsPart
    <2>2. details' \subseteq Catalog!Dids /\ paged' \subseteq Catalog!Dids /\ todo' \subseteq Catalog!Dids
      BY <1>5, <2>1, DetailsStep
    <2>3. phase' \in {"detail", "shared"}
      BY <1>5, DetailsStep
    <2>. QED
      BY <1>5, <2>2, <2>3, DetailsStep
  <1>6. CASE Catalog!FetchShared
    <2>1. Catalog!Page(Catalog!Dids) \subseteq Catalog!Dids
      BY PageIsPart
    <2>. QED
      BY <1>6, <2>1, SharedStep
  <1>7. CASE Catalog!FetchScenes
    <2>1. homesLeft' \subseteq Homes /\ scenes' \subseteq Homes /\ phase' \in {"scenes", "done"}
      BY <1>7, ScenesStep
    <2>. QED
      BY <1>7, <2>1, ScenesStep
  <1>8. CASE Catalog!Fails
    BY <1>8, FailsStep
  <1>9. CASE Catalog!Finish
    <2>1. Catalog!Found \subseteq Catalog!Dids
      BY DEF Catalog!Found
    <2>2. /\ top' \subseteq Catalog!Dids /\ hollow' \subseteq Catalog!Dids
          /\ kids' \in [Catalog!Dids -> SUBSET Catalog!Dids]
          /\ at' \in [Catalog!Dids -> Catalog!Places \cup {Catalog!SharedPlace, NoPlace}]
      <3>1. PICK early, pick :
              /\ pick \in [Catalog!Dids -> Catalog!Places \cup {Catalog!SharedPlace, NoPlace}]
              /\ LET nested == {e \in Catalog!Found : Catalog!Nests(e, early)} IN
                 /\ kids' = [p \in Catalog!Dids |-> {e \in nested : ParentOf[e] = p}]
                 /\ hollow' = {ParentOf[e] : e \in nested} \cap nested
                 /\ top' = (Catalog!Found \ nested) \cup hollow' /\ at' = pick
        BY <1>9, FinishNests
      <3>. QED
        BY <2>1, <3>1
    <2>. QED
      BY <1>9, <2>2, FinishStep
  <1>. QED
    BY <1>2, <1>3, <1>4, <1>5, <1>6, <1>7, <1>8, <1>9 DEF Catalog!Next

LEMMA OrderStep == CatalogInv /\ Catalog!Next => FetchOrder'
  <1>. SUFFICES ASSUME CatalogInv, Catalog!Next PROVE FetchOrder'
    OBVIOUS
  <1>. USE DEF FetchOrder
  <1>1. Catalog!TypeOK /\ FetchOrder
    BY DEF CatalogInv
  <1>2. ASSUME NEW d \in Catalog!Dids, Catalog!Change(d) PROVE FetchOrder'
    BY <1>1, <1>2, ChangeTouches
  <1>3. ASSUME NEW h \in Homes, Catalog!ChangeScene(h) PROVE FetchOrder'
    BY <1>1, <1>3, SceneTouches
  <1>4. CASE Catalog!FetchListing
    <2>1. page \in Nat
      BY <1>1 DEF Catalog!TypeOK
    <2>. QED
      BY <1>1, <1>4, <2>1, ListingStep
  <1>5. CASE Catalog!FetchDetails
    BY <1>1, <1>5, DetailsStep
  <1>6. CASE Catalog!FetchShared
    BY <1>1, <1>6, SharedStep
  <1>7. CASE Catalog!FetchScenes
    BY <1>1, <1>7, ScenesStep
  <1>8. CASE Catalog!Fails
    BY <1>1, <1>8, FailsStep
  <1>9. CASE Catalog!Finish
    BY <1>1, <1>9, FinishStep
  <1>. QED
    BY <1>2, <1>3, <1>4, <1>5, <1>6, <1>7, <1>8, <1>9 DEF Catalog!Next

LEMMA ListingTrueStep == CatalogInv /\ Catalog!Next => ListingIsTrue'
  <1>. SUFFICES ASSUME CatalogInv, Catalog!Next PROVE ListingIsTrue'
    OBVIOUS
  <1>1. Catalog!TypeOK /\ FetchOrder /\ ListingIsTrue /\ page \in Nat /\ page # 0
    BY DEF CatalogInv, Catalog!TypeOK, FetchOrder
  <1>2. ASSUME NEW d \in Catalog!Dids, Catalog!Change(d) PROVE ListingIsTrue'
    <2>1. /\ phase' = phase /\ listed' = listed /\ page' = page
          /\ \A e \in Same' : e \in Same /\ place'[e] = place[e]
      BY <1>1, <1>2, ChangeTouches
    <2>. QED
      BY <1>1, <2>1 DEF ListingIsTrue, Shown, Shows
  <1>3. ASSUME NEW h \in Homes, Catalog!ChangeScene(h) PROVE ListingIsTrue'
    <2>1. /\ phase' = phase /\ listed' = listed /\ page' = page /\ place' = place
          /\ \A e \in Same' : e \in Same
      BY <1>1, <1>3, SceneTouches
    <2>. QED
      BY <1>1, <2>1 DEF ListingIsTrue, Shown, Shows
  <1>4. CASE Catalog!FetchListing
    <2>1. /\ phase \in {"home", "rooms"} /\ listed' = listed \cup Catalog!Listing(page)
          /\ place' = place /\ touched' = touched
      BY <1>1, <1>4, ListingStep
    <2>2. ASSUME NEW d \in Same' PROVE d \in Same /\ d \in Catalog!Dids /\ PageOf[d] \in Nat \ {0}
      BY <2>1, CatalogConstants DEF Same, CatalogConstants
    <2>3. ASSUME NEW d \in Same'
          PROVE  Shown(d)' = (IF PageOf[d] < page THEN Shows(d) ELSE {})
                               \cup (IF PageOf[d] = page THEN Shows(d) ELSE {})
      <3>1. Shown(d)' = Shown(d) \cup {x \in Catalog!Listing(page) : x[3] = d}
        BY <2>1 DEF Shown
      <3>2. Shown(d) = IF PageOf[d] < page THEN Shows(d) ELSE {}
        BY <1>1, <2>1, <2>2 DEF ListingIsTrue
      <3>. QED
        BY <1>1, <2>2, <3>1, <3>2, ListingShows
    <2>4. ASSUME NEW d \in Same' PROVE Shows(d)' = Shows(d)
      BY <2>1 DEF Shows
    <2>5. CASE phase' = "rooms" /\ page' = page + 1
      <3>1. ASSUME NEW d \in Same' PROVE Shown(d)' = IF PageOf[d] < page' THEN Shows(d)' ELSE {}
        <4>1. PageOf[d] < page + 1 <=> PageOf[d] < page \/ PageOf[d] = page
          BY <1>1, <2>2
        <4>. QED
          BY <2>3, <2>4, <2>5, <4>1
      <3>. QED
        BY <2>5, <3>1 DEF ListingIsTrue
    <2>6. CASE ~Catalog!More(page) /\ phase' \in {"scenes", "shared", "detail"}
      <3>1. ASSUME NEW d \in Same' PROVE Shown(d)' = Shows(d)'
        <4>1. CASE place[d] = NoPlace
          BY <2>3, <2>4, <4>1 DEF Shows
        <4>2. CASE place[d] # NoPlace
          <5>1. ~(PageOf[d] > page)
            BY <2>2, <2>6, <4>2 DEF Catalog!More
          <5>2. PageOf[d] < page \/ PageOf[d] = page
            BY <1>1, <2>2, <5>1
          <5>. QED
            BY <2>3, <2>4, <5>2
        <4>. QED
          BY <4>1, <4>2
      <3>. QED
        BY <2>6, <3>1 DEF ListingIsTrue
    <2>. QED
      BY <1>1, <1>4, <2>5, <2>6, ListingStep
  <1>5. CASE Catalog!FetchDetails
    <2>1. phase = "detail" /\ phase' \in {"detail", "shared"} /\ UNCHANGED <<listed, place, touched, page>>
      BY <1>5, DetailsStep
    <2>. QED
      BY <1>1, <2>1 DEF ListingIsTrue, Shown, Shows, Same
  <1>6. CASE Catalog!FetchShared
    <2>1. phase' = phase /\ UNCHANGED <<listed, place, touched, page>>
      BY <1>6, SharedStep
    <2>. QED
      BY <1>1, <2>1 DEF ListingIsTrue, Shown, Shows, Same
  <1>7. CASE phase' \in {"scenes", "done", "failed"}
    BY <1>7 DEF ListingIsTrue
  <1>. QED
    BY <1>2, <1>3, <1>4, <1>5, <1>6, <1>7, ScenesStep, FailsStep, FinishStep DEF Catalog!Next

LEMMA DetailsTrueStep == CatalogInv /\ Catalog!Next => DetailsAreTrue'
  <1>. SUFFICES ASSUME CatalogInv, Catalog!Next PROVE DetailsAreTrue'
    OBVIOUS
  <1>1. Catalog!TypeOK /\ FetchOrder /\ DetailsAreTrue
    BY DEF CatalogInv
  <1>2. ASSUME NEW d \in Catalog!Dids, Catalog!Change(d) PROVE DetailsAreTrue'
    <2>1. /\ UNCHANGED <<phase, listed, todo, paged, details, strangers>>
          /\ \A e \in Same' : e \in Same /\ (e \in usable' <=> e \in usable)
      BY <1>1, <1>2, ChangeTouches
    <2>2. Catalog!Chunk(todo)' = Catalog!Chunk(todo) /\ Catalog!Base(listed)' = Catalog!Base(listed)
      BY <2>1 DEF Catalog!Chunk, Catalog!First, Catalog!Base
    <2>. QED
      BY <1>1, <2>1, <2>2 DEF DetailsAreTrue
  <1>3. ASSUME NEW h \in Homes, Catalog!ChangeScene(h) PROVE DetailsAreTrue'
    <2>1. /\ UNCHANGED <<phase, listed, todo, paged, details, strangers, usable>>
          /\ \A e \in Same' : e \in Same
      BY <1>1, <1>3, SceneTouches
    <2>2. Catalog!Chunk(todo)' = Catalog!Chunk(todo) /\ Catalog!Base(listed)' = Catalog!Base(listed)
      BY <2>1 DEF Catalog!Chunk, Catalog!First, Catalog!Base
    <2>. QED
      BY <1>1, <2>1, <2>2 DEF DetailsAreTrue
  <1>4. CASE Catalog!FetchListing
    <2>1. details' = {} /\ strangers' = {}
      BY <1>1, <1>4, ListingStep DEF FetchOrder
    <2>2. CASE phase' = "rooms"
      BY <2>2 DEF DetailsAreTrue
    <2>3. CASE paged' = {} /\ todo' = Catalog!Base(listed)' /\ (phase' = "shared" => Catalog!Base(listed)' = {})
      BY <2>1, <2>3 DEF DetailsAreTrue
    <2>. QED
      BY <1>1, <1>4, <2>2, <2>3, ListingStep DEF Catalog!Base
  <1>5. CASE Catalog!FetchDetails
    <2>. DEFINE chunk == Catalog!Chunk(todo)
                asked == Catalog!Page(chunk)
    <2>1. asked \subseteq chunk /\ asked \cap paged = {} /\ chunk \subseteq todo
      BY PageIsPart
    <2>2. /\ phase = "detail" /\ details' = details \cup (asked \cap usable)
          /\ UNCHANGED <<usable, touched, listed, strangers>>
      BY <1>5, DetailsStep
    <2>3. /\ paged \subseteq chunk /\ strangers = {} /\ todo \subseteq Catalog!Base(listed)
          /\ \A d \in Same : d \in details <=> d \in usable /\ d \in Catalog!Base(listed) /\ (d \in todo => d \in paged)
      BY <1>1, <2>2 DEF DetailsAreTrue
    <2>4. Catalog!Base(listed)' = Catalog!Base(listed) /\ Same' = Same
      BY <2>2 DEF Catalog!Base, Same
    <2>6. CASE paged' = paged \cup asked /\ UNCHANGED <<phase, todo>>
      <3>1. Catalog!Chunk(todo)' = chunk
        BY <2>6 DEF Catalog!Chunk, Catalog!First
      <3>. HIDE DEF chunk, asked
      <3>. QED
        BY <2>1, <2>2, <2>3, <2>4, <2>6, <3>1 DEF DetailsAreTrue
    <2>7. CASE /\ chunk \subseteq paged \cup asked /\ todo' = todo \ chunk /\ paged' = {}
               /\ \/ phase' = "shared" /\ todo' = {}
                  \/ phase' = "detail"
      <3>. HIDE DEF chunk, asked
      <3>. QED
        BY <2>1, <2>2, <2>3, <2>4, <2>7 DEF DetailsAreTrue
    <2>. QED
      BY <1>5, <2>6, <2>7, DetailsStep
  <1>6. CASE Catalog!FetchShared
    <2>1. phase = "shared" /\ UNCHANGED <<phase, listed, details, usable, touched>>
      BY <1>6, SharedStep
    <2>. QED
      BY <1>1, <2>1 DEF DetailsAreTrue, Catalog!Base, Same
  <1>7. CASE phase' \in {"scenes", "done", "failed"}
    BY <1>7 DEF DetailsAreTrue
  <1>. QED
    BY <1>2, <1>3, <1>4, <1>5, <1>6, <1>7, ScenesStep, FailsStep, FinishStep DEF Catalog!Next

LEMMA StrangersTrueStep == CatalogInv /\ Catalog!Next => StrangersAreTrue'
  <1>. SUFFICES ASSUME CatalogInv, Catalog!Next PROVE StrangersAreTrue'
    OBVIOUS
  <1>. USE DEF StrangersAreTrue
  <1>1. Catalog!TypeOK /\ FetchOrder /\ DetailsAreTrue /\ StrangersAreTrue
    BY DEF CatalogInv
  <1>2. ASSUME NEW d \in Catalog!Dids, Catalog!Change(d) PROVE StrangersAreTrue'
    <2>1. /\ UNCHANGED <<phase, paged, strangers>>
          /\ \A e \in Same' : e \in Same /\ (e \in usable' <=> e \in usable) /\ (e \in shared' <=> e \in shared)
      BY <1>1, <1>2, ChangeTouches
    <2>. QED
      BY <1>1, <2>1
  <1>3. ASSUME NEW h \in Homes, Catalog!ChangeScene(h) PROVE StrangersAreTrue'
    <2>1. UNCHANGED <<phase, paged, strangers, usable, shared>> /\ \A e \in Same' : e \in Same
      BY <1>1, <1>3, SceneTouches
    <2>. QED
      BY <1>1, <2>1
  <1>4. CASE Catalog!FetchListing
    <2>1. strangers' = {} /\ (phase' = "shared" => paged' = {})
      BY <1>1, <1>4, ListingStep DEF FetchOrder
    <2>. QED
      BY <2>1
  <1>5. CASE Catalog!FetchDetails
    <2>1. phase = "detail" /\ strangers' = strangers
      BY <1>5, DetailsStep
    <2>2. strangers = {}
      BY <1>1, <2>1 DEF DetailsAreTrue
    <2>3. phase' = "shared" => paged' = {}
      BY <1>5, <2>1, DetailsStep
    <2>. QED
      BY <2>1, <2>2, <2>3
  <1>6. CASE Catalog!FetchShared
    <2>1. /\ phase = "shared" /\ paged' = paged \cup Catalog!Page(Catalog!Dids)
          /\ strangers' = strangers \cup (Catalog!Page(Catalog!Dids) \cap usable \cap shared)
          /\ UNCHANGED <<phase, usable, shared, touched>>
      BY <1>6, SharedStep
    <2>. QED
      BY <1>1, <2>1 DEF Same
  <1>7. CASE phase' \in {"scenes", "done", "failed"}
    BY <1>7
  <1>. QED
    BY <1>2, <1>3, <1>4, <1>5, <1>6, <1>7, ScenesStep, FailsStep, FinishStep DEF Catalog!Next

LEMMA ScenesTrueStep == CatalogInv /\ Catalog!Next => ScenesAreTrue'
  <1>. SUFFICES ASSUME CatalogInv, Catalog!Next PROVE ScenesAreTrue'
    OBVIOUS
  <1>. USE DEF ScenesAreTrue
  <1>1. Catalog!TypeOK /\ FetchOrder /\ ScenesAreTrue
    BY DEF CatalogInv
  <1>2. ASSUME NEW d \in Catalog!Dids, Catalog!Change(d) PROVE ScenesAreTrue'
    BY <1>1, <1>2, ChangeTouches
  <1>3. ASSUME NEW h \in Homes, Catalog!ChangeScene(h) PROVE ScenesAreTrue'
    BY <1>1, <1>3, SceneTouches
  <1>4. CASE Catalog!FetchListing
    BY <1>1, <1>4, ListingStep DEF FetchOrder
  <1>5. CASE Catalog!FetchScenes
    BY <1>1, <1>5, ScenesStep
  <1>6. CASE phase' \in {"detail", "shared", "done", "failed"}
    BY <1>6
  <1>. QED
    BY <1>2, <1>3, <1>4, <1>5, <1>6, DetailsStep, SharedStep, FailsStep, FinishStep DEF Catalog!Next

\* What the fetch has found of a device that nobody touched, when it nests the sub-devices.
LEMMA FoundBelongs ==
  ASSUME CatalogInv, phase = "shared", paged = Catalog!Dids, NEW d \in Same
  PROVE  /\ d \in Catalog!Found <=> Catalog!Belongs(d)
         /\ d \in strangers <=> d \in usable /\ d \in shared
         /\ Catalog!Belongs(d) /\ d \notin shared => Catalog!BaseOf(d) = {place[d]}
  <1>1. d \in Catalog!Dids /\ place[d] \in Catalog!Places \cup {NoPlace}
    BY DEF CatalogInv, Catalog!TypeOK, Same
  <1>2. Shown(d) = Shows(d)
    BY DEF CatalogInv, ListingIsTrue
  <1>3. d \in details <=> d \in usable /\ d \in Catalog!Base(listed)
    BY DEF CatalogInv, DetailsAreTrue
  <1>4. d \in strangers <=> d \in usable /\ d \in shared
    BY <1>1 DEF CatalogInv, StrangersAreTrue
  <1>5. d \in Catalog!Base(listed) <=> \E x \in Shown(d) : x[1] \in Selected
    BY DEF Catalog!Base, Shown
  <1>6. Catalog!BaseOf(d) =
          LET in == {x \in Shown(d) : x[1] \in Selected} IN
          {<<x[1], x[2]>> : x \in {y \in in : y[2] # Catalog!Direct
                                             \/ ~\E o \in in : o[1] = y[1] /\ o[2] # Catalog!Direct}}
    <2>1. {x \in listed : x[3] = d /\ x[1] \in Selected} = {x \in Shown(d) : x[1] \in Selected}
      BY DEF Shown
    <2>. QED
      BY <2>1, Zenon DEF Catalog!BaseOf
  <1>7. CASE place[d] # NoPlace /\ place[d][1] \in Selected
    <2>1. place[d] = <<place[d][1], place[d][2]>>
      BY <1>1, <1>7 DEF Catalog!Places
    <2>. DEFINE y == <<place[d][1], place[d][2], d>>
    <2>2. y[1] = place[d][1] /\ y[2] = place[d][2]
      OBVIOUS
    <2>3. Shown(d) = {y}
      BY <1>2, <1>7 DEF Shows
    <2>. HIDE DEF y
    <2>4. {x \in Shown(d) : x[1] \in Selected} = {y}
      BY <1>7, <2>2, <2>3
    <2>5. Catalog!BaseOf(d) = {<<y[1], y[2]>>}
      BY <1>6, <2>4
    <2>6. d \in Catalog!Base(listed) /\ Catalog!BaseOf(d) = {place[d]}
      BY <1>5, <1>7, <2>1, <2>2, <2>3, <2>5
    <2>. QED
      BY <1>3, <1>4, <1>7, <2>6 DEF Catalog!Found, Catalog!Belongs
  <1>8. CASE ~(place[d] # NoPlace /\ place[d][1] \in Selected)
    <2>1. d \notin Catalog!Base(listed)
      BY <1>2, <1>5, <1>8 DEF Shows
    <2>. QED
      BY <1>3, <1>4, <1>8, <2>1 DEF Catalog!Found, Catalog!Belongs
  <1>. QED
    BY <1>7, <1>8

LEMMA FinishTells == CatalogInv /\ Catalog!Finish => Catalog!SnapshotIsTrue'
  <1>. SUFFICES ASSUME CatalogInv, Catalog!Finish, NEW d \in Same
                PROVE  /\ Catalog!InSnapshot(d)' = Catalog!Belongs(d)
                       /\ Catalog!Belongs(d) => at'[d] = IF d \in shared THEN Catalog!SharedPlace ELSE place[d]
                       /\ ParentOf[d] # NoDevice /\ ParentOf[d] \notin touched /\ Catalog!Belongs(d) =>
                            IF Catalog!Belongs(ParentOf[d])
                            THEN \/ d \in kids'[ParentOf[d]]
                                 \/ d \in top' /\ ParentOf[ParentOf[d]] # NoDevice
                            ELSE d \in top'
    <2>. SUFFICES ASSUME CatalogInv, Catalog!Finish PROVE Catalog!SnapshotIsTrue'
      OBVIOUS
    <2>1. phase = "shared" /\ UNCHANGED <<place, usable, shared, touched, job>>
      BY FinishStep
    <2>2. job' # "scenes"
      BY <2>1 DEF CatalogInv, FetchOrder
    <2>3. Same' = Same /\ Same = Catalog!Dids \ touched /\ \A d : Catalog!Belongs(d)' = Catalog!Belongs(d)
      BY <2>1 DEF Same, Catalog!Belongs
    <2>. QED
      BY <2>1, <2>2, <2>3 DEF Catalog!SnapshotIsTrue
  <1>1. phase = "shared" /\ paged = Catalog!Dids
    BY FinishStep
  <1>2. PICK early, pick :
          /\ \A e \in Catalog!Dids :
               pick[e] \in IF e \in strangers THEN {Catalog!SharedPlace}
                           ELSE IF e \in Catalog!Found THEN Catalog!BaseOf(e) ELSE {NoPlace}
          /\ LET nested == {e \in Catalog!Found : Catalog!Nests(e, early)} IN
             /\ kids' = [p \in Catalog!Dids |-> {e \in nested : ParentOf[e] = p}]
             /\ hollow' = {ParentOf[e] : e \in nested} \cap nested
             /\ top' = (Catalog!Found \ nested) \cup hollow' /\ at' = pick
    BY FinishNests, Zenon
  <1>. DEFINE nested == {e \in Catalog!Found : Catalog!Nests(e, early)}
  <1>3. /\ \A p \in Catalog!Dids : kids'[p] = {e \in nested : ParentOf[e] = p}
        /\ hollow' \subseteq nested /\ top' = (Catalog!Found \ nested) \cup hollow' /\ at' = pick
    BY <1>2
  <1>4. /\ d \in Catalog!Dids /\ Catalog!Found \subseteq Catalog!Dids
        /\ ParentOf[d] \in Catalog!Dids \cup {NoDevice}
    BY CatalogConstants DEF Same, CatalogInv, Catalog!TypeOK, Catalog!Found, CatalogConstants
  <1>5. \A e \in nested : ParentOf[e] # NoDevice /\ ParentOf[e] \in Catalog!Found
    BY DEF Catalog!Nests, Catalog!Moves
  <1>6. d \in Catalog!Found <=> Catalog!Belongs(d)
    BY <1>1, FoundBelongs
  <1>7. Catalog!InSnapshot(d)' = Catalog!Belongs(d)
    <2>1. Catalog!InSnapshot(d)' <=> d \in Catalog!Found
      <3>1. Catalog!InSnapshot(d)' <=> (d \in top' \/ \E p \in Catalog!Dids : d \in kids'[p])
        BY DEF Catalog!InSnapshot
      <3>2. CASE d \in nested
        <4>1. ParentOf[d] \in Catalog!Dids /\ d \in kids'[ParentOf[d]]
          BY <1>3, <1>4, <1>5, <3>2
        <4>. QED
          BY <3>1, <3>2, <4>1
      <3>3. CASE d \notin nested
        BY <1>3, <3>1, <3>3
      <3>. QED
        BY <3>2, <3>3
    <2>2. Catalog!InSnapshot(d)' \in BOOLEAN /\ Catalog!Belongs(d) \in BOOLEAN
      BY Zenon DEF Catalog!InSnapshot, Catalog!Belongs
    <2>. QED
      BY <1>6, <2>1, <2>2
  <1>8. ASSUME Catalog!Belongs(d) PROVE at'[d] = IF d \in shared THEN Catalog!SharedPlace ELSE place[d]
    <2>1. d \in strangers <=> d \in shared
      BY <1>1, <1>8, FoundBelongs DEF Catalog!Belongs
    <2>2. d \notin shared => Catalog!BaseOf(d) = {place[d]}
      BY <1>1, <1>8, FoundBelongs
    <2>. QED
      BY <1>2, <1>4, <1>6, <1>8, <2>1, <2>2
  <1>9. ASSUME ParentOf[d] # NoDevice, ParentOf[d] \notin touched, Catalog!Belongs(d)
        PROVE  IF Catalog!Belongs(ParentOf[d])
               THEN d \in kids'[ParentOf[d]] \/ (d \in top' /\ ParentOf[ParentOf[d]] # NoDevice)
               ELSE d \in top'
    <2>1. ParentOf[d] \in Catalog!Dids /\ ParentOf[d] \in Same
      BY <1>4, <1>9 DEF Same
    <2>2. ParentOf[d] \in Catalog!Found <=> Catalog!Belongs(ParentOf[d])
      BY <1>1, <2>1, FoundBelongs
    <2>3. CASE d \in nested
      BY <1>3, <1>5, <2>1, <2>2, <2>3
    <2>4. CASE d \notin nested
      <3>1. d \in top' /\ ~Catalog!Nests(d, early)
        BY <1>3, <1>6, <1>9, <2>4
      <3>2. Catalog!Belongs(ParentOf[d]) => ParentOf[ParentOf[d]] # NoDevice
        BY <1>9, <2>2, <3>1 DEF Catalog!Nests, Catalog!Moves
      <3>. QED
        BY <3>1, <3>2
    <2>. QED
      BY <2>3, <2>4
  <1>. QED
    BY <1>7, <1>8, <1>9

LEMMA SnapshotStep == CatalogInv /\ Catalog!Next => Catalog!SnapshotIsTrue'
  <1>. SUFFICES ASSUME CatalogInv, Catalog!Next PROVE Catalog!SnapshotIsTrue'
    OBVIOUS
  <1>1. CASE phase' # "done"
    BY <1>1 DEF Catalog!SnapshotIsTrue
  <1>2. CASE Catalog!FetchScenes
    <2>1. /\ phase = "scenes" /\ UNCHANGED <<touched, wholeScenes, job>> /\ job = "scenes"
      BY <1>2, ScenesStep DEF CatalogInv, FetchOrder
    <2>2. CASE homesLeft = {} /\ scenes' = scenes
      BY <2>1, <2>2 DEF CatalogInv, ScenesAreTrue, Catalog!SnapshotIsTrue
    <2>. QED
      BY <1>1, <1>2, <2>1, <2>2, ScenesStep
  <1>3. CASE Catalog!Finish
    BY <1>3, FinishTells
  <1>4. Catalog!TypeOK
    BY DEF CatalogInv
  <1>5. ASSUME NEW d \in Catalog!Dids, Catalog!Change(d) PROVE phase' # "done"
    BY <1>4, <1>5, ChangeTouches
  <1>6. ASSUME NEW h \in Homes, Catalog!ChangeScene(h) PROVE phase' # "done"
    BY <1>4, <1>6, SceneTouches
  <1>7. Catalog!FetchListing => phase' # "done"
    BY <1>4, ListingStep
  <1>8. Catalog!FetchDetails \/ Catalog!FetchShared \/ Catalog!Fails => phase' # "done"
    BY DetailsStep, SharedStep, FailsStep
  <1>. QED
    BY <1>1, <1>2, <1>3, <1>5, <1>6, <1>7, <1>8 DEF Catalog!Next

LEMMA CatalogStep == CatalogInv /\ [Catalog!Next]_Catalog!catalog => CatalogInv'
  <1>1. CASE Catalog!Next
    BY <1>1, CatalogTypesStep, OrderStep, ListingTrueStep, DetailsTrueStep, StrangersTrueStep,
       ScenesTrueStep, SnapshotStep
    DEF CatalogInv
  <1>2. CASE UNCHANGED Catalog!catalog
    BY <1>2
    DEF Catalog!catalog, Catalog!account, Catalog!fetch, Catalog!sceneFetch, Catalog!snapshot,
        CatalogInv, Catalog!TypeOK, FetchOrder, ListingIsTrue, DetailsAreTrue, StrangersAreTrue,
        ScenesAreTrue, Catalog!SnapshotIsTrue, Shown, Shows, Same, Catalog!InSnapshot,
        Catalog!Belongs, Catalog!Chunk, Catalog!First, Catalog!Base
  <1>. QED
    BY <1>1, <1>2

-----------------------------------------------------------------------------
(* Theorems *)

\* AuthUpkeep, CommandRouting, SpecParser, ConfigStore, CloudCatalog (client.go, cert.go, cloud.go,
\* spec_parser.go, storage.go): the inductive invariant of the five parts.
AccountsInv == UpkeepInv /\ RoutingInv /\ SpecsInv /\ StoreInv /\ CatalogInv

\* client.go, cloud.go, cert.go, spec_parser.go, storage.go: every state of the program satisfies the
\* invariants of the credentials, of the commands under way, of the specs, of the documents and of
\* the fetch of the devices.
THEOREM AccountsAreSound == MCSpec => []AccountsInv
  <1>1. MCInit => AccountsInv
    BY UpkeepStarts, RoutingStarts, SpecsStart, StoreStarts, CatalogStarts DEF MCInit, AccountsInv
  <1>2. AccountsInv /\ [MCNext]_<<part, upkeep, storing, fetching, routing, parsing>> => AccountsInv'
    <2>1. ASSUME [MCNext]_<<part, upkeep, storing, fetching, routing, parsing>>
          PROVE  /\ [Next]_upkeep /\ [Routing!Next]_Routing!routing /\ [Specs!Next]_Specs!parsing
                 /\ [Store!Next]_Store!store /\ [Catalog!Next]_Catalog!catalog
      <3>1. [Next]_upkeep /\ [Routing!Next]_Routing!routing /\ [Specs!Next]_Specs!parsing
        BY <2>1
        DEF MCNext, routing, parsing, Routing!routing, Routing!environment, Routing!calls,
            Specs!parsing, Specs!parsers, Specs!history
      <3>2. [Store!Next]_Store!store /\ [Catalog!Next]_Catalog!catalog
        BY <2>1
        DEF MCNext, storing, fetching, Store!store, Store!disk, Store!call, Store!history,
            Catalog!catalog, Catalog!account, Catalog!fetch, Catalog!sceneFetch, Catalog!snapshot
      <3>. QED
        BY <3>1, <3>2
    <2>. QED
      BY <2>1, UpkeepStep, RoutingStep, SpecsStep, StoreStep, CatalogStep DEF AccountsInv
  <1>. QED
    BY <1>1, <1>2, PTL DEF MCSpec

\* Every variable of the five parts keeps its type (client.go, cloud.go, cert.go, spec_parser.go,
\* storage.go); the entries of a document keep distinct keys.
THEOREM AccountsTypeCorrect == MCSpec => []AccountsTypeOK
  <1>1. AccountsInv => TypeOK
    BY FileValues
    DEF AccountsInv, UpkeepInv, UpkeepTypes, FilesTyped, NumbersTyped, FlagsTyped, TasksTyped,
        FileTypes, TypeOK
  <1>2. AccountsInv => Routing!TypeOK
    <2>. SUFFICES ASSUME AccountsInv PROVE Routing!TypeOK
      OBVIOUS
    <2>1. auth \in 0..MaxMoves
      BY RoutingConstants
      DEF AccountsInv, RoutingInv, RoutingTypes, Environment, RoutingConstants
    <2>. QED
      BY <2>1
      DEF AccountsInv, RoutingInv, RoutingTypes, Environment, CallTypes, SequenceTypes,
          AttemptsAreCounted, PiecesAreFresh, Backends, Routing!TypeOK
  <1>3. AccountsInv => Specs!TypeOK
    <2>. SUFFICES ASSUME AccountsInv PROVE Specs!TypeOK
      OBVIOUS
    <2>1. \A u \in Urns : refreshed[u] \in 0..published
      BY VersionsAreNumbers DEF AccountsInv, SpecsInv, ParsingTypes, SpecTypes, FetchesAreRecent
    <2>. QED
      BY <2>1
      DEF AccountsInv, SpecsInv, ParsingTypes, ParserTypes, SpecTypes, MetTyped, Versions,
          Specs!TypeOK
  <1>4. AccountsInv => Store!TypeOK /\ Catalog!TypeOK
    <2>. SUFFICES ASSUME AccountsInv PROVE Store!TypeOK /\ Catalog!TypeOK
      OBVIOUS
    <2>1. StoreTypes /\ Catalog!TypeOK
      BY DEF AccountsInv, StoreInv, CatalogInv
    <2>2. \A d \in written \cup {document.doc} \cup {plan[u] : u \in Users} : Store!Distinct(d)
      BY <2>1 DEF StoreTypes, Docs
    <2>3. raced \in BOOLEAN
      BY <2>1, Zenon DEF StoreTypes
    <2>. QED
      BY <2>1, <2>2, <2>3 DEF StoreTypes, Store!TypeOK
  <1>5. AccountsInv => AccountsTypeOK
    BY <1>1, <1>2, <1>3, <1>4 DEF AccountsTypeOK
  <1>. QED
    BY <1>5, AccountsAreSound, PTL

\* client.go updateAuth, RefreshUserCert; cert.go: the token on disk is one both clients use, and
\* the stored certificate certifies the stored key, through failed writes, refused requests and
\* crashes, as long as two tasks do not do the same job at a time and, for the certificate, none has
\* taken a readable key for missing since it was written.
THEOREM CredentialsStayMatched == MCSpec => []CredentialsMatch
  <1>1. AccountsInv => CredentialsMatch
    BY DEF AccountsInv, UpkeepInv, UpkeepTypes, FlagsTyped, TokenUnlessOverlap, TokenInHand,
           KeyUnlessOverlap, KeyInHand, CredentialsMatch, StoredIsUsed, PairMatches
  <1>. QED
    BY <1>1, AccountsAreSound, PTL

\* client.go SetProperty, InvokeAction, GetProperty; cloud.go postJSON: a command is sent once, to
\* the route its mode allows, with an account in force, and was done when it is reported done.
THEOREM CommandsStayRouted == MCSpec => []CommandsAreRouted
  <1>1. AccountsInv => CommandsAreRouted
    <2>. SUFFICES ASSUME AccountsInv PROVE CommandsAreRouted
      OBVIOUS
    <2>1. Routing!CommandsGoOnce
      BY DEF AccountsInv, RoutingInv, AttemptsAreCounted, Routing!CommandsGoOnce, Routing!Commands
    <2>2. Routing!SuccessWasDone
      BY DEF AccountsInv, RoutingInv, CommandsAreTraced, Routing!SuccessWasDone
    <2>3. /\ \A c \in Callers : DOMAIN reached[c] = 1..Len(reached[c])
          /\ \A c \in Callers : DOMAIN bears[c] = 1..Len(bears[c])
      BY DEF AccountsInv, RoutingInv, RoutingTypes, SequenceTypes
    <2>4. Routing!ModeIsObeyed
      BY <2>3 DEF AccountsInv, RoutingInv, CloudOnly, Routing!ModeIsObeyed
    <2>5. Routing!PiecesAreInForce
      BY <2>3 DEF AccountsInv, RoutingInv, PiecesAreFresh, Routing!PiecesAreInForce
    <2>. QED
      BY <2>1, <2>2, <2>4, <2>5 DEF CommandsAreRouted
  <1>. QED
    BY <1>1, AccountsAreSound, PTL

\* spec_parser.go normalizeInstance, resolveModification, loadTranslations, Refresh: a spec shows what
\* its rules do not exclude and nothing else, has the patches at the end of the chain of aliases of
\* its device, is in one language, and is not older than the last refresh.
THEOREM SpecsStayTrue == MCSpec => []SpecsAreTrue
  <1>1. AccountsInv => Specs!RefreshIsSeen
    BY DEF AccountsInv, SpecsInv, KeptUnlessMet, RefreshesAreKept, Specs!RefreshIsSeen, Specs!Done
  <1>2. AccountsInv => SpecsAreTrue
    BY <1>1, NormalIsFiltered, NormalIsPatched, NormalIsInOneLanguage DEF AccountsInv, SpecsAreTrue
  <1>. QED
    BY <1>2, AccountsAreSound, PTL

\* storage.go readHashed, UpdateUserConfig, mergeUserConfigDocuments: through failures and crashes a
\* load returns what one save has written, and updates that do not overlap and are not cut off leave
\* exactly the entries they ask for.
THEOREM SavedStaysKept == MCSpec => []SavedIsKept
  <1>1. AccountsInv => SavedIsKept
    <2>. SUFFICES ASSUME AccountsInv PROVE SavedIsKept
      OBVIOUS
    <2>1. Store!LoadedWasSaved
      BY DEF AccountsInv, StoreInv, LoadsAreSaved
    <2>2. Store!UpdatesAreKept
      <3>1. ~raced /\ ~Store!Busy => document.state # "torn" /\ Store!Entries(document.doc) = expected
        BY DEF AccountsInv, StoreInv, AloneUnlessRaced, WritesAlone, Settled, Store!Busy
      <3>. QED
        BY <3>1 DEF Store!UpdatesAreKept, Store!Torn
    <2>. QED
      BY <2>1, <2>2 DEF SavedIsKept
  <1>. QED
    BY <1>1, AccountsAreSound, PTL

\* cloud.go GetDevices, GetScenes: whatever changes while the pages are fetched, the snapshot is true
\* of every device and of every home that nobody touched.
THEOREM SnapshotStaysTrue == MCSpec => []SnapshotIsTrue
  <1>1. AccountsInv => SnapshotIsTrue
    BY DEF AccountsInv, CatalogInv, SnapshotIsTrue
  <1>. QED
    BY <1>1, AccountsAreSound, PTL
=============================================================================
