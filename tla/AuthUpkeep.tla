------------------------------ MODULE AuthUpkeep ------------------------------
(***************************************************************************)
(* Keeping the account's token and the user's certificate fresh:           *)
(* RefreshOAuthInfo and RefreshUserCert (client.go) over the token store   *)
(* (client.go, storage.go), the OAuth client (oauth.go) and the            *)
(* certificate files (cert.go).  Both run when the network comes up and    *)
(* when their timers fire, so two of them may overlap; the process may     *)
(* crash in the middle of writing a file.                                  *)
(***************************************************************************)
EXTENDS Naturals, FiniteSets

CONSTANTS
  Tasks,      \* goroutines that refresh
  MaxToken,   \* tokens the server issues (bound)
  MaxKey,     \* keys that are generated (bound)
  MaxCrashes  \* crashes (bound)

Files == {"config", "ca", "key", "cert"}

VARIABLES
  file,       \* per file: its state and content (the token, the key, the key certified)
  issued,     \* the newest token of the server
  agedTokens, \* tokens within a minute of their ExpiresAt
  certAged,   \* the certificate is within 72 hours of its end
  cloudToken, pushToken, \* what the cloud client and the cloud push use
  oauthTimer, certTimer, \* scheduled
  keys,       \* keys generated
  replaced,   \* history: a readable key was taken for missing, and no certificate written since
  pc, loc,    \* per task: where it is, the token or key in hand
  goesOn,     \* per task: RefreshUserCert follows
  crashes, overlap \* history: two tasks did the same job at a time

disk == <<file, agedTokens, certAged>>
memory == <<cloudToken, pushToken, oauthTimer, certTimer>>
task == <<pc, loc, goesOn>>
upkeep == <<disk, issued, memory, keys, replaced, task, crashes, overlap>>

None == [state |-> "none", value |-> 0]
Empty == [state |-> "empty", value |-> 0]
Torn == [state |-> "torn", value |-> 0]
Whole(v) == [state |-> "whole", value |-> v]

OAuthSteps == {"load", "refresh", "auth", "push", "merge", "openConfig", "writeConfig"}
CertSteps == {"ca", "openCA", "writeCA", "cert", "key", "openKey", "writeKey", "central",
              "openCert", "writeCert", "again"}

TypeOK ==
  /\ \A f \in Files : file[f].state \in {"none", "empty", "torn", "whole"} /\ file[f].value \in 0..(MaxToken + MaxKey)
  /\ issued \in 1..MaxToken /\ agedTokens \subseteq 1..MaxToken /\ certAged \in BOOLEAN
  /\ cloudToken \in 0..MaxToken /\ pushToken \in 0..MaxToken
  /\ oauthTimer \in BOOLEAN /\ certTimer \in BOOLEAN /\ keys \in 0..MaxKey /\ replaced \in BOOLEAN
  /\ pc \in [Tasks -> {"idle"} \cup OAuthSteps \cup CertSteps]
  /\ loc \in [Tasks -> 0..(MaxToken + MaxKey)] /\ goesOn \in [Tasks -> BOOLEAN]
  /\ crashes \in 0..MaxCrashes /\ overlap \in BOOLEAN

\* After a login: the first token is stored and in use, there is no certificate yet.
Init ==
  /\ file = [f \in Files |-> IF f = "config" THEN Whole(1) ELSE None]
  /\ issued = 1 /\ agedTokens = {} /\ certAged = FALSE
  /\ cloudToken = 1 /\ pushToken = 1 /\ oauthTimer = FALSE /\ certTimer = FALSE
  /\ keys = 0 /\ replaced = FALSE /\ crashes = 0 /\ overlap = FALSE
  /\ pc = [t \in Tasks |-> "idle"] /\ loc = [t \in Tasks |-> 0] /\ goesOn = [t \in Tasks |-> FALSE]

-----------------------------------------------------------------------------
Goto(t, to) == pc' = [pc EXCEPT ![t] = to]
Hold(t, to, v) == Goto(t, to) /\ loc' = [loc EXCEPT ![t] = v]

\* The job of a task ends; after the token the network handler turns to the certificate.
End(t) ==
  /\ Hold(t, IF pc[t] \in OAuthSteps /\ goesOn[t] THEN "ca" ELSE "idle", 0)
  /\ goesOn' = [goesOn EXCEPT ![t] = FALSE]
  /\ overlap' = (overlap \/ (pc[t] \in OAuthSteps /\ goesOn[t] /\ \E o \in Tasks \ {t} : pc[o] \in CertSteps))

Begin(t, steps, first, more) ==
  /\ pc[t] = "idle" /\ Hold(t, first, 0) /\ goesOn' = [goesOn EXCEPT ![t] = more]
  /\ overlap' = (overlap \/ \E o \in Tasks \ {t} : pc[o] \in steps)

\* handleNetworkStatusChanged, online.
NetworkUp(t) ==
  /\ Begin(t, OAuthSteps, "load", TRUE)
  /\ UNCHANGED <<disk, issued, memory, keys, replaced, crashes>>

\* scheduleSingleTimer: the slot is cleared and the refresh runs.
OAuthTimerFires(t) ==
  /\ oauthTimer /\ oauthTimer' = FALSE /\ Begin(t, OAuthSteps, "load", FALSE)
  /\ UNCHANGED <<disk, issued, cloudToken, pushToken, certTimer, keys, replaced, crashes>>

CertTimerFires(t) ==
  /\ certTimer /\ certTimer' = FALSE /\ Begin(t, CertSteps, "ca", FALSE)
  /\ UNCHANGED <<disk, issued, cloudToken, pushToken, oauthTimer, keys, replaced, crashes>>

Quiet == UNCHANGED <<goesOn, overlap>>

-----------------------------------------------------------------------------
\* A token is refreshed within a minute of its ExpiresAt, which lies at 0.7 of its life.
NearExpiry(token) == token \in agedTokens

\* LoadOAuthToken: a missing, torn, empty or unreadable document is an error; a fresh token ends the
\* job.
Load(t) ==
  /\ pc[t] = "load"
  /\ \/ /\ file["config"].state = "whole" /\ NearExpiry(file["config"].value)
        /\ Hold(t, "refresh", file["config"].value) /\ Quiet
     \/ End(t)
  /\ UNCHANGED <<disk, issued, memory, keys, replaced, crashes>>

\* The server issues the next token, or refuses, or its answer is lost.
RefreshToken(t) ==
  /\ pc[t] = "refresh"
  /\ \/ issued < MaxToken /\ issued' = issued + 1 /\ Hold(t, "auth", issued + 1) /\ Quiet
     \/ issued < MaxToken /\ issued' = issued + 1 /\ End(t)
     \/ UNCHANGED issued /\ End(t)
  /\ UNCHANGED <<disk, memory, keys, replaced, crashes>>

\* Mutation of UpdateAuth: the cloud client keeps its token.
UpdateAuthLater(t) ==
  /\ pc[t] = "auth" /\ Goto(t, "push") /\ Quiet
  /\ UNCHANGED <<disk, issued, memory, keys, replaced, loc, crashes>>

UpdateAuth(t) ==
  /\ pc[t] = "auth" /\ cloudToken' = loc[t] /\ Goto(t, "push") /\ Quiet
  /\ UNCHANGED <<disk, issued, pushToken, oauthTimer, certTimer, keys, replaced, loc, crashes>>

\* RefreshAccessToken may fail: then the new token is not stored.
RefreshAccessToken(t) ==
  /\ pc[t] = "push"
  /\ \/ pushToken' = loc[t] /\ Goto(t, "merge") /\ UNCHANGED loc /\ Quiet
     \/ UNCHANGED pushToken /\ End(t)
  /\ UNCHANGED <<disk, issued, cloudToken, oauthTimer, certTimer, keys, replaced, crashes>>

\* SaveOAuthToken merges the token into the stored document, if it can read it.
Merge(t) ==
  /\ pc[t] = "merge"
  /\ \/ file["config"].state \in {"none", "whole"} /\ Goto(t, "openConfig") /\ UNCHANGED loc /\ Quiet
     \/ End(t)
  /\ UNCHANGED <<disk, issued, memory, keys, replaced, crashes>>

\* os.WriteFile truncates the file first, if it can open it.
Open(t, step, f, write) ==
  /\ pc[t] = step
  /\ \/ file' = [file EXCEPT ![f] = Empty] /\ Goto(t, write) /\ UNCHANGED loc /\ Quiet
     \/ UNCHANGED file /\ End(t)

OpenConfig(t) ==
  /\ Open(t, "openConfig", "config", "writeConfig")
  /\ UNCHANGED <<agedTokens, certAged, issued, memory, keys, replaced, crashes>>

WriteConfig(t) ==
  /\ pc[t] = "writeConfig" /\ file' = [file EXCEPT !["config"] = Whole(loc[t])] /\ End(t)
  /\ oauthTimer' = TRUE
  /\ UNCHANGED <<agedTokens, certAged, issued, cloudToken, pushToken, certTimer, keys, replaced, crashes>>

Written == [writeConfig |-> "config", writeCA |-> "ca", writeKey |-> "key", writeCert |-> "cert"]

\* The write fails half way (a full disk): the job ends with its error.
WriteFails(t) ==
  /\ pc[t] \in DOMAIN Written /\ End(t)
  /\ \E left \in {Empty, Torn} : file' = [file EXCEPT ![Written[pc[t]]] = left]
  /\ UNCHANGED <<agedTokens, certAged, issued, memory, keys, replaced, crashes>>

-----------------------------------------------------------------------------
\* VerifyCACert: only a missing file is written; a failed read, or any other content than the bundle,
\* is an error.
VerifyCACert(t) ==
  /\ pc[t] = "ca"
  /\ \/ file["ca"].state = "none" /\ Goto(t, "openCA") /\ UNCHANGED loc /\ Quiet
     \/ file["ca"].state = "whole" /\ Goto(t, "cert") /\ UNCHANGED loc /\ Quiet
     \/ End(t)
  /\ UNCHANGED <<disk, issued, memory, keys, replaced, crashes>>

OpenCA(t) == Open(t, "openCA", "ca", "writeCA") /\ UNCHANGED <<agedTokens, certAged, issued, memory, keys, replaced, crashes>>

\* What was written is read again.
WriteCA(t) ==
  /\ pc[t] = "writeCA" /\ file' = [file EXCEPT !["ca"] = Whole(0)]
  /\ \/ Goto(t, "cert") /\ UNCHANGED loc /\ Quiet
     \/ End(t)
  /\ UNCHANGED <<agedTokens, certAged, issued, memory, keys, replaced, crashes>>

\* UserCertRemaining: a certificate with more than the margin left is watched by the timer; one that
\* cannot be read is renewed.
UserCertRemaining(t) ==
  /\ pc[t] = "cert"
  /\ \/ file["cert"].state = "whole" /\ ~certAged /\ End(t) /\ certTimer' = TRUE
     \/ Goto(t, "key") /\ UNCHANGED <<loc, certTimer>> /\ Quiet
  /\ UNCHANGED <<disk, issued, cloudToken, pushToken, oauthTimer, keys, replaced, crashes>>

\* Mutation of LoadUserKey: a new key is generated for every request.
LoadUserKeyAnew(t) ==
  /\ pc[t] = "key" /\ keys < MaxKey /\ keys' = keys + 1
  /\ Hold(t, "openKey", keys + 1) /\ Quiet
  /\ UNCHANGED <<disk, issued, memory, replaced, crashes>>

\* LoadUserKey: any error of the read, not only a missing file, makes GenerateUserKey replace the
\* stored key; a torn one makes GenerateUserCSR fail, as GenerateUserKey itself may.
LoadUserKey(t) ==
  /\ pc[t] = "key"
  /\ \/ /\ keys < MaxKey /\ keys' = keys + 1 /\ Hold(t, "openKey", keys + 1) /\ Quiet
        /\ replaced' = (replaced \/ file["key"].state = "whole")
     \/ /\ file["key"].state = "whole" /\ Hold(t, "central", file["key"].value) /\ Quiet
        /\ UNCHANGED <<keys, replaced>>
     \/ End(t) /\ UNCHANGED <<keys, replaced>>
  /\ UNCHANGED <<disk, issued, memory, crashes>>

OpenKey(t) == Open(t, "openKey", "key", "writeKey") /\ UNCHANGED <<agedTokens, certAged, issued, memory, keys, replaced, crashes>>

WriteKey(t) ==
  /\ pc[t] = "writeKey" /\ file' = [file EXCEPT !["key"] = Whole(loc[t])] /\ Goto(t, "central") /\ Quiet
  /\ UNCHANGED <<agedTokens, certAged, issued, memory, keys, replaced, loc, crashes>>

\* GetCentralCert certifies the key of the request, or fails.
GetCentralCert(t) ==
  /\ pc[t] = "central"
  /\ \/ Goto(t, "openCert") /\ UNCHANGED loc /\ Quiet
     \/ End(t)
  /\ UNCHANGED <<disk, issued, memory, keys, replaced, crashes>>

OpenCert(t) == Open(t, "openCert", "cert", "writeCert") /\ UNCHANGED <<agedTokens, certAged, issued, memory, keys, replaced, crashes>>

\* UpdateUserCert.
WriteCert(t) ==
  /\ pc[t] = "writeCert" /\ file' = [file EXCEPT !["cert"] = Whole(loc[t])] /\ certAged' = FALSE
  /\ replaced' = FALSE /\ Goto(t, "again") /\ Quiet
  /\ UNCHANGED <<agedTokens, issued, memory, keys, loc, crashes>>

\* The new certificate is validated, and the timer set for its own margin.
Again(t) ==
  /\ pc[t] = "again" /\ End(t)
  /\ \/ UNCHANGED certTimer
     \/ file["cert"].state = "whole" /\ certTimer' = TRUE
  /\ UNCHANGED <<disk, issued, cloudToken, pushToken, oauthTimer, keys, replaced, crashes>>

-----------------------------------------------------------------------------
\* Time passes: a token or the certificate comes near its end.
Age ==
  /\ \/ \E n \in 1..issued \ agedTokens : agedTokens' = agedTokens \cup {n} /\ UNCHANGED certAged
     \/ ~certAged /\ file["cert"].state = "whole" /\ certAged' = TRUE /\ UNCHANGED agedTokens
  /\ UNCHANGED <<file, issued, memory, keys, replaced, task, crashes, overlap>>

\* What a crash leaves of a file: part of what was being written, or nothing of it.
Left(f, how) == IF file[f] = Empty /\ how THEN Torn ELSE file[f]

\* The process crashes and starts again with the token it finds.
Crash ==
  /\ crashes < MaxCrashes /\ crashes' = crashes + 1
  /\ \E how \in BOOLEAN : file' = [f \in Files |-> Left(f, how)]
  /\ cloudToken' = file["config"].value /\ pushToken' = file["config"].value
  /\ oauthTimer' = FALSE /\ certTimer' = FALSE
  /\ pc' = [t \in Tasks |-> "idle"] /\ loc' = [t \in Tasks |-> 0] /\ goesOn' = [t \in Tasks |-> FALSE]
  /\ UNCHANGED <<agedTokens, certAged, issued, keys, replaced, overlap>>

OAuth(t) ==
  \/ Load(t) \/ RefreshToken(t) \/ UpdateAuth(t) \/ RefreshAccessToken(t) \/ Merge(t) \/ OpenConfig(t)
  \/ WriteConfig(t) \/ WriteFails(t)
Cert(t) ==
  \/ VerifyCACert(t) \/ OpenCA(t) \/ WriteCA(t) \/ UserCertRemaining(t) \/ LoadUserKey(t) \/ OpenKey(t)
  \/ WriteKey(t) \/ GetCentralCert(t) \/ OpenCert(t) \/ WriteCert(t) \/ Again(t)

Next ==
  \/ Age \/ Crash
  \/ \E t \in Tasks : NetworkUp(t) \/ OAuthTimerFires(t) \/ CertTimerFires(t) \/ OAuth(t) \/ Cert(t)

Spec == Init /\ [][Next]_upkeep

-----------------------------------------------------------------------------
\* A token that is stored is used by the cloud client and the push; a failure on the way leaves the
\* older one stored (RefreshOAuthInfo), unless two refreshes overlap.
StoredIsUsed ==
  file["config"].state = "whole" /\ ~overlap =>
    cloudToken >= file["config"].value /\ (pushToken >= file["config"].value)

\* The stored certificate certifies the stored key, through failed writes, refused requests and crashes
\* (RefreshUserCert), unless two refreshes overlap or the read of a good key failed and no certificate
\* was written since: the new key is stored at once, the certificate for it only at the end.
PairMatches ==
  file["cert"].state = "whole" /\ ~overlap /\ ~replaced =>
    file["key"].state = "whole" /\ file["cert"].value = file["key"].value

\* Expected of the code but not kept by it (README, "What the code does not keep"):
\* the pair matches whenever no refresh is under way: two overlapping refreshes may both generate a
\* key, and a refresh that cannot read the stored key replaces it and may fail before it stores the
\* certificate for the new one (client.go:1056-1072 has no lock and stores the key first).
PairAlwaysMatches ==
  file["cert"].state = "whole" /\ (\A t \in Tasks : pc[t] \notin CertSteps) =>
    file["key"].state = "whole" /\ file["cert"].value = file["key"].value

\* Expected of the code but not kept by it (README, "What the code does not keep"):
\* "RefreshOAuthInfo refreshes OAuth credentials when they are near expiry" (client.go:1005): a
\* token that is fresh when the network comes up, or a refresh that failed, is never looked at again.
TokenIsWatched ==
  [][\A t \in Tasks : pc[t] \in OAuthSteps /\ pc'[t] \notin OAuthSteps /\ crashes' = crashes => oauthTimer']_upkeep

\* Expected of the code but not kept by it (README, "What the code does not keep"):
\* "VerifyCACert ensures the bundled CA file exists and matches" (cert.go:112) and the key is usable:
\* a file torn by a crash is not replaced, every later refresh gives up at it.
TornIsReplaced ==
  [][\A t \in Tasks : pc[t] \in {"ca", "key"} /\ pc'[t] = "idle" /\ crashes' = crashes =>
       file["ca"] # Torn /\ file["key"] # Torn]_upkeep
=============================================================================
