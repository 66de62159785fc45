---------------------------- MODULE LanControl_proofs ----------------------------
(***************************************************************************)
(* Proofs about the two parts of MCLanControl: what decides whether        *)
(* LANClient runs (LanControl) and the uplink messages it handles          *)
(* (LanUplink), for any number of voters, runtimes, read loops and         *)
(* messages.                                                               *)
(***************************************************************************)
EXTENDS MCLanControl, TLAPS

(* The control of LAN *)

ControlTypes ==
  /\ enabled \in BOOLEAN /\ gateway \in BOOLEAN /\ online \in BOOLEAN
  /\ request \in BOOLEAN /\ disturbed \in BOOLEAN
  /\ votes \in [Voters -> BOOLEAN]
  /\ current \in Runtimes \cup {None} /\ listening \in Runtimes \cup {None}
  /\ open \subseteq Runtimes
  /\ scanner \in [Runtimes -> {"none", "waiting", "pinging", "cancelled", "pinging cancelled"}]
  /\ pc \in [Threads -> Steps] /\ tell \in [Threads -> SUBSET BOOLEAN]
  /\ took \in [Threads -> [runtime : Runtimes \cup {None}, listener : Runtimes \cup {None}]]
  /\ told \in SUBSET BOOLEAN
  /\ started \in {"none", "ok", "failed"}
  /\ (current = None) = (listening = None)

\* The steps of stopRuntime after it has taken the runtime.
Stopping == {"cancel", "wait", "close"}

\* What a goroutine has taken and has to tell, by its step.
CarriesOnly ==
  \A t \in Threads :
    /\ pc[t] \notin Stopping => took[t] = Nothing
    /\ pc[t] = "cancel" => took[t].runtime \in Runtimes
    /\ pc[t] \in {"tellStart", "readGateway", "disable"} => t = "owner"
    /\ pc[t] = "idle" \/ (t = "owner" /\ pc[t] \notin {"tell", "tellStart"}) => tell[t] = Silence

\* Every scan goroutine is the current one or is waited for, cancelled or not.
ScansAreHeld ==
  \A r \in Runtimes : Alive(r) =>
    r = current \/ \E t \in Threads : pc[t] \in {"cancel", "wait"} /\ took[t].runtime = r

\* What RuntimeObeys demands of the flags and the runtime.
Right ==
  /\ ~Allowed => current = None /\ ~online
  /\ Allowed /\ started = "ok" => current # None

\* What a call knows while nothing disturbs it, by its step.
KnowsWhy(t) ==
  /\ pc[t] = "start" => Allowed
  /\ pc[t] \in Stopping \cup {"stop", "mark"} /\ t # "owner" => ~Allowed
  /\ pc[t] \in Stopping \cup {"mark", "disable"} => current = None
  /\ pc[t] = "disable" => ~online
  /\ pc[t] \in {"tellStart", "readGateway"} => enabled /\ (gateway => current = None /\ ~online)
  /\ pc[t] = "tell" => Right

\* As long as nothing disturbed them: calls come one at a time and with no request in flight.
OneCall ==
  /\ \A t, u \in Threads : pc[t] # "idle" /\ pc[u] # "idle" => t = u
  /\ request => Quiet /\ Allowed

\* ... and each leaves the runtime as the flags want it.
CallsAreRight == (Quiet => Right) /\ \A t \in Threads : KnowsWhy(t)

\* ... and what a call has to tell, or has told last, is the truth.
TellsTheTruth ==
  /\ \A t \in Threads : tell[t] # Silence => tell[t] = {Allowed}
  /\ (\A t \in Threads : tell[t] = Silence) /\ told # Silence => told = {Allowed}

ControlInv ==
  /\ ControlTypes /\ CarriesOnly /\ ScansAreHeld /\ NothingLeaks
  /\ ~disturbed => OneCall /\ CallsAreRight /\ TellsTheTruth

-----------------------------------------------------------------------------
LEMMA ControlInit == Init => ControlInv
  <1>. SUFFICES ASSUME Init PROVE ControlInv
    OBVIOUS
  <1>1. ControlTypes
    <2>1. Nothing \in [runtime : Runtimes \cup {None}, listener : Runtimes \cup {None}]
      BY DEF Nothing
    <2>. QED
      BY <2>1 DEF Init, ControlTypes, Steps, Silence
  <1>2. CarriesOnly /\ ScansAreHeld /\ NothingLeaks
    BY DEF Init, CarriesOnly, Stopping, ScansAreHeld, Alive, NothingLeaks
  <1>3. OneCall /\ CallsAreRight /\ TellsTheTruth
    BY DEF Init, OneCall, CallsAreRight, KnowsWhy, Stopping, Right, Allowed, TellsTheTruth
  <1>. QED
    BY <1>1, <1>2, <1>3 DEF ControlInv

-----------------------------------------------------------------------------
(* Types, and what the goroutines carry *)

\* One goroutine moves.
Alone(t) ==
  \A u \in Threads \ {t} : pc'[u] = pc[u] /\ took'[u] = took[u] /\ tell'[u] = tell[u]

LEMMA SayTypes ==
  ControlTypes /\ enabled' \in BOOLEAN /\ gateway' \in BOOLEAN =>
    \A t \in Threads :
      /\ Say(t, {Allowed'}) => tell' \in [Threads -> SUBSET BOOLEAN]
      /\ SayChange(t) => tell' \in [Threads -> SUBSET BOOLEAN]
  <1>. SUFFICES ASSUME ControlTypes, enabled' \in BOOLEAN, gateway' \in BOOLEAN, NEW t \in Threads
                PROVE  /\ Say(t, {Allowed'}) => tell' \in [Threads -> SUBSET BOOLEAN]
                       /\ SayChange(t) => tell' \in [Threads -> SUBSET BOOLEAN]
    OBVIOUS
  <1>1. {Allowed'} \in SUBSET BOOLEAN /\ Silence \in SUBSET BOOLEAN
    BY DEF Allowed, Silence
  <1>2. \A x \in SUBSET BOOLEAN : [tell EXCEPT ![t] = x] \in [Threads -> SUBSET BOOLEAN]
    BY DEF ControlTypes
  <1>. QED
    BY <1>1, <1>2 DEF Say, SayChange

LEMMA ControlTypesStep ==
  ControlInv /\ [Next]_vars => ControlTypes'
  <1>. SUFFICES ASSUME ControlInv, [Next]_vars PROVE ControlTypes'
    OBVIOUS
  <1>. USE DEF ControlInv, ControlTypes, Steps, Silence
  <1>1. ASSUME NEW v \in Voters, NEW vote \in BOOLEAN,
               VoteForLANControl(v, vote)
        PROVE  ControlTypes'
    <2>1. enabled' \in BOOLEAN /\ gateway' \in BOOLEAN
      BY <1>1 DEF VoteForLANControl
    <2>2. tell' \in [Threads -> SUBSET BOOLEAN]
      BY <1>1, <2>1, SayTypes DEF VoteForLANControl, Threads
    <2>3. /\ votes' \in [Voters -> BOOLEAN] /\ disturbed' \in BOOLEAN
          /\ pc' \in [Threads -> Steps]
      BY <1>1 DEF VoteForLANControl, CallBegins, Goto, Threads
    <2>. QED
      BY <1>1, <2>1, <2>2, <2>3 DEF VoteForLANControl, runtime
  <1>2. ASSUME NEW present \in BOOLEAN, setCentralGatewayPresent(present) PROVE ControlTypes'
    <2>1. enabled' \in BOOLEAN /\ gateway' \in BOOLEAN
      BY <1>2 DEF setCentralGatewayPresent
    <2>2. tell' \in [Threads -> SUBSET BOOLEAN]
      BY <1>2, <2>1, SayTypes DEF setCentralGatewayPresent, Threads
    <2>3. /\ votes' \in [Voters -> BOOLEAN] /\ disturbed' \in BOOLEAN
          /\ pc' \in [Threads -> Steps]
      BY <1>2 DEF setCentralGatewayPresent, CallBegins, Goto, Threads
    <2>. QED
      BY <1>2, <2>1, <2>2, <2>3 DEF setCentralGatewayPresent, runtime
  <1>3. CASE Start
    <2>1. enabled' \in BOOLEAN /\ gateway' \in BOOLEAN
      BY <1>3 DEF Start
    <2>2. tell' \in [Threads -> SUBSET BOOLEAN]
      BY <1>3, <2>1, SayTypes DEF Start, Threads
    <2>3. /\ votes' \in [Voters -> BOOLEAN] /\ disturbed' \in BOOLEAN
          /\ pc' \in [Threads -> Steps]
      BY <1>3 DEF Start, CallBegins, Goto, Threads
    <2>. QED
      BY <1>3, <2>1, <2>2, <2>3 DEF Start, runtime
  <1>4. CASE CloseDisables
    <2>1. enabled' \in BOOLEAN /\ gateway' \in BOOLEAN
      BY <1>4 DEF CloseDisables
    <2>2. tell' \in [Threads -> SUBSET BOOLEAN]
      BY <1>4, <2>1, SayTypes DEF CloseDisables, Threads
    <2>3. /\ votes' \in [Voters -> BOOLEAN] /\ disturbed' \in BOOLEAN
          /\ pc' \in [Threads -> Steps]
      BY <1>4 DEF CloseDisables, CallBegins, Goto, Threads
    <2>. QED
      BY <1>4, <2>1, <2>2, <2>3 DEF CloseDisables, runtime
  <1>5. ASSUME NEW t \in Threads, TellSubscribers(t) PROVE ControlTypes'
    BY <1>5, LanControlConstants
    DEF TellSubscribers, Goto, Say, flags, runtime, threads, Nothing
  <1>6. ASSUME NEW t \in Threads, startRuntime(t) PROVE ControlTypes'
    BY <1>6, LanControlConstants, ZenonT(60)
    DEF startRuntime, Goto, Report, RuntimeStarts, ListenFails, FreshRuntimes, Unused, flags,
        runtime, threads, Nothing
  <1>7. ASSUME NEW t \in Threads, stopRuntime(t) PROVE ControlTypes'
    BY <1>7, LanControlConstants
    DEF stopRuntime, Goto, Say, flags, runtime, threads, Nothing
  <1>8. ASSUME NEW t \in Threads, CancelRuntime(t) PROVE ControlTypes'
    BY <1>8, LanControlConstants
    DEF CancelRuntime, Goto, Say, flags, runtime, threads, Nothing
  <1>9. ASSUME NEW t \in Threads, CloseListener(t) PROVE ControlTypes'
    BY <1>9, LanControlConstants
    DEF CloseListener, Goto, Say, flags, runtime, threads, Nothing
  <1>10. ASSUME NEW r \in Runtimes, scanDevices(r) PROVE ControlTypes'
    BY <1>10, LanControlConstants
    DEF scanDevices, flags, runtime, threads, Nothing
  <1>11. ASSUME NEW r \in Runtimes, PingEnds(r) PROVE ControlTypes'
    BY <1>11, LanControlConstants
    DEF PingEnds, flags, runtime, threads, Nothing
  <1>12. CASE Close \/ StartReadsGateway \/ handleRuntimePacket \/ RequestBegins
    BY <1>12, LanControlConstants
    DEF Close, CallBegins, Goto, Say, SayChange, flags, runtime, threads, StartReadsGateway,
        handleRuntimePacket, RequestBegins, Nothing
  <1>13. CASE RequestEnds
    BY <1>13, LanControlConstants
    DEF RequestEnds, flags, runtime, threads, Nothing
  <1>14. ASSUME NEW t \in Threads,
               WaitForScan(t) \/ markAllDevicesOffline(t)
        PROVE  ControlTypes'
    BY <1>14, LanControlConstants
    DEF WaitForScan, Goto, Say, flags, runtime, threads, markAllDevicesOffline, Nothing
  <1>15. ASSUME NEW r \in Runtimes, ScanEnds(r) PROVE ControlTypes'
    BY <1>15, LanControlConstants
    DEF ScanEnds, flags, runtime, threads, Nothing
  <1>16. CASE UNCHANGED vars
    BY <1>16
    DEF vars, flags, runtime, threads, Nothing
  <1>. HIDE DEF ControlInv, ControlTypes, Steps, Silence
  <1>. QED
    BY <1>1, <1>2, <1>3, <1>4, <1>5, <1>6, <1>7, <1>8, <1>9, <1>10, <1>11, <1>12, <1>13, <1>14,
       <1>15, <1>16
    DEF Next, ThreadStep

LEMMA CarriesStep ==
  ControlInv /\ [Next]_vars => CarriesOnly'
  <1>. SUFFICES ASSUME ControlInv, [Next]_vars PROVE CarriesOnly'
    OBVIOUS
  <1>. USE DEF ControlInv, ControlTypes, CarriesOnly, Steps, Stopping, Silence, Nothing
  <1>1. ASSUME NEW v \in Voters, NEW vote \in BOOLEAN,
               VoteForLANControl(v, vote)
        PROVE  CarriesOnly'
    BY <1>1, LanControlConstants
    DEF VoteForLANControl, CallBegins, Goto, Say, SayChange, flags, runtime, threads
  <1>2. ASSUME NEW present \in BOOLEAN, setCentralGatewayPresent(present) PROVE CarriesOnly'
    BY <1>2, LanControlConstants
    DEF setCentralGatewayPresent, CallBegins, Goto, Say, SayChange, flags, runtime, threads
  <1>3. CASE Start
    BY <1>3, LanControlConstants
    DEF Start, CallBegins, Goto, Say, SayChange, flags, runtime, threads
  <1>4. CASE Close
    BY <1>4, LanControlConstants
    DEF Close, CallBegins, Goto, Say, SayChange, flags, runtime, threads
  <1>5. CASE CloseDisables
    BY <1>5, LanControlConstants
    DEF CloseDisables, Goto, Say, SayChange, flags, runtime, threads
  <1>6. CASE StartReadsGateway
    BY <1>6, LanControlConstants
    DEF StartReadsGateway, Goto, Say, flags, runtime, threads
  <1>7. ASSUME NEW t \in Threads, TellSubscribers(t) PROVE CarriesOnly'
    BY <1>7, LanControlConstants
    DEF TellSubscribers, Goto, Say, flags, runtime, threads
  <1>8. ASSUME NEW t \in Threads, startRuntime(t) PROVE CarriesOnly'
    BY <1>8, LanControlConstants
    DEF startRuntime, Goto, Report, RuntimeStarts, ListenFails, FreshRuntimes, Unused, flags,
        runtime, threads
  <1>9. ASSUME NEW t \in Threads, stopRuntime(t) PROVE CarriesOnly'
    BY <1>9, LanControlConstants
    DEF stopRuntime, Goto, Say, flags, runtime, threads
  <1>10. ASSUME NEW t \in Threads, CancelRuntime(t) PROVE CarriesOnly'
    BY <1>10, LanControlConstants
    DEF CancelRuntime, Goto, Say, flags, runtime, threads
  <1>11. ASSUME NEW t \in Threads, WaitForScan(t) PROVE CarriesOnly'
    BY <1>11, LanControlConstants
    DEF WaitForScan, Goto, Say, flags, runtime, threads
  <1>12. ASSUME NEW t \in Threads, CloseListener(t) PROVE CarriesOnly'
    BY <1>12, LanControlConstants
    DEF CloseListener, Goto, Say, flags, runtime, threads
  <1>13. ASSUME NEW t \in Threads, markAllDevicesOffline(t) PROVE CarriesOnly'
    BY <1>13, LanControlConstants
    DEF markAllDevicesOffline, Goto, Say, flags, runtime, threads
  <1>14. ASSUME NEW r \in Runtimes,
               scanDevices(r) \/ PingEnds(r) \/ ScanEnds(r)
        PROVE  CarriesOnly'
    BY <1>14, LanControlConstants, ZenonT(60)
    DEF scanDevices, flags, runtime, threads, PingEnds, ScanEnds
  <1>15. CASE handleRuntimePacket \/ RequestBegins \/ RequestEnds
    BY <1>15, LanControlConstants
    DEF handleRuntimePacket, flags, runtime, threads, RequestBegins, RequestEnds
  <1>16. CASE UNCHANGED vars
    BY <1>16
    DEF vars, flags, runtime, threads
  <1>. HIDE DEF ControlInv, ControlTypes, CarriesOnly, Steps, Stopping, Silence, Nothing
  <1>. QED
    BY <1>1, <1>2, <1>3, <1>4, <1>5, <1>6, <1>7, <1>8, <1>9, <1>10, <1>11, <1>12, <1>13, <1>14,
       <1>15, <1>16
    DEF Next, ThreadStep

-----------------------------------------------------------------------------
(* Nothing leaks *)

\* Who holds a scan goroutine, or an uncancelled one, or a listener, but for other goroutines.
HoldsScan(t, r) == r = current \/ (pc[t] \in {"cancel", "wait"} /\ took[t].runtime = r)
HoldsLive(t, r) == r = current \/ (pc[t] = "cancel" /\ took[t].runtime = r)
HoldsListener(t, r) == r = listening \/ took[t].listener = r
Live(r) == scanner[r] \in {"waiting", "pinging"}

\* What is alive after a step of goroutine t is in its hands, or was in another's before.
LetsNothingGo(t) ==
  \A r \in Runtimes :
    /\ Alive(r)' => HoldsScan(t, r)' \/ (Alive(r) /\ ~HoldsScan(t, r))
    /\ Live(r)' => HoldsLive(t, r)' \/ (Live(r) /\ ~HoldsLive(t, r))
    /\ r \in open' => HoldsListener(t, r)' \/ (r \in open /\ ~HoldsListener(t, r))

LEMMA HoldsStep ==
  ControlInv /\ [Next]_vars => (ScansAreHeld /\ NothingLeaks)'
  <1>. SUFFICES ASSUME ControlInv, [Next]_vars PROVE (ScansAreHeld /\ NothingLeaks)'
    OBVIOUS
  <1>. USE DEF ControlInv
  <1>a. ASSUME NEW t \in Threads, Alone(t), LetsNothingGo(t) PROVE (ScansAreHeld /\ NothingLeaks)'
    <2>1. ScansAreHeld'
      BY <1>a DEF Alone, LetsNothingGo, HoldsScan, ScansAreHeld
    <2>2. ASSUME NEW r \in Runtimes, Live(r)'
          PROVE  (r = current \/ \E u \in Threads : pc[u] = "cancel" /\ took[u].runtime = r)'
      <3>1. CASE HoldsLive(t, r)'
        BY <3>1 DEF HoldsLive
      <3>2. CASE Live(r) /\ ~HoldsLive(t, r)
        BY <1>a, <3>2 DEF Alone, HoldsLive, Live, NothingLeaks
      <3>. QED
        BY <1>a, <2>2, <3>1, <3>2 DEF LetsNothingGo
    <2>3. ASSUME NEW r \in open'
          PROVE  (r = listening \/ \E u \in Threads : took[u].listener = r)'
      <3>1. CASE HoldsListener(t, r)'
        BY <3>1 DEF HoldsListener
      <3>2. CASE r \in open /\ ~HoldsListener(t, r)
        BY <1>a, <3>2 DEF Alone, HoldsListener, NothingLeaks
      <3>. QED
        BY <1>a, <2>3, <3>1, <3>2, ControlTypesStep DEF LetsNothingGo, ControlTypes
    <2>. QED
      BY <2>1, <2>2, <2>3 DEF NothingLeaks, Live
  <1>b. ASSUME UNCHANGED <<pc, took, current, listening>>, open' \subseteq open,
               \A r \in Runtimes : (Alive(r)' => Alive(r)) /\ (Live(r)' => Live(r))
        PROVE  (ScansAreHeld /\ NothingLeaks)'
    <2>1. ScansAreHeld'
      BY <1>b DEF ScansAreHeld
    <2>2. NothingLeaks'
      BY <1>b DEF NothingLeaks, Live
    <2>. QED
      BY <2>1, <2>2
  <1>1. ASSUME NEW v \in Voters, NEW vote \in BOOLEAN,
               VoteForLANControl(v, vote)
        PROVE  (ScansAreHeld /\ NothingLeaks)'
    <2>1. Alone("voter") /\ "voter" \in Threads
      BY <1>1 DEF VoteForLANControl, CallBegins, Goto, Say, SayChange, flags, runtime, threads,
               Alone, ControlTypes, Threads
    <2>2. LetsNothingGo("voter")
      BY <1>1, LanControlConstants
      DEF VoteForLANControl, CallBegins, Goto, Say, SayChange, flags, runtime, threads, Alone,
          LetsNothingGo, HoldsScan, HoldsLive, HoldsListener, Live, Alive, CarriesOnly,
          ControlTypes, Stopping, Nothing, Threads
    <2>. QED
      BY <2>1, <2>2, <1>a
  <1>2. ASSUME NEW present \in BOOLEAN,
               setCentralGatewayPresent(present)
        PROVE  (ScansAreHeld /\ NothingLeaks)'
    <2>1. Alone("discovery") /\ "discovery" \in Threads
      BY <1>2 DEF setCentralGatewayPresent, CallBegins, Goto, Say, SayChange, flags, runtime,
               threads, Alone, ControlTypes, Threads
    <2>2. LetsNothingGo("discovery")
      BY <1>2, LanControlConstants
      DEF setCentralGatewayPresent, CallBegins, Goto, Say, SayChange, flags, runtime, threads,
          Alone, LetsNothingGo, HoldsScan, HoldsLive, HoldsListener, Live, Alive, CarriesOnly,
          ControlTypes, Stopping, Nothing, Threads
    <2>. QED
      BY <2>1, <2>2, <1>a
  <1>3. CASE Start
    <2>1. Alone("owner") /\ "owner" \in Threads
      BY <1>3 DEF Start, CallBegins, Goto, Say, SayChange, flags, runtime, threads, Alone,
               ControlTypes, Threads
    <2>2. LetsNothingGo("owner")
      BY <1>3, LanControlConstants
      DEF Start, CallBegins, Goto, Say, SayChange, flags, runtime, threads, Alone,
          LetsNothingGo, HoldsScan, HoldsLive, HoldsListener, Live, Alive, CarriesOnly,
          ControlTypes, Stopping, Nothing, Threads
    <2>. QED
      BY <2>1, <2>2, <1>a
  <1>4. CASE Close
    <2>1. Alone("owner") /\ "owner" \in Threads
      BY <1>4 DEF Close, CallBegins, Goto, Say, SayChange, flags, runtime, threads, Alone,
               ControlTypes, Threads
    <2>2. LetsNothingGo("owner")
      BY <1>4, LanControlConstants
      DEF Close, CallBegins, Goto, Say, SayChange, flags, runtime, threads, Alone,
          LetsNothingGo, HoldsScan, HoldsLive, HoldsListener, Live, Alive, CarriesOnly,
          ControlTypes, Stopping, Nothing, Threads
    <2>. QED
      BY <2>1, <2>2, <1>a
  <1>5. CASE CloseDisables
    <2>1. Alone("owner") /\ "owner" \in Threads
      BY <1>5 DEF CloseDisables, Goto, Say, SayChange, flags, runtime, threads, Alone,
               ControlTypes, Threads
    <2>2. LetsNothingGo("owner")
      BY <1>5, LanControlConstants
      DEF CloseDisables, Goto, Say, SayChange, flags, runtime, threads, Alone, LetsNothingGo,
          HoldsScan, HoldsLive, HoldsListener, Live, Alive, CarriesOnly, ControlTypes, Stopping,
          Nothing, Threads
    <2>. QED
      BY <2>1, <2>2, <1>a
  <1>6. CASE StartReadsGateway
    <2>1. Alone("owner") /\ "owner" \in Threads
      BY <1>6 DEF StartReadsGateway, Goto, Say, flags, runtime, threads, Alone, ControlTypes,
               Threads
    <2>2. LetsNothingGo("owner")
      BY <1>6, LanControlConstants
      DEF StartReadsGateway, Goto, Say, flags, runtime, threads, Alone, LetsNothingGo,
          HoldsScan, HoldsLive, HoldsListener, Live, Alive, CarriesOnly, ControlTypes, Stopping,
          Nothing, Threads
    <2>. QED
      BY <2>1, <2>2, <1>a
  <1>7. ASSUME NEW t \in Threads, TellSubscribers(t) PROVE (ScansAreHeld /\ NothingLeaks)'
    <2>1. Alone(t) /\ t \in Threads
      BY <1>7 DEF TellSubscribers, Goto, Say, flags, runtime, threads, Alone, ControlTypes, Threads
    <2>2. LetsNothingGo(t)
      BY <1>7, LanControlConstants
      DEF TellSubscribers, Goto, Say, flags, runtime, threads, Alone, LetsNothingGo, HoldsScan,
          HoldsLive, HoldsListener, Live, Alive, CarriesOnly, ControlTypes, Stopping, Nothing,
          Threads
    <2>. QED
      BY <2>1, <2>2, <1>a
  <1>8. ASSUME NEW t \in Threads, startRuntime(t) PROVE (ScansAreHeld /\ NothingLeaks)'
    <2>1. Alone(t)
      BY <1>8 DEF startRuntime, Goto, runtime, Alone, ControlTypes
    <2>2. CASE UNCHANGED runtime
      <3>1. pc[t] = "start" /\ took' = took
        BY <1>8 DEF startRuntime
      <3>2. LetsNothingGo(t)
        BY <2>2, <3>1 DEF LetsNothingGo, HoldsScan, HoldsLive, HoldsListener, Live, Alive, runtime
      <3>. QED
        BY <2>1, <3>2, <1>a
    <2>3. ASSUME NEW r \in FreshRuntimes, RuntimeStarts(r)
          PROVE  (ScansAreHeld /\ NothingLeaks)'
      <3>1. pc[t] = "start" /\ took' = took /\ listening = None
        BY <1>8, <2>3 DEF startRuntime, RuntimeStarts, ControlTypes
      <3>2. LetsNothingGo(t)
        BY <2>3, <3>1, LanControlConstants
        DEF RuntimeStarts, LetsNothingGo, HoldsScan, HoldsLive, HoldsListener, Live, Alive,
            ControlTypes
      <3>. QED
        BY <2>1, <3>2, <1>a
    <2>. QED
      BY <1>8, <2>2, <2>3 DEF startRuntime, ListenFails
  <1>9. ASSUME NEW t \in Threads, stopRuntime(t) PROVE (ScansAreHeld /\ NothingLeaks)'
    <2>1. Alone(t)
      BY <1>9 DEF stopRuntime, Goto, Alone, ControlTypes
    <2>2. /\ pc[t] = "stop" /\ took'[t].runtime = current /\ took'[t].listener = listening
          /\ current' = None /\ listening' = None /\ UNCHANGED <<open, scanner>>
          /\ pc'[t] = IF current = None THEN "close" ELSE "cancel"
      BY <1>9 DEF stopRuntime, Goto, ControlTypes
    <2>3. took[t].runtime = None /\ took[t].listener = None
      BY <2>2 DEF CarriesOnly, Stopping, Nothing
    <2>4. LetsNothingGo(t)
      BY <2>2, <2>3, LanControlConstants
      DEF LetsNothingGo, HoldsScan, HoldsLive, HoldsListener, Live, Alive, ControlTypes
    <2>. QED
      BY <2>1, <2>4, <1>a
  <1>10. ASSUME NEW t \in Threads, CancelRuntime(t) PROVE (ScansAreHeld /\ NothingLeaks)'
    <2>1. Alone(t) /\ t \in Threads
      BY <1>10 DEF CancelRuntime, Goto, Say, flags, runtime, threads, Alone, ControlTypes, Threads
    <2>2. LetsNothingGo(t)
      BY <1>10, LanControlConstants
      DEF CancelRuntime, Goto, Say, flags, runtime, threads, Alone, LetsNothingGo, HoldsScan,
          HoldsLive, HoldsListener, Live, Alive, CarriesOnly, ControlTypes, Stopping, Nothing,
          Threads
    <2>. QED
      BY <2>1, <2>2, <1>a
  <1>11. ASSUME NEW t \in Threads, WaitForScan(t) PROVE (ScansAreHeld /\ NothingLeaks)'
    <2>1. Alone(t) /\ t \in Threads
      BY <1>11 DEF WaitForScan, Goto, Say, flags, runtime, threads, Alone, ControlTypes, Threads
    <2>2. LetsNothingGo(t)
      BY <1>11, LanControlConstants
      DEF WaitForScan, Goto, Say, flags, runtime, threads, Alone, LetsNothingGo, HoldsScan,
          HoldsLive, HoldsListener, Live, Alive, CarriesOnly, ControlTypes, Stopping, Nothing,
          Threads
    <2>. QED
      BY <2>1, <2>2, <1>a
  <1>12. ASSUME NEW t \in Threads, CloseListener(t) PROVE (ScansAreHeld /\ NothingLeaks)'
    <2>1. Alone(t) /\ t \in Threads
      BY <1>12 DEF CloseListener, Goto, Say, flags, runtime, threads, Alone, ControlTypes, Threads
    <2>2. LetsNothingGo(t)
      BY <1>12, LanControlConstants
      DEF CloseListener, Goto, Say, flags, runtime, threads, Alone, LetsNothingGo, HoldsScan,
          HoldsLive, HoldsListener, Live, Alive, CarriesOnly, ControlTypes, Stopping, Nothing,
          Threads
    <2>. QED
      BY <2>1, <2>2, <1>a
  <1>13. ASSUME NEW t \in Threads,
               markAllDevicesOffline(t)
        PROVE  (ScansAreHeld /\ NothingLeaks)'
    <2>1. Alone(t) /\ t \in Threads
      BY <1>13 DEF markAllDevicesOffline, Goto, Say, flags, runtime, threads, Alone, ControlTypes,
               Threads
    <2>2. LetsNothingGo(t)
      BY <1>13, LanControlConstants
      DEF markAllDevicesOffline, Goto, Say, flags, runtime, threads, Alone, LetsNothingGo,
          HoldsScan, HoldsLive, HoldsListener, Live, Alive, CarriesOnly, ControlTypes, Stopping,
          Nothing, Threads
    <2>. QED
      BY <2>1, <2>2, <1>a
  <1>14. ASSUME NEW r \in Runtimes, scanDevices(r) PROVE (ScansAreHeld /\ NothingLeaks)'
    <2>1. \A q \in Runtimes : (Alive(q)' => Alive(q)) /\ (Live(q)' => Live(q))
      BY <1>14 DEF scanDevices, Alive, Live, ControlTypes
    <2>. QED
      BY <1>14, <2>1, <1>b DEF scanDevices, threads
  <1>15. ASSUME NEW r \in Runtimes, PingEnds(r) PROVE (ScansAreHeld /\ NothingLeaks)'
    <2>1. \A q \in Runtimes : (Alive(q)' => Alive(q)) /\ (Live(q)' => Live(q))
      BY <1>15 DEF PingEnds, Alive, Live, ControlTypes
    <2>. QED
      BY <1>15, <2>1, <1>b DEF PingEnds, threads
  <1>16. ASSUME NEW r \in Runtimes, ScanEnds(r) PROVE (ScansAreHeld /\ NothingLeaks)'
    <2>1. \A q \in Runtimes : (Alive(q)' => Alive(q)) /\ (Live(q)' => Live(q))
      BY <1>16 DEF ScanEnds, Alive, Live, ControlTypes
    <2>. QED
      BY <1>16, <2>1, <1>b DEF ScanEnds, threads
  <1>17. CASE handleRuntimePacket
    BY <1>17, <1>b DEF handleRuntimePacket, runtime, threads, Alive, Live
  <1>18. CASE RequestBegins
    BY <1>18, <1>b DEF RequestBegins, runtime, threads, Alive, Live
  <1>19. CASE RequestEnds
    BY <1>19, <1>b DEF RequestEnds, runtime, threads, Alive, Live
  <1>20. CASE UNCHANGED vars
    BY <1>20, <1>b
    DEF vars, flags, runtime, threads, Alive, Live
  <1>. HIDE DEF ControlInv
  <1>. QED
    BY <1>1, <1>2, <1>3, <1>4, <1>5, <1>6, <1>7, <1>8, <1>9, <1>10, <1>11, <1>12, <1>13, <1>14,
       <1>15, <1>16, <1>17, <1>18, <1>19, <1>20
    DEF Next, ThreadStep

-----------------------------------------------------------------------------
(* What holds while nothing disturbs the calls *)

LEMMA DisturbedStays == ControlTypes /\ [Next]_vars /\ ~disturbed' => ~disturbed
  <1>. SUFFICES ASSUME ControlTypes, [Next]_vars, ~disturbed' PROVE ~disturbed
    OBVIOUS
  <1>. QED
    BY DEF Next, ThreadStep, vars, CallBegins, ControlTypes, VoteForLANControl,
           setCentralGatewayPresent, Start, Close, CloseDisables, StartReadsGateway,
           TellSubscribers, startRuntime, stopRuntime, CancelRuntime, WaitForScan,
           CloseListener, markAllDevicesOffline, scanDevices, PingEnds, ScanEnds,
           handleRuntimePacket, RequestBegins, RequestEnds

\* Nobody else moves, or is about to.
OthersRest(t) == \A u \in Threads \ {t} : pc[u] = "idle" /\ pc'[u] = "idle"

Undisturbed == OneCall /\ CallsAreRight /\ TellsTheTruth

\* A call begins at rest; what one does next, it does alone.
LEMMA CallsAreAlone ==
  ControlTypes /\ OneCall /\ ~disturbed' =>
    /\ \A t \in Threads, s \in Steps :
         CallBegins(t) /\ Goto(t, s) => Quiet /\ ~request /\ OthersRest(t) /\ pc'[t] = s
    /\ \A t \in Threads, s \in Steps :
         pc[t] # "idle" /\ Goto(t, s) => ~Quiet /\ ~request /\ OthersRest(t) /\ pc'[t] = s
  <1>. SUFFICES ASSUME ControlTypes, OneCall, ~disturbed', NEW t \in Threads, NEW s \in Steps,
                       Goto(t, s)
                PROVE  /\ CallBegins(t) =>
                            Quiet /\ ~request /\ OthersRest(t) /\ pc'[t] = s
                       /\ pc[t] # "idle" =>
                            ~Quiet /\ ~request /\ OthersRest(t) /\ pc'[t] = s
    OBVIOUS
  <1>1. pc'[t] = s /\ \A u \in Threads \ {t} : pc'[u] = pc[u]
    BY DEF Goto, ControlTypes
  <1>2. CallBegins(t) => Quiet /\ ~request
    BY DEF CallBegins
  <1>3. pc[t] # "idle" => ~Quiet /\ ~request /\ \A u \in Threads \ {t} : pc[u] = "idle"
    BY DEF OneCall, Quiet
  <1>. QED
    BY <1>1, <1>2, <1>3 DEF OthersRest, Quiet

LEMMA SayDoes ==
  ControlTypes =>
    \A t \in Threads :
      /\ Say(t, {Allowed'}) => tell'[t] = {Allowed'}
      /\ SayChange(t) => tell'[t] = {Allowed'} \/ (tell'[t] = Silence /\ Allowed' = Allowed)
      /\ Say(t, {Allowed'}) \/ SayChange(t) => \A u \in Threads \ {t} : tell'[u] = tell[u]
  <1>. SUFFICES ASSUME ControlTypes, NEW t \in Threads
                PROVE  /\ Say(t, {Allowed'}) => tell'[t] = {Allowed'}
                       /\ SayChange(t) =>
                            tell'[t] = {Allowed'} \/ (tell'[t] = Silence /\ Allowed' = Allowed)
                       /\ Say(t, {Allowed'}) \/ SayChange(t) =>
                            \A u \in Threads \ {t} : tell'[u] = tell[u]
    OBVIOUS
  <1>1. \A x : Say(t, x) => tell'[t] = x /\ \A u \in Threads \ {t} : tell'[u] = tell[u]
    BY DEF Say, ControlTypes
  <1>. QED
    BY <1>1, Zenon DEF SayChange

LEMMA OneCallStep ==
  ControlInv /\ [Next]_vars /\ ~disturbed' => OneCall'
  <1>. SUFFICES ASSUME ControlInv, [Next]_vars, ~disturbed' PROVE OneCall'
    OBVIOUS
  <1>. USE DEF ControlInv
  <1>0. ~disturbed /\ Undisturbed
    BY DisturbedStays DEF Undisturbed
  <1>a. ASSUME NEW t \in Threads, ~request, OthersRest(t), UNCHANGED request PROVE OneCall'
    BY <1>a DEF OneCall, OthersRest
  <1>1. ASSUME NEW v \in Voters, NEW vote \in BOOLEAN, VoteForLANControl(v, vote) PROVE OneCall'
    <2>1. ~request /\ OthersRest("voter") /\ UNCHANGED request
      BY <1>0, <1>1, CallsAreAlone DEF Undisturbed, VoteForLANControl, Steps, Threads
    <2>. QED
      BY <2>1, <1>a DEF Threads
  <1>2. ASSUME NEW present \in BOOLEAN, setCentralGatewayPresent(present) PROVE OneCall'
    <2>1. ~request /\ OthersRest("discovery") /\ UNCHANGED request
      BY <1>0, <1>2, CallsAreAlone DEF Undisturbed, setCentralGatewayPresent, Steps, Threads
    <2>. QED
      BY <2>1, <1>a DEF Threads
  <1>3. CASE Start
    <2>1. ~request /\ OthersRest("owner") /\ UNCHANGED request
      BY <1>0, <1>3, CallsAreAlone DEF Undisturbed, Start, Steps, Threads
    <2>. QED
      BY <2>1, <1>a DEF Threads
  <1>4. CASE Close
    <2>1. ~request /\ OthersRest("owner") /\ UNCHANGED request
      BY <1>0, <1>4, CallsAreAlone DEF Undisturbed, Close, Steps, Threads
    <2>. QED
      BY <2>1, <1>a DEF Threads
  <1>5. CASE CloseDisables
    <2>1. ~request /\ OthersRest("owner") /\ UNCHANGED request
      BY <1>0, <1>5, CallsAreAlone DEF Undisturbed, CloseDisables, Steps, Threads
    <2>. QED
      BY <2>1, <1>a DEF Threads
  <1>6. CASE StartReadsGateway
    <2>1. ~request /\ OthersRest("owner") /\ UNCHANGED request
      BY <1>0, <1>6, CallsAreAlone DEF Undisturbed, StartReadsGateway, Steps, Threads
    <2>. QED
      BY <2>1, <1>a DEF Threads
  <1>7. ASSUME NEW t \in Threads, TellSubscribers(t) PROVE OneCall'
    <2>1. ~request /\ OthersRest(t) /\ UNCHANGED request
      BY <1>0, <1>7, CallsAreAlone DEF Undisturbed, TellSubscribers, Steps, Threads
    <2>. QED
      BY <2>1, <1>a
  <1>8. ASSUME NEW t \in Threads, startRuntime(t) PROVE OneCall'
    <2>1. ~request /\ OthersRest(t) /\ UNCHANGED request
      BY <1>0, <1>8, CallsAreAlone DEF Undisturbed, startRuntime, Steps, Threads
    <2>. QED
      BY <2>1, <1>a
  <1>9. ASSUME NEW t \in Threads, stopRuntime(t) PROVE OneCall'
    <2>1. ~request /\ OthersRest(t) /\ UNCHANGED request
      BY <1>0, <1>9, CallsAreAlone DEF Undisturbed, stopRuntime, Steps, Threads
    <2>. QED
      BY <2>1, <1>a
  <1>10. ASSUME NEW t \in Threads, CancelRuntime(t) PROVE OneCall'
    <2>1. ~request /\ OthersRest(t) /\ UNCHANGED request
      BY <1>0, <1>10, CallsAreAlone DEF Undisturbed, CancelRuntime, Steps, Threads
    <2>. QED
      BY <2>1, <1>a
  <1>11. ASSUME NEW t \in Threads, WaitForScan(t) PROVE OneCall'
    <2>1. ~request /\ OthersRest(t) /\ UNCHANGED request
      BY <1>0, <1>11, CallsAreAlone DEF Undisturbed, WaitForScan, Steps, Threads
    <2>. QED
      BY <2>1, <1>a
  <1>12. ASSUME NEW t \in Threads, CloseListener(t) PROVE OneCall'
    <2>1. ~request /\ OthersRest(t) /\ UNCHANGED request
      BY <1>0, <1>12, CallsAreAlone DEF Undisturbed, CloseListener, Steps, Threads
    <2>. QED
      BY <2>1, <1>a
  <1>13. ASSUME NEW t \in Threads, markAllDevicesOffline(t) PROVE OneCall'
    <2>1. ~request /\ OthersRest(t) /\ UNCHANGED request
      BY <1>0, <1>13, CallsAreAlone DEF Undisturbed, markAllDevicesOffline, Steps, Threads
    <2>. QED
      BY <2>1, <1>a
  <1>14. ASSUME NEW r \in Runtimes, scanDevices(r) PROVE OneCall'
    BY <1>0, <1>14 DEF Undisturbed, scanDevices, flags, threads, OneCall, Quiet, Allowed
  <1>15. ASSUME NEW r \in Runtimes, PingEnds(r) PROVE OneCall'
    BY <1>0, <1>15 DEF Undisturbed, PingEnds, flags, threads, OneCall, Quiet, Allowed
  <1>16. ASSUME NEW r \in Runtimes, ScanEnds(r) PROVE OneCall'
    BY <1>0, <1>16 DEF Undisturbed, ScanEnds, flags, threads, OneCall, Quiet, Allowed
  <1>17. CASE handleRuntimePacket
    BY <1>0, <1>17 DEF Undisturbed, handleRuntimePacket, flags, threads, OneCall, Quiet, Allowed
  <1>18. CASE RequestBegins
    <2>1. Quiet
      BY <1>18 DEF RequestBegins
    <2>. QED
      BY <1>18, <2>1 DEF RequestBegins, flags, threads, OneCall, Quiet, Allowed
  <1>19. CASE RequestEnds
    BY <1>0, <1>19 DEF Undisturbed, RequestEnds, flags, threads, OneCall, Quiet, Allowed
  <1>20. CASE UNCHANGED vars
    BY <1>0, <1>20
    DEF vars, flags, runtime, threads, Undisturbed, OneCall, Quiet, Allowed
  <1>. HIDE DEF ControlInv
  <1>. QED
    BY <1>1, <1>2, <1>3, <1>4, <1>5, <1>6, <1>7, <1>8, <1>9, <1>10, <1>11, <1>12, <1>13, <1>14,
       <1>15, <1>16, <1>17, <1>18, <1>19, <1>20
    DEF Next, ThreadStep

LEMMA CallsStep ==
  ControlInv /\ [Next]_vars /\ ~disturbed' => CallsAreRight'
  <1>. SUFFICES ASSUME ControlInv, [Next]_vars, ~disturbed' PROVE CallsAreRight'
    OBVIOUS
  <1>. USE DEF ControlInv
  <1>0. ~disturbed /\ Undisturbed
    BY DisturbedStays DEF Undisturbed
  <1>a. ASSUME NEW t \in Threads, OthersRest(t), KnowsWhy(t)', pc'[t] = "idle" => Right'
        PROVE  CallsAreRight'
    <2>1. \A u \in Threads \ {t} : KnowsWhy(u)'
      BY <1>a DEF OthersRest, KnowsWhy, Stopping
    <2>2. Quiet' => Right'
      BY <1>a DEF Quiet
    <2>. QED
      BY <1>a, <2>1, <2>2 DEF CallsAreRight
  <1>b. ASSUME UNCHANGED <<flags, current, pc, started>>,
               UNCHANGED online \/ current # None \/ \E t \in Threads : pc[t] \in Stopping
        PROVE  CallsAreRight'
    <2>1. CASE UNCHANGED online
      BY <1>0, <1>b, <2>1 DEF Undisturbed, CallsAreRight, KnowsWhy, Right, Quiet, Allowed, flags
    <2>2. CASE current # None
      BY <1>0, <1>b, <2>2 DEF Undisturbed, CallsAreRight, KnowsWhy, Right, Quiet, Allowed, flags
    <2>3. ASSUME NEW t \in Threads, pc[t] \in Stopping PROVE CallsAreRight'
      <3>1. OthersRest(t)
        BY <1>0, <1>b, <2>3 DEF Undisturbed, OneCall, OthersRest, Stopping
      <3>2. KnowsWhy(t)' /\ pc'[t] # "idle"
        BY <1>0, <1>b, <2>3
        DEF Undisturbed, CallsAreRight, KnowsWhy, Stopping, Allowed, flags
      <3>. QED
        BY <1>a, <3>1, <3>2
    <2>. QED
      BY <1>b, <2>1, <2>2, <2>3
  <1>1. ASSUME NEW v \in Voters, NEW vote \in BOOLEAN,
               VoteForLANControl(v, vote)
        PROVE  CallsAreRight'
    <2>1. OthersRest("voter")
      BY <1>0, <1>1, CallsAreAlone DEF Undisturbed, VoteForLANControl, Steps, Threads
    <2>2. pc'["voter"] = IF Allowed' THEN "start" ELSE "stop"
      BY <1>1 DEF VoteForLANControl, Goto, ControlTypes, Threads
    <2>9. KnowsWhy("voter")' /\ (pc'["voter"] = "idle" => Right')
      BY <2>2 DEF KnowsWhy, Right, Allowed, Stopping
    <2>. QED
      BY <2>1, <2>9, <1>a DEF Threads
  <1>2. ASSUME NEW present \in BOOLEAN, setCentralGatewayPresent(present) PROVE CallsAreRight'
    <2>1. OthersRest("discovery")
      BY <1>0, <1>2, CallsAreAlone DEF Undisturbed, setCentralGatewayPresent, Steps, Threads
    <2>2. pc'["discovery"] = IF Allowed' THEN "start" ELSE "stop"
      BY <1>2 DEF setCentralGatewayPresent, Goto, ControlTypes, Threads
    <2>9. KnowsWhy("discovery")' /\ (pc'["discovery"] = "idle" => Right')
      BY <2>2 DEF KnowsWhy, Right, Allowed, Stopping
    <2>. QED
      BY <2>1, <2>9, <1>a DEF Threads
  <1>3. CASE Start
    <2>1. OthersRest("owner")
      BY <1>0, <1>3, CallsAreAlone DEF Undisturbed, Start, Steps, Threads
    <2>2. pc'["owner"] = "tellStart" /\ Right /\ enabled' = TRUE
          /\ UNCHANGED <<gateway, current, online>>
      BY <1>0, <1>3 DEF Start, CallBegins, Goto, ControlTypes, Threads, Undisturbed, CallsAreRight,
               OneCall, runtime
    <2>9. KnowsWhy("owner")' /\ (pc'["owner"] = "idle" => Right')
      BY <2>2 DEF KnowsWhy, Right, Allowed, Stopping
    <2>. QED
      BY <2>1, <2>9, <1>a DEF Threads
  <1>4. CASE Close
    <2>1. OthersRest("owner")
      BY <1>0, <1>4, CallsAreAlone DEF Undisturbed, Close, Steps, Threads
    <2>2. pc'["owner"] = "stop"
      BY <1>4 DEF Close, Goto, ControlTypes, Threads
    <2>9. KnowsWhy("owner")' /\ (pc'["owner"] = "idle" => Right')
      BY <2>2 DEF KnowsWhy, Right, Allowed, Stopping
    <2>. QED
      BY <2>1, <2>9, <1>a DEF Threads
  <1>5. CASE CloseDisables
    <2>1. OthersRest("owner")
      BY <1>0, <1>5, CallsAreAlone DEF Undisturbed, CloseDisables, Steps, Threads
    <2>2. pc'["owner"] = "tell" /\ KnowsWhy("owner") /\ pc["owner"] = "disable"
          /\ enabled' = FALSE /\ UNCHANGED <<current, online>>
      BY <1>0, <1>5
      DEF CloseDisables, Goto, ControlTypes, Threads, Undisturbed, CallsAreRight, runtime
    <2>9. KnowsWhy("owner")' /\ (pc'["owner"] = "idle" => Right')
      BY <2>2 DEF KnowsWhy, Right, Allowed, Stopping
    <2>. QED
      BY <2>1, <2>9, <1>a DEF Threads
  <1>6. CASE StartReadsGateway
    <2>1. OthersRest("owner")
      BY <1>0, <1>6, CallsAreAlone DEF Undisturbed, StartReadsGateway, Steps, Threads
    <2>2. /\ pc'["owner"] = IF gateway THEN "idle" ELSE "start"
          /\ KnowsWhy("owner") /\ pc["owner"] = "readGateway"
          /\ UNCHANGED <<flags, current, online>>
      BY <1>0, <1>6
      DEF StartReadsGateway, Goto, ControlTypes, Threads, Undisturbed, CallsAreRight, runtime
    <2>9. KnowsWhy("owner")' /\ (pc'["owner"] = "idle" => Right')
      BY <2>2 DEF KnowsWhy, Right, Allowed, Stopping, flags
    <2>. QED
      BY <2>1, <2>9, <1>a DEF Threads
  <1>7. ASSUME NEW t \in Threads, TellSubscribers(t) PROVE CallsAreRight'
    <2>1. OthersRest(t)
      BY <1>0, <1>7, CallsAreAlone DEF Undisturbed, TellSubscribers, Steps, Threads
    <2>2. /\ pc'[t] = IF pc[t] = "tell" THEN "idle" ELSE "readGateway"
          /\ KnowsWhy(t) /\ pc[t] \in {"tell", "tellStart"}
          /\ UNCHANGED <<flags, current, online, started>>
      BY <1>0, <1>7 DEF TellSubscribers, Goto, ControlTypes, Undisturbed, CallsAreRight, runtime
    <2>9. KnowsWhy(t)' /\ (pc'[t] = "idle" => Right')
      BY <2>2 DEF KnowsWhy, Right, Allowed, Stopping, flags
    <2>. QED
      BY <2>1, <2>9, <1>a
  <1>8. ASSUME NEW t \in Threads, startRuntime(t) PROVE CallsAreRight'
    <2>1. OthersRest(t)
      BY <1>0, <1>8, CallsAreAlone DEF Undisturbed, startRuntime, Steps, Threads
    <2>2. /\ pc'[t] = IF t = "owner" THEN "idle" ELSE "tell"
          /\ KnowsWhy(t) /\ pc[t] = "start" /\ UNCHANGED flags
      BY <1>0, <1>8 DEF startRuntime, Goto, ControlTypes, Undisturbed, CallsAreRight
    <2>3. current' # None
      BY <1>8, LanControlConstants DEF startRuntime, RuntimeStarts, runtime, FreshRuntimes
    <2>9. KnowsWhy(t)' /\ (pc'[t] = "idle" => Right')
      BY <2>2, <2>3 DEF KnowsWhy, Right, Allowed, Stopping, flags
    <2>. QED
      BY <2>1, <2>9, <1>a
  <1>9. ASSUME NEW t \in Threads, stopRuntime(t) PROVE CallsAreRight'
    <2>1. OthersRest(t)
      BY <1>0, <1>9, CallsAreAlone DEF Undisturbed, stopRuntime, Steps, Threads
    <2>2. /\ pc'[t] = IF current = None THEN "close" ELSE "cancel"
          /\ KnowsWhy(t) /\ pc[t] = "stop" /\ current' = None /\ UNCHANGED online /\ UNCHANGED flags
      BY <1>0, <1>9 DEF stopRuntime, Goto, ControlTypes, Undisturbed, CallsAreRight, runtime
    <2>9. KnowsWhy(t)' /\ (pc'[t] = "idle" => Right')
      BY <2>2 DEF KnowsWhy, Right, Allowed, Stopping, flags
    <2>. QED
      BY <2>1, <2>9, <1>a
  <1>10. ASSUME NEW t \in Threads, CancelRuntime(t) PROVE CallsAreRight'
    <2>1. OthersRest(t)
      BY <1>0, <1>10, CallsAreAlone DEF Undisturbed, CancelRuntime, Steps, Threads
    <2>2. /\ pc'[t] = "wait"
          /\ KnowsWhy(t) /\ pc[t] = "cancel" /\ UNCHANGED <<current, online>> /\ UNCHANGED flags
      BY <1>0, <1>10 DEF CancelRuntime, Goto, ControlTypes, Undisturbed, CallsAreRight, runtime
    <2>9. KnowsWhy(t)' /\ (pc'[t] = "idle" => Right')
      BY <2>2 DEF KnowsWhy, Right, Allowed, Stopping, flags
    <2>. QED
      BY <2>1, <2>9, <1>a
  <1>11. ASSUME NEW t \in Threads, WaitForScan(t) PROVE CallsAreRight'
    <2>1. OthersRest(t)
      BY <1>0, <1>11, CallsAreAlone DEF Undisturbed, WaitForScan, Steps, Threads
    <2>2. /\ pc'[t] = "close"
          /\ KnowsWhy(t) /\ pc[t] = "wait" /\ UNCHANGED <<current, online>> /\ UNCHANGED flags
      BY <1>0, <1>11 DEF WaitForScan, Goto, ControlTypes, Undisturbed, CallsAreRight, runtime
    <2>9. KnowsWhy(t)' /\ (pc'[t] = "idle" => Right')
      BY <2>2 DEF KnowsWhy, Right, Allowed, Stopping, flags
    <2>. QED
      BY <2>1, <2>9, <1>a
  <1>12. ASSUME NEW t \in Threads, CloseListener(t) PROVE CallsAreRight'
    <2>1. OthersRest(t)
      BY <1>0, <1>12, CallsAreAlone DEF Undisturbed, CloseListener, Steps, Threads
    <2>2. /\ pc'[t] = "mark"
          /\ KnowsWhy(t) /\ pc[t] = "close" /\ UNCHANGED <<current, online>> /\ UNCHANGED flags
      BY <1>0, <1>12 DEF CloseListener, Goto, ControlTypes, Undisturbed, CallsAreRight, runtime
    <2>9. KnowsWhy(t)' /\ (pc'[t] = "idle" => Right')
      BY <2>2 DEF KnowsWhy, Right, Allowed, Stopping, flags
    <2>. QED
      BY <2>1, <2>9, <1>a
  <1>13. ASSUME NEW t \in Threads, markAllDevicesOffline(t) PROVE CallsAreRight'
    <2>1. OthersRest(t)
      BY <1>0, <1>13, CallsAreAlone DEF Undisturbed, markAllDevicesOffline, Steps, Threads
    <2>2. /\ pc'[t] = IF t = "owner" THEN "disable" ELSE "tell"
          /\ KnowsWhy(t) /\ pc[t] = "mark" /\ UNCHANGED current /\ online' = FALSE /\ UNCHANGED flags
      BY <1>0, <1>13
      DEF markAllDevicesOffline, Goto, ControlTypes, Undisturbed, CallsAreRight, runtime
    <2>9. KnowsWhy(t)' /\ (pc'[t] = "idle" => Right')
      BY <2>2 DEF KnowsWhy, Right, Allowed, Stopping, flags
    <2>. QED
      BY <2>1, <2>9, <1>a
  <1>14. ASSUME NEW r \in Runtimes, scanDevices(r) PROVE CallsAreRight'
    BY <1>14, <1>b DEF scanDevices, threads, runtime
  <1>15. ASSUME NEW r \in Runtimes, PingEnds(r) PROVE CallsAreRight'
    <2>1. current # None \/ \E t \in Threads : pc[t] \in Stopping
      BY <1>15, LanControlConstants DEF PingEnds, ScansAreHeld, Alive, Stopping
    <2>. QED
      BY <1>15, <2>1, <1>b DEF PingEnds, threads
  <1>16. ASSUME NEW r \in Runtimes, ScanEnds(r) PROVE CallsAreRight'
    BY <1>16, <1>b DEF ScanEnds, threads, runtime
  <1>17. CASE handleRuntimePacket
    <2>1. PICK r \in open : TRUE
      BY <1>17 DEF handleRuntimePacket
    <2>2. r = listening \/ \E t \in Threads : took[t].listener = r
      BY <2>1 DEF NothingLeaks
    <2>3. r # None
      BY <2>1, LanControlConstants DEF ControlTypes
    <2>4. Nothing.listener = None
      BY DEF Nothing
    <2>5. current # None \/ \E t \in Threads : pc[t] \in Stopping
      BY <2>2, <2>3, <2>4 DEF ControlTypes, CarriesOnly
    <2>. QED
      BY <1>17, <2>5, <1>b DEF handleRuntimePacket, threads, runtime
  <1>18. CASE RequestBegins
    BY <1>18, <1>b DEF RequestBegins, threads, runtime
  <1>19. CASE RequestEnds
    <2>1. Quiet /\ Allowed /\ Right
      BY <1>0, <1>19 DEF Undisturbed, OneCall, CallsAreRight, RequestEnds
    <2>2. Quiet' /\ Right'
      BY <1>19, <2>1 DEF RequestEnds, Quiet, Right, Allowed, flags, runtime, threads
    <2>. QED
      BY <2>2 DEF CallsAreRight, KnowsWhy, Quiet, Stopping
  <1>20. CASE UNCHANGED vars
    BY <1>20, <1>b
    DEF vars, runtime, threads
  <1>. HIDE DEF ControlInv
  <1>. QED
    BY <1>1, <1>2, <1>3, <1>4, <1>5, <1>6, <1>7, <1>8, <1>9, <1>10, <1>11, <1>12, <1>13, <1>14,
       <1>15, <1>16, <1>17, <1>18, <1>19, <1>20
    DEF Next, ThreadStep

LEMMA TellsStep ==
  ControlInv /\ [Next]_vars /\ ~disturbed' => TellsTheTruth'
  <1>. SUFFICES ASSUME ControlInv, [Next]_vars, ~disturbed' PROVE TellsTheTruth'
    OBVIOUS
  <1>. USE DEF ControlInv
  <1>0. ~disturbed /\ Undisturbed
    BY DisturbedStays DEF Undisturbed
  <1>a. ASSUME UNCHANGED <<flags, tell, told>> PROVE TellsTheTruth'
    <2>1. UNCHANGED Allowed
      BY <1>a DEF Allowed, flags
    <2>. QED
      BY <1>0, <1>a, <2>1 DEF Undisturbed, TellsTheTruth
  <1>b. ASSUME NEW t \in Threads, \A u \in Threads : tell[u] = Silence, UNCHANGED told,
               \A u \in Threads \ {t} : tell'[u] = Silence,
               tell'[t] = {Allowed'} \/ (tell'[t] = Silence /\ Allowed' = Allowed)
        PROVE  TellsTheTruth'
    <2>3. CASE tell'[t] = {Allowed'}
      <3>1. tell'[t] # Silence
        BY <2>3 DEF Silence
      <3>. QED
        BY <1>b, <2>3, <3>1 DEF TellsTheTruth
    <2>4. CASE tell'[t] = Silence /\ Allowed' = Allowed
      BY <1>0, <1>b, <2>4 DEF Undisturbed, TellsTheTruth
    <2>. QED
      BY <1>b, <2>3, <2>4
  <1>1. ASSUME NEW v \in Voters, NEW vote \in BOOLEAN,
               VoteForLANControl(v, vote)
        PROVE  TellsTheTruth'
    <2>1. OthersRest("voter")
      BY <1>0, <1>1, CallsAreAlone DEF Undisturbed, VoteForLANControl, Steps, Threads
    <2>2. \A u \in Threads : tell[u] = Silence
      BY <1>1, <2>1 DEF VoteForLANControl, CallBegins, CarriesOnly, OthersRest, Threads
    <2>3. Say("voter", {Allowed'}) /\ "voter" \in Threads /\ UNCHANGED told
      BY <1>1 DEF VoteForLANControl, Threads
    <2>4. /\ \A u \in Threads \ {"voter"} : tell'[u] = tell[u]
          /\ tell'["voter"] = {Allowed'} \/ (tell'["voter"] = Silence /\ Allowed' = Allowed)
      BY <2>3, SayDoes
    <2>5. \A u \in Threads \ {"voter"} : tell'[u] = Silence
      BY <2>2, <2>4
    <2>. QED
      BY <2>2, <2>3, <2>4, <2>5, <1>b
  <1>2. ASSUME NEW present \in BOOLEAN, setCentralGatewayPresent(present) PROVE TellsTheTruth'
    <2>1. OthersRest("discovery")
      BY <1>0, <1>2, CallsAreAlone DEF Undisturbed, setCentralGatewayPresent, Steps, Threads
    <2>2. \A u \in Threads : tell[u] = Silence
      BY <1>2, <2>1 DEF setCentralGatewayPresent, CallBegins, CarriesOnly, OthersRest, Threads
    <2>3. SayChange("discovery") /\ "discovery" \in Threads /\ UNCHANGED told
      BY <1>2 DEF setCentralGatewayPresent, Threads
    <2>4. /\ \A u \in Threads \ {"discovery"} : tell'[u] = tell[u]
          /\ tell'["discovery"] = {Allowed'} \/ (tell'["discovery"] = Silence /\ Allowed' = Allowed)
      BY <2>3, SayDoes
    <2>5. \A u \in Threads \ {"discovery"} : tell'[u] = Silence
      BY <2>2, <2>4
    <2>. QED
      BY <2>2, <2>3, <2>4, <2>5, <1>b
  <1>3. CASE Start
    <2>1. OthersRest("owner")
      BY <1>0, <1>3, CallsAreAlone DEF Undisturbed, Start, Steps, Threads
    <2>2. \A u \in Threads : tell[u] = Silence
      BY <1>3, <2>1 DEF Start, CallBegins, CarriesOnly, OthersRest, Threads
    <2>3. SayChange("owner") /\ "owner" \in Threads /\ UNCHANGED told
      BY <1>3 DEF Start, Threads
    <2>4. /\ \A u \in Threads \ {"owner"} : tell'[u] = tell[u]
          /\ tell'["owner"] = {Allowed'} \/ (tell'["owner"] = Silence /\ Allowed' = Allowed)
      BY <2>3, SayDoes
    <2>5. \A u \in Threads \ {"owner"} : tell'[u] = Silence
      BY <2>2, <2>4
    <2>. QED
      BY <2>2, <2>3, <2>4, <2>5, <1>b
  <1>4. CASE Close
    BY <1>a, <1>4 DEF Close
  <1>5. CASE CloseDisables
    <2>1. OthersRest("owner")
      BY <1>0, <1>5, CallsAreAlone DEF Undisturbed, CloseDisables, Steps, Threads
    <2>2. \A u \in Threads : tell[u] = Silence
      BY <1>5, <2>1 DEF CloseDisables, CarriesOnly, OthersRest, Threads
    <2>3. SayChange("owner") /\ "owner" \in Threads /\ UNCHANGED told
      BY <1>5 DEF CloseDisables, Threads
    <2>4. /\ \A u \in Threads \ {"owner"} : tell'[u] = tell[u]
          /\ tell'["owner"] = {Allowed'} \/ (tell'["owner"] = Silence /\ Allowed' = Allowed)
      BY <2>3, SayDoes
    <2>5. \A u \in Threads \ {"owner"} : tell'[u] = Silence
      BY <2>2, <2>4
    <2>. QED
      BY <2>2, <2>3, <2>4, <2>5, <1>b
  <1>6. CASE StartReadsGateway
    BY <1>a, <1>6 DEF StartReadsGateway, threads
  <1>7. ASSUME NEW t \in Threads, TellSubscribers(t) PROVE TellsTheTruth'
    <2>1. OthersRest(t)
      BY <1>0, <1>7, CallsAreAlone DEF Undisturbed, TellSubscribers, Steps
    <2>2. \A u \in Threads \ {t} : tell[u] = Silence
      BY <2>1 DEF CarriesOnly, OthersRest
    <2>3. tell' = [tell EXCEPT ![t] = Silence] /\ UNCHANGED Allowed
      BY <1>7 DEF TellSubscribers, Say, Allowed, flags
    <2>4. \A u \in Threads : tell'[u] = Silence
      BY <2>2, <2>3 DEF ControlTypes
    <2>5. CASE tell[t] = Silence
      BY <1>0, <1>7, <2>2, <2>3, <2>4, <2>5 DEF TellSubscribers, Undisturbed, TellsTheTruth
    <2>6. CASE tell[t] # Silence
      BY <1>0, <1>7, <2>3, <2>4, <2>6 DEF TellSubscribers, Undisturbed, TellsTheTruth
    <2>. QED
      BY <2>5, <2>6
  <1>8. ASSUME NEW t \in Threads, startRuntime(t) PROVE TellsTheTruth'
    BY <1>a, <1>8 DEF startRuntime, threads
  <1>9. ASSUME NEW t \in Threads, stopRuntime(t) PROVE TellsTheTruth'
    BY <1>a, <1>9 DEF stopRuntime, threads
  <1>10. ASSUME NEW t \in Threads, CancelRuntime(t) PROVE TellsTheTruth'
    BY <1>a, <1>10 DEF CancelRuntime, threads
  <1>11. ASSUME NEW t \in Threads, WaitForScan(t) PROVE TellsTheTruth'
    BY <1>a, <1>11 DEF WaitForScan, threads
  <1>12. ASSUME NEW t \in Threads, CloseListener(t) PROVE TellsTheTruth'
    BY <1>a, <1>12 DEF CloseListener, threads
  <1>13. ASSUME NEW t \in Threads, markAllDevicesOffline(t) PROVE TellsTheTruth'
    BY <1>a, <1>13 DEF markAllDevicesOffline, threads
  <1>14. ASSUME NEW r \in Runtimes, scanDevices(r) PROVE TellsTheTruth'
    BY <1>a, <1>14 DEF scanDevices, threads
  <1>15. ASSUME NEW r \in Runtimes, PingEnds(r) PROVE TellsTheTruth'
    BY <1>a, <1>15 DEF PingEnds, threads
  <1>16. ASSUME NEW r \in Runtimes, ScanEnds(r) PROVE TellsTheTruth'
    BY <1>a, <1>16 DEF ScanEnds, threads
  <1>17. CASE handleRuntimePacket
    BY <1>a, <1>17 DEF handleRuntimePacket, threads
  <1>18. CASE RequestBegins
    BY <1>a, <1>18 DEF RequestBegins, threads
  <1>19. CASE RequestEnds
    BY <1>a, <1>19 DEF RequestEnds, threads
  <1>20. CASE UNCHANGED vars
    BY <1>20, <1>a
    DEF vars, threads
  <1>. HIDE DEF ControlInv
  <1>. QED
    BY <1>1, <1>2, <1>3, <1>4, <1>5, <1>6, <1>7, <1>8, <1>9, <1>10, <1>11, <1>12, <1>13, <1>14,
       <1>15, <1>16, <1>17, <1>18, <1>19, <1>20
    DEF Next, ThreadStep

LEMMA ControlStep == ControlInv /\ [Next]_vars => ControlInv'
  BY ControlTypesStep, CarriesStep, HoldsStep, OneCallStep, CallsStep, TellsStep
  DEF ControlInv

-----------------------------------------------------------------------------
(* The uplink messages *)

UplinkTypes ==
  /\ allowed \in BOOLEAN /\ subscribed \in BOOLEAN
  /\ age \in [Uplink!Messages -> 0..Uplink!Unsent]
  /\ acked \subseteq Uplink!Messages /\ muted \subseteq Uplink!Messages
  /\ recent \in [Uplink!Ids -> 0..Window] /\ recent[0] = 0
  /\ reader \in [Loops -> {"idle", "record", "dispatch", "reply"}]
  /\ copy \in [Loops -> Uplink!Messages \cup {Uplink!NoMessage}]
  /\ dispatched \in [Uplink!Messages -> 0..2]

\* Read loops that are about to give a message to its subscribers.
Dispatching(m) == {l \in Loops : reader[l] = "dispatch" /\ copy[l] = m}

\* A read loop handles a copy while copies of its message may still arrive.
CopiesAreInTime ==
  \A l \in Loops : reader[l] # "idle" =>
    copy[l] \in Uplink!Messages /\ age[copy[l]] <= Lifetime

\* The id of a message that was dispatched, or is about to be, outlives the message's copies.
IdsOutliveCopies ==
  \A m \in Uplink!Messages :
    Uplink!ID(m) # 0 /\ (dispatched[m] > 0 \/ Dispatching(m) # {}) =>
      age[m] + recent[Uplink!ID(m)] > Lifetime

\* A message that one loop dispatches was not dispatched before, nor is it by another.
DispatchesAreFirst ==
  \A m \in Uplink!Messages : Uplink!ID(m) # 0 =>
    /\ dispatched[m] <= 1
    /\ Dispatching(m) # {} => dispatched[m] = 0
    /\ \A l, k \in Dispatching(m) : l = k

Handled(m) == dispatched[m] > 0 \/ m \in muted \/ Dispatching(m) # {}

\* What is acknowledged, is about to be or would be taken for a repetition was handled.
KnownWasHandled ==
  /\ \A m \in acked \ Malformed : Handled(m)
  /\ \A l \in Loops :
       reader[l] = "reply" /\ copy[l] \notin Malformed /\ Uplink!ID(copy[l]) # 0 => Handled(copy[l])
  /\ \A m \in Uplink!Messages \ Malformed :
       Uplink!ID(m) # 0 /\ recent[Uplink!ID(m)] > 0 => Handled(m)

UplinkInv ==
  /\ UplinkTypes /\ CopiesAreInTime /\ IdsOutliveCopies /\ DispatchesAreFirst
  /\ KnownWasHandled

-----------------------------------------------------------------------------
LEMMA IdsAreIds == \A m \in Uplink!Messages : Uplink!ID(m) \in Uplink!Ids
  BY UplinkConstants DEF Uplink!Messages, Uplink!ID, Uplink!Ids

LEMMA IdsAreDistinct ==
  \A m, n \in Uplink!Messages : Uplink!ID(m) = Uplink!ID(n) /\ Uplink!ID(m) # 0 => m = n
  <1>. SUFFICES ASSUME NEW m \in Uplink!Messages, NEW n \in Uplink!Messages,
                       Uplink!ID(m) = Uplink!ID(n), Uplink!ID(m) # 0
                PROVE  m = n
    OBVIOUS
  <1>1. \A k \in 1..IdSpace : k % IdSpace = IF k = IdSpace THEN 0 ELSE k
    BY UplinkConstants
  <1>2. m \in 1..IdSpace /\ n \in 1..IdSpace
    BY UplinkConstants, IdsDoNotWrap DEF Uplink!Messages
  <1>. QED
    BY <1>1, <1>2 DEF Uplink!ID

LEMMA UplinkInit == Uplink!Init => UplinkInv
  <1>. SUFFICES ASSUME Uplink!Init PROVE UplinkInv
    OBVIOUS
  <1>1. UplinkTypes
    BY UplinkConstants, WindowIsLongEnough
    DEF Uplink!Init, UplinkTypes, Uplink!Unsent, Uplink!NoMessage, Uplink!Ids
  <1>2. CopiesAreInTime /\ \A m \in Uplink!Messages : Dispatching(m) = {}
    BY DEF Uplink!Init, CopiesAreInTime, Dispatching
  <1>3. IdsOutliveCopies /\ DispatchesAreFirst
    BY <1>2 DEF Uplink!Init, IdsOutliveCopies, DispatchesAreFirst
  <1>4. KnownWasHandled
    BY IdsAreIds DEF Uplink!Init, KnownWasHandled
  <1>. QED
    BY <1>1, <1>2, <1>3, <1>4 DEF UplinkInv

LEMMA UplinkTypesStep ==
  UplinkInv /\ [Uplink!Next]_uplink => UplinkTypes'
  <1>. SUFFICES ASSUME UplinkInv, [Uplink!Next]_uplink PROVE UplinkTypes'
    OBVIOUS
  <1>. USE DEF UplinkInv, UplinkTypes, CopiesAreInTime, Uplink!Unsent, Uplink!NoMessage
  <1>1. ASSUME NEW m \in Uplink!Messages, Uplink!DeviceSends(m) PROVE UplinkTypes'
    BY <1>1, IdsAreIds, UplinkConstants, WindowIsLongEnough
    DEF Uplink!DeviceSends, Uplink!Remember, Uplink!IsRecent
  <1>2. ASSUME NEW l \in Loops, NEW m \in Uplink!Messages,
               Uplink!PacketArrives(l, m)
        PROVE  UplinkTypes'
    BY <1>2, IdsAreIds, UplinkConstants, WindowIsLongEnough
    DEF Uplink!PacketArrives, Uplink!Goto, Uplink!Remember, Uplink!IsRecent
  <1>3. ASSUME NEW l \in Loops, Uplink!recordRecentUplink(l) PROVE UplinkTypes'
    <2>1. recent' \in [Uplink!Ids -> 0..Window] /\ recent'[0] = 0
      <3>. DEFINE id == Uplink!ID(copy[l])
      <3>1. id \in Uplink!Ids
        BY <1>3, IdsAreIds DEF Uplink!recordRecentUplink
      <3>2. CASE UNCHANGED recent
        BY <3>2
      <3>3. CASE id # 0 /\ recent' = [recent EXCEPT ![id] = Window]
        BY <3>1, <3>3, WindowIsLongEnough
      <3>. QED
        BY <1>3, <3>2, <3>3 DEF Uplink!recordRecentUplink, Uplink!Remember
    <2>2. reader' \in [Loops -> {"idle", "record", "dispatch", "reply"}]
      BY <1>3 DEF Uplink!recordRecentUplink, Uplink!Goto
    <2>. QED
      BY <1>3, <2>1, <2>2 DEF Uplink!recordRecentUplink
  <1>4. ASSUME NEW l \in Loops, Uplink!Dispatch(l) PROVE UplinkTypes'
    BY <1>4, IdsAreIds, UplinkConstants, WindowIsLongEnough
    DEF Uplink!Dispatch, Uplink!Goto, Uplink!Remember, Uplink!IsRecent
  <1>5. ASSUME NEW l \in Loops, Uplink!DecodeFails(l) PROVE UplinkTypes'
    BY <1>5, IdsAreIds, UplinkConstants, WindowIsLongEnough
    DEF Uplink!DecodeFails, Uplink!Goto, Uplink!Remember, Uplink!IsRecent
  <1>6. ASSUME NEW l \in Loops, Uplink!replyToUplink(l) PROVE UplinkTypes'
    BY <1>6, IdsAreIds, UplinkConstants, WindowIsLongEnough
    DEF Uplink!replyToUplink, Uplink!Goto, Uplink!Remember, Uplink!IsRecent
  <1>7. CASE Uplink!Switch
    BY <1>7, IdsAreIds, UplinkConstants, WindowIsLongEnough
    DEF Uplink!Switch, Uplink!Remember, Uplink!IsRecent
  <1>8. CASE Uplink!Tick
    <2>1. 0 \in Uplink!Ids
      BY UplinkConstants DEF Uplink!Ids
    <2>2. recent' \in [Uplink!Ids -> 0..Window] /\ recent'[0] = 0
      BY <1>8, <2>1, WindowIsLongEnough DEF Uplink!Tick
    <2>3. age' \in [Uplink!Messages -> 0..Uplink!Unsent]
      BY <1>8, WindowIsLongEnough DEF Uplink!Tick
    <2>. QED
      BY <1>8, <2>2, <2>3 DEF Uplink!Tick
  <1>9. CASE UNCHANGED uplink
    BY <1>9
    DEF uplink
  <1>. HIDE DEF UplinkInv, UplinkTypes, CopiesAreInTime, Uplink!Unsent, Uplink!NoMessage
  <1>. QED
    BY <1>1, <1>2, <1>3, <1>4, <1>5, <1>6, <1>7, <1>8, <1>9
    DEF Uplink!Next

LEMMA CopiesStep ==
  UplinkInv /\ [Uplink!Next]_uplink => CopiesAreInTime'
  <1>. SUFFICES ASSUME UplinkInv, [Uplink!Next]_uplink PROVE CopiesAreInTime'
    OBVIOUS
  <1>. USE DEF UplinkInv, UplinkTypes, CopiesAreInTime, Uplink!Unsent
  <1>1. ASSUME NEW m \in Uplink!Messages, Uplink!DeviceSends(m) PROVE CopiesAreInTime'
    BY <1>1, IdsAreIds, UplinkConstants, WindowIsLongEnough
    DEF Uplink!DeviceSends
  <1>2. ASSUME NEW l \in Loops, NEW m \in Uplink!Messages,
               Uplink!PacketArrives(l, m)
        PROVE  CopiesAreInTime'
    BY <1>2, IdsAreIds, UplinkConstants, WindowIsLongEnough
    DEF Uplink!PacketArrives, Uplink!Goto
  <1>3. ASSUME NEW l \in Loops, Uplink!recordRecentUplink(l) PROVE CopiesAreInTime'
    BY <1>3, IdsAreIds, UplinkConstants, WindowIsLongEnough
    DEF Uplink!recordRecentUplink, Uplink!Goto
  <1>4. ASSUME NEW l \in Loops, Uplink!Dispatch(l) PROVE CopiesAreInTime'
    BY <1>4, IdsAreIds, UplinkConstants, WindowIsLongEnough
    DEF Uplink!Dispatch, Uplink!Goto
  <1>5. ASSUME NEW l \in Loops, Uplink!DecodeFails(l) PROVE CopiesAreInTime'
    BY <1>5, IdsAreIds, UplinkConstants, WindowIsLongEnough
    DEF Uplink!DecodeFails, Uplink!Goto
  <1>6. ASSUME NEW l \in Loops, Uplink!replyToUplink(l) PROVE CopiesAreInTime'
    BY <1>6, IdsAreIds, UplinkConstants, WindowIsLongEnough
    DEF Uplink!replyToUplink, Uplink!Goto
  <1>7. CASE Uplink!Switch
    BY <1>7, IdsAreIds, UplinkConstants, WindowIsLongEnough
    DEF Uplink!Switch
  <1>8. CASE Uplink!Tick
    BY <1>8, IdsAreIds, UplinkConstants, WindowIsLongEnough
    DEF Uplink!Tick
  <1>9. CASE UNCHANGED uplink
    BY <1>9
    DEF uplink
  <1>. HIDE DEF UplinkInv, UplinkTypes, CopiesAreInTime, Uplink!Unsent
  <1>. QED
    BY <1>1, <1>2, <1>3, <1>4, <1>5, <1>6, <1>7, <1>8, <1>9
    DEF Uplink!Next

LEMMA OutliveStep ==
  UplinkInv /\ [Uplink!Next]_uplink => IdsOutliveCopies'
  <1>. SUFFICES ASSUME UplinkInv, [Uplink!Next]_uplink PROVE IdsOutliveCopies'
    OBVIOUS
  <1>. USE DEF UplinkInv, UplinkTypes, CopiesAreInTime, IdsOutliveCopies, Dispatching,
               Uplink!Unsent
  <1>1. ASSUME NEW m \in Uplink!Messages, Uplink!DeviceSends(m) PROVE IdsOutliveCopies'
    BY <1>1, IdsAreIds, UplinkConstants, WindowIsLongEnough
    DEF Uplink!DeviceSends, Uplink!Remember, Uplink!IsRecent
  <1>2. ASSUME NEW l \in Loops, NEW m \in Uplink!Messages,
               Uplink!PacketArrives(l, m)
        PROVE  IdsOutliveCopies'
    BY <1>2, IdsAreIds, UplinkConstants, WindowIsLongEnough
    DEF Uplink!PacketArrives, Uplink!Goto, Uplink!Remember, Uplink!IsRecent
  <1>3. ASSUME NEW l \in Loops, Uplink!recordRecentUplink(l) PROVE IdsOutliveCopies'
    <2>. SUFFICES ASSUME NEW m \in Uplink!Messages, Uplink!ID(m) # 0,
                         dispatched'[m] > 0 \/ Dispatching(m)' # {}
                  PROVE  age'[m] + recent'[Uplink!ID(m)] > Lifetime
      BY DEF IdsOutliveCopies
    <2>. DEFINE id == Uplink!ID(copy[l])
    <2>1. /\ UNCHANGED <<age, copy, dispatched>> /\ reader[l] = "record"
          /\ copy[l] \in Uplink!Messages /\ id \in Uplink!Ids
      BY <1>3, IdsAreIds DEF Uplink!recordRecentUplink
    <2>2. CASE id = 0 \/ recent[id] > 0
      <3>1. UNCHANGED recent
        BY <1>3, <2>2 DEF Uplink!recordRecentUplink, Uplink!Remember, Uplink!IsRecent
      <3>2. CASE dispatched[m] > 0 \/ Dispatching(m) # {}
        BY <2>1, <3>1, <3>2
      <3>3. CASE ~(dispatched[m] > 0) /\ Dispatching(m) = {}
        <4>1. copy[l] = m
          BY <1>3, <2>1, <3>3 DEF Uplink!recordRecentUplink, Uplink!Goto
        <4>2. reader'[l] = "reply"
          BY <1>3, <2>2, <4>1
          DEF Uplink!recordRecentUplink, Uplink!IsRecent, Uplink!Goto
        <4>. QED
          BY <1>3, <2>1, <3>3, <4>2 DEF Uplink!recordRecentUplink, Uplink!Goto
      <3>. QED
        BY <3>2, <3>3
    <2>3. CASE id # 0 /\ ~(recent[id] > 0)
      <3>1. recent' = [recent EXCEPT ![id] = Window]
        BY <1>3, <2>3 DEF Uplink!recordRecentUplink, Uplink!Remember, Uplink!IsRecent
      <3>2. recent[Uplink!ID(m)] \in 0..Window /\ age[m] \in Nat /\ Uplink!ID(m) \in Uplink!Ids
        BY IdsAreIds, UplinkConstants, WindowIsLongEnough
      <3>3. CASE Uplink!ID(m) = id
        BY <2>1, <3>1, <3>2, <3>3, WindowIsLongEnough
      <3>4. CASE Uplink!ID(m) # id
        <4>1. recent'[Uplink!ID(m)] = recent[Uplink!ID(m)]
          BY <3>1, <3>2, <3>4
        <4>2. copy[l] # m
          BY <3>4
        <4>3. dispatched[m] > 0 \/ Dispatching(m) # {}
          BY <1>3, <2>1, <4>2 DEF Uplink!recordRecentUplink, Uplink!Goto
        <4>. QED
          BY <2>1, <4>1, <4>3
      <3>. QED
        BY <3>3, <3>4
    <2>. QED
      BY <2>2, <2>3
  <1>4. ASSUME NEW l \in Loops, Uplink!Dispatch(l) PROVE IdsOutliveCopies'
    BY <1>4, IdsAreIds, UplinkConstants, WindowIsLongEnough
    DEF Uplink!Dispatch, Uplink!Goto, Uplink!Remember, Uplink!IsRecent
  <1>5. ASSUME NEW l \in Loops, Uplink!DecodeFails(l) PROVE IdsOutliveCopies'
    BY <1>5, IdsAreIds, UplinkConstants, WindowIsLongEnough
    DEF Uplink!DecodeFails, Uplink!Goto, Uplink!Remember, Uplink!IsRecent
  <1>6. ASSUME NEW l \in Loops, Uplink!replyToUplink(l) PROVE IdsOutliveCopies'
    BY <1>6, IdsAreIds, UplinkConstants, WindowIsLongEnough
    DEF Uplink!replyToUplink, Uplink!Goto, Uplink!Remember, Uplink!IsRecent
  <1>7. CASE Uplink!Switch
    BY <1>7, IdsAreIds, UplinkConstants, WindowIsLongEnough
    DEF Uplink!Switch, Uplink!Remember, Uplink!IsRecent
  <1>8. CASE Uplink!Tick
    <2>. SUFFICES ASSUME NEW m \in Uplink!Messages, Uplink!ID(m) # 0,
                         dispatched'[m] > 0 \/ Dispatching(m)' # {}
                  PROVE  age'[m] + recent'[Uplink!ID(m)] > Lifetime
      BY DEF IdsOutliveCopies
    <2>. DEFINE id == Uplink!ID(m)
    <2>1. /\ id \in Uplink!Ids /\ age[m] \in Nat /\ age[m] <= Lifetime + 1
          /\ recent[id] \in Nat
      BY IdsAreIds, UplinkConstants, WindowIsLongEnough
    <2>2. dispatched[m] > 0 \/ Dispatching(m) # {}
      BY <1>8 DEF Uplink!Tick
    <2>3. age[m] + recent[id] > Lifetime
      BY <2>2
    <2>4. age'[m] = IF age[m] = Lifetime + 1 THEN Lifetime + 1 ELSE age[m] + 1
      BY <1>8 DEF Uplink!Tick
    <2>5. recent'[id] = IF recent[id] = 0 THEN 0 ELSE recent[id] - 1
      BY <1>8, <2>1 DEF Uplink!Tick
    <2>6. Lifetime \in Nat
      BY WindowIsLongEnough
    <2>. HIDE DEF id
    <2>7. age'[m] + recent'[id] > Lifetime
      BY <2>1, <2>3, <2>4, <2>5, <2>6
    <2>. QED
      BY <2>7 DEF id
  <1>9. CASE UNCHANGED uplink
    BY <1>9
    DEF uplink
  <1>. HIDE DEF UplinkInv, UplinkTypes, CopiesAreInTime, IdsOutliveCopies, Dispatching,
                Uplink!Unsent
  <1>. QED
    BY <1>1, <1>2, <1>3, <1>4, <1>5, <1>6, <1>7, <1>8, <1>9
    DEF Uplink!Next

LEMMA DispatchesStep ==
  UplinkInv /\ [Uplink!Next]_uplink => DispatchesAreFirst'
  <1>. SUFFICES ASSUME UplinkInv, [Uplink!Next]_uplink PROVE DispatchesAreFirst'
    OBVIOUS
  <1>. USE DEF UplinkInv, UplinkTypes, DispatchesAreFirst, Dispatching
  <1>1. ASSUME NEW m \in Uplink!Messages, Uplink!DeviceSends(m) PROVE DispatchesAreFirst'
    BY <1>1, IdsAreIds, UplinkConstants, WindowIsLongEnough
    DEF Uplink!DeviceSends, Uplink!IsRecent, CopiesAreInTime, IdsOutliveCopies
  <1>2. ASSUME NEW l \in Loops, NEW m \in Uplink!Messages,
               Uplink!PacketArrives(l, m)
        PROVE  DispatchesAreFirst'
    BY <1>2, IdsAreIds, UplinkConstants, WindowIsLongEnough
    DEF Uplink!PacketArrives, Uplink!Goto, Uplink!IsRecent, CopiesAreInTime, IdsOutliveCopies
  <1>3. ASSUME NEW l \in Loops, Uplink!recordRecentUplink(l) PROVE DispatchesAreFirst'
    BY <1>3, IdsAreIds, UplinkConstants, WindowIsLongEnough
    DEF Uplink!recordRecentUplink, Uplink!Goto, Uplink!IsRecent, CopiesAreInTime,
        IdsOutliveCopies
  <1>4. ASSUME NEW l \in Loops, Uplink!Dispatch(l) PROVE DispatchesAreFirst'
    BY <1>4, IdsAreIds, UplinkConstants, WindowIsLongEnough
    DEF Uplink!Dispatch, Uplink!Goto, Uplink!IsRecent, CopiesAreInTime, IdsOutliveCopies
  <1>5. ASSUME NEW l \in Loops, Uplink!DecodeFails(l) PROVE DispatchesAreFirst'
    BY <1>5, IdsAreIds, UplinkConstants, WindowIsLongEnough
    DEF Uplink!DecodeFails, Uplink!Goto, Uplink!IsRecent, CopiesAreInTime, IdsOutliveCopies
  <1>6. ASSUME NEW l \in Loops, Uplink!replyToUplink(l) PROVE DispatchesAreFirst'
    BY <1>6, IdsAreIds, UplinkConstants, WindowIsLongEnough
    DEF Uplink!replyToUplink, Uplink!Goto, Uplink!IsRecent, CopiesAreInTime, IdsOutliveCopies
  <1>7. CASE Uplink!Switch
    BY <1>7, IdsAreIds, UplinkConstants, WindowIsLongEnough
    DEF Uplink!Switch, Uplink!IsRecent, CopiesAreInTime, IdsOutliveCopies
  <1>8. CASE Uplink!Tick
    BY <1>8, IdsAreIds, UplinkConstants, WindowIsLongEnough
    DEF Uplink!Tick, Uplink!IsRecent, CopiesAreInTime, IdsOutliveCopies
  <1>9. CASE UNCHANGED uplink
    BY <1>9
    DEF uplink
  <1>. HIDE DEF UplinkInv, UplinkTypes, DispatchesAreFirst, Dispatching
  <1>. QED
    BY <1>1, <1>2, <1>3, <1>4, <1>5, <1>6, <1>7, <1>8, <1>9
    DEF Uplink!Next

LEMMA KnownStep ==
  UplinkInv /\ [Uplink!Next]_uplink => KnownWasHandled'
  <1>. SUFFICES ASSUME UplinkInv, [Uplink!Next]_uplink PROVE KnownWasHandled'
    OBVIOUS
  <1>. USE DEF UplinkInv, UplinkTypes, KnownWasHandled, Handled, Dispatching
  <1>1. ASSUME NEW m \in Uplink!Messages, Uplink!DeviceSends(m) PROVE KnownWasHandled'
    BY <1>1, IdsAreIds, UplinkConstants, WindowIsLongEnough
    DEF Uplink!DeviceSends, Uplink!Remember, Uplink!IsRecent, CopiesAreInTime
  <1>2. ASSUME NEW l \in Loops, NEW m \in Uplink!Messages,
               Uplink!PacketArrives(l, m)
        PROVE  KnownWasHandled'
    BY <1>2, IdsAreIds, UplinkConstants, WindowIsLongEnough
    DEF Uplink!PacketArrives, Uplink!Goto, Uplink!Remember, Uplink!IsRecent, CopiesAreInTime
  <1>3. ASSUME NEW l \in Loops, Uplink!recordRecentUplink(l) PROVE KnownWasHandled'
    <2>. DEFINE id == Uplink!ID(copy[l])
    <2>1. /\ UNCHANGED <<acked, muted, copy, dispatched>> /\ reader[l] = "record"
          /\ copy[l] \in Uplink!Messages /\ id \in Uplink!Ids
          /\ reader' = [reader EXCEPT ![l] = IF Uplink!IsRecent(id) THEN "reply" ELSE "dispatch"]
      BY <1>3, IdsAreIds DEF Uplink!recordRecentUplink, Uplink!Goto, CopiesAreInTime
    <2>2. \A m : Handled(m) => Handled(m)'
      BY <2>1
    <2>3. \A m \in acked' \ Malformed : Handled(m)'
      BY <2>1, <2>2
    <2>4. CASE id = 0 \/ recent[id] > 0
      <3>1. UNCHANGED recent
        BY <1>3, <2>4 DEF Uplink!recordRecentUplink, Uplink!Remember, Uplink!IsRecent
      <3>2. \A m \in Uplink!Messages \ Malformed :
              Uplink!ID(m) # 0 /\ recent'[Uplink!ID(m)] > 0 => Handled(m)'
        BY <2>2, <3>1
      <3>3. \A k \in Loops :
              reader'[k] = "reply" /\ copy'[k] \notin Malformed /\ Uplink!ID(copy'[k]) # 0
              => Handled(copy[k])
        <4>. SUFFICES ASSUME NEW k \in Loops, reader'[k] = "reply", copy[k] \notin Malformed,
                             Uplink!ID(copy[k]) # 0
                      PROVE  Handled(copy[k])
          BY <2>1
        <4>1. CASE k = l
          BY <2>1, <2>4, <4>1
        <4>2. CASE k # l
          BY <2>1, <4>2
        <4>. QED
          BY <4>1, <4>2
      <3>. QED
        BY <2>1, <2>2, <2>3, <3>2, <3>3
    <2>5. CASE id # 0 /\ ~(recent[id] > 0)
      <3>1. recent' = [recent EXCEPT ![id] = Window]
        BY <1>3, <2>5 DEF Uplink!recordRecentUplink, Uplink!Remember, Uplink!IsRecent
      <3>2. reader'[l] = "dispatch"
        BY <2>1, <2>5 DEF Uplink!IsRecent
      <3>3. Handled(copy[l])'
        BY <2>1, <3>2
      <3>4. \A m \in Uplink!Messages \ Malformed :
              Uplink!ID(m) # 0 /\ recent'[Uplink!ID(m)] > 0 => Handled(m)'
        <4>. SUFFICES ASSUME NEW m \in Uplink!Messages \ Malformed, Uplink!ID(m) # 0,
                             recent'[Uplink!ID(m)] > 0
                      PROVE  Handled(m)'
          OBVIOUS
        <4>1. CASE Uplink!ID(m) = id
          <5>1. m = copy[l]
            BY <2>1, <4>1, IdsAreDistinct
          <5>. QED
            BY <2>1, <3>3, <5>1
        <4>2. CASE Uplink!ID(m) # id
          BY <2>2, <3>1, <4>2, IdsAreIds
        <4>. QED
          BY <4>1, <4>2
      <3>5. \A k \in Loops :
              reader'[k] = "reply" /\ copy'[k] \notin Malformed /\ Uplink!ID(copy'[k]) # 0
              => Handled(copy[k])
        BY <2>1, <3>2
      <3>. QED
        BY <2>1, <2>2, <2>3, <3>4, <3>5
    <2>. QED
      BY <2>4, <2>5
  <1>4. ASSUME NEW l \in Loops, Uplink!Dispatch(l) PROVE KnownWasHandled'
    BY <1>4, IdsAreIds, UplinkConstants, WindowIsLongEnough
    DEF Uplink!Dispatch, Uplink!Goto, Uplink!Remember, Uplink!IsRecent, CopiesAreInTime
  <1>5. ASSUME NEW l \in Loops, Uplink!DecodeFails(l) PROVE KnownWasHandled'
    BY <1>5, IdsAreIds, UplinkConstants, WindowIsLongEnough
    DEF Uplink!DecodeFails, Uplink!Goto, Uplink!Remember, Uplink!IsRecent, CopiesAreInTime
  <1>6. ASSUME NEW l \in Loops, Uplink!replyToUplink(l) PROVE KnownWasHandled'
    BY <1>6, IdsAreIds, UplinkConstants, WindowIsLongEnough
    DEF Uplink!replyToUplink, Uplink!Goto, Uplink!Remember, Uplink!IsRecent, CopiesAreInTime
  <1>7. CASE Uplink!Switch
    BY <1>7, IdsAreIds, UplinkConstants, WindowIsLongEnough
    DEF Uplink!Switch, Uplink!Remember, Uplink!IsRecent, CopiesAreInTime
  <1>8. CASE Uplink!Tick
    BY <1>8, IdsAreIds, UplinkConstants, WindowIsLongEnough
    DEF Uplink!Tick, Uplink!Remember, Uplink!IsRecent, CopiesAreInTime
  <1>9. CASE UNCHANGED uplink
    BY <1>9
    DEF uplink
  <1>. HIDE DEF UplinkInv, UplinkTypes, KnownWasHandled, Handled, Dispatching
  <1>. QED
    BY <1>1, <1>2, <1>3, <1>4, <1>5, <1>6, <1>7, <1>8, <1>9
    DEF Uplink!Next

LEMMA UplinkStep == UplinkInv /\ [Uplink!Next]_uplink => UplinkInv'
  BY UplinkTypesStep, CopiesStep, OutliveStep, DispatchesStep, KnownStep DEF UplinkInv

-----------------------------------------------------------------------------
(* The two parts together, as the run checks them *)

\* Both inductive invariants hold in every state of the composition.
THEOREM ControlIsSound == MCSpec => []ControlInv /\ []UplinkInv
  <1>1. MCInit => ControlInv /\ UplinkInv
    BY ControlInit, UplinkInit DEF MCInit
  <1>2. [MCNext]_<<part, vars, uplink>> => [Next]_vars /\ [Uplink!Next]_uplink
    BY DEF MCNext, vars, uplink
  <1>. QED
    BY <1>1, <1>2, ControlStep, UplinkStep, PTL DEF MCSpec

\* The variables of LANClient's control and of its uplink handler keep their types.
THEOREM LanControlTypeCorrect == MCSpec => []LanControlTypeOK
  <1>1. ControlInv => TypeOK
    BY DEF ControlInv, ControlTypes, TypeOK
  <1>2. UplinkInv => Uplink!TypeOK
    BY DEF UplinkInv, UplinkTypes, Uplink!TypeOK
  <1>. QED
    BY <1>1, <1>2, ControlIsSound, PTL DEF LanControlTypeOK

\* However Start, Close, votes and gateways overlap, no scan goroutine and no listener is left
\* that nobody will end; undisturbed, the runtime runs when it is allowed and only then, and the
\* subscribers of the LAN state know it (setEnabled, startRuntime, stopRuntime).
THEOREM ControlStaysObeyed == MCSpec => []ControlObeys
  <1>1. ControlInv => ControlObeys
    <2>. SUFFICES ASSUME ControlInv PROVE RuntimeObeys /\ ToldTheTruth
      BY DEF ControlInv, ControlObeys
    <2>1. RuntimeObeys
      <3>. SUFFICES ASSUME Quiet, ~disturbed PROVE ForbiddenIsOff /\ StartedRuns
        BY DEF RuntimeObeys
      <3>1. Right /\ \A t \in Threads : took[t] = Nothing
        BY DEF ControlInv, CallsAreRight, CarriesOnly, Quiet, Stopping
      <3>2. ASSUME current = None PROVE open = {} /\ \A r \in Runtimes : ~Alive(r)
        <4>1. listening = None /\ Nothing.listener = None
          BY <3>2 DEF ControlInv, ControlTypes, Nothing
        <4>2. \A r \in open : r \in Runtimes
          BY DEF ControlInv, ControlTypes
        <4>3. open = {}
          BY <3>1, <4>1, <4>2, LanControlConstants DEF ControlInv, NothingLeaks
        <4>4. \A r \in Runtimes : ~Alive(r)
          BY <3>2, LanControlConstants DEF ControlInv, ScansAreHeld, Quiet
        <4>. QED
          BY <4>3, <4>4
      <3>. QED
        BY <3>1, <3>2 DEF Right, ForbiddenIsOff, StartedRuns
    <2>2. ToldTheTruth
      BY DEF ControlInv, CarriesOnly, TellsTheTruth, ToldTheTruth, Quiet
    <2>. QED
      BY <2>1, <2>2
  <1>. QED
    BY <1>1, ControlIsSound, PTL

\* However often a message arrives within the window, subscribers see it once, and what the device
\* sees acknowledged was handled (handlePacket, recordRecentUplink).
THEOREM HandledStaysOnce == MCSpec => []HandledOnce
  <1>1. UplinkInv => Uplink!AtMostOnce
    BY DEF UplinkInv, DispatchesAreFirst, Uplink!AtMostOnce
  <1>2. UplinkInv => Uplink!AckedWasHandled
    BY DEF UplinkInv, UplinkTypes, KnownWasHandled, Handled, Dispatching, Uplink!AckedWasHandled
  <1>. QED
    BY <1>1, <1>2, ControlIsSound, PTL DEF HandledOnce
=============================================================================
