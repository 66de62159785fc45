---------------------------- MODULE Requests_proofs ----------------------------
(***************************************************************************)
(* Proofs about the two parts of MCRequests: the refresh queue of the      *)
(* client (PropertyRefresh) and the requests made of a gateway             *)
(* (MipsRequest), for any number of goroutines, keys, starts and replies.  *)
(***************************************************************************)
EXTENDS MCRequests, FiniteSetTheorems, TLAPS

(* The refresh queue *)

ProcStates == {"free", "schedule", "install", "armed", "stopped", "take", "fetch",
               "requeue", "decide", "giveup", "cancel"}

\* The goroutines, but for the numbers TypeOK bounds.
ProcTypes ==
  [pc : ProcStates, ctx : 0..MaxStarts, active : SUBSET Keys, timed : BOOLEAN,
   progress : BOOLEAN, remaining : BOOLEAN]

QueueTypes ==
  /\ queuedProps \subseteq Keys
  /\ propTimer \in Procs \cup {None, Stale}
  /\ propRetry \in Nat
  /\ runtimeCtx \in 0..MaxStarts /\ over \subseteq 1..MaxStarts
  /\ starts \in 0..MaxStarts /\ starting \in 0..starts
  /\ proc \in [Procs -> ProcTypes]
  /\ lost \in BOOLEAN

\* Goroutines that have used up the retries and have not dropped the queue yet.
GivingUp == {p \in Procs : proc[p].pc = "giveup"}

\* Every retry beyond the limit is one that a goroutine is giving up for.
RetriesBounded == propRetry <= MaxRetry - 1 + Cardinality(GivingUp)

\* Properties are out of the queue only between a cycle's take and its requeue.
ActiveInCycle == \A p \in Procs : proc[p].active # {} => proc[p].pc \in {"fetch", "requeue"}

\* The slot holds the one timer that has neither expired nor been stopped.
SlotIsArmed == \A p \in Procs : proc[p].pc = "armed" <=> propTimer = p

\* A timer belongs to a context that has ended or to the one that is there.
TimerHasContext ==
  \A p \in Procs : proc[p].pc \in {"install", "armed"} =>
    proc[p].ctx # 0 /\ proc[p].ctx \in over \cup {runtimeCtx}

\* After a timer was lost, none is in the slot but a dead one.
LostLeavesNone == lost => propTimer = None \/ SlotIsDead

\* Unless a timer was lost or is dead, whatever is pending, also what a cycle has taken out of
\* the queue, has a goroutine that will serve it, whether or not the client runs.
PendingIsCovered ==
  Pending # {} /\ ~lost /\ ~SlotIsDead => \E p \in Procs : WillServe(p)

QueueInv ==
  /\ QueueTypes /\ RetriesBounded
  /\ ActiveInCycle /\ SlotIsArmed /\ TimerHasContext /\ LostLeavesNone
  /\ PendingIsCovered

-----------------------------------------------------------------------------
(* What a step does to the goroutines *)

LEMMA IdleTypes ==
  /\ Idle \in ProcTypes
  /\ Idle.pc = "free" /\ Idle.active = {} /\ ~Idle.timed
  /\ \A s \in ProcStates :
       /\ [Idle EXCEPT !.pc = s] \in ProcTypes
       /\ [Idle EXCEPT !.pc = s].pc = s /\ [Idle EXCEPT !.pc = s].active = {}
  <1>1. 0 \in 0..MaxStarts
    BY RefreshConstants
  <1>2. Idle \in ProcTypes
    BY <1>1 DEF Idle, ProcTypes, ProcStates
  <1>3. ASSUME NEW s \in ProcStates
        PROVE  /\ [Idle EXCEPT !.pc = s] \in ProcTypes
               /\ [Idle EXCEPT !.pc = s].pc = s /\ [Idle EXCEPT !.pc = s].active = {}
    BY <1>2 DEF Idle, ProcTypes
  <1>. QED
    BY <1>2, <1>3 DEF Idle

\* What handleQueuedPropertyRefresh goes on with after a cycle, and a caller of
\* RefreshQueuedProperties.
LEMMA CycleEndsTypes ==
  ASSUME NEW p \in Procs, NEW progress \in BOOLEAN, NEW remaining \in BOOLEAN
  PROVE  /\ CycleEnds(p, progress, remaining) \in ProcTypes
         /\ CycleEnds(p, progress, remaining).active = {}
         /\ ~proc[p].timed => CycleEnds(p, progress, remaining) = Idle
         /\ proc[p].timed => /\ CycleEnds(p, progress, remaining).pc = "decide"
                             /\ CycleEnds(p, progress, remaining).progress = progress
                             /\ CycleEnds(p, progress, remaining).remaining = remaining
  <1>1. 0 \in 0..MaxStarts
    BY RefreshConstants
  <1>2. CASE proc[p].timed
    BY <1>1, <1>2 DEF CycleEnds, Idle, ProcTypes, ProcStates
  <1>3. CASE ~proc[p].timed
    BY <1>3, IdleTypes DEF CycleEnds
  <1>. QED
    BY <1>2, <1>3

\* Stopping a timer changes nothing but the step of its goroutine.
LEMMA StopTimerChanges ==
  ASSUME NEW t, proc \in [Procs -> ProcTypes]
  PROVE  /\ StopTimer(proc, t) \in [Procs -> ProcTypes]
         /\ \A q \in Procs :
              StopTimer(proc, t)[q] =
                IF q = t THEN [proc[q] EXCEPT !.pc = "stopped"] ELSE proc[q]
  BY DEF StopTimer, ProcTypes, ProcStates

\* A step of one goroutine leaves the others alone.
Alone(p) == \A q \in Procs \ {p} : proc'[q] = proc[q]

\* What the steps that change several fields of a goroutine do to each of them.
LEMMA CycleTakeDoes ==
  ASSUME QueueTypes, NEW p \in Procs, CycleTake(p)
  PROVE  \E active \in SUBSET queuedProps :
           /\ queuedProps' = queuedProps \ active
           /\ proc' \in [Procs -> ProcTypes] /\ Alone(p)
           /\ proc'[p].active = active
           /\ active # {} => proc'[p].pc = "fetch" /\ proc'[p].timed = proc[p].timed
           /\ active = {} => proc'[p] = CycleEnds(p, FALSE, FALSE)
  <1>1. PICK active \in SUBSET queuedProps :
          /\ queuedProps' = queuedProps \ active
          /\ proc' = [proc EXCEPT ![p] = IF active = {} THEN CycleEnds(p, FALSE, FALSE)
                                         ELSE [proc[p] EXCEPT !.pc = "fetch", !.active = active]]
    BY DEF CycleTake
  <1>. DEFINE n == [proc[p] EXCEPT !.pc = "fetch", !.active = active]
  <1>2. n \in ProcTypes /\ n.pc = "fetch" /\ n.active = active /\ n.timed = proc[p].timed
    BY DEF QueueTypes, ProcTypes, ProcStates
  <1>. HIDE DEF n
  <1>3. CASE active = {}
    BY <1>1, <1>3, CycleEndsTypes DEF QueueTypes, Alone
  <1>4. CASE active # {}
    BY <1>1, <1>2, <1>4 DEF QueueTypes, Alone, n
  <1>. QED
    BY <1>3, <1>4

LEMMA CycleFetchDoes ==
  ASSUME QueueTypes, NEW p \in Procs, CycleFetch(p)
  PROVE  /\ proc' \in [Procs -> ProcTypes] /\ Alone(p)
         /\ proc'[p].pc = "requeue" /\ proc'[p].active \subseteq proc[p].active
         /\ proc'[p].ctx = proc[p].ctx /\ proc'[p].timed = proc[p].timed
  <1>1. PICK fetched \in SUBSET proc[p].active :
          proc' = [proc EXCEPT ![p].active = @ \ fetched,
                               ![p].progress = fetched # {}, ![p].pc = "requeue"]
    BY DEF CycleFetch
  <1>. DEFINE left == proc[p].active \ fetched
              some == fetched # {}
  <1>2. proc \in [Procs -> ProcTypes] /\ left \in SUBSET Keys /\ some \in BOOLEAN
    BY DEF QueueTypes, ProcTypes
  <1>3. proc' = [proc EXCEPT ![p].active = left, ![p].progress = some, ![p].pc = "requeue"]
    BY <1>1
  <1>4. left \subseteq proc[p].active
    OBVIOUS
  <1>. HIDE DEF left, some
  <1>. QED
    BY <1>2, <1>3, <1>4, ZenonT(60) DEF ProcTypes, ProcStates, Alone

LEMMA CycleRequeueDoes ==
  ASSUME QueueTypes, NEW p \in Procs, CycleRequeue(p)
  PROVE  /\ proc' \in [Procs -> ProcTypes] /\ Alone(p)
         /\ queuedProps' = queuedProps \cup proc[p].active
         /\ proc'[p].active = {}
         /\ ~proc[p].timed => proc'[p] = Idle
         /\ proc[p].timed => proc'[p].pc = "decide" /\ proc'[p].remaining = (queuedProps' # {})
  <1>1. proc[p].progress \in BOOLEAN /\ (queuedProps' # {}) \in BOOLEAN
    BY DEF QueueTypes, ProcTypes
  <1>2. proc' = [proc EXCEPT ![p] = CycleEnds(p, proc[p].progress, queuedProps' # {})]
    BY DEF CycleRequeue
  <1>3. proc' \in [Procs -> ProcTypes] /\ Alone(p)
        /\ proc'[p] = CycleEnds(p, proc[p].progress, queuedProps' # {})
    BY <1>1, <1>2, CycleEndsTypes DEF QueueTypes, Alone
  <1>. QED
    BY <1>1, <1>3, CycleEndsTypes DEF CycleRequeue

LEMMA InstallTimerDoes ==
  ASSUME QueueTypes, SlotIsArmed, NEW p \in Procs, InstallTimer(p)
  PROVE  /\ proc' \in [Procs -> ProcTypes]
         /\ proc'[p].pc = "armed" /\ proc'[p].ctx = proc[p].ctx /\ proc'[p].active = proc[p].active
         /\ \A q \in Procs \ {p} :
              proc'[q] = IF q = propTimer THEN [proc[q] EXCEPT !.pc = "stopped"] ELSE proc[q]
  <1>. DEFINE others == StopTimer(proc, propTimer)
  <1>1. others \in [Procs -> ProcTypes] /\ proc' = [others EXCEPT ![p].pc = "armed"]
    BY StopTimerChanges DEF InstallTimer, QueueTypes
  <1>2. \A q \in Procs :
          others[q] = IF q = propTimer THEN [proc[q] EXCEPT !.pc = "stopped"] ELSE proc[q]
    BY StopTimerChanges DEF QueueTypes
  <1>. HIDE DEF others
  <1>3. p # propTimer
    BY DEF InstallTimer, SlotIsArmed
  <1>. QED
    BY <1>1, <1>2, <1>3 DEF ProcTypes, ProcStates

LEMMA CancelDoes ==
  ASSUME QueueTypes, NEW p \in Procs, CancelPropRefresh(p)
  PROVE  /\ proc' \in [Procs -> ProcTypes] /\ proc'[p] = Idle
         /\ \A q \in Procs \ {p} :
              proc'[q] = IF q = propTimer THEN [proc[q] EXCEPT !.pc = "stopped"] ELSE proc[q]
  BY StopTimerChanges, IdleTypes DEF CancelPropRefresh, QueueTypes

LEMMA QueueInit == Init => QueueInv
  <1>. SUFFICES ASSUME Init PROVE QueueInv
    OBVIOUS
  <1>. USE DEF Init
  <1>1. \A p \in Procs : proc[p] = Idle
    OBVIOUS
  <1>2. QueueTypes
    <2>1. proc \in [Procs -> ProcTypes]
      BY IdleTypes
    <2>2. lost \in BOOLEAN
      BY Zenon
    <2>3. /\ queuedProps \subseteq Keys /\ propTimer \in Procs \cup {None, Stale}
          /\ propRetry \in Nat /\ runtimeCtx \in 0..MaxStarts /\ over \subseteq 1..MaxStarts
          /\ starts \in 0..MaxStarts /\ starting \in 0..starts
      BY RefreshConstants
    <2>. QED
      BY <2>1, <2>2, <2>3 DEF QueueTypes
  <1>3. GivingUp = {} /\ Pending = {}
    BY <1>1 DEF GivingUp, Idle, Pending
  <1>4. RetriesBounded
    BY <1>3, FS_EmptySet, RefreshConstants DEF RetriesBounded
  <1>5. ActiveInCycle /\ TimerHasContext
    BY <1>1 DEF ActiveInCycle, TimerHasContext, Idle
  <1>6. SlotIsArmed /\ LostLeavesNone
    BY <1>1, RefreshConstants DEF SlotIsArmed, LostLeavesNone, Idle
  <1>. QED
    BY <1>2, <1>3, <1>4, <1>5, <1>6 DEF QueueInv, PendingIsCovered

LEMMA QueueTypesStep ==
  QueueTypes /\ SlotIsArmed /\ [Next]_vars => QueueTypes'
  <1>. SUFFICES ASSUME QueueTypes, SlotIsArmed, [Next]_vars
                PROVE  QueueTypes'
    OBVIOUS
  <1>. USE RefreshConstants DEF QueueTypes
  <1>1. ASSUME NEW p \in Procs, NEW k \in Keys, RequestRefreshProperty(p, k)
        PROVE  QueueTypes'
    BY <1>1 DEF RequestRefreshProperty, life, ProcTypes, ProcStates
  <1>2. ASSUME NEW p \in Procs, RefreshQueuedProperties(p)
        PROVE  QueueTypes'
    BY <1>2 DEF RefreshQueuedProperties, life, ProcTypes, ProcStates
  <1>3. ASSUME NEW p \in Procs, ReadRuntimeCtx(p)
        PROVE  QueueTypes'
    BY <1>3, IdleTypes DEF ReadRuntimeCtx, life, ProcTypes, ProcStates
  <1>4. ASSUME NEW p \in Procs, InstallTimer(p)
        PROVE  QueueTypes'
    BY <1>4, InstallTimerDoes DEF InstallTimer, life
  <1>5. ASSUME NEW p \in Procs, TimerFires(p)
        PROVE  QueueTypes'
    <2>1. propTimer' \in Procs \cup {None, Stale}
      BY <1>5 DEF TimerFires
    <2>2. [proc[p] EXCEPT !.pc = "take", !.ctx = 0, !.timed = TRUE] \in ProcTypes
      <3>1. proc[p] \in ProcTypes /\ 0 \in 0..MaxStarts
        OBVIOUS
      <3>. QED
        BY <3>1 DEF ProcTypes, ProcStates
    <2>3. proc' = [proc EXCEPT ![p] = [proc[p] EXCEPT !.pc = "take", !.ctx = 0, !.timed = TRUE]]
      BY <1>5, Zenon DEF TimerFires
    <2>4. proc' \in [Procs -> ProcTypes]
      BY <2>2, <2>3
    <2>. QED
      BY <1>5, <2>1, <2>4 DEF TimerFires, life
  <1>6. ASSUME NEW p \in Procs, TimerReturns(p)
        PROVE  QueueTypes'
    BY <1>6, IdleTypes DEF TimerReturns, life
  <1>7. ASSUME NEW p \in Procs, CycleTake(p)
        PROVE  QueueTypes'
    BY <1>7, CycleTakeDoes DEF CycleTake, life
  <1>8. ASSUME NEW p \in Procs, CycleFetch(p)
        PROVE  QueueTypes'
    BY <1>8, CycleFetchDoes DEF CycleFetch, life
  <1>9. ASSUME NEW p \in Procs, CycleRequeue(p)
        PROVE  QueueTypes'
    <2>1. queuedProps' = queuedProps \cup proc[p].active /\ proc' \in [Procs -> ProcTypes]
      BY <1>9, CycleRequeueDoes
    <2>2. queuedProps' \subseteq Keys /\ lost' \in BOOLEAN
      BY <1>9, <2>1 DEF CycleRequeue, ProcTypes
    <2>. QED
      BY <1>9, <2>1, <2>2 DEF CycleRequeue, life
  <1>11. ASSUME NEW p \in Procs, HandleProgress(p)
        PROVE  QueueTypes'
    BY <1>11, IdleTypes DEF HandleProgress, life, ProcTypes, ProcStates
  <1>12. ASSUME NEW p \in Procs, HandleNothingQueued(p)
        PROVE  QueueTypes'
    BY <1>12, IdleTypes DEF HandleNothingQueued, life, ProcTypes, ProcStates
  <1>13. ASSUME NEW p \in Procs, HandleRetry(p)
        PROVE  QueueTypes'
    <2>1. \E s \in {"giveup", "schedule"} : proc' = [proc EXCEPT ![p] = [Idle EXCEPT !.pc = s]]
      BY <1>13 DEF HandleRetry
    <2>2. proc' \in [Procs -> ProcTypes]
      BY <2>1, IdleTypes DEF ProcStates
    <2>. QED
      BY <1>13, <2>2 DEF HandleRetry, life
  <1>14. ASSUME NEW p \in Procs, GiveUp(p)
        PROVE  QueueTypes'
    BY <1>14 DEF GiveUp, life, ProcTypes, ProcStates
  <1>15. ASSUME NEW p \in Procs, CancelPropRefresh(p)
        PROVE  QueueTypes'
    BY <1>15, IdleTypes, StopTimerChanges DEF CancelPropRefresh, life
  <1>16. CASE Close
    BY <1>16, StopTimerChanges DEF Close
  <1>17. CASE Start
    BY <1>17 DEF Start
  <1>18. CASE StartReturns
    BY <1>18 DEF StartReturns
  <1>21. CASE RollbackStart
    BY <1>21 DEF RollbackStart
  <1>19. CASE ContextEnds
    BY <1>19 DEF ContextEnds
  <1>20. CASE UNCHANGED vars
    BY <1>20 DEF vars, life
  <1>. QED
    BY <1>1, <1>2, <1>3, <1>4, <1>5, <1>6, <1>7, <1>8, <1>9, <1>11, <1>12, <1>13,
       <1>14, <1>15, <1>16, <1>17, <1>18, <1>19,
       <1>20, <1>21 DEF Next, Step

\* A goroutine is giving up exactly when the last retry was counted: the counter outruns the limit
\* by no more than the number of those goroutines.
LEMMA RetriesBoundedStep ==
  QueueTypes /\ SlotIsArmed /\ RetriesBounded /\ [Next]_vars => RetriesBounded'
  <1>. SUFFICES ASSUME QueueTypes, SlotIsArmed, RetriesBounded, [Next]_vars
                PROVE  RetriesBounded'
    OBVIOUS
  <1>1. QueueTypes'
    BY QueueTypesStep
  <1>2. /\ IsFiniteSet(GivingUp) /\ Cardinality(GivingUp) \in Nat
        /\ IsFiniteSet(GivingUp') /\ Cardinality(GivingUp') \in Nat
    <2>1. GivingUp \in SUBSET Procs /\ GivingUp' \in SUBSET Procs
      BY DEF GivingUp
    <2>. QED
      BY <2>1, FS_Subset, FS_CardinalityType, RefreshConstants
  <1>3. CASE propRetry' = 0
    BY <1>2, <1>3, RefreshConstants DEF RetriesBounded
  <1>4. CASE propRetry' = propRetry /\ GivingUp' = GivingUp
    BY <1>4 DEF RetriesBounded
  <1>5. ASSUME NEW p \in Procs, HandleRetry(p)
        PROVE  RetriesBounded'
    <2>1. propRetry' = propRetry + 1 /\ propRetry \in Nat
      BY <1>5 DEF HandleRetry, QueueTypes
    <2>2. CASE propRetry' >= MaxRetry
      <3>1. p \notin GivingUp /\ GivingUp' = GivingUp \cup {p}
        BY <1>5, <2>2 DEF HandleRetry, GivingUp, QueueTypes, Idle
      <3>2. Cardinality(GivingUp') = Cardinality(GivingUp) + 1
        BY <1>2, <3>1, FS_AddElement
      <3>. QED
        BY <1>2, <2>1, <3>2, RefreshConstants DEF RetriesBounded
    <2>3. CASE ~(propRetry' >= MaxRetry)
      BY <1>2, <2>1, <2>3, RefreshConstants DEF RetriesBounded
    <2>. QED
      BY <2>2, <2>3
  <1>6. ASSUME NEW p \in Procs, HandleProgress(p) \/ GiveUp(p) \/ CancelPropRefresh(p)
        PROVE  RetriesBounded'
    BY <1>3, <1>6 DEF HandleProgress, GiveUp, CancelPropRefresh
  <1>7. ASSUME NEW p \in Procs, Alone(p), propRetry' = propRetry,
               proc[p].pc # "giveup", proc'[p].pc # "giveup"
        PROVE  RetriesBounded'
    BY <1>4, <1>7 DEF GivingUp, Alone
  <1>a. ASSUME NEW p \in Procs, NEW k \in Keys, RequestRefreshProperty(p, k)
        PROVE  RetriesBounded'
    <2>1. CASE proc' = proc
      BY <1>4, <1>a, <2>1 DEF RequestRefreshProperty, GivingUp
    <2>2. CASE proc' # proc
      BY <1>7, <1>a, <2>2 DEF RequestRefreshProperty, Alone, QueueTypes, ProcTypes
    <2>. QED
      BY <2>1, <2>2
  <1>b. ASSUME NEW p \in Procs, RefreshQueuedProperties(p)
        PROVE  RetriesBounded'
    BY <1>7, <1>b DEF RefreshQueuedProperties, Alone, QueueTypes, ProcTypes, Idle
  <1>c. ASSUME NEW p \in Procs, ReadRuntimeCtx(p)
        PROVE  RetriesBounded'
    BY <1>7, <1>c DEF ReadRuntimeCtx, Alone, QueueTypes, ProcTypes, Idle
  <1>d. ASSUME NEW p \in Procs, TimerFires(p)
        PROVE  RetriesBounded'
    BY <1>7, <1>d DEF TimerFires, Alone, QueueTypes, ProcTypes, Idle
  <1>e. ASSUME NEW p \in Procs, TimerReturns(p)
        PROVE  RetriesBounded'
    BY <1>7, <1>e DEF TimerReturns, Alone, QueueTypes, ProcTypes, Idle
  <1>g. ASSUME NEW p \in Procs, HandleNothingQueued(p)
        PROVE  RetriesBounded'
    BY <1>7, <1>g DEF HandleNothingQueued, Alone, QueueTypes, ProcTypes, Idle
  <1>8. ASSUME NEW p \in Procs, InstallTimer(p)
        PROVE  RetriesBounded'
    <2>1. \A q \in Procs : proc'[q].pc = "giveup" <=> proc[q].pc = "giveup"
      BY <1>8, InstallTimerDoes DEF InstallTimer, SlotIsArmed, QueueTypes, ProcTypes
    <2>. QED
      BY <1>4, <1>8, <2>1 DEF InstallTimer, GivingUp
  <1>9. ASSUME NEW p \in Procs, CycleTake(p) \/ CycleFetch(p) \/ CycleRequeue(p)
        PROVE  RetriesBounded'
    <2>1. proc[p].pc # "giveup" /\ proc'[p].pc # "giveup" /\ Alone(p)
      <3>1. CASE CycleTake(p)
        <4>1. Idle.pc # "giveup" /\ CycleEnds(p, FALSE, FALSE).pc # "giveup"
          BY IdleTypes, CycleEndsTypes, Zenon
        <4>. QED
          BY <3>1, <4>1, CycleTakeDoes DEF CycleTake
      <3>2. CASE CycleFetch(p)
        BY <3>2, CycleFetchDoes DEF CycleFetch
      <3>3. CASE CycleRequeue(p)
        BY <3>3, CycleRequeueDoes, IdleTypes DEF CycleRequeue, QueueTypes, ProcTypes
      <3>. QED
        BY <1>9, <3>1, <3>2, <3>3
    <2>. QED
      BY <1>7, <1>9, <2>1 DEF CycleTake, CycleFetch, CycleRequeue
  <1>10. CASE \/ Close \/ Start \/ StartReturns \/ RollbackStart \/ ContextEnds
              \/ UNCHANGED vars
    BY <1>3, <1>4, <1>10
    DEF Close, Start, StartReturns, RollbackStart, ContextEnds, vars, GivingUp
  <1>. QED
    BY <1>5, <1>6, <1>8, <1>9, <1>10, <1>a, <1>b, <1>c, <1>d, <1>e, <1>g DEF Next, Step

-----------------------------------------------------------------------------
(* What the slot and the goroutines have to do with each other *)

SlotInv == ActiveInCycle /\ SlotIsArmed /\ TimerHasContext /\ LostLeavesNone

\* A step that leaves the slot and the contexts alone leaves a dead slot dead, and no other.
LEMMA SlotStays ==
  ASSUME SlotIsArmed, propTimer \in Procs \cup {None, Stale}, propTimer' = propTimer,
         NEW p \in Procs, Alone(p), proc[p].pc # "armed"
  PROVE  /\ propTimer # p
         /\ over' = over => (SlotIsDead' <=> SlotIsDead)
  BY RefreshConstants DEF SlotIsArmed, Alone, SlotIsDead

LEMMA SlotStep == QueueTypes /\ SlotInv /\ [Next]_vars => SlotInv'
  <1>. SUFFICES ASSUME QueueTypes, SlotInv, [Next]_vars PROVE SlotInv'
    OBVIOUS
  <1>0. QueueTypes' /\ SlotIsArmed /\ None \notin Procs /\ Stale \notin Procs /\ None # Stale
    BY QueueTypesStep, RefreshConstants DEF SlotInv
  <1>a. ASSUME NEW p \in Procs, Alone(p), propTimer' = propTimer, lost' = lost, life' = life,
               proc[p].pc # "armed",
               proc'[p].active # {} => proc'[p].pc \in {"fetch", "requeue"},
               proc'[p].pc # "armed", proc'[p].pc = "install" => /\ proc'[p].ctx # 0
                                                                /\ proc'[p].ctx = runtimeCtx
        PROVE  SlotInv'
    <2>0. over' = over /\ runtimeCtx' = runtimeCtx
      BY <1>a DEF life
    <2>1. ActiveInCycle' /\ TimerHasContext' /\ SlotIsArmed'
      BY <1>a, <2>0 DEF SlotInv, ActiveInCycle, TimerHasContext, SlotIsArmed, Alone
    <2>2. LostLeavesNone'
      BY <1>a, <2>0, SlotStays DEF SlotInv, LostLeavesNone, QueueTypes
    <2>. QED
      BY <2>1, <2>2 DEF SlotInv
  <1>1. ASSUME NEW p \in Procs, NEW k \in Keys, RequestRefreshProperty(p, k)
        PROVE  SlotInv'
    <2>1. CASE proc' = proc
      BY <1>1, <2>1
      DEF RequestRefreshProperty, SlotInv, ActiveInCycle, SlotIsArmed, TimerHasContext,
          LostLeavesNone, SlotIsDead,
          life
    <2>2. CASE proc' = [proc EXCEPT ![p].pc = "schedule"]
      <3>1. /\ Alone(p) /\ proc'[p].pc = "schedule" /\ proc'[p].active = proc[p].active
            /\ proc[p].active = {}
        BY <1>1, <2>2
        DEF RequestRefreshProperty, Alone, QueueTypes, ProcTypes, SlotInv, ActiveInCycle
      <3>. QED
        BY <1>1, <1>a, <3>1 DEF RequestRefreshProperty
    <2>. QED
      BY <1>1, <2>1, <2>2 DEF RequestRefreshProperty
  <1>2. ASSUME NEW p \in Procs, RefreshQueuedProperties(p)
        PROVE  SlotInv'
    <2>1. /\ Alone(p) /\ proc'[p].pc = "take" /\ proc'[p].active = {}
      BY <1>2 DEF RefreshQueuedProperties, Alone, QueueTypes, ProcTypes, SlotInv, ActiveInCycle
    <2>. QED
      BY <1>2, <1>a, <2>1 DEF RefreshQueuedProperties
  <1>3. ASSUME NEW p \in Procs, ReadRuntimeCtx(p)
        PROVE  SlotInv'
    <2>1. /\ Alone(p) /\ proc'[p].pc \in {"free", "install"} /\ proc'[p].active = {}
          /\ proc'[p].pc = "install" => proc'[p].ctx # 0 /\ proc'[p].ctx = runtimeCtx
      BY <1>3 DEF ReadRuntimeCtx, Alone, QueueTypes, ProcTypes, Idle
    <2>2. propTimer' = propTimer /\ life' = life /\ proc[p].pc # "armed"
      BY <1>3 DEF ReadRuntimeCtx
    <2>3. CASE lost' = lost
      BY <1>a, <2>1, <2>2, <2>3
    <2>4. CASE lost' # lost
      <3>1. runtimeCtx = 0
        BY <1>3, <2>4 DEF ReadRuntimeCtx, QueueTypes
      <3>2. propTimer = None \/ SlotIsDead
        BY <3>1 DEF SlotInv, SlotIsArmed, TimerHasContext, SlotIsDead, QueueTypes
      <3>3. over' = over /\ runtimeCtx' = runtimeCtx
        BY <2>2 DEF life
      <3>4. LostLeavesNone'
        BY <2>1, <2>2, <3>2, <3>3, SlotStays DEF SlotInv, LostLeavesNone, QueueTypes
      <3>. QED
        BY <2>1, <2>2, <3>3, <3>4
        DEF SlotInv, ActiveInCycle, SlotIsArmed, TimerHasContext, Alone
    <2>. QED
      BY <2>3, <2>4
  <1>4. ASSUME NEW p \in Procs, InstallTimer(p)
        PROVE  SlotInv'
    <2>1. /\ proc'[p].pc = "armed" /\ proc'[p].ctx = proc[p].ctx /\ proc'[p].active = proc[p].active
          /\ \A q \in Procs \ {p} :
               proc'[q] = IF q = propTimer THEN [proc[q] EXCEPT !.pc = "stopped"] ELSE proc[q]
      BY <1>0, <1>4, InstallTimerDoes
    <2>2. \A q \in Procs \ {p} :
            /\ proc'[q].active = proc[q].active /\ proc'[q].ctx = proc[q].ctx
            /\ proc'[q].pc = IF q = propTimer THEN "stopped" ELSE proc[q].pc
      BY <2>1, ZenonT(60) DEF QueueTypes, ProcTypes
    <2>3. ActiveInCycle'
      BY <1>0, <1>4, <2>1, <2>2 DEF InstallTimer, SlotInv, ActiveInCycle, SlotIsArmed
    <2>4. TimerHasContext'
      BY <1>0, <1>4, <2>1, <2>2 DEF InstallTimer, SlotInv, TimerHasContext, life
    <2>5. SlotIsArmed'
      BY <1>0, <1>4, <2>1, <2>2 DEF InstallTimer, SlotIsArmed
    <2>6. LostLeavesNone'
      <3>1. lost' => proc[p].ctx \in over
        BY <1>4, Zenon DEF InstallTimer
      <3>2. propTimer' = p /\ over' = over
        BY <1>4 DEF InstallTimer, life
      <3>. QED
        BY <2>1, <3>1, <3>2 DEF LostLeavesNone, SlotIsDead
    <2>. QED
      BY <2>3, <2>4, <2>5, <2>6 DEF SlotInv
  <1>5. ASSUME NEW p \in Procs, TimerFires(p)
        PROVE  SlotInv'
    <2>1. Alone(p) /\ proc'[p].pc = "take" /\ proc'[p].active = {}
      BY <1>5 DEF TimerFires, Alone, QueueTypes, ProcTypes, SlotInv, ActiveInCycle
    <2>2. ActiveInCycle' /\ TimerHasContext'
      BY <1>5, <2>1 DEF TimerFires, SlotInv, ActiveInCycle, TimerHasContext, Alone, life
    <2>3. SlotIsArmed' /\ LostLeavesNone'
      BY <1>0, <1>5, <2>1
      DEF TimerFires, SlotInv, SlotIsArmed, LostLeavesNone, SlotIsDead, QueueTypes, Alone, life
    <2>. QED
      BY <2>2, <2>3 DEF SlotInv
  <1>6. ASSUME NEW p \in Procs, TimerReturns(p)
        PROVE  SlotInv'
    <2>1. Alone(p) /\ proc'[p].pc = "free" /\ proc'[p].active = {}
      BY <1>6 DEF TimerReturns, Alone, QueueTypes, Idle
    <2>2. ActiveInCycle' /\ TimerHasContext'
      BY <1>6, <2>1 DEF TimerReturns, SlotInv, ActiveInCycle, TimerHasContext, Alone, life
    <2>3. SlotIsArmed' /\ LostLeavesNone'
      BY <1>0, <1>6, <2>1
      DEF TimerReturns, SlotInv, SlotIsArmed, LostLeavesNone, SlotIsDead, QueueTypes, Alone, life
    <2>. QED
      BY <2>2, <2>3 DEF SlotInv
  <1>7. ASSUME NEW p \in Procs, CycleTake(p)
        PROVE  SlotInv'
    <2>1. /\ Alone(p)
          /\ proc'[p].pc \in {"free", "decide", "fetch"}
          /\ proc'[p].active # {} => proc'[p].pc = "fetch"
      BY <1>7, CycleTakeDoes, CycleEndsTypes, IdleTypes, Zenon
    <2>. QED
      BY <1>7, <1>a, <2>1 DEF CycleTake
  <1>8. ASSUME NEW p \in Procs, CycleFetch(p)
        PROVE  SlotInv'
    BY <1>8, <1>a, CycleFetchDoes DEF CycleFetch
  <1>9. ASSUME NEW p \in Procs, CycleRequeue(p)
        PROVE  SlotInv'
    <2>1. Alone(p) /\ proc'[p].pc \in {"free", "decide"} /\ proc'[p].active = {}
      BY <1>9, CycleRequeueDoes, IdleTypes DEF QueueTypes, ProcTypes
    <2>2. propTimer' = propTimer /\ life' = life /\ proc[p].pc = "requeue"
      BY <1>9 DEF CycleRequeue
    <2>3. CASE lost' = lost
      BY <1>a, <2>1, <2>2, <2>3
    <2>4. CASE lost' # lost
      <3>1. propTimer = None
        BY <1>9, <2>4 DEF CycleRequeue, QueueTypes
      <3>2. over' = over /\ runtimeCtx' = runtimeCtx
        BY <2>2 DEF life
      <3>. QED
        BY <2>1, <2>2, <3>1, <3>2
        DEF SlotInv, ActiveInCycle, SlotIsArmed, TimerHasContext, LostLeavesNone, Alone
    <2>. QED
      BY <2>3, <2>4
  <1>10. ASSUME NEW p \in Procs,
                HandleProgress(p) \/ HandleNothingQueued(p) \/ HandleRetry(p)
         PROVE  SlotInv'
    <2>1. /\ Alone(p) /\ proc'[p].pc \in {"free", "schedule", "cancel", "giveup"}
          /\ proc'[p].active = {}
      BY <1>10
      DEF HandleProgress, HandleNothingQueued, HandleRetry, Alone,
          QueueTypes, ProcTypes, Idle, SlotInv, ActiveInCycle
    <2>. QED
      BY <1>10, <1>a, <2>1 DEF HandleProgress, HandleNothingQueued, HandleRetry
  <1>11. ASSUME NEW p \in Procs, GiveUp(p)
         PROVE  SlotInv'
    <2>1. Alone(p) /\ proc'[p].pc = "cancel" /\ proc'[p].active = {}
      BY <1>11 DEF GiveUp, Alone, QueueTypes, ProcTypes, SlotInv, ActiveInCycle
    <2>. QED
      BY <1>11, <1>a, <2>1 DEF GiveUp
  <1>12. ASSUME NEW p \in Procs, CancelPropRefresh(p)
         PROVE  SlotInv'
    <2>1. /\ proc'[p] = Idle
          /\ \A q \in Procs \ {p} :
               proc'[q] = IF q = propTimer THEN [proc[q] EXCEPT !.pc = "stopped"] ELSE proc[q]
      BY <1>12, CancelDoes
    <2>2. \A q \in Procs \ {p} :
            /\ proc'[q].active = proc[q].active /\ proc'[q].ctx = proc[q].ctx
            /\ proc'[q].pc = IF q = propTimer THEN "stopped" ELSE proc[q].pc
      BY <2>1 DEF QueueTypes, ProcTypes
    <2>3. ActiveInCycle' /\ TimerHasContext'
      BY <1>0, <1>12, <2>1, <2>2
      DEF CancelPropRefresh, Idle, SlotInv, ActiveInCycle, SlotIsArmed, TimerHasContext, life
    <2>4. SlotIsArmed' /\ LostLeavesNone'
      BY <1>0, <1>12, <2>1, <2>2
      DEF CancelPropRefresh, Idle, SlotIsArmed, LostLeavesNone
    <2>. QED
      BY <2>3, <2>4 DEF SlotInv
  <1>13. CASE Close
    <2>1. \A q \in Procs :
            /\ proc'[q].active = proc[q].active /\ proc'[q].ctx = proc[q].ctx
            /\ proc'[q].pc = IF q = propTimer THEN "stopped" ELSE proc[q].pc
      <3>1. \A q \in Procs :
              proc'[q] = IF q = propTimer THEN [proc[q] EXCEPT !.pc = "stopped"] ELSE proc[q]
        BY <1>13, StopTimerChanges DEF Close, QueueTypes
      <3>. QED
        BY <3>1 DEF QueueTypes, ProcTypes
    <2>2. ActiveInCycle' /\ TimerHasContext'
      BY <1>0, <1>13, <2>1 DEF Close, SlotInv, ActiveInCycle, SlotIsArmed, TimerHasContext
    <2>3. SlotIsArmed' /\ LostLeavesNone'
      BY <1>0, <1>13, <2>1 DEF Close, SlotInv, SlotIsArmed, LostLeavesNone
    <2>. QED
      BY <2>2, <2>3 DEF SlotInv
  <1>14. CASE Start \/ StartReturns \/ RollbackStart \/ ContextEnds
    <2>1. /\ propTimer' = propTimer /\ proc' = proc /\ lost' = lost
          /\ over \subseteq over'
          /\ over \cup ({runtimeCtx} \ {0}) \subseteq over' \cup {runtimeCtx'}
      BY <1>14 DEF Start, StartReturns, RollbackStart, ContextEnds
    <2>. QED
      BY <2>1
      DEF SlotInv, ActiveInCycle, SlotIsArmed, TimerHasContext, LostLeavesNone, SlotIsDead
  <1>15. CASE UNCHANGED vars
    BY <1>15
    DEF vars, life, SlotInv, ActiveInCycle, SlotIsArmed, TimerHasContext, LostLeavesNone,
        SlotIsDead
  <1>. QED
    BY <1>1, <1>2, <1>3, <1>4, <1>5, <1>6, <1>7, <1>8, <1>9, <1>10, <1>11, <1>12, <1>13,
       <1>14, <1>15 DEF Next, Step

-----------------------------------------------------------------------------
(* Pending properties *)

\* What a step of one goroutine adds to or takes from the pending properties.
LEMMA PendingChanges ==
  ASSUME NEW p \in Procs, Alone(p)
  PROVE  Pending' =
           queuedProps' \cup proc'[p].active \cup UNION {proc[q].active : q \in Procs \ {p}}
  BY DEF Pending, Alone

LEMMA PendingSplit ==
  ASSUME NEW p \in Procs
  PROVE  Pending = queuedProps \cup proc[p].active \cup UNION {proc[q].active : q \in Procs \ {p}}
  BY DEF Pending

\* Only an answer of a backend and giving up after the last retry take a property from the pending
\* ones: cycles put back what they hold, also beside requests, cancels, Close and Start.
LEMMA PendingStep ==
  QueueTypes /\ SlotInv /\ [Next]_vars =>
    \/ Pending \subseteq Pending'
    \/ \E p \in Procs : CycleFetch(p) \/ GiveUp(p)
  <1>. SUFFICES ASSUME QueueTypes, SlotInv, [Next]_vars,
                       ~ \E p \in Procs : CycleFetch(p) \/ GiveUp(p)
                PROVE  Pending \subseteq Pending'
    OBVIOUS
  <1>1. ASSUME queuedProps \subseteq queuedProps',
               \A q \in Procs : proc[q].active \subseteq proc'[q].active
        PROVE  Pending \subseteq Pending'
    BY <1>1 DEF Pending
  <1>2. ASSUME NEW p \in Procs, Alone(p), queuedProps \subseteq queuedProps', proc[p].active = {}
        PROVE  Pending \subseteq Pending'
    BY <1>1, <1>2 DEF Alone
  <1>3. ASSUME NEW p \in Procs, NEW k \in Keys, RequestRefreshProperty(p, k)
        PROVE  Pending \subseteq Pending'
    BY <1>1, <1>3 DEF RequestRefreshProperty, QueueTypes, ProcTypes
  <1>4. ASSUME NEW p \in Procs, RefreshQueuedProperties(p) \/ TimerFires(p)
        PROVE  Pending \subseteq Pending'
    BY <1>1, <1>4 DEF RefreshQueuedProperties, TimerFires, QueueTypes, ProcTypes
  <1>5. ASSUME NEW p \in Procs,
               \/ ReadRuntimeCtx(p) \/ TimerReturns(p)
               \/ HandleProgress(p) \/ HandleNothingQueued(p) \/ HandleRetry(p)
        PROVE  Pending \subseteq Pending'
    <2>1. proc[p].active = {} /\ Alone(p) /\ queuedProps' = queuedProps
      BY <1>5
      DEF ReadRuntimeCtx, TimerReturns, HandleProgress, HandleNothingQueued,
          HandleRetry, SlotInv, ActiveInCycle, Alone, QueueTypes
    <2>. QED
      BY <1>2, <2>1
  <1>6. ASSUME NEW p \in Procs, InstallTimer(p)
        PROVE  Pending \subseteq Pending'
    <2>1. \A q \in Procs : proc'[q].active = proc[q].active
      <3>1. /\ proc'[p].active = proc[p].active
            /\ \A q \in Procs \ {p} :
                 proc'[q] = IF q = propTimer THEN [proc[q] EXCEPT !.pc = "stopped"] ELSE proc[q]
        BY <1>6, InstallTimerDoes DEF SlotInv
      <3>. QED
        BY <3>1 DEF QueueTypes, ProcTypes
    <2>. QED
      BY <1>1, <1>6, <2>1 DEF InstallTimer
  <1>7. ASSUME NEW p \in Procs, CycleTake(p)
        PROVE  Pending \subseteq Pending'
    <2>1. PICK active \in SUBSET queuedProps :
            queuedProps' = queuedProps \ active /\ Alone(p) /\ proc'[p].active = active
      BY <1>7, CycleTakeDoes
    <2>2. proc[p].active = {}
      BY <1>7 DEF CycleTake, SlotInv, ActiveInCycle
    <2>. QED
      BY <2>1, <2>2, PendingChanges, PendingSplit
  <1>8. ASSUME NEW p \in Procs, CycleRequeue(p)
        PROVE  Pending \subseteq Pending'
    <2>1. queuedProps' = queuedProps \cup proc[p].active /\ Alone(p)
      BY <1>8, CycleRequeueDoes
    <2>. QED
      BY <2>1, PendingChanges, PendingSplit
  <1>9. ASSUME NEW p \in Procs, CancelPropRefresh(p)
        PROVE  Pending \subseteq Pending'
    <2>1. \A q \in Procs : proc[q].active \subseteq proc'[q].active
      <3>1. /\ proc'[p] = Idle
            /\ \A q \in Procs \ {p} :
                 proc'[q] = IF q = propTimer THEN [proc[q] EXCEPT !.pc = "stopped"] ELSE proc[q]
        BY <1>9, CancelDoes
      <3>2. proc[p].active = {}
        BY <1>9 DEF CancelPropRefresh, SlotInv, ActiveInCycle
      <3>. QED
        BY <3>1, <3>2 DEF QueueTypes, ProcTypes
    <2>. QED
      BY <1>1, <1>9, <2>1 DEF CancelPropRefresh
  <1>10. CASE Close
    <2>1. \A q \in Procs :
            proc'[q] = IF q = propTimer THEN [proc[q] EXCEPT !.pc = "stopped"] ELSE proc[q]
      BY <1>10, StopTimerChanges DEF Close, QueueTypes
    <2>2. \A q \in Procs : proc'[q].active = proc[q].active
      BY <2>1 DEF QueueTypes, ProcTypes
    <2>. QED
      BY <1>1, <1>10, <2>2 DEF Close
  <1>11. CASE Start \/ StartReturns \/ RollbackStart \/ ContextEnds \/ UNCHANGED vars
    BY <1>11 DEF Start, StartReturns, RollbackStart, ContextEnds, vars, Pending
  <1>. QED
    BY <1>3, <1>4, <1>5, <1>6, <1>7, <1>8, <1>9, <1>10, <1>11 DEF Next, Step

\* A property becomes pending by a request only.
LEMMA PendingGrows ==
  QueueTypes /\ SlotInv /\ [Next]_vars =>
    \/ Pending' \subseteq Pending
    \/ \E p \in Procs, k \in Keys : RequestRefreshProperty(p, k)
  <1>. SUFFICES ASSUME QueueTypes, SlotInv, [Next]_vars,
                       ~ \E p \in Procs, k \in Keys : RequestRefreshProperty(p, k)
                PROVE  Pending' \subseteq Pending
    OBVIOUS
  <1>1. ASSUME queuedProps' \subseteq queuedProps,
               \A q \in Procs : proc'[q].active \subseteq proc[q].active
        PROVE  Pending' \subseteq Pending
    BY <1>1 DEF Pending
  <1>2. ASSUME NEW p \in Procs, Alone(p), queuedProps' \subseteq queuedProps, proc'[p].active = {}
        PROVE  Pending' \subseteq Pending
    BY <1>1, <1>2 DEF Alone
  <1>4. ASSUME NEW p \in Procs,
               RefreshQueuedProperties(p) \/ TimerFires(p) \/ GiveUp(p)
        PROVE  Pending' \subseteq Pending
    <2>1. \A q \in Procs : proc'[q].active = proc[q].active
      BY <1>4
      DEF RefreshQueuedProperties, TimerFires, GiveUp, QueueTypes, ProcTypes
    <2>. QED
      BY <1>1, <1>4, <2>1 DEF RefreshQueuedProperties, TimerFires, GiveUp
  <1>5. ASSUME NEW p \in Procs,
               \/ ReadRuntimeCtx(p) \/ TimerReturns(p)
               \/ HandleProgress(p) \/ HandleNothingQueued(p) \/ HandleRetry(p)
        PROVE  Pending' \subseteq Pending
    <2>a. ASSUME NEW new, proc' = [proc EXCEPT ![p] = new], new.active = {},
                 queuedProps' = queuedProps
          PROVE  Pending' \subseteq Pending
      <3>1. proc'[p].active = {} /\ Alone(p)
        BY <2>a DEF Alone, QueueTypes
      <3>. QED
        BY <1>2, <2>a, <3>1
    <2>1. Idle.active = {} /\ \A s : [Idle EXCEPT !.pc = s].active = {}
      BY DEF Idle
    <2>2. CASE ReadRuntimeCtx(p)
      <3>1. [Idle EXCEPT !.pc = "install", !.ctx = runtimeCtx].active = {}
        BY DEF Idle
      <3>. QED
        BY <2>a, <2>1, <2>2, <3>1 DEF ReadRuntimeCtx
    <2>3. CASE TimerReturns(p)
      BY <2>a, <2>1, <2>3 DEF TimerReturns
    <2>4. CASE HandleNothingQueued(p)
      BY <2>a, <2>1, <2>4 DEF HandleNothingQueued
    <2>5. CASE HandleProgress(p)
      BY <2>a, <2>1, <2>5 DEF HandleProgress
    <2>6. CASE HandleRetry(p)
      BY <2>a, <2>1, <2>6 DEF HandleRetry
    <2>. QED
      BY <1>5, <2>2, <2>3, <2>4, <2>5, <2>6
  <1>6. ASSUME NEW p \in Procs, InstallTimer(p)
        PROVE  Pending' \subseteq Pending
    <2>1. \A q \in Procs : proc'[q].active = proc[q].active
      <3>1. /\ proc'[p].active = proc[p].active
            /\ \A q \in Procs \ {p} :
                 proc'[q] = IF q = propTimer THEN [proc[q] EXCEPT !.pc = "stopped"] ELSE proc[q]
        BY <1>6, InstallTimerDoes DEF SlotInv
      <3>. QED
        BY <3>1 DEF QueueTypes, ProcTypes
    <2>. QED
      BY <1>1, <1>6, <2>1 DEF InstallTimer
  <1>7. ASSUME NEW p \in Procs, CycleTake(p)
        PROVE  Pending' \subseteq Pending
    <2>1. PICK active \in SUBSET queuedProps :
            queuedProps' = queuedProps \ active /\ Alone(p) /\ proc'[p].active = active
      BY <1>7, CycleTakeDoes
    <2>. QED
      BY <2>1, PendingChanges, PendingSplit
  <1>8. ASSUME NEW p \in Procs, CycleFetch(p)
        PROVE  Pending' \subseteq Pending
    <2>1. proc'[p].active \subseteq proc[p].active /\ Alone(p) /\ queuedProps' = queuedProps
      BY <1>8, CycleFetchDoes DEF CycleFetch
    <2>. QED
      BY <2>1, PendingChanges, PendingSplit
  <1>9. ASSUME NEW p \in Procs, CycleRequeue(p)
        PROVE  Pending' \subseteq Pending
    <2>1. queuedProps' = queuedProps \cup proc[p].active /\ Alone(p) /\ proc'[p].active = {}
      BY <1>9, CycleRequeueDoes
    <2>. QED
      BY <2>1, PendingChanges, PendingSplit
  <1>10. ASSUME NEW p \in Procs, CancelPropRefresh(p)
         PROVE  Pending' \subseteq Pending
    <2>1. \A q \in Procs : proc'[q].active \subseteq proc[q].active
      <3>1. /\ proc'[p] = Idle
            /\ \A q \in Procs \ {p} :
                 proc'[q] = IF q = propTimer THEN [proc[q] EXCEPT !.pc = "stopped"] ELSE proc[q]
        BY <1>10, CancelDoes
      <3>2. proc'[p].active = {}
        BY <3>1 DEF Idle
      <3>3. \A q \in Procs \ {p} : proc'[q].active = proc[q].active
        BY <3>1 DEF QueueTypes, ProcTypes
      <3>. QED
        BY <3>2, <3>3
    <2>. QED
      BY <1>1, <1>10, <2>1 DEF CancelPropRefresh
  <1>11. CASE Close
    <2>1. \A q \in Procs :
            proc'[q] = IF q = propTimer THEN [proc[q] EXCEPT !.pc = "stopped"] ELSE proc[q]
      BY <1>11, StopTimerChanges DEF Close, QueueTypes
    <2>2. \A q \in Procs : proc'[q].active = proc[q].active
      BY <2>1 DEF QueueTypes, ProcTypes
    <2>. QED
      BY <1>1, <1>11, <2>2 DEF Close
  <1>12. CASE Start \/ StartReturns \/ RollbackStart \/ ContextEnds \/ UNCHANGED vars
    BY <1>12 DEF Start, StartReturns, RollbackStart, ContextEnds, vars, Pending
  <1>. QED
    BY <1>4, <1>5, <1>6, <1>7, <1>8, <1>9, <1>10, <1>11, <1>12 DEF Next, Step

-----------------------------------------------------------------------------
(* Somebody will serve what is pending *)

\* A step that neither loses a timer nor kills the slot finds them so.
LEMMA CoveredBefore ==
  ASSUME QueueTypes, SlotInv, PendingIsCovered, Pending # {}, ~lost', ~SlotIsDead',
         lost => lost', SlotIsDead => SlotIsDead'
  PROVE  \E w \in Procs : WillServe(w)
  BY DEF PendingIsCovered, QueueTypes

LEMMA CoveredStep ==
  QueueTypes /\ SlotInv /\ PendingIsCovered /\ [Next]_vars => PendingIsCovered'
  <1>. SUFFICES ASSUME QueueTypes, SlotInv, PendingIsCovered, [Next]_vars,
                       Pending' # {}, ~lost', ~SlotIsDead'
                PROVE  \E p \in Procs : WillServe(p)'
    BY DEF PendingIsCovered
  <1>0. QueueTypes' /\ SlotIsArmed /\ None \notin Procs /\ Stale \notin Procs
    BY QueueTypesStep, RefreshConstants DEF SlotInv
  <1>a. ASSUME NEW p \in Procs, Alone(p), propTimer' = propTimer, life' = life,
               proc[p].pc # "armed"
        PROVE  over' = over /\ (SlotIsDead => SlotIsDead')
    BY <1>0, <1>a, SlotStays DEF QueueTypes, life
  <1>1. ASSUME NEW p \in Procs, NEW k \in Keys, RequestRefreshProperty(p, k)
        PROVE  \E w \in Procs : WillServe(w)'
    <2>1. CASE propTimer = None
      BY <1>1, <2>1 DEF RequestRefreshProperty, WillServe, QueueTypes, ProcTypes
    <2>2. CASE propTimer # None
      <3>1. proc' = proc /\ over' = over /\ propTimer' = propTimer
        BY <1>1, <2>2 DEF RequestRefreshProperty, life
      <3>2. propTimer \in Procs /\ proc[propTimer].pc = "armed" /\ proc[propTimer].ctx \notin over
        BY <1>0, <2>2, <3>1 DEF QueueTypes, SlotIsArmed, SlotIsDead
      <3>. QED
        BY <3>1, <3>2 DEF WillServe
    <2>. QED
      BY <2>1, <2>2
  <1>2. CASE ~ \E p \in Procs, k \in Keys : RequestRefreshProperty(p, k)
    <2>1. Pending # {}
      BY <1>2, PendingGrows
    <2>3. ASSUME NEW p \in Procs, Alone(p), propTimer' = propTimer, life' = life,
                 lost => lost', proc[p].pc # "armed", WillServe(p) => WillServe(p)'
          PROVE  \E q \in Procs : WillServe(q)'
      <3>1. over' = over /\ \E w \in Procs : WillServe(w)
        BY <1>a, <2>1, <2>3, CoveredBefore
      <3>. QED
        BY <2>3, <3>1 DEF Alone, WillServe
    <2>4. ASSUME NEW p \in Procs,
                 \/ RefreshQueuedProperties(p) \/ HandleProgress(p)
                 \/ HandleNothingQueued(p) \/ HandleRetry(p) \/ GiveUp(p)
          PROVE  \E q \in Procs : WillServe(q)'
      <3>1. /\ Alone(p) /\ life' = life /\ propTimer' = propTimer /\ lost' = lost
            /\ proc[p].pc # "armed"
        BY <2>4
        DEF RefreshQueuedProperties, HandleProgress,
            HandleNothingQueued, HandleRetry, GiveUp, Alone, QueueTypes
      <3>2. WillServe(p) => WillServe(p)'
        BY <2>4
        DEF RefreshQueuedProperties, HandleProgress,
            HandleNothingQueued, HandleRetry, GiveUp, WillServe, Idle, QueueTypes, ProcTypes
      <3>. QED
        BY <2>3, <3>1, <3>2
    <2>5. ASSUME NEW p \in Procs, ReadRuntimeCtx(p)
          PROVE  \E q \in Procs : WillServe(q)'
      <3>1. runtimeCtx # 0
        BY <2>1, <2>5 DEF ReadRuntimeCtx
      <3>2. proc'[p].pc = "install"
        BY <2>5, <3>1 DEF ReadRuntimeCtx, QueueTypes, Idle
      <3>. QED
        BY <3>2 DEF WillServe
    <2>6. ASSUME NEW p \in Procs, InstallTimer(p)
          PROVE  \E q \in Procs : WillServe(q)'
      <3>1. proc'[p].pc = "armed"
        BY <1>0, <2>6, InstallTimerDoes
      <3>2. propTimer' = p
        BY <2>6 DEF InstallTimer
      <3>. QED
        BY <3>1, <3>2 DEF WillServe, SlotIsDead
    <2>7. ASSUME NEW p \in Procs, TimerFires(p)
          PROVE  \E q \in Procs : WillServe(q)'
      <3>1. proc'[p].pc = "take" /\ proc'[p].timed = TRUE
        BY <2>7 DEF TimerFires, QueueTypes, ProcTypes
      <3>. QED
        BY <3>1 DEF WillServe
    <2>8. ASSUME NEW p \in Procs, TimerReturns(p)
          PROVE  \E q \in Procs : WillServe(q)'
      <3>1. propTimer # p
        BY <2>8 DEF TimerReturns, SlotIsDead
      <3>2. /\ Alone(p) /\ life' = life /\ propTimer' = propTimer /\ lost' = lost
            /\ proc[p].pc # "armed" /\ ~WillServe(p)
        BY <1>0, <2>8, <3>1 DEF TimerReturns, Alone, WillServe, SlotIsArmed, QueueTypes
      <3>. QED
        BY <2>3, <3>2
    <2>9. ASSUME NEW p \in Procs, CycleTake(p)
          PROVE  \E q \in Procs : WillServe(q)'
      <3>1. PICK active \in SUBSET queuedProps :
              /\ Alone(p)
              /\ active # {} => proc'[p].pc = "fetch" /\ proc'[p].timed = proc[p].timed
              /\ active = {} => proc'[p] = CycleEnds(p, FALSE, FALSE)
        BY <2>9, CycleTakeDoes
      <3>2. proc[p].pc = "take" /\ life' = life /\ propTimer' = propTimer /\ lost' = lost
        BY <2>9 DEF CycleTake
      <3>3. proc[p].timed => WillServe(p)'
        <4>1. proc[p].timed => /\ CycleEnds(p, FALSE, FALSE).pc = "decide"
                              /\ CycleEnds(p, FALSE, FALSE).progress = FALSE
          BY CycleEndsTypes
        <4>. QED
          BY <3>1, <4>1 DEF WillServe
      <3>4. WillServe(p) => proc[p].timed
        BY <3>2 DEF WillServe
      <3>. QED
        BY <2>3, <3>1, <3>2, <3>3, <3>4
    <2>10. ASSUME NEW p \in Procs, CycleFetch(p)
           PROVE  \E q \in Procs : WillServe(q)'
      <3>1. Alone(p) /\ proc'[p].pc = "requeue" /\ proc'[p].timed = proc[p].timed
        BY <2>10, CycleFetchDoes
      <3>2. WillServe(p) => WillServe(p)'
        BY <2>10, <3>1 DEF CycleFetch, WillServe
      <3>. QED
        BY <2>3, <2>10, <3>1, <3>2 DEF CycleFetch
    <2>11. ASSUME NEW p \in Procs, CycleRequeue(p)
           PROVE  \E q \in Procs : WillServe(q)'
      <3>1. /\ Alone(p) /\ queuedProps' = queuedProps \cup proc[p].active
            /\ proc'[p].active = {}
            /\ proc[p].timed => /\ proc'[p].pc = "decide"
                               /\ proc'[p].remaining = (queuedProps' # {})
        BY <2>11, CycleRequeueDoes
      <3>2. /\ proc[p].pc = "requeue" /\ life' = life /\ propTimer' = propTimer
            /\ lost => lost'
            /\ ~lost' => ~(/\ proc[p].timed /\ queuedProps' = {} /\ HeldByCaller # {}
                          /\ propTimer = None)
        BY <2>11 DEF CycleRequeue
      <3>3. CASE ~(proc[p].timed /\ queuedProps' = {})
        <4>1. WillServe(p) => WillServe(p)'
          BY <3>1, <3>2, <3>3 DEF WillServe
        <4>. QED
          BY <2>3, <3>1, <3>2, <4>1
      <3>4. CASE proc[p].timed /\ queuedProps' = {}
        <4>0. over' = over /\ ~SlotIsDead
          BY <1>a, <3>1, <3>2
        <4>1. CASE propTimer = None
          <5>1. HeldByCaller = {}
            BY <3>2, <3>4, <4>1
          <5>2. PICK q \in Procs \ {p} : proc[q].active # {}
            BY <3>1, <3>4, PendingChanges
          <5>3. proc[q].timed /\ proc[q].pc \in {"fetch", "requeue"}
            BY <5>1, <5>2 DEF HeldByCaller, SlotInv, ActiveInCycle
          <5>. QED
            BY <3>1, <5>2, <5>3 DEF Alone, WillServe
        <4>2. CASE propTimer # None
          <5>1. propTimer \in Procs /\ proc[propTimer].pc = "armed"
                /\ proc[propTimer].ctx \notin over
            BY <1>0, <4>0, <4>2 DEF QueueTypes, SlotIsArmed, SlotIsDead
          <5>2. proc'[propTimer] = proc[propTimer]
            BY <3>1, <3>2, <5>1 DEF Alone
          <5>. QED
            BY <4>0, <5>1, <5>2 DEF WillServe
        <4>. QED
          BY <4>1, <4>2
      <3>. QED
        BY <3>3, <3>4
    <2>12. ASSUME NEW p \in Procs, CancelPropRefresh(p)
           PROVE  \E q \in Procs : WillServe(q)'
      BY <2>1, <2>12 DEF CancelPropRefresh
    <2>13. CASE Close
      BY <2>1, <2>13 DEF Close
    <2>14. CASE Start \/ StartReturns \/ RollbackStart \/ ContextEnds \/ UNCHANGED vars
      <3>1. proc' = proc /\ propTimer' = propTimer /\ lost' = lost /\ over \subseteq over'
        BY <2>14 DEF Start, StartReturns, RollbackStart, ContextEnds, vars, life
      <3>2. SlotIsDead => SlotIsDead'
        BY <3>1 DEF SlotIsDead
      <3>3. PICK w \in Procs : WillServe(w)
        BY <2>1, <3>1, <3>2, CoveredBefore
      <3>4. proc[w].pc = "armed" => proc[w].ctx \notin over'
        BY <1>0, <3>1 DEF SlotIsArmed, SlotIsDead
      <3>. QED
        BY <3>1, <3>3, <3>4 DEF WillServe
    <2>. QED
      BY <1>2, <2>4, <2>5, <2>6, <2>7, <2>8, <2>9, <2>10, <2>11, <2>12, <2>13, <2>14 DEF Next, Step
  <1>. QED
    BY <1>1, <1>2

-----------------------------------------------------------------------------
(* The theorems about the queue *)

LEMMA QueueStep == QueueInv /\ [Next]_vars => QueueInv'
  BY QueueTypesStep, RetriesBoundedStep, SlotStep, CoveredStep DEF QueueInv, SlotInv

\* The inductive invariant of the queue.
THEOREM QueueIsSound == Spec => []QueueInv
  BY QueueInit, QueueStep, PTL DEF Spec

\* The counter of retries stays below the limit plus the goroutines there are.
LEMMA QueueInvTypeOK == QueueInv => TypeOK
  <1>. SUFFICES ASSUME QueueInv PROVE TypeOK
    OBVIOUS
  <1>1. Cardinality(GivingUp) \in Nat /\ Cardinality(GivingUp) <= Cardinality(Procs)
        /\ Cardinality(Procs) \in Nat
    <2>1. GivingUp \in SUBSET Procs
      BY DEF GivingUp
    <2>. QED
      BY <2>1, FS_Subset, FS_CardinalityType, RefreshConstants
  <1>2. propRetry \in 0..(MaxRetry + Cardinality(Procs))
    BY <1>1, RefreshConstants DEF QueueInv, QueueTypes, RetriesBounded
  <1>. QED
    BY <1>2 DEF QueueInv, QueueTypes, TypeOK, ProcTypes, ProcStates

LEMMA QueueInvCovers == QueueInv => QueueCovered
  BY DEF QueueInv, PendingIsCovered, LostLeavesNone, QueueCovered, Pending

-----------------------------------------------------------------------------
(* The requests of a gateway *)

AtBroker == {"broker", "undo", "unsubscribe", "settle"}
RequestSteps == AtBroker \cup {"idle", "ensure", "subscribe", "number", "register", "publish",
                               "wait", "done", "failed"}

ReplyTypes ==
  /\ nextID \in Nat \ {0}
  /\ pending \in [DOMAIN pending -> Requests]
  /\ replySub \in Requests \cup {None} /\ taken \in Requests \cup {None}
  /\ handlers \subseteq Requests /\ calling \subseteq Requests
  /\ pc \in [Requests -> RequestSteps] /\ id \in [Requests -> Nat]
  /\ channel \in [Requests -> Seq(Requests)]
  /\ sending \in Requests \cup {None}
  /\ closer \in {"idle", "remove", "unsubscribe", "disconnect"}
  /\ link \in {"none", "down", "new", "up"} /\ subscribed \in BOOLEAN /\ missed \in BOOLEAN

\* Requests that hold a subscription they have not put in replySub or closed yet.
Settling == {r \in Requests : pc[r] \in {"broker", "undo", "settle"}}

HasSubscribed == {"number", "register", "publish", "wait", "done", "failed"}

\* Every handler MQTT knows is in somebody's hands: those who settle it, replySub or Close.
HandlersAreOwned ==
  /\ handlers = Settling \cup ({replySub, taken} \ {None})
  /\ replySub # None => pc[replySub] \in HasSubscribed
  /\ taken # None => pc[taken] \in HasSubscribed
  /\ replySub # None => replySub # taken
  /\ closer # "remove" => taken = None

\* Message ids are never given twice.
IdsAreUnique ==
  /\ \A r \in Requests : id[r] < nextID
  /\ \A r \in Requests : pc[r] \in {"register", "publish", "wait"} => id[r] # 0
  /\ \A r, q \in Requests : id[r] = id[q] /\ id[r] # 0 => r = q

\* A request in the table has had no reply, and none is on its way to its channel.
TableIsExact ==
  \A i \in DOMAIN pending :
    /\ id[pending[i]] = i /\ i # 0
    /\ pc[pending[i]] \in {"publish", "wait"}
    /\ channel[pending[i]] = <<>> /\ pending[i] # sending

\* The gateway answers the requests it has got, under the ids they have.
GatewayIsHonest ==
  /\ \A r \in DOMAIN published :
       r \in Requests /\ published[r] = id[r] /\ id[r] # 0 /\ pc[r] \in {"wait", "done", "failed"}
  /\ message # None => message.to \in DOMAIN published /\ message.id = published[message.to]

\* What handleReply sends goes to the request it answers, and finds its channel empty.
SendIsExact ==
  sending # None =>
    /\ channel[sending] = <<>> /\ pc[sending] \in {"wait", "failed"}
    /\ message # None /\ message.to = sending

ChannelsAreExact ==
  \A r \in Requests :
    channel[r] # <<>> => channel[r] = <<r>> /\ pc[r] \in {"wait", "failed"}

RepliesInv ==
  /\ ReplyTypes /\ HandlersAreOwned /\ IdsAreUnique /\ TableIsExact
  /\ GatewayIsHonest /\ SendIsExact /\ ChannelsAreExact /\ Mips!HandlersAreHeard

-----------------------------------------------------------------------------
(* The requests: every step keeps the invariant *)

LEMMA OneElement == \A x : Append(<<>>, x) = <<x>> /\ Tail(<<x>>) = <<>>
  OBVIOUS

LEMMA RepliesInit == Mips!Init => RepliesInv
  <1>. SUFFICES ASSUME Mips!Init PROVE RepliesInv
    OBVIOUS
  <1>1. subscribed \in BOOLEAN /\ missed \in BOOLEAN
    BY Zenon DEF Mips!Init
  <1>2. ReplyTypes
    BY <1>1, RequestConstants DEF Mips!Init, ReplyTypes, RequestSteps, AtBroker
  <1>3. HandlersAreOwned
    BY RequestConstants DEF Mips!Init, HandlersAreOwned, Settling, HasSubscribed
  <1>4. Mips!HandlersAreHeard
    BY DEF Mips!Init, Mips!HandlersAreHeard
  <1>5. IdsAreUnique /\ TableIsExact /\ GatewayIsHonest /\ SendIsExact /\ ChannelsAreExact
    BY RequestConstants
    DEF Mips!Init, IdsAreUnique, TableIsExact, GatewayIsHonest, SendIsExact, ChannelsAreExact
  <1>. QED
    BY <1>2, <1>3, <1>4, <1>5 DEF RepliesInv

\* A fault, or one before, is remembered as long as it matters.
LEMMA FaultsAreRemembered ==
  ASSUME NEW forwards, NEW registered, NEW fault, missed \/ fault,
         Mips!Misses(forwards, registered, fault)
  PROVE  handlers' # {} /\ ~subscribed' => missed'
  BY Zenon DEF Mips!Misses

\* The steps that concern the broker, its link and the handlers, of requests and of Close.
BrokerStep ==
  \/ \E r \in Requests : \/ Mips!BrokerSubscribes(r) \/ Mips!BrokerFails(r)
                         \/ Mips!Undo(r) \/ Mips!Unsubscribe(r)
  \/ Mips!CloseRemoves \/ Mips!CloseUnsubscribes \/ Mips!CloseDisconnects
  \/ Mips!Connect \/ Mips!ConnectionUp \/ Mips!ConnectionDown \/ Mips!Resubscribe

\* They concern nothing else, and no request beyond them.
LEMMA BrokerLeaves ==
  ASSUME ReplyTypes, BrokerStep
  PROVE  /\ UNCHANGED <<nextID, pending, replySub, id, channel, published, replies, message,
                        calling, sending>>
         /\ pc' \in [Requests -> RequestSteps]
         /\ \A r \in Requests :
              pc'[r] = pc[r] \/ (pc[r] \in AtBroker /\ pc'[r] \in AtBroker \cup {"failed"})
  <1>. USE DEF ReplyTypes, RequestSteps, AtBroker
  <1>1. ASSUME NEW r \in Requests, Mips!BrokerSubscribes(r) \/ Mips!BrokerFails(r)
        PROVE  /\ Mips!Goto(r, "settle") \/ Mips!Goto(r, "undo")
               /\ pc[r] = "broker"
               /\ UNCHANGED <<nextID, pending, replySub, id, channel, published, replies,
                              message, calling, sending>>
    BY <1>1
    DEF Mips!BrokerSubscribes, Mips!BrokerFails, Mips!table, Mips!gateway, Mips!delivery
  <1>2. ASSUME NEW r \in Requests, Mips!Undo(r) \/ Mips!Unsubscribe(r)
        PROVE  /\ Mips!Goto(r, "unsubscribe") \/ Mips!Goto(r, "failed")
               /\ pc[r] \in {"undo", "unsubscribe"}
               /\ UNCHANGED <<nextID, pending, replySub, id, channel, published, replies,
                              message, calling, sending>>
    BY <1>2 DEF Mips!Undo, Mips!Unsubscribe, Mips!table, Mips!gateway, Mips!delivery
  <1>3. CASE Mips!CloseDisconnects
    BY <1>3 DEF Mips!CloseDisconnects, Mips!table, Mips!gateway, Mips!delivery
  <1>4. CASE Mips!CloseRemoves \/ Mips!CloseUnsubscribes
    BY <1>4
    DEF Mips!CloseRemoves, Mips!CloseUnsubscribes, Mips!table, Mips!gateway, Mips!delivery
  <1>5. CASE Mips!Connect \/ Mips!ConnectionUp \/ Mips!ConnectionDown \/ Mips!Resubscribe
    BY <1>5
    DEF Mips!Connect, Mips!ConnectionUp, Mips!ConnectionDown, Mips!Resubscribe,
        Mips!LinkBecomes, Mips!table, Mips!gateway, Mips!delivery
  <1>. QED
    BY <1>1, <1>2, <1>3, <1>4, <1>5 DEF BrokerStep, Mips!Goto

\* What they do to the handlers: the failed one and the one Close took go, others stay.
LEMMA BrokerTypes ==
  ASSUME ReplyTypes, BrokerStep
  PROVE  /\ handlers' \subseteq Requests /\ taken' \in Requests \cup {None}
         /\ closer' \in {"idle", "remove", "unsubscribe", "disconnect"}
         /\ link' \in {"none", "down", "new", "up"}
         /\ subscribed' \in BOOLEAN /\ missed' \in BOOLEAN
  <1>. USE DEF ReplyTypes, Mips!Misses, Mips!close
  <1>1. ASSUME NEW r \in Requests, Mips!BrokerSubscribes(r) \/ Mips!BrokerFails(r) \/
                                  Mips!Undo(r) \/ Mips!Unsubscribe(r)
        PROVE  /\ handlers' \subseteq Requests /\ taken' = taken /\ closer' = closer
               /\ link' = link /\ subscribed' \in BOOLEAN /\ missed' \in BOOLEAN
    <2>1. CASE Mips!BrokerSubscribes(r)
      BY <2>1 DEF Mips!BrokerSubscribes
    <2>2. CASE Mips!BrokerFails(r)
      <3>1. Mips!Up \in BOOLEAN
        BY DEF Mips!Up
      <3>2. PICK forwards \in {subscribed, Mips!Up} : Mips!Misses(forwards, handlers, FALSE)
        BY <2>2, Zenon DEF Mips!BrokerFails
      <3>3. forwards \in BOOLEAN
        BY <3>1, <3>2, Zenon
      <3>. QED
        BY <2>2, <3>2, <3>3 DEF Mips!BrokerFails
    <2>3. CASE Mips!Undo(r)
      BY <2>3 DEF Mips!Undo
    <2>4. CASE Mips!Unsubscribe(r)
      BY <2>4 DEF Mips!Unsubscribe
    <2>. QED
      BY <1>1, <2>1, <2>2, <2>3, <2>4
  <1>2. CASE Mips!CloseRemoves \/ Mips!CloseUnsubscribes \/ Mips!CloseDisconnects
    BY <1>2 DEF Mips!CloseRemoves, Mips!CloseUnsubscribes, Mips!CloseDisconnects
  <1>3. CASE Mips!Connect \/ Mips!ConnectionUp
    BY <1>3 DEF Mips!Connect, Mips!ConnectionUp, Mips!LinkBecomes
  <1>4. CASE Mips!ConnectionDown
    BY <1>4 DEF Mips!ConnectionDown, Mips!LinkBecomes
  <1>5. CASE Mips!Resubscribe
    BY <1>5 DEF Mips!Resubscribe, Mips!LinkBecomes
  <1>. QED
    BY <1>1, <1>2, <1>3, <1>4, <1>5 DEF BrokerStep

LEMMA ReplyTypesStep == RepliesInv /\ [Mips!Next]_mips => ReplyTypes'
  <1>. SUFFICES ASSUME RepliesInv, [Mips!Next]_mips PROVE ReplyTypes'
    OBVIOUS
  <1>. USE DEF RepliesInv, ReplyTypes, RequestSteps, AtBroker, Mips!subs, Mips!mqtt
  <1>1. ASSUME NEW r \in Requests, Mips!SetProp(r) PROVE ReplyTypes'
    BY <1>1, RequestConstants
    DEF Mips!SetProp, Mips!Goto, Mips!table, Mips!gateway, Mips!delivery, Mips!close
  <1>2. ASSUME NEW r \in Requests, Mips!GetProp(r) PROVE ReplyTypes'
    BY <1>2, RequestConstants
    DEF Mips!GetProp, Mips!Goto, Mips!table, Mips!gateway, Mips!delivery, Mips!close
  <1>3. ASSUME NEW r \in Requests, Mips!Ensure(r) PROVE ReplyTypes'
    BY <1>3, RequestConstants
    DEF Mips!Ensure, Mips!Goto, Mips!table, Mips!gateway, Mips!delivery, Mips!close
  <1>4. ASSUME NEW r \in Requests, Mips!Subscribe(r) PROVE ReplyTypes'
    BY <1>4, RequestConstants
    DEF Mips!Subscribe, Mips!Goto, Mips!table, Mips!gateway, Mips!delivery, Mips!close
  <1>5. ASSUME NEW r \in Requests, Mips!SettleSubscription(r) PROVE ReplyTypes'
    BY <1>5, RequestConstants
    DEF Mips!SettleSubscription, Mips!Goto, Mips!table, Mips!gateway, Mips!delivery, Mips!close
  <1>6. ASSUME NEW r \in Requests, Mips!nextMessageID(r) PROVE ReplyTypes'
    BY <1>6, RequestConstants
    DEF Mips!nextMessageID, Mips!Goto, Mips!table, Mips!gateway, Mips!delivery, Mips!close
  <1>7. ASSUME NEW r \in Requests, Mips!Register(r) PROVE ReplyTypes'
    BY <1>7, RequestConstants
    DEF Mips!Register, Mips!Goto, Mips!table, Mips!gateway, Mips!delivery, Mips!close,
        Mips!With, Mips!Without, Mips!Restrict
  <1>8. ASSUME NEW r \in Requests, Mips!Publish(r) PROVE ReplyTypes'
    BY <1>8, RequestConstants
    DEF Mips!Publish, Mips!Goto, Mips!table, Mips!gateway, Mips!delivery, Mips!close, Mips!With,
        Mips!Without, Mips!Restrict
  <1>9. ASSUME NEW r \in Requests, Mips!PublishFails(r) PROVE ReplyTypes'
    BY <1>9, RequestConstants
    DEF Mips!PublishFails, Mips!Goto, Mips!table, Mips!gateway, Mips!delivery, Mips!close,
        Mips!With, Mips!Without, Mips!Restrict
  <1>10. ASSUME NEW r \in Requests, Mips!Return(r) PROVE ReplyTypes'
    <2>1. channel[r] = <<r>>
      BY <1>10 DEF Mips!Return, ChannelsAreExact
    <2>2. channel' = [channel EXCEPT ![r] = <<>>]
      BY <1>10, <2>1, OneElement DEF Mips!Return
    <2>. QED
      BY <1>10, <2>1, <2>2, RequestConstants
      DEF Mips!Return, Mips!Goto, Mips!table, Mips!delivery, Mips!close
  <1>11. ASSUME NEW r \in Requests, Mips!GiveUp(r) PROVE ReplyTypes'
    BY <1>11, RequestConstants
    DEF Mips!GiveUp, Mips!Goto, Mips!table, Mips!gateway, Mips!delivery, Mips!close, Mips!With,
        Mips!Without, Mips!Restrict
  <1>12. ASSUME NEW r \in Requests, Mips!Reply(r) PROVE ReplyTypes'
    BY <1>12, RequestConstants
    DEF Mips!Reply, Mips!Dispatch, Mips!ReplyIsUnheard, Mips!table, Mips!gateway,
        Mips!delivery, Mips!close, Mips!subs, Mips!mqtt
  <1>13. CASE Mips!handleReply
    BY <1>13, RequestConstants
    DEF Mips!handleReply, Mips!table, Mips!gateway, Mips!delivery, Mips!close, Mips!With,
        Mips!Without, Mips!Restrict
  <1>14. CASE Mips!SendReply
    <2>1. message.to = sending /\ sending \in Requests /\ channel[sending] = <<>>
      BY <1>14 DEF Mips!SendReply, SendIsExact
    <2>2. channel' = [channel EXCEPT ![sending] = <<sending>>] /\ sending' = None
      BY <1>14, <2>1, OneElement DEF Mips!SendReply
    <2>. QED
      BY <1>14, <2>1, <2>2 DEF Mips!SendReply, Mips!table, Mips!close
  <1>15. CASE Mips!Close
    <2>1. <<>> \in [DOMAIN <<>> -> Requests]
      OBVIOUS
    <2>. QED
      BY <1>15, <2>1 DEF Mips!Close, Mips!gateway, Mips!delivery
  <1>17. CASE BrokerStep
    BY <1>17, BrokerLeaves, BrokerTypes
  <1>18. CASE Mips!DispatchEnds \/ UNCHANGED mips
    BY <1>18, RequestConstants
    DEF Mips!DispatchEnds, mips, Mips!table, Mips!gateway, Mips!delivery, Mips!close
  <1>. QED
    BY <1>1, <1>2, <1>3, <1>4, <1>5, <1>6, <1>7, <1>8, <1>9, <1>10, <1>11, <1>12, <1>13, <1>14,
       <1>15, <1>17, <1>18
    DEF Mips!Next, Mips!RequestStep, Mips!DeliveryStep, Mips!CloseStep, BrokerStep

LEMMA HandlersStep == RepliesInv /\ [Mips!Next]_mips => HandlersAreOwned'
  <1>. SUFFICES ASSUME RepliesInv, [Mips!Next]_mips PROVE HandlersAreOwned'
    OBVIOUS
  <1>. USE DEF RepliesInv, ReplyTypes, HandlersAreOwned, Settling, HasSubscribed, RequestSteps,
               AtBroker, Mips!Misses, Mips!subs, Mips!mqtt
  <1>1. ASSUME NEW r \in Requests, Mips!Subscribe(r) PROVE HandlersAreOwned'
    BY <1>1, RequestConstants
    DEF Mips!Subscribe, Mips!Goto, Mips!table, Mips!gateway, Mips!delivery, Mips!close
  <1>2. ASSUME NEW r \in Requests, Mips!SettleSubscription(r) PROVE HandlersAreOwned'
    BY <1>2, RequestConstants
    DEF Mips!SettleSubscription, Mips!Goto, Mips!table, Mips!gateway, Mips!delivery, Mips!close
  <1>3. CASE Mips!Close
    BY <1>3, RequestConstants
    DEF Mips!Close, Mips!table, Mips!gateway, Mips!delivery, Mips!close, Mips!subs
  <1>4. CASE Mips!CloseRemoves
    BY <1>4, RequestConstants
    DEF Mips!CloseRemoves, Mips!table, Mips!gateway, Mips!delivery, Mips!close
  <1>5. ASSUME NEW r \in Requests,
               Mips!SetProp(r) \/ Mips!GetProp(r) \/ Mips!Ensure(r) \/
               Mips!nextMessageID(r) \/ Mips!Register(r) \/ Mips!Publish(r) \/
               Mips!PublishFails(r) \/ Mips!Return(r) \/ Mips!GiveUp(r)
        PROVE  HandlersAreOwned'
    <2>1. /\ UNCHANGED <<handlers, replySub, closer, taken>>
          /\ \E s \in HasSubscribed \cup {"ensure", "subscribe"} : pc' = [pc EXCEPT ![r] = s]
          /\ pc[r] \in {"idle", "ensure"} \cup HasSubscribed
          /\ pc[r] \in HasSubscribed => pc'[r] \in HasSubscribed
      BY <1>5, SMTT(30)
      DEF Mips!SetProp, Mips!GetProp, Mips!Ensure, Mips!nextMessageID, Mips!Register,
          Mips!Publish, Mips!PublishFails, Mips!Return, Mips!GiveUp, Mips!Goto, Mips!close
    <2>. QED
      BY <2>1, RequestConstants
  <1>6. CASE (\E r \in Requests : Mips!Reply(r)) \/ Mips!handleReply \/ Mips!SendReply \/
             Mips!DispatchEnds \/ UNCHANGED mips
    BY <1>6, RequestConstants
    DEF Mips!Reply, Mips!Dispatch, Mips!ReplyIsUnheard, Mips!handleReply, Mips!SendReply,
        Mips!DispatchEnds, mips, Mips!table, Mips!gateway, Mips!delivery, Mips!close, Mips!subs
  <1>7. ASSUME NEW r \in Requests, Mips!BrokerSubscribes(r) \/ Mips!BrokerFails(r)
        PROVE  HandlersAreOwned'
    <2>1. /\ handlers' = handlers /\ pc[r] = "broker"
          /\ \E s \in {"settle", "undo"} : pc' = [pc EXCEPT ![r] = s]
          /\ UNCHANGED <<replySub, closer, taken>>
      BY <1>7 DEF Mips!BrokerSubscribes, Mips!BrokerFails, Mips!Goto, Mips!close
    <2>. QED
      BY <2>1, RequestConstants
  <1>8. ASSUME NEW r \in Requests, Mips!Undo(r) PROVE HandlersAreOwned'
    BY <1>8, RequestConstants DEF Mips!Undo, Mips!Goto, Mips!close
  <1>9. ASSUME NEW r \in Requests, Mips!Unsubscribe(r) PROVE HandlersAreOwned'
    BY <1>9, RequestConstants DEF Mips!Unsubscribe, Mips!Goto, Mips!close
  <1>10. CASE Mips!CloseUnsubscribes \/ Mips!CloseDisconnects
    BY <1>10, RequestConstants DEF Mips!CloseUnsubscribes, Mips!CloseDisconnects
  <1>11. CASE Mips!Connect \/ Mips!ConnectionUp \/ Mips!ConnectionDown \/ Mips!Resubscribe
    BY <1>11
    DEF Mips!Connect, Mips!ConnectionUp, Mips!ConnectionDown, Mips!Resubscribe,
        Mips!LinkBecomes, Mips!close
  <1>. QED
    BY <1>1, <1>2, <1>3, <1>4, <1>5, <1>6, <1>7, <1>8, <1>9, <1>10, <1>11
    DEF Mips!Next, Mips!RequestStep, Mips!DeliveryStep, Mips!CloseStep

LEMMA HeardStep == RepliesInv /\ [Mips!Next]_mips => Mips!HandlersAreHeard'
  <1>. SUFFICES ASSUME RepliesInv, [Mips!Next]_mips PROVE Mips!HandlersAreHeard'
    OBVIOUS
  <1>. USE DEF RepliesInv, ReplyTypes, RequestSteps, AtBroker, Mips!HandlersAreHeard, Mips!Misses,
               Mips!subs, Mips!mqtt
  <1>1. ASSUME NEW r \in Requests, Mips!Subscribe(r) PROVE Mips!HandlersAreHeard'
    BY <1>1 DEF Mips!Subscribe, Mips!Goto, Mips!mqtt
  <1>2. ASSUME NEW r \in Requests, Mips!SettleSubscription(r) PROVE Mips!HandlersAreHeard'
    BY <1>2 DEF Mips!SettleSubscription, Mips!Goto, Mips!mqtt
  <1>3. ASSUME NEW r \in Requests, Mips!BrokerSubscribes(r) \/ Mips!BrokerFails(r)
        PROVE  Mips!HandlersAreHeard'
    BY <1>3 DEF Mips!BrokerSubscribes, Mips!BrokerFails, Mips!Goto
  <1>4. ASSUME NEW r \in Requests, Mips!Undo(r) \/ Mips!Unsubscribe(r)
        PROVE  Mips!HandlersAreHeard'
    <2>1. PICK forwards, registered : Mips!Misses(forwards, registered, TRUE)
      BY <1>4, Zenon DEF Mips!Undo, Mips!Unsubscribe
    <2>. QED
      BY <2>1, FaultsAreRemembered, Zenon DEF Mips!HandlersAreHeard
  <1>5. CASE Mips!CloseRemoves
    <2>1. /\ Mips!Misses(subscribed, handlers \ {taken}, FALSE)
          /\ UNCHANGED <<link, pc>>
      BY <1>5 DEF Mips!CloseRemoves
    <2>2. missed => (handlers' # {} /\ ~subscribed' => missed')
      BY <2>1, FaultsAreRemembered, Zenon
    <2>3. (subscribed' <=> subscribed) /\ handlers' \subseteq handlers
      BY <2>1, Zenon DEF Mips!Misses
    <2>. QED
      BY <2>1, <2>2, <2>3, Zenon DEF Mips!HandlersAreHeard
  <1>9. CASE Mips!CloseUnsubscribes \/ Mips!Resubscribe
    <2>1. PICK forwards : Mips!Misses(forwards, handlers, TRUE)
      BY <1>9, Zenon DEF Mips!CloseUnsubscribes, Mips!Resubscribe
    <2>. QED
      BY <2>1, FaultsAreRemembered, Zenon DEF Mips!HandlersAreHeard
  <1>6. CASE Mips!CloseDisconnects \/ Mips!Connect \/ Mips!ConnectionUp \/ Mips!ConnectionDown
    BY <1>6
    DEF Mips!CloseDisconnects, Mips!Connect, Mips!ConnectionUp, Mips!ConnectionDown,
        Mips!LinkBecomes
  <1>7. ASSUME NEW r \in Requests,
               Mips!SetProp(r) \/ Mips!GetProp(r) \/ Mips!Ensure(r) \/
               Mips!nextMessageID(r) \/ Mips!Register(r) \/ Mips!Publish(r) \/
               Mips!PublishFails(r) \/ Mips!Return(r) \/ Mips!GiveUp(r)
        PROVE  Mips!HandlersAreHeard'
    BY <1>7, SMTT(30)
    DEF Mips!SetProp, Mips!GetProp, Mips!Ensure, Mips!nextMessageID, Mips!Register,
        Mips!Publish, Mips!PublishFails, Mips!Return, Mips!GiveUp, Mips!Goto, Mips!subs,
        Mips!mqtt
  <1>8. CASE (\E r \in Requests : Mips!Reply(r)) \/ Mips!handleReply \/ Mips!SendReply \/
             Mips!DispatchEnds \/ Mips!Close \/ UNCHANGED mips
    BY <1>8
    DEF Mips!Reply, Mips!Dispatch, Mips!ReplyIsUnheard, Mips!handleReply, Mips!SendReply,
        Mips!DispatchEnds, Mips!Close, mips, Mips!subs, Mips!mqtt
  <1>. QED
    BY <1>1, <1>2, <1>3, <1>4, <1>5, <1>6, <1>7, <1>8, <1>9
    DEF Mips!Next, Mips!RequestStep, Mips!DeliveryStep, Mips!CloseStep

LEMMA IdsStep == RepliesInv /\ [Mips!Next]_mips => IdsAreUnique'
  <1>. SUFFICES ASSUME RepliesInv, [Mips!Next]_mips PROVE IdsAreUnique'
    OBVIOUS
  <1>. USE DEF RepliesInv, ReplyTypes, IdsAreUnique
  <1>1. ASSUME NEW r \in Requests, Mips!nextMessageID(r) PROVE IdsAreUnique'
    BY <1>1, RequestConstants
    DEF Mips!nextMessageID, Mips!Goto, Mips!table, Mips!gateway, Mips!delivery, Mips!close
  <1>2. ASSUME NEW r \in Requests,
               Mips!SetProp(r) \/ Mips!GetProp(r) \/ Mips!Ensure(r) \/ Mips!Subscribe(r) \/
               Mips!SettleSubscription(r) \/ Mips!Register(r) \/
               Mips!Publish(r) \/ Mips!PublishFails(r) \/ Mips!Return(r) \/ Mips!GiveUp(r)
        PROVE  IdsAreUnique'
    BY <1>2, RequestConstants
    DEF Mips!SetProp, Mips!GetProp, Mips!Ensure, Mips!Subscribe, Mips!SettleSubscription,
        Mips!Register, Mips!Publish, Mips!PublishFails, Mips!Return,
        Mips!GiveUp, Mips!Goto, Mips!table, Mips!gateway, Mips!delivery, Mips!close
  <1>3. CASE (\E r \in Requests : Mips!Reply(r)) \/ Mips!handleReply \/ Mips!SendReply \/
             Mips!DispatchEnds \/
             Mips!Close \/ UNCHANGED mips
    BY <1>3, RequestConstants
    DEF Mips!Reply, Mips!Dispatch, Mips!ReplyIsUnheard, Mips!handleReply, Mips!SendReply,
        Mips!DispatchEnds, Mips!Close,
        mips, Mips!table, Mips!gateway, Mips!delivery, Mips!close
  <1>4. CASE BrokerStep
    <2>1. /\ UNCHANGED <<nextID, pending, id, channel, published, message, sending>>
          /\ \A r \in Requests : pc'[r] = pc[r] \/ pc'[r] \in AtBroker \cup {"failed"}
      BY <1>4, BrokerLeaves, Zenon
    <2>. QED
      BY <2>1 DEF AtBroker
  <1>. QED
    BY <1>1, <1>2, <1>3, <1>4
    DEF Mips!Next, Mips!RequestStep, Mips!DeliveryStep, Mips!CloseStep, BrokerStep

LEMMA TableStep == RepliesInv /\ [Mips!Next]_mips => TableIsExact'
  <1>. SUFFICES ASSUME RepliesInv, [Mips!Next]_mips PROVE TableIsExact'
    OBVIOUS
  <1>. USE DEF RepliesInv, ReplyTypes, IdsAreUnique, TableIsExact, GatewayIsHonest, SendIsExact,
               ChannelsAreExact
  <1>1. ASSUME NEW r \in Requests, Mips!SetProp(r) PROVE TableIsExact'
    BY <1>1, RequestConstants
    DEF Mips!SetProp, Mips!Goto, Mips!table, Mips!gateway, Mips!delivery, Mips!close
  <1>2. ASSUME NEW r \in Requests, Mips!GetProp(r) PROVE TableIsExact'
    BY <1>2, RequestConstants
    DEF Mips!GetProp, Mips!Goto, Mips!table, Mips!gateway, Mips!delivery, Mips!close
  <1>3. ASSUME NEW r \in Requests, Mips!Ensure(r) PROVE TableIsExact'
    BY <1>3, RequestConstants
    DEF Mips!Ensure, Mips!Goto, Mips!table, Mips!gateway, Mips!delivery, Mips!close
  <1>4. ASSUME NEW r \in Requests, Mips!Subscribe(r) PROVE TableIsExact'
    BY <1>4, RequestConstants
    DEF Mips!Subscribe, Mips!Goto, Mips!table, Mips!gateway, Mips!delivery, Mips!close
  <1>5. ASSUME NEW r \in Requests, Mips!SettleSubscription(r) PROVE TableIsExact'
    BY <1>5, RequestConstants
    DEF Mips!SettleSubscription, Mips!Goto, Mips!table, Mips!gateway, Mips!delivery, Mips!close
  <1>6. ASSUME NEW r \in Requests, Mips!nextMessageID(r) PROVE TableIsExact'
    BY <1>6, RequestConstants
    DEF Mips!nextMessageID, Mips!Goto, Mips!table, Mips!gateway, Mips!delivery, Mips!close
  <1>7. ASSUME NEW r \in Requests, Mips!Register(r) PROVE TableIsExact'
    <2>1. channel[r] = <<>> /\ r # sending /\ id[r] # 0
      <3>1. channel[r] = <<>>
        BY <1>7 DEF Mips!Register
      <3>2. r # sending
        BY <1>7, RequestConstants DEF Mips!Register
      <3>. QED
        BY <1>7, <3>1, <3>2 DEF Mips!Register
    <2>2. DOMAIN pending' = DOMAIN pending \cup {id[r]} /\ pending'[id[r]] = r
      BY <1>7 DEF Mips!Register, Mips!With
    <2>3. \A i \in DOMAIN pending \ {id[r]} : pending'[i] = pending[i] /\ pending[i] # r
      BY <1>7 DEF Mips!Register, Mips!With
    <2>4. channel' = channel /\ sending' = sending /\ id' = id
          /\ pc' = [pc EXCEPT ![r] = "publish"]
      BY <1>7 DEF Mips!Register, Mips!Goto, Mips!delivery
    <2>. QED
      BY <2>1, <2>2, <2>3, <2>4
  <1>8. ASSUME NEW r \in Requests, Mips!Publish(r) PROVE TableIsExact'
    BY <1>8, RequestConstants
    DEF Mips!Publish, Mips!Goto, Mips!table, Mips!gateway, Mips!delivery, Mips!close, Mips!With,
        Mips!Without, Mips!Restrict
  <1>9. ASSUME NEW r \in Requests, Mips!PublishFails(r) PROVE TableIsExact'
    BY <1>9, RequestConstants
    DEF Mips!PublishFails, Mips!Goto, Mips!table, Mips!gateway, Mips!delivery, Mips!close,
        Mips!With, Mips!Without, Mips!Restrict
  <1>10. ASSUME NEW r \in Requests, Mips!Return(r) PROVE TableIsExact'
    BY <1>10, RequestConstants
    DEF Mips!Return, Mips!Goto, Mips!table, Mips!gateway, Mips!delivery, Mips!close
  <1>11. ASSUME NEW r \in Requests, Mips!GiveUp(r) PROVE TableIsExact'
    BY <1>11, RequestConstants
    DEF Mips!GiveUp, Mips!Goto, Mips!table, Mips!gateway, Mips!delivery, Mips!close, Mips!With,
        Mips!Without, Mips!Restrict
  <1>12. CASE Mips!handleReply
    BY <1>12, RequestConstants
    DEF Mips!handleReply, Mips!table, Mips!gateway, Mips!delivery, Mips!close, Mips!With,
        Mips!Without, Mips!Restrict
  <1>13. CASE Mips!SendReply
    BY <1>13, RequestConstants
    DEF Mips!SendReply, Mips!table, Mips!gateway, Mips!delivery, Mips!close
  <1>14. CASE Mips!Close
    BY <1>14, RequestConstants
    DEF Mips!Close, Mips!table, Mips!gateway, Mips!delivery, Mips!close
  <1>16. CASE (\E r \in Requests : Mips!Reply(r)) \/ Mips!DispatchEnds \/ UNCHANGED mips
    BY <1>16, RequestConstants
    DEF Mips!Reply, Mips!Dispatch, Mips!ReplyIsUnheard, Mips!DispatchEnds, mips, Mips!table,
        Mips!gateway, Mips!delivery, Mips!close
  <1>17. CASE BrokerStep
    <2>1. /\ UNCHANGED <<nextID, pending, id, channel, published, message, sending>>
          /\ \A r \in Requests : pc[r] \notin AtBroker => pc'[r] = pc[r]
      BY <1>17, BrokerLeaves, Zenon
    <2>. QED
      BY <2>1 DEF AtBroker
  <1>. QED
    BY <1>1, <1>2, <1>3, <1>4, <1>5, <1>6, <1>7, <1>8, <1>9, <1>10, <1>11, <1>12, <1>13, <1>14,
       <1>16, <1>17
    DEF Mips!Next, Mips!RequestStep, Mips!DeliveryStep, Mips!CloseStep, BrokerStep

LEMMA GatewayStep == RepliesInv /\ [Mips!Next]_mips => GatewayIsHonest'
  <1>. SUFFICES ASSUME RepliesInv, [Mips!Next]_mips PROVE GatewayIsHonest'
    OBVIOUS
  <1>. USE DEF RepliesInv, ReplyTypes, IdsAreUnique, GatewayIsHonest
  <1>1. ASSUME NEW r \in Requests, Mips!nextMessageID(r) PROVE GatewayIsHonest'
    BY <1>1, RequestConstants
    DEF Mips!nextMessageID, Mips!Goto, Mips!table, Mips!gateway, Mips!delivery, Mips!close
  <1>2. ASSUME NEW r \in Requests, Mips!Publish(r) PROVE GatewayIsHonest'
    BY <1>2, RequestConstants
    DEF Mips!Publish, Mips!Goto, Mips!table, Mips!gateway, Mips!delivery, Mips!close, Mips!With,
        Mips!Without, Mips!Restrict
  <1>3. ASSUME NEW r \in Requests, Mips!Reply(r) PROVE GatewayIsHonest'
    BY <1>3, RequestConstants
    DEF Mips!Reply, Mips!Dispatch, Mips!ReplyIsUnheard, Mips!table, Mips!gateway, Mips!delivery,
        Mips!close
  <1>4. ASSUME NEW r \in Requests,
               Mips!SetProp(r) \/ Mips!GetProp(r) \/ Mips!Ensure(r) \/ Mips!Subscribe(r) \/
               Mips!SettleSubscription(r) \/ Mips!Register(r) \/
               Mips!PublishFails(r) \/ Mips!Return(r) \/ Mips!GiveUp(r)
        PROVE  GatewayIsHonest'
    BY <1>4, RequestConstants
    DEF Mips!SetProp, Mips!GetProp, Mips!Ensure, Mips!Subscribe, Mips!SettleSubscription,
        Mips!Register, Mips!PublishFails, Mips!Return, Mips!GiveUp,
        Mips!Goto, Mips!table, Mips!gateway, Mips!delivery, Mips!close, Mips!With, Mips!Without,
        Mips!Restrict
  <1>5. CASE Mips!handleReply \/ Mips!SendReply \/ Mips!DispatchEnds \/ Mips!Close \/
             UNCHANGED mips
    BY <1>5, RequestConstants
    DEF Mips!handleReply, Mips!SendReply, Mips!DispatchEnds, Mips!Close, mips, Mips!table,
        Mips!gateway, Mips!delivery, Mips!close, Mips!With, Mips!Without,
        Mips!Restrict
  <1>6. CASE BrokerStep
    <2>1. /\ UNCHANGED <<nextID, pending, id, channel, published, message, sending>>
          /\ \A r \in Requests : pc[r] \notin AtBroker => pc'[r] = pc[r]
      BY <1>6, BrokerLeaves, Zenon
    <2>. QED
      BY <2>1 DEF AtBroker
  <1>. QED
    BY <1>1, <1>2, <1>3, <1>4, <1>5, <1>6
    DEF Mips!Next, Mips!RequestStep, Mips!DeliveryStep, Mips!CloseStep, BrokerStep

LEMMA SendStep == RepliesInv /\ [Mips!Next]_mips => SendIsExact'
  <1>. SUFFICES ASSUME RepliesInv, [Mips!Next]_mips PROVE SendIsExact'
    OBVIOUS
  <1>. USE DEF RepliesInv, ReplyTypes, IdsAreUnique, TableIsExact, GatewayIsHonest, SendIsExact,
               ChannelsAreExact
  <1>1. ASSUME NEW r \in Requests, Mips!Return(r) PROVE SendIsExact'
    BY <1>1, RequestConstants
    DEF Mips!Return, Mips!Goto, Mips!table, Mips!gateway, Mips!delivery, Mips!close
  <1>2. CASE Mips!handleReply
    BY <1>2, RequestConstants
    DEF Mips!handleReply, Mips!table, Mips!gateway, Mips!delivery, Mips!close, Mips!With,
        Mips!Without, Mips!Restrict
  <1>3. CASE Mips!SendReply
    BY <1>3, RequestConstants
    DEF Mips!SendReply, Mips!table, Mips!gateway, Mips!delivery, Mips!close
  <1>4. ASSUME NEW r \in Requests,
               Mips!SetProp(r) \/ Mips!GetProp(r) \/ Mips!Ensure(r) \/ Mips!Subscribe(r) \/
               Mips!SettleSubscription(r) \/ Mips!nextMessageID(r) \/
               Mips!Register(r) \/ Mips!Publish(r) \/ Mips!PublishFails(r) \/ Mips!GiveUp(r)
        PROVE  SendIsExact'
    BY <1>4, RequestConstants
    DEF Mips!SetProp, Mips!GetProp, Mips!Ensure, Mips!Subscribe, Mips!SettleSubscription,
        Mips!nextMessageID, Mips!Register, Mips!Publish,
        Mips!PublishFails, Mips!GiveUp, Mips!Goto, Mips!table, Mips!gateway, Mips!delivery,
        Mips!close, Mips!With, Mips!Without, Mips!Restrict
  <1>5. CASE (\E r \in Requests : Mips!Reply(r)) \/ Mips!DispatchEnds \/ Mips!Close \/
             UNCHANGED mips
    BY <1>5, RequestConstants
    DEF Mips!Reply, Mips!Dispatch, Mips!ReplyIsUnheard, Mips!DispatchEnds, Mips!Close, mips,
        Mips!table,
        Mips!gateway, Mips!delivery, Mips!close
  <1>6. CASE BrokerStep
    <2>1. /\ UNCHANGED <<nextID, pending, id, channel, published, message, sending>>
          /\ \A r \in Requests : pc[r] \notin AtBroker => pc'[r] = pc[r]
      BY <1>6, BrokerLeaves, Zenon
    <2>. QED
      BY <2>1 DEF AtBroker
  <1>. QED
    BY <1>1, <1>2, <1>3, <1>4, <1>5, <1>6
    DEF Mips!Next, Mips!RequestStep, Mips!DeliveryStep, Mips!CloseStep, BrokerStep

LEMMA ChannelsStep == RepliesInv /\ [Mips!Next]_mips => ChannelsAreExact'
  <1>. SUFFICES ASSUME RepliesInv, [Mips!Next]_mips PROVE ChannelsAreExact'
    OBVIOUS
  <1>. USE DEF RepliesInv, ReplyTypes, GatewayIsHonest, SendIsExact, ChannelsAreExact
  <1>1. ASSUME NEW r \in Requests, Mips!Return(r) PROVE ChannelsAreExact'
    <2>1. channel[r] = <<r>>
      BY <1>1 DEF Mips!Return, ChannelsAreExact
    <2>2. channel' = [channel EXCEPT ![r] = <<>>]
      BY <1>1, <2>1, OneElement DEF Mips!Return
    <2>. QED
      BY <1>1, <2>1, <2>2, RequestConstants
      DEF Mips!Return, Mips!Goto, Mips!table, Mips!delivery, Mips!close
  <1>2. CASE Mips!SendReply
    BY <1>2, RequestConstants
    DEF Mips!SendReply, Mips!table, Mips!gateway, Mips!delivery, Mips!close
  <1>3. ASSUME NEW r \in Requests,
               Mips!SetProp(r) \/ Mips!GetProp(r) \/ Mips!Ensure(r) \/ Mips!Subscribe(r) \/
               Mips!SettleSubscription(r) \/ Mips!nextMessageID(r) \/
               Mips!Register(r) \/ Mips!Publish(r) \/ Mips!PublishFails(r) \/ Mips!GiveUp(r)
        PROVE  ChannelsAreExact'
    BY <1>3, RequestConstants
    DEF Mips!SetProp, Mips!GetProp, Mips!Ensure, Mips!Subscribe, Mips!SettleSubscription,
        Mips!nextMessageID, Mips!Register, Mips!Publish,
        Mips!PublishFails, Mips!GiveUp, Mips!Goto, Mips!table, Mips!gateway, Mips!delivery,
        Mips!close
  <1>4. CASE (\E r \in Requests : Mips!Reply(r)) \/ Mips!handleReply \/ Mips!DispatchEnds \/
             Mips!Close \/
             UNCHANGED mips
    BY <1>4, RequestConstants
    DEF Mips!Reply, Mips!Dispatch, Mips!ReplyIsUnheard, Mips!handleReply, Mips!DispatchEnds,
        Mips!Close, mips, Mips!table, Mips!gateway, Mips!delivery, Mips!close
  <1>5. CASE BrokerStep
    <2>1. /\ UNCHANGED <<nextID, pending, id, channel, published, message, sending>>
          /\ \A r \in Requests : pc[r] \notin AtBroker => pc'[r] = pc[r]
      BY <1>5, BrokerLeaves, Zenon
    <2>. QED
      BY <2>1 DEF AtBroker
  <1>. QED
    BY <1>1, <1>2, <1>3, <1>4, <1>5
    DEF Mips!Next, Mips!RequestStep, Mips!DeliveryStep, Mips!CloseStep, BrokerStep

LEMMA RepliesStep == RepliesInv /\ [Mips!Next]_mips => RepliesInv'
  BY ReplyTypesStep, HandlersStep, IdsStep, TableStep, GatewayStep, SendStep, ChannelsStep,
     HeardStep
  DEF RepliesInv

\* The inductive invariant of the requests.
THEOREM RepliesAreSound == Mips!Init /\ [][Mips!Next]_mips => []RepliesInv
  BY RepliesInit, RepliesStep, PTL

LEMMA RepliesInvTypeOK == RepliesInv => Mips!TypeOK
  BY DEF RepliesInv, ReplyTypes, TableIsExact, IdsAreUnique, Mips!TypeOK

LEMMA RepliesInvExact == RepliesInv => RepliesAreExact
  <1>1. RepliesInv => Mips!OneReplyEach
    BY RequestConstants DEF RepliesInv, SendIsExact, ChannelsAreExact, Mips!OneReplyEach
  <1>2. RepliesInv => Mips!SubscribedOnce
    BY DEF RepliesInv, ReplyTypes, HandlersAreOwned, Settling, Mips!SubscribedOnce,
           Mips!Subscribing
  <1>. QED
    BY <1>1, <1>2 DEF RepliesAreExact, RepliesInv

-----------------------------------------------------------------------------
(* The two parts together, as the run checks them *)

LEMMA PartsAreSound == MCSpec => []QueueInv /\ []RepliesInv
  <1>1. MCInit => QueueInv /\ RepliesInv
    BY QueueInit, RepliesInit DEF MCInit
  <1>2. [MCNext]_<<part, vars, mips>> => [Next]_vars /\ [Mips!Next]_mips
    BY DEF MCNext, vars, mips
  <1>. QED
    BY <1>1, <1>2, QueueStep, RepliesStep, PTL DEF MCSpec

\* The two models keep their types: RequestRefreshProperty, timers, cycles, Close and Start on one
\* side, requests, replies and Close on the other.
THEOREM RequestsTypeCorrect == MCSpec => []RequestsTypeOK
  BY PartsAreSound, QueueInvTypeOK, RepliesInvTypeOK, PTL DEF RequestsTypeOK

\* However requests, timers, cycles, cancels, Close and Start interleave, a queue that is not empty
\* has a goroutine that will serve it, unless a timer was thrown away over pending properties
\* (scheduleSingleTimer, handleQueuedPropertyRefresh).
THEOREM QueueStaysCovered == MCSpec => []QueueCovered
  BY PartsAreSound, QueueInvCovers, PTL

\* However often replies arrive, late or twice, and whoever else subscribes, a request is given at
\* most one reply, its own, handleReply never waits on a full channel, and one subscription
\* remains (baseMIPSClient.Request, ensureReplySubscription, handleReply, Close).
THEOREM RepliesStayExact == MCSpec => []RepliesAreExact
  BY PartsAreSound, RepliesInvExact, PTL

\* In the composition too, a pending property is answered or given up, never overwritten
\* (refreshQueuedPropertiesCycle).
THEOREM NothingPendingIsLost == MCSpec => NoSilentLoss
  <1>1. QueueInv /\ [MCNext]_<<part, vars, mips>> =>
          [~(Pending \subseteq Pending') => \E p \in Procs : CycleFetch(p) \/ GiveUp(p)]_vars
    BY PendingStep DEF QueueInv, SlotInv, MCNext, vars
  <1>. QED
    BY <1>1, PartsAreSound, PTL DEF MCSpec, NoSilentLoss
=============================================================================
