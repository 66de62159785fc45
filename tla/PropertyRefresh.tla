--------------------------- MODULE PropertyRefresh ---------------------------
(***************************************************************************)
(* The queued property refresh of MIoTClient (client.go).                  *)
(*                                                                         *)
(* RequestRefreshProperty puts a property in queuedProps and arms a timer  *)
(* when no timer is armed; the timer's goroutine fetches a batch, puts     *)
(* back what it could not fetch and arms the next timer, or gives up after *)
(* MaxRetry fruitless cycles.  RefreshQueuedProperties runs one cycle from *)
(* a caller's goroutine.  All of it shares client.mu, which is released    *)
(* between the steps below, so requests, cycles, cancels, Start, its       *)
(* rollback and Close interleave.                                          *)
(*                                                                         *)
(* A member of Procs is a goroutine: one that runs RequestRefreshProperty  *)
(* or RefreshQueuedProperties, or the goroutine of one timer.  Arming a    *)
(* timer is the last thing its caller does, so the timer's goroutine takes *)
(* over the caller's name.                                                 *)
(***************************************************************************)
EXTENDS Naturals, FiniteSets

CONSTANTS
  Keys,       \* the property keys did|siid|piid
  Procs,      \* goroutines that may exist at one time (bound)
  Batch,      \* miotClientRefreshPropBatch
  MaxRetry,   \* miotClientRefreshPropMaxRetry
  MaxStarts,  \* how often the client is started (bound)
  None,       \* propTimer = nil
  Stale       \* propTimer is a timer whose goroutine has already returned

ASSUME RefreshConstants ==
  /\ IsFiniteSet(Keys) /\ IsFiniteSet(Procs)
  /\ Batch \in Nat \ {0} /\ MaxRetry \in Nat \ {0} /\ MaxStarts \in Nat \ {0}
  /\ None # Stale /\ None \notin Procs /\ Stale \notin Procs

VARIABLES
  queuedProps,  \* client.queuedProps
  propTimer,    \* client.propTimer and client.propStop, always set together
  propRetry,    \* client.propRetry
  runtimeCtx,   \* client.runtimeCtx: 0 is nil, n is the context of the n-th Start
  over,         \* the contexts that have ended
  starts,       \* Starts so far
  starting,     \* calls of Start that have not returned
  proc,         \* the goroutines
  lost          \* history: a timer was lost over pending properties, none armed since

life == <<runtimeCtx, over, starts, starting>>
vars == <<queuedProps, propTimer, propRetry, life, proc, lost>>

Idle == [pc |-> "free", ctx |-> 0, active |-> {}, timed |-> FALSE,
         progress |-> FALSE, remaining |-> FALSE]

\* The properties somebody asked for and nobody has fetched or dropped yet.
Pending == queuedProps \cup UNION {proc[p].active : p \in Procs}

\* Those of them that a RefreshQueuedProperties call holds; it will put back
\* what it cannot fetch and arm no timer.
HeldByCaller == UNION {proc[p].active : p \in {q \in Procs : ~proc[q].timed}}

Smaller(a, b) == IF a < b THEN a ELSE b

\* Closing a timer's stop channel; the goroutine sees it in its next select.
StopTimer(pr, t) == IF t \in Procs THEN [pr EXCEPT ![t].pc = "stopped"] ELSE pr

Init ==
  /\ queuedProps = {} /\ propTimer = None /\ propRetry = 0
  /\ runtimeCtx = 0 /\ over = {} /\ starts = 0 /\ starting = 0
  /\ proc = [p \in Procs |-> Idle]
  /\ lost = FALSE

-----------------------------------------------------------------------------
(* Requests and timers *)

RequestRefreshProperty(p, k) ==
  /\ proc[p].pc = "free"
  /\ queuedProps' = queuedProps \cup {k}
  /\ proc' = IF propTimer = None THEN [proc EXCEPT ![p].pc = "schedule"] ELSE proc
  /\ UNCHANGED <<propTimer, propRetry, life, lost>>

\* scheduleSingleTimer, first critical section: the context is read under RLock.
ReadRuntimeCtx(p) ==
  /\ proc[p].pc = "schedule"
  /\ proc' = [proc EXCEPT ![p] = IF runtimeCtx = 0 THEN Idle
                                 ELSE [Idle EXCEPT !.pc = "install", !.ctx = runtimeCtx]]
  /\ lost' = (lost \/ (runtimeCtx = 0 /\ Pending # {}))
  /\ UNCHANGED <<queuedProps, propTimer, propRetry, life>>

\* scheduleSingleTimer, second critical section: the slot is replaced and its
\* previous timer stopped.
InstallTimer(p) ==
  /\ proc[p].pc = "install"
  /\ proc' = [StopTimer(proc, propTimer) EXCEPT ![p].pc = "armed"]
  /\ propTimer' = p
  /\ lost' = (lost /\ proc[p].ctx \in over)
  /\ UNCHANGED <<queuedProps, propRetry, life>>

\* Mutation of TimerFires: an expired timer keeps its slot.
TimerFiresKeepingSlot(p) ==
  /\ proc[p].pc \in {"armed", "stopped"}
  /\ proc' = [proc EXCEPT ![p].pc = "take", ![p].ctx = 0, ![p].timed = TRUE]
  /\ UNCHANGED <<queuedProps, propTimer, propRetry, life, lost>>

\* The select of the timer's goroutine takes timer.C(); a stopped timer may
\* have expired first, and then either case of the select may be taken.
TimerFires(p) ==
  /\ proc[p].pc \in {"armed", "stopped"}
  /\ propTimer' = IF propTimer = p THEN None ELSE propTimer
  /\ proc' = [proc EXCEPT ![p].pc = "take", ![p].ctx = 0, ![p].timed = TRUE]
  /\ UNCHANGED <<queuedProps, propRetry, life, lost>>

\* The select takes ctx.Done() or stop: the goroutine returns and leaves the slot as it is.
TimerReturns(p) ==
  /\ \/ proc[p].pc = "stopped"
     \/ proc[p].pc = "armed" /\ proc[p].ctx \in over
  /\ propTimer' = IF propTimer = p THEN Stale ELSE propTimer
  /\ proc' = [proc EXCEPT ![p] = Idle]
  /\ UNCHANGED <<queuedProps, propRetry, life, lost>>

-----------------------------------------------------------------------------
(* One refresh cycle *)

\* RefreshQueuedProperties: a caller runs a cycle itself.
RefreshQueuedProperties(p) ==
  /\ proc[p].pc = "free"
  /\ proc' = [proc EXCEPT ![p].pc = "take"]
  /\ UNCHANGED <<queuedProps, propTimer, propRetry, life, lost>>

\* The end of a cycle: handleQueuedPropertyRefresh looks at its result, and
\* RefreshQueuedProperties returns to its caller.
CycleEnds(p, progress, remaining) ==
  IF proc[p].timed
    THEN [Idle EXCEPT !.pc = "decide", !.timed = TRUE, !.progress = progress,
                      !.remaining = remaining]
    ELSE Idle

\* Takes up to Batch properties out of the queue, in the map's arbitrary order.
CycleTake(p) ==
  /\ proc[p].pc = "take"
  /\ \E active \in SUBSET queuedProps :
       /\ Cardinality(active) = Smaller(Batch, Cardinality(queuedProps))
       /\ queuedProps' = queuedProps \ active
       /\ proc' = [proc EXCEPT ![p] = IF active = {} THEN CycleEnds(p, FALSE, FALSE)
                                      ELSE [@ EXCEPT !.pc = "fetch", !.active = active]]
  /\ UNCHANGED <<propTimer, propRetry, life, lost>>

\* The cloud answers for any part of the batch, or the local routes do.
CycleFetch(p) ==
  /\ proc[p].pc = "fetch"
  /\ \E fetched \in SUBSET proc[p].active :
       proc' = [proc EXCEPT ![p].active = @ \ fetched,
                            ![p].progress = fetched # {}, ![p].pc = "requeue"]
  /\ UNCHANGED <<queuedProps, propTimer, propRetry, life, lost>>

\* Mutation of CycleRequeue: what was not fetched replaces the queue.
CycleRequeueOverwriting(p) ==
  /\ proc[p].pc = "requeue"
  /\ queuedProps' = proc[p].active
  /\ proc' = [proc EXCEPT ![p] = CycleEnds(p, proc[p].progress, queuedProps' # {})]
  /\ UNCHANGED <<propTimer, propRetry, life, lost>>

\* Whatever was not fetched goes back to the queue.
CycleRequeue(p) ==
  /\ proc[p].pc = "requeue"
  /\ queuedProps' = queuedProps \cup proc[p].active
  /\ proc' = [proc EXCEPT ![p] = CycleEnds(p, proc[p].progress, queuedProps' # {})]
  /\ lost' = (lost \/ /\ proc[p].timed /\ queuedProps' = {} /\ HeldByCaller # {}
                      /\ propTimer = None)
  /\ UNCHANGED <<propTimer, propRetry, life>>

-----------------------------------------------------------------------------
(* handleQueuedPropertyRefresh, after its cycle *)

\* Mutation of HandleProgress: no timer for what is still queued.
HandleProgressWithoutTimer(p) ==
  /\ proc[p].pc = "decide" /\ proc[p].progress
  /\ propRetry' = 0
  /\ proc' = [proc EXCEPT ![p] = Idle]
  /\ UNCHANGED <<queuedProps, propTimer, life, lost>>

HandleProgress(p) ==
  /\ proc[p].pc = "decide" /\ proc[p].progress
  /\ propRetry' = 0
  /\ proc' = [proc EXCEPT ![p] = [Idle EXCEPT !.pc = IF proc[p].remaining
                                                       THEN "schedule" ELSE "free"]]
  /\ UNCHANGED <<queuedProps, propTimer, life, lost>>

HandleNothingQueued(p) ==
  /\ proc[p].pc = "decide" /\ ~proc[p].progress /\ ~proc[p].remaining
  /\ proc' = [proc EXCEPT ![p] = [Idle EXCEPT !.pc = "cancel"]]
  /\ UNCHANGED <<queuedProps, propTimer, propRetry, life, lost>>

\* Mutation of HandleRetry: the retries are counted and never limited.
HandleRetryForever(p) ==
  /\ proc[p].pc = "decide" /\ ~proc[p].progress /\ proc[p].remaining
  /\ propRetry' = propRetry + 1
  /\ proc' = [proc EXCEPT ![p] = [Idle EXCEPT !.pc = "schedule"]]
  /\ UNCHANGED <<queuedProps, propTimer, life, lost>>

HandleRetry(p) ==
  /\ proc[p].pc = "decide" /\ ~proc[p].progress /\ proc[p].remaining
  /\ propRetry' = propRetry + 1
  /\ proc' = [proc EXCEPT ![p] = [Idle EXCEPT !.pc = IF propRetry' >= MaxRetry
                                                       THEN "giveup" ELSE "schedule"]]
  /\ UNCHANGED <<queuedProps, propTimer, life, lost>>

GiveUp(p) ==
  /\ proc[p].pc = "giveup"
  /\ queuedProps' = {} /\ propRetry' = 0
  /\ proc' = [proc EXCEPT ![p].pc = "cancel"]
  /\ UNCHANGED <<propTimer, life, lost>>

\* cancelPropRefresh clears the slot whoever armed it.
CancelPropRefresh(p) ==
  /\ proc[p].pc = "cancel"
  /\ propTimer' = None /\ propRetry' = 0
  /\ proc' = [StopTimer(proc, propTimer) EXCEPT ![p] = Idle]
  /\ lost' = (lost \/ Pending # {})
  /\ UNCHANGED <<queuedProps, life>>

-----------------------------------------------------------------------------
(* Lifecycle *)

\* Start, up to its first unlock; what it starts after that may fail.
Start ==
  /\ runtimeCtx = 0 /\ starts < MaxStarts
  /\ runtimeCtx' = starts + 1 /\ starts' = starts + 1 /\ starting' = starting + 1
  /\ UNCHANGED <<queuedProps, propTimer, propRetry, over, proc, lost>>

StartReturns ==
  /\ starting > 0 /\ starting' = starting - 1
  /\ UNCHANGED <<queuedProps, propTimer, propRetry, runtimeCtx, over, starts, proc, lost>>

\* A Start that failed ends the context that is there now, and touches nothing of the queue.
RollbackStart ==
  /\ starting > 0 /\ starting' = starting - 1
  /\ runtimeCtx' = 0 /\ over' = over \cup ({runtimeCtx} \ {0})
  /\ UNCHANGED <<queuedProps, propTimer, propRetry, starts, proc, lost>>

\* The context the caller gave to Start ends, and runtimeCtx with it.
ContextEnds ==
  /\ runtimeCtx # 0
  /\ over' = over \cup {runtimeCtx}
  /\ UNCHANGED <<queuedProps, propTimer, propRetry, runtimeCtx, starts, starting, proc, lost>>

\* Close: the part that concerns the queue; queuedProps is kept.
Close ==
  /\ runtimeCtx' = 0 /\ over' = over \cup ({runtimeCtx} \ {0})
  /\ propTimer' = None /\ propRetry' = 0
  /\ proc' = StopTimer(proc, propTimer)
  /\ lost' = (lost \/ Pending # {})
  /\ UNCHANGED <<queuedProps, starts, starting>>

\* The steps a goroutine takes by itself once it runs.
Step(p) ==
  \/ ReadRuntimeCtx(p) \/ InstallTimer(p) \/ TimerFires(p) \/ TimerReturns(p)
  \/ CycleTake(p) \/ CycleFetch(p) \/ CycleRequeue(p)
  \/ HandleProgress(p) \/ HandleNothingQueued(p) \/ HandleRetry(p)
  \/ GiveUp(p) \/ CancelPropRefresh(p)

Next ==
  \/ \E p \in Procs : \/ \E k \in Keys : RequestRefreshProperty(p, k)
                      \/ RefreshQueuedProperties(p)
                      \/ Step(p)
  \/ Start \/ StartReturns \/ RollbackStart \/ ContextEnds \/ Close

Spec == Init /\ [][Next]_vars

\* The Go scheduler runs every goroutine that can run, timers expire, and a
\* backend call returns (its context has a deadline or the transport fails).
\* Nobody has to call RequestRefreshProperty, Close or Start, nor has Start to
\* return.
Fairness == \A p \in Procs : WF_vars(Step(p))
FairSpec == Spec /\ Fairness

-----------------------------------------------------------------------------
(* Properties *)

TypeOK ==
  /\ queuedProps \subseteq Keys
  /\ propTimer \in Procs \cup {None, Stale}
  /\ propRetry \in 0..(MaxRetry + Cardinality(Procs))
  /\ runtimeCtx \in 0..MaxStarts /\ over \subseteq 1..MaxStarts
  /\ starts \in 0..MaxStarts /\ starting \in 0..starts
  /\ proc \in [Procs ->
       [pc : {"free", "schedule", "install", "armed", "stopped", "take", "fetch",
              "requeue", "decide", "giveup", "cancel"},
        ctx : 0..MaxStarts, active : SUBSET Keys, timed : BOOLEAN,
        progress : BOOLEAN, remaining : BOOLEAN]]
  /\ lost \in BOOLEAN

\* A goroutine that will arm a timer, look at the queue again or drop it.
WillServe(p) ==
  \/ proc[p].pc \in {"schedule", "install"}
  \/ proc[p].pc = "armed" /\ proc[p].ctx \notin over
  \/ proc[p].timed /\ proc[p].pc \in {"take", "fetch", "requeue"}
  \/ proc[p].pc = "decide" /\ (proc[p].progress => proc[p].remaining)
  \/ proc[p].pc \in {"giveup", "cancel"}

\* The slot holds a timer of a context that has ended: its goroutine returns without a
\* cycle, and while it is there no request arms another.
SlotIsDead ==
  propTimer = Stale \/ (propTimer \in Procs /\ proc[propTimer].ctx \in over)

\* A queue that is not empty has a goroutine that will serve it, but for two states: the
\* slot is empty since a timer was thrown away over pending properties (by
\* cancelPropRefresh, by Close, or because no context was there), which the next request
\* repairs; or the slot is dead, which only Close or a cycle's cancel repairs.
QueueCovered ==
  queuedProps # {} =>
    \/ \E p \in Procs : WillServe(p)
    \/ lost /\ propTimer = None
    \/ SlotIsDead

\* A pending property stops being pending only because a backend answered for
\* it or because the retries are used up: cycles that run concurrently with
\* requests never overwrite each other's keys.
NoSilentLoss ==
  [][ ~(Pending \subseteq Pending') => \E p \in Procs : CycleFetch(p) \/ GiveUp(p) ]_vars

\* A queued property is taken up by some cycle or dropped, unless a timer was lost or the
\* slot is dead.
IsServed(k) == k \in queuedProps ~> (k \notin queuedProps \/ lost \/ SlotIsDead)

Running == runtimeCtx # 0 /\ runtimeCtx \notin over

\* Expected of the code but not kept by it (README, "What the code does not keep"):
\* "RequestRefreshProperty queues one property for later refresh": while the client runs
\* and no timer was lost, what is queued does not stay queued for ever.  After a Start
\* that failed, rollbackStart leaves its timer in the slot and the next client arms none.
QueuedForLaterRefresh ==
  \A k \in Keys :
    (k \in queuedProps /\ Running) ~> (k \notin queuedProps \/ ~Running \/ lost)
=============================================================================
