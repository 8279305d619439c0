--------------------------- MODULE ModuleScheduler ---------------------------
(***************************************************************************)
(* The scheduler of the server module: the task pool and the timers the    *)
(* main thread fires in the second part of a pump.  Time is abstract: a    *)
(* pump finds any of the scheduled timers due.                             *)
(***************************************************************************)
EXTENDS TaskPool

CONSTANTS
    Timers,       \* timers that may be posted, named by their id
    TimerOwner,   \* the resource that posts a timer
    Repeats,      \* the repeat count it is posted with, 0 for "until cancelled"
    MaxFires      \* bound on the firings of a timer without a repeat count

ASSUME TimersType ==
    /\ TimerOwner \in [Timers -> Resources]
    /\ Repeats \in [Timers -> Nat]
    /\ MaxFires \in Nat

VARIABLES
    posted,       \* timers that have been posted
    timers,       \* timers that are scheduled
    due,          \* timers this pump is firing
    firing,       \* the timer whose callback runs; empty or a singleton
    timerBorn,    \* the generation of its resource a timer was posted in
    repeatsLeft,  \* repetitions left, 0 = forever
    fired,        \* how often a timer has fired
    cancelled,    \* TimerState::cancelled: Timer::cancel was called
    finished      \* TimerState::finished

timerVars == <<posted, timers, due, firing, timerBorn, repeatsLeft, fired, cancelled, finished>>
schedulerVars == <<poolVars, timerVars>>
-----------------------------------------------------------------------------
\* post_timer_handle, from a function a loaded resource calls.
PostTimer(k) ==
    /\ MayCall
    /\ k \notin posted /\ TimerOwner[k] \in loaded
    /\ posted' = posted \union {k}
    /\ timers' = timers \union {k}
    /\ timerBorn' = [timerBorn EXCEPT ![k] = generation[TimerOwner[k]]]
    /\ repeatsLeft' = [repeatsLeft EXCEPT ![k] = Repeats[k]]
    /\ UNCHANGED <<due, firing, fired, cancelled, finished, poolVars>>

Valid(k) == k \in posted /\ k \notin cancelled \union finished

\* Timer::cancel, through the handle.  A timer this pump has taken over is not
\* found among the scheduled ones.
CancelTimer(k) ==
    /\ MayCall /\ Valid(k)
    /\ cancelled' = cancelled \union {k}
    /\ finished' = finished \union {k}
    /\ timers' = timers \ {k}
    /\ UNCHANGED <<posted, due, firing, timerBorn, repeatsLeft, fired, poolVars>>

\* cancel_timer, by id.
CancelTimerById(k) ==
    /\ MayCall /\ k \in timers
    /\ finished' = finished \union {k}
    /\ timers' = timers \ {k}
    /\ UNCHANGED <<posted, due, firing, timerBorn, repeatsLeft, fired, cancelled, poolVars>>
-----------------------------------------------------------------------------
(* pump, second part: timers *)

Stale(k) == timerBorn[k] # generation[TimerOwner[k]]

\* The due timers leave the schedule before any callback runs; those of an
\* ended generation are finished instead.
CollectDue ==
    /\ main = "drain" /\ ready = <<>>
    /\ \E now \in SUBSET timers :
         /\ \A k \in now : Repeats[k] = 0 => fired[k] < MaxFires
         /\ due' = {k \in now : ~Stale(k)}
         /\ finished' = finished \union {k \in now : Stale(k)}
         /\ timers' = timers \ now
    /\ Goto("timers")
    /\ UNCHANGED <<posted, firing, timerBorn, repeatsLeft, fired, cancelled>>
    /\ UNCHANGED <<stateVars, queueVars, ready, deliveries, stopping, hubVars>>

Fire(k) ==
    /\ main = "timers" /\ k \in due
    /\ fired' = [fired EXCEPT ![k] = @ + 1]
    /\ due' = due \ {k}
    /\ firing' = {k}
    /\ Goto("callback")
    /\ UNCHANGED <<posted, timers, timerBorn, repeatsLeft, cancelled, finished>>
    /\ UNCHANGED <<stateVars, queueVars, ready, deliveries, stopping, hubVars>>

\* Mutant: the limit is looked at before it is lowered.
ReachedBefore(k) == Repeats[k] > 0 /\ repeatsLeft[k] = 0

\* A repeat count, 0 meaning forever, has run out.
LimitReached(k) == repeatsLeft[k] = 1

\* A timer cancelled from inside its callback is not scheduled again.
ScheduledAgain(k) == k \notin cancelled /\ ~LimitReached(k)

CallbackReturns(k) ==
    /\ main = "callback" /\ k \in firing
    /\ firing' = {}
    /\ IF ScheduledAgain(k)
       THEN /\ timers' = timers \union {k}
            /\ repeatsLeft' = [repeatsLeft EXCEPT ![k] = IF @ > 0 THEN @ - 1 ELSE 0]
            /\ UNCHANGED finished
       ELSE /\ finished' = finished \union {k}
            /\ UNCHANGED <<timers, repeatsLeft>>
    /\ Goto("timers")
    /\ UNCHANGED <<posted, due, timerBorn, fired, cancelled>>
    /\ UNCHANGED <<stateVars, queueVars, ready, deliveries, stopping, hubVars>>

PumpEnds ==
    /\ main = "timers" /\ due = {}
    /\ Goto("idle")
    /\ UNCHANGED <<timerVars, stateVars, queueVars, ready, deliveries, stopping, hubVars>>
-----------------------------------------------------------------------------

\* The stop of a resource reaches its timers before its tasks.
StopResource(r) ==
    /\ ResourceStopped(r)
    /\ timers' = {k \in timers : TimerOwner[k] # r}
    /\ finished' = finished \union {k \in timers : TimerOwner[k] = r}
    /\ UNCHANGED <<posted, due, firing, timerBorn, repeatsLeft, fired, cancelled>>

\* The timers are dropped with the pool.
StopPool ==
    /\ JoinWorkers
    /\ timers' = {}
    /\ UNCHANGED <<posted, due, firing, timerBorn, repeatsLeft, fired, cancelled, finished>>

SchedulerInit ==
    /\ PoolInit
    /\ posted = {} /\ timers = {} /\ due = {} /\ firing = {}
    /\ timerBorn = [k \in Timers |-> 0]
    /\ repeatsLeft = [k \in Timers |-> 0]
    /\ fired = [k \in Timers |-> 0]
    /\ cancelled = {} /\ finished = {}

WorkerStep(w) ==
    (Sleep(w) \/ Take(w) \/ FinishWork(w) \/ ExitWorker(w)) /\ UNCHANGED timerVars

PumpStep ==
    \/ (TakeCompletions \/ Deliver \/ CompletionReturns) /\ UNCHANGED timerVars
    \/ CollectDue
    \/ \E k \in Timers : Fire(k) \/ CallbackReturns(k)
    \/ PumpEnds

ApiCall ==
    \/ (\E t \in Tasks : PostTask(t) \/ CancelTask(t)) /\ UNCHANGED timerVars
    \/ \E k \in Timers : PostTimer(k) \/ CancelTimer(k) \/ CancelTimerById(k)

HostStep ==
    \/ \E r \in Resources : StopResource(r) \/ (ResourceStarted(r) /\ UNCHANGED timerVars)
    \/ BeginStop /\ UNCHANGED timerVars

StopStep == (NotifyAll /\ UNCHANGED timerVars) \/ StopPool

SchedulerNext ==
    \/ \E w \in Workers : WorkerStep(w) \/ (WakeSpuriously(w) /\ UNCHANGED timerVars)
    \/ PumpStep \/ ApiCall \/ HostStep \/ StopStep

SchedulerSpec == SchedulerInit /\ [][SchedulerNext]_schedulerVars

\* Workers that are awake run, the work they are given ends, the server pulses, and its
\* shutdown goes on and waits for the workers.  Nobody wakes up of himself.
Fairness ==
    /\ \A w \in Workers : WF_schedulerVars(WorkerStep(w))
    /\ WF_schedulerVars(PumpStep)
    /\ WF_schedulerVars(StopStep)

FairSpec == SchedulerSpec /\ Fairness
-----------------------------------------------------------------------------

\* Task::cancel returned true: the completion never runs - whether the task was
\* waiting, running on a worker, or about to be handed over (task.hpp).
CancelledIsSilent ==
    \A t \in Tasks :
        status[t] = "Cancelled" \/ cancelRequested[t] => deliveries[t] = 0

\* Nothing of an ended VM generation reaches Lua again, however late its work
\* ends, its completion is taken over or its timer falls due.
EndedGenerationIsSilent ==
    [][/\ \A t \in Tasks : Owner[t] # NoOwner /\ deliveries'[t] # deliveries[t] =>
            Owner[t] \in loaded /\ generation[Owner[t]] = born[t]
       /\ \A k \in Timers : fired'[k] # fired[k] =>
            TimerOwner[k] \in loaded /\ generation[TimerOwner[k]] = timerBorn[k]]_schedulerVars

\* A timer with a repeat count fires at most that often, and a timer cancelled
\* from its own callback not again.
RepeatsAreKept ==
    \A k \in Timers :
        /\ Repeats[k] > 0 => fired[k] <= Repeats[k]
        /\ k \in cancelled => k \notin timers

\* A task nobody cancels is delivered, unless its generation or the pool ends: some worker
\* is awake, or is woken, to run it.
TasksAreDelivered ==
    \A t \in Tasks :
        status[t] = "Queued" ~>
            \/ deliveries[t] = 1 \/ status[t] = "Cancelled" \/ cancelRequested[t]
            \/ ~Deliverable(t) \/ stopping

\* Shutdown ends: the main thread does not wait for its workers for ever, whether they
\* work, sleep or are about to.
ShutdownEnds == stopping ~> main = "stopped"
=============================================================================
