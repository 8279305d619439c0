------------------------------- MODULE TaskPool -------------------------------
(***************************************************************************)
(* mta::async of the server module: background tasks, the workers that run *)
(* them, and the main thread, which posts and cancels tasks, delivers      *)
(* completions from its pulse, and stops resources and the pool.  Each     *)
(* section under queue_mutex is one step.                                  *)
(***************************************************************************)
EXTENDS Integers, SequencesExt

CONSTANTS
    Tasks,        \* tasks that may be posted, named by their id
    Workers,      \* worker threads
    Resources,    \* Lua resources
    Owner,        \* the resource that posts a task, NoOwner for none
    NoOwner,      \* the empty resource name
    QueueLimit,   \* tasks that may wait for a worker
    MaxStops      \* bound on the stops of one resource

\* No task is named like what a worker without one is doing.
ASSUME TasksType == {"Idle", "Exited"} \intersect Tasks = {}
ASSUME OwnerType == NoOwner \notin Resources /\ Owner \in [Tasks -> Resources \union {NoOwner}]
ASSUME QueueLimitType == QueueLimit \in Nat \ {0}
ASSUME MaxStopsType == MaxStops \in Nat

VARIABLES
    status,       \* TaskState::status; "None" before the task is posted
    cancelRequested, \* TaskState::cancel_requested
    born,         \* the generation of its resource a task was posted in
    tasks,        \* queue of tasks waiting for a worker
    live,         \* live_tasks, for the sweep at shutdown
    running,      \* the task each worker runs; "Idle", or "Exited" at the end
    asleep,       \* workers blocked in queue_signal.wait
    completions,  \* finished tasks the main thread has not taken over yet
    ready,        \* completions this pump is delivering
    deliveries,   \* how often a task's completion has run
    stopping,     \* the pool is shutting down
    generation,   \* Hub: VM generation of each resource, from 1
    loaded,       \* resources whose VM the server knows
    main          \* where the main thread stands

stateVars == <<status, cancelRequested, born>>
queueVars == <<tasks, live, running, asleep, completions>>
hubVars == <<generation, loaded>>
poolVars == <<stateVars, queueVars, ready, deliveries, stopping, hubVars, main>>

Status == {"None", "Queued", "Running", "Done", "Cancelled"}

\* The server calls into the module between pulses; a callback calls into it
\* from inside one.
MayCall == main \in {"idle", "completion", "callback"}
Goto(step) == main' = step
-----------------------------------------------------------------------------
(* The main thread: posting and cancelling *)

\* Mutant: nobody is woken for a new task.
NotifyNobody == UNCHANGED asleep

\* queue_signal.notify_one wakes one of the workers that sleep, whichever.  It follows
\* the unlock: a worker that falls asleep in between is one more to choose from.
NotifyOne ==
    \/ asleep = {} /\ UNCHANGED asleep
    \/ \E w \in asleep : asleep' = asleep \ {w}

\* post_task: an invalid handle, hence no task, at shutdown or at the limit.
PostTask(t) ==
    /\ MayCall
    /\ status[t] = "None"
    /\ Owner[t] # NoOwner => Owner[t] \in loaded
    /\ ~stopping /\ Len(tasks) < QueueLimit
    /\ status' = [status EXCEPT ![t] = "Queued"]
    /\ born' = [born EXCEPT ![t] = IF Owner[t] = NoOwner THEN 0 ELSE generation[Owner[t]]]
    /\ tasks' = Append(tasks, t)
    /\ live' = live \union {t}
    /\ NotifyOne
    /\ UNCHANGED <<cancelRequested, running, completions, ready, deliveries, stopping, hubVars, main>>

\* Task::cancel: true for a task that waits or runs.
CancelTask(t) ==
    /\ MayCall
    /\ \/ /\ status[t] = "Queued"
          /\ status' = [status EXCEPT ![t] = "Cancelled"]
          /\ UNCHANGED cancelRequested
       \/ /\ status[t] = "Running"
          /\ cancelRequested' = [cancelRequested EXCEPT ![t] = TRUE]
          /\ UNCHANGED status
    /\ UNCHANGED <<born, queueVars, ready, deliveries, stopping, hubVars, main>>
-----------------------------------------------------------------------------
(* worker_loop *)

Awake(w) == running[w] = "Idle" /\ w \notin asleep

\* Mutant: what a worker waits for does not include the end of the pool.
SleepUnlessWork(w) ==
    /\ Awake(w) /\ tasks = <<>>
    /\ asleep' = asleep \union {w}
    /\ UNCHANGED <<stateVars, tasks, live, running, completions, ready, deliveries, stopping, hubVars, main>>

\* queue_signal.wait blocks only if, under the lock, there is nothing to wake up for.
Sleep(w) ==
    /\ Awake(w) /\ ~stopping /\ tasks = <<>>
    /\ asleep' = asleep \union {w}
    /\ UNCHANGED <<stateVars, tasks, live, running, completions, ready, deliveries, stopping, hubVars, main>>

\* A condition variable may wake a thread for no reason.
WakeSpuriously(w) ==
    /\ w \in asleep
    /\ asleep' = asleep \ {w}
    /\ UNCHANGED <<stateVars, tasks, live, running, completions, ready, deliveries, stopping, hubVars, main>>

\* A cancelled task is dropped without running.
Take(w) ==
    /\ Awake(w) /\ ~stopping /\ tasks # <<>>
    /\ LET t == Head(tasks) IN
       IF status[t] = "Cancelled"
       THEN /\ live' = live \ {t}
            /\ UNCHANGED <<status, running>>
       ELSE /\ status' = [status EXCEPT ![t] = "Running"]
            /\ running' = [running EXCEPT ![w] = t]
            /\ UNCHANGED live
    /\ tasks' = Tail(tasks)
    /\ UNCHANGED <<cancelRequested, born, asleep, completions, ready, deliveries, stopping, hubVars, main>>

\* Mutant: the request made while the work ran is not looked at.
SuppressedAtShutdown(t) == stopping

\* What finished is not delivered.
Suppressed(t) == stopping \/ cancelRequested[t]

\* The work has ended; its result waits for the main thread, if anyone cares.
FinishWork(w) ==
    /\ running[w] \in Tasks
    /\ LET t == running[w] IN
       /\ IF Suppressed(t)
          THEN /\ status' = [status EXCEPT ![t] = "Cancelled"]
               /\ UNCHANGED completions
          ELSE /\ status' = [status EXCEPT ![t] = "Done"]
               /\ completions' = Append(completions, t)
       /\ live' = live \ {t}
    /\ running' = [running EXCEPT ![w] = "Idle"]
    /\ UNCHANGED <<cancelRequested, born, tasks, asleep, ready, deliveries, stopping, hubVars, main>>

ExitWorker(w) ==
    /\ Awake(w) /\ stopping
    /\ running' = [running EXCEPT ![w] = "Exited"]
    /\ UNCHANGED <<stateVars, tasks, live, asleep, completions, ready, deliveries, stopping, hubVars, main>>
-----------------------------------------------------------------------------
(* pump, first part: completions *)

TakeCompletions ==
    /\ main = "idle"
    /\ ready' = completions
    /\ completions' = <<>>
    /\ Goto("drain")
    /\ UNCHANGED <<stateVars, tasks, live, running, asleep, deliveries, stopping, hubVars>>

\* Mutant: only the VM is looked up.
VmLoaded(t) == Owner[t] # NoOwner => Owner[t] \in loaded

\* A completion reaches Lua only in the VM generation it was posted from.
Deliverable(t) ==
    Owner[t] # NoOwner => Owner[t] \in loaded /\ generation[Owner[t]] = born[t]

Deliver ==
    /\ main = "drain" /\ ready # <<>>
    /\ IF Deliverable(Head(ready))
       THEN /\ deliveries' = [deliveries EXCEPT ![Head(ready)] = @ + 1]
            /\ Goto("completion")
       ELSE UNCHANGED <<deliveries, main>>
    /\ ready' = Tail(ready)
    /\ UNCHANGED <<stateVars, queueVars, stopping, hubVars>>

CompletionReturns ==
    /\ main = "completion"
    /\ Goto("drain")
    /\ UNCHANGED <<stateVars, queueVars, ready, deliveries, stopping, hubVars>>
-----------------------------------------------------------------------------
(* Resources and shutdown *)

\* The places in the queue of what r did not post, and the n-th of some places.
PlacesOfOthers(r) == {i \in DOMAIN tasks : Owner[tasks[i]] # r}
Nth(places, n) ==
    CHOOSE i \in places : Cardinality({h \in places : h <= i}) = n

\* Hub and handle_resource_stopped: the generation ends, waiting tasks of the
\* resource leave the queue.  Running ones are dropped when they are delivered.
StopTasksOf(r) ==
    LET gone(t) == t \in Range(tasks) /\ Owner[t] = r /\ status[t] = "Queued"
    IN /\ generation' = [generation EXCEPT ![r] = @ + 1]
       /\ loaded' = loaded \ {r}
       /\ status' = [t \in Tasks |-> IF gone(t) THEN "Cancelled" ELSE status[t]]
       /\ live' = {t \in live : ~gone(t)}
       /\ tasks' = [n \in 1 .. Cardinality(PlacesOfOthers(r)) |-> tasks[Nth(PlacesOfOthers(r), n)]]

ResourceStopped(r) ==
    /\ main = "idle"
    /\ r \in loaded /\ generation[r] <= MaxStops
    /\ StopTasksOf(r)
    /\ UNCHANGED <<cancelRequested, born, running, asleep, completions, ready, deliveries, stopping, main>>

ResourceStarted(r) ==
    /\ main = "idle"
    /\ r \notin loaded
    /\ loaded' = loaded \union {r}
    /\ UNCHANGED <<stateVars, queueVars, ready, deliveries, stopping, generation, main>>

\* stop, under the lock: every live task that still waits is cancelled.
BeginStop ==
    /\ main = "idle"
    /\ stopping' = TRUE
    /\ status' = [t \in Tasks |->
                    IF t \in live /\ status[t] = "Queued" THEN "Cancelled" ELSE status[t]]
    /\ Goto("notifying")
    /\ UNCHANGED <<cancelRequested, born, queueVars, ready, deliveries, hubVars>>

\* ... notify_all, after the unlock, ...
NotifyAll ==
    /\ main = "notifying"
    /\ asleep' = {}
    /\ Goto("joining")
    /\ UNCHANGED <<stateVars, tasks, live, running, completions, ready, deliveries, stopping, hubVars>>

\* ... and, once the workers have been joined, everything is cleared.
JoinWorkers ==
    /\ main = "joining"
    /\ \A w \in Workers : running[w] = "Exited"
    /\ tasks' = <<>> /\ completions' = <<>> /\ live' = {}
    /\ Goto("stopped")
    /\ UNCHANGED <<stateVars, running, asleep, ready, deliveries, stopping, hubVars>>
-----------------------------------------------------------------------------

PoolInit ==
    /\ status = [t \in Tasks |-> "None"]
    /\ cancelRequested = [t \in Tasks |-> FALSE]
    /\ born = [t \in Tasks |-> 0]
    /\ tasks = <<>> /\ completions = <<>> /\ ready = <<>>
    /\ live = {}
    /\ running = [w \in Workers |-> "Idle"] /\ asleep = {}
    /\ deliveries = [t \in Tasks |-> 0]
    /\ stopping = FALSE
    /\ generation = [r \in Resources |-> 1]
    /\ loaded = Resources
    /\ main = "idle"
=============================================================================
