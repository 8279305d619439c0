-------------------------------- MODULE Outbox --------------------------------
(***************************************************************************)
(* The transactional outbox (lib/events.ts) and the workers that drain it  *)
(* (worker/index.ts): claim, dispatch, acknowledge or fail with backoff,   *)
(* graceful shutdown, crash, and the reclaim pass of every boot.           *)
(***************************************************************************)
EXTENDS Naturals, FiniteSets

CONSTANTS
    Events,        \* rows of a run, numbered in the order of createdAt
    Workers,       \* worker processes
    MaxAttempts,   \* WORKER_MAX_ATTEMPTS
    ClaimLimit,    \* WORKER_CLAIM_LIMIT
    MaxStops,      \* bound: how many times worker processes stop or crash
    MaxErrors      \* bound: how many statements of workers fail in the database

ASSUME OutboxAssumption ==
    /\ Events \subseteq Nat
    /\ MaxAttempts \in Nat \ {0}
    /\ ClaimLimit \in Nat \ {0}
    /\ MaxStops \in Nat
    /\ MaxErrors \in Nat

VARIABLES
    status,       \* of every row; "NONE" before it is inserted
    attempts,     \* claims of the row so far
    due,          \* availableAt has come
    deliveries,   \* how often a handler ran to its end, by event and attempt
    step,         \* where a worker is
    stopping,     \* workers that have been asked to stop
    reading,      \* rows a worker has read and not yet tried to claim or reclaim
    claims,       \* claims a worker holds and has not dispatched yet
    current,      \* the claim a worker is dispatching
    stops, errors

rowVars == <<status, attempts, due>>
workerVars == <<step, stopping, reading, claims, current>>
budget == <<stops, errors>>
outboxVars == <<rowVars, deliveries, workerVars, budget>>

RowStatus == {"NONE", "PENDING", "PROCESSING", "PROCESSED", "FAILED", "PRUNED"}
Step == {"down", "reclaim", "poll", "claim", "dispatch", "ack", "fail", "retry", "dead"}
Busy == {"ack", "fail", "retry", "dead"}

\* A row and the attempts it had, or the number of the attempt a claim makes.
Claim == [event : Events, attempt : 0 .. MaxAttempts]
NoClaim == <<>>

IsFirst(c, S) == c \in S /\ \A d \in S : c.event <= d.event
Oldest(S, n) == {e \in S : Cardinality({d \in S : d < e}) < n}
ReadOf(S) == {[event |-> e, attempt |-> attempts[e]] : e \in S}

Goto(w, s) == step' = [step EXCEPT ![w] = s]
SetStatus(e, s) == status' = [status EXCEPT ![e] = s]
-----------------------------------------------------------------------------
\* emitOutbox: the rows appear when the transaction of the domain action commits.
EmitAll(S) ==
    /\ status' = [e \in Events |-> IF e \in S THEN "PENDING" ELSE status[e]]
    /\ UNCHANGED <<attempts, due>>

Emit(e) ==
    /\ status[e] = "NONE"
    /\ EmitAll({e})
    /\ UNCHANGED <<deliveries, workerVars, budget>>

BecomesDue(e) ==
    /\ status[e] = "PENDING" /\ ~due[e]
    /\ due' = [due EXCEPT ![e] = TRUE]
    /\ UNCHANGED <<status, attempts, deliveries, workerVars, budget>>

\* pruneFinishedOutboxEvents deletes finished rows past their retention.
Prune(e) ==
    /\ status[e] \in {"PROCESSED", "FAILED"}
    /\ SetStatus(e, "PRUNED")
    /\ UNCHANGED <<attempts, due, deliveries, workerVars, budget>>
-----------------------------------------------------------------------------
(* Boot: reclaimOrphanedProcessing hands every PROCESSING row back. *)

Boot(w) ==
    /\ step[w] = "down"
    /\ reading' = [reading EXCEPT ![w] = ReadOf({e \in Events : status[e] = "PROCESSING"})]
    /\ Goto(w, "reclaim")
    /\ UNCHANGED <<rowVars, deliveries, stopping, claims, current, budget>>

Reclaim(w) ==
    /\ step[w] = "reclaim"
    /\ \E c \in reading[w] :
         /\ reading' = [reading EXCEPT ![w] = @ \ {c}]
         /\ status' = [status EXCEPT ![c.event] = IF @ = "PROCESSING" THEN "PENDING" ELSE @]
    /\ UNCHANGED <<attempts, due, deliveries, step, stopping, claims, current, budget>>

\* The update of one row throws: it stays PROCESSING until another boot.
ReclaimBreaks(w) ==
    /\ step[w] = "reclaim" /\ errors < MaxErrors
    /\ errors' = errors + 1
    /\ \E c \in reading[w] : reading' = [reading EXCEPT ![w] = @ \ {c}]
    /\ UNCHANGED <<rowVars, deliveries, step, stopping, claims, current, stops>>

StartPolling(w) ==
    /\ step[w] = "reclaim" /\ reading[w] = {}
    /\ Goto(w, "poll")
    /\ UNCHANGED <<rowVars, deliveries, stopping, reading, claims, current, budget>>
-----------------------------------------------------------------------------
(* claimBatch: read the oldest due rows, then claim them one by one.        *)

\* Mutant: the last attempt is missed.
ClaimableTooSeldom ==
    {e \in Events : status[e] = "PENDING" /\ due[e] /\ attempts[e] + 1 < MaxAttempts}

Claimable == {e \in Events : status[e] = "PENDING" /\ due[e] /\ attempts[e] < MaxAttempts}

Poll(w) ==
    /\ step[w] = "poll" /\ w \notin stopping
    /\ Claimable # {}
    /\ reading' = [reading EXCEPT ![w] = ReadOf(Oldest(Claimable, ClaimLimit))]
    /\ Goto(w, "claim")
    /\ UNCHANGED <<rowVars, deliveries, stopping, claims, current, budget>>

\* Mutant: an update by id alone: the rest of the predicate is ignored.
ClaimRowByKey(w) ==
    /\ step[w] = "claim"
    /\ \E c \in reading[w] :
         /\ IsFirst(c, reading[w])
         /\ reading' = [reading EXCEPT ![w] = @ \ {c}]
         /\ SetStatus(c.event, "PROCESSING")
         /\ attempts' = [attempts EXCEPT ![c.event] = c.attempt + 1]
         /\ claims' = [claims EXCEPT ![w] = @ \union
                         {[event |-> c.event, attempt |-> c.attempt + 1]}]
    /\ UNCHANGED <<due, deliveries, step, stopping, current, budget>>

\* A compare-and-set on the status and on the attempts that were read.
ClaimRow(w) ==
    /\ step[w] = "claim"
    /\ \E c \in reading[w] :
         /\ IsFirst(c, reading[w])
         /\ reading' = [reading EXCEPT ![w] = @ \ {c}]
         /\ IF status[c.event] = "PENDING" /\ attempts[c.event] = c.attempt
            THEN /\ SetStatus(c.event, "PROCESSING")
                 /\ attempts' = [attempts EXCEPT ![c.event] = c.attempt + 1]
                 /\ claims' = [claims EXCEPT ![w] = @ \union
                                 {[event |-> c.event, attempt |-> c.attempt + 1]}]
            ELSE UNCHANGED <<status, attempts, claims>>
    /\ UNCHANGED <<due, deliveries, step, stopping, current, budget>>

StartDispatch(w) ==
    /\ step[w] = "claim" /\ reading[w] = {}
    /\ Goto(w, "dispatch")
    /\ UNCHANGED <<rowVars, deliveries, stopping, reading, claims, current, budget>>

\* A statement of claimBatch throws: the rows claimed so far are forgotten.
ClaimBreaks(w) ==
    /\ step[w] = "claim" /\ errors < MaxErrors
    /\ errors' = errors + 1
    /\ reading' = [reading EXCEPT ![w] = {}]
    /\ claims' = [claims EXCEPT ![w] = {}]
    /\ Goto(w, "poll")
    /\ UNCHANGED <<rowVars, deliveries, stopping, current, stops>>
-----------------------------------------------------------------------------
(* dispatchEvent, for the oldest claim the worker still holds.              *)

\* The handler runs to its end, or throws.
Handle(w) ==
    /\ step[w] = "dispatch" /\ w \notin stopping
    /\ \E c \in claims[w], done \in BOOLEAN :
         /\ IsFirst(c, claims[w])
         /\ current' = [current EXCEPT ![w] = c]
         /\ claims' = [claims EXCEPT ![w] = @ \ {c}]
         /\ deliveries' = IF done
                          THEN [deliveries EXCEPT ![c.event][c.attempt] = @ + 1]
                          ELSE deliveries
         /\ Goto(w, IF done THEN "ack" ELSE "fail")
    /\ UNCHANGED <<rowVars, stopping, reading, budget>>

\* The worker goes on to its next claim.
NextEvent(w) ==
    /\ current' = [current EXCEPT ![w] = NoClaim]
    /\ Goto(w, "dispatch")
    /\ UNCHANGED <<deliveries, stopping, reading, claims>>

\* An update with WHERE id AND status = PROCESSING.
FromProcessing(e, s) ==
    status' = [status EXCEPT ![e] = IF @ = "PROCESSING" THEN s ELSE @]

\* completeEvent
Acknowledge(w) ==
    /\ step[w] = "ack"
    /\ FromProcessing(current[w].event, "PROCESSED")
    /\ NextEvent(w)
    /\ UNCHANGED <<attempts, due, budget>>

\* completeEvent throws inside the try block of dispatchEvent.
AcknowledgeBreaks(w) ==
    /\ step[w] = "ack" /\ errors < MaxErrors
    /\ errors' = errors + 1
    /\ Goto(w, "fail")
    /\ UNCHANGED <<rowVars, deliveries, stopping, reading, claims, current, stops>>

\* failEvent reads the row ...
FailRead(w) ==
    /\ step[w] = "fail"
    /\ \/ /\ status[current[w].event] # "PROCESSING"
          /\ NextEvent(w)
       \/ /\ status[current[w].event] = "PROCESSING"
          /\ Goto(w, IF attempts[current[w].event] >= MaxAttempts THEN "dead" ELSE "retry")
          /\ UNCHANGED <<deliveries, stopping, reading, claims, current>>
    /\ UNCHANGED <<rowVars, budget>>

\* Mutant: an update by id alone.
RetryByKey(w) ==
    /\ step[w] = "retry"
    /\ SetStatus(current[w].event, "PENDING")
    /\ due' = [due EXCEPT ![current[w].event] = FALSE]
    /\ NextEvent(w)
    /\ UNCHANGED <<attempts, budget>>

\* ... and writes its verdict: back to PENDING with a backoff, or FAILED.
Retry(w) ==
    /\ step[w] = "retry"
    /\ LET e == current[w].event IN
       /\ FromProcessing(e, "PENDING")
       /\ due' = [due EXCEPT ![e] = IF status[e] = "PROCESSING" THEN FALSE ELSE @]
    /\ NextEvent(w)
    /\ UNCHANGED <<attempts, budget>>

DeadLetter(w) ==
    /\ step[w] = "dead"
    /\ FromProcessing(current[w].event, "FAILED")
    /\ NextEvent(w)
    /\ UNCHANGED <<attempts, due, budget>>

\* failEvent throws: the error is swallowed, the row stays PROCESSING.
FailBreaks(w) ==
    /\ step[w] \in {"fail", "retry", "dead"} /\ errors < MaxErrors
    /\ errors' = errors + 1
    /\ NextEvent(w)
    /\ UNCHANGED <<rowVars, stops>>

EndOfBatch(w) ==
    /\ step[w] = "dispatch" /\ claims[w] = {}
    /\ Goto(w, "poll")
    /\ UNCHANGED <<rowVars, deliveries, stopping, reading, claims, current, budget>>
-----------------------------------------------------------------------------
(* Shutdown and crash *)

\* SIGTERM once the worker runs; before that the signal kills it (Crash).
Stop(w) ==
    /\ step[w] \notin {"down", "reclaim"} /\ w \notin stopping
    /\ stops < MaxStops
    /\ stops' = stops + 1
    /\ stopping' = stopping \union {w}
    /\ UNCHANGED <<rowVars, deliveries, step, reading, claims, current, errors>>

\* Mutant: a stopping worker forgets the claims it has not dispatched.
RequeueForgotten(w) ==
    /\ step[w] = "dispatch" /\ w \in stopping /\ claims[w] # {}
    /\ claims' = [claims EXCEPT ![w] = {}]
    /\ UNCHANGED <<rowVars, deliveries, step, stopping, reading, current, budget>>

\* requeueClaimed: the claims not dispatched yet go back to PENDING, one by one.
Requeue(w) ==
    /\ step[w] = "dispatch" /\ w \in stopping
    /\ \E c \in claims[w] :
         /\ IsFirst(c, claims[w])
         /\ FromProcessing(c.event, "PENDING")
         /\ claims' = [claims EXCEPT ![w] = @ \ {c}]
    /\ UNCHANGED <<attempts, due, deliveries, step, stopping, reading, current, budget>>

RequeueBreaks(w) ==
    /\ step[w] = "dispatch" /\ w \in stopping
    /\ errors < MaxErrors
    /\ errors' = errors + 1
    /\ \E c \in claims[w] :
         /\ IsFirst(c, claims[w])
         /\ claims' = [claims EXCEPT ![w] = @ \ {c}]
    /\ UNCHANGED <<rowVars, deliveries, step, stopping, reading, current, stops>>

Exit(w) ==
    /\ step[w] = "poll" /\ w \in stopping
    /\ Goto(w, "down")
    /\ stopping' = stopping \ {w}
    /\ UNCHANGED <<rowVars, deliveries, reading, claims, current, budget>>

\* A kill, or the ten seconds a shutdown waits for a wedged handler.
Crash(w) ==
    /\ step[w] # "down"
    /\ stops < MaxStops
    /\ stops' = stops + 1
    /\ Goto(w, "down")
    /\ stopping' = stopping \ {w}
    /\ reading' = [reading EXCEPT ![w] = {}]
    /\ claims' = [claims EXCEPT ![w] = {}]
    /\ current' = [current EXCEPT ![w] = NoClaim]
    /\ UNCHANGED <<rowVars, deliveries, errors>>
-----------------------------------------------------------------------------
WorkerStep(w) ==
    \/ Boot(w) \/ Reclaim(w) \/ StartPolling(w)
    \/ Poll(w) \/ ClaimRow(w) \/ StartDispatch(w)
    \/ Handle(w) \/ Acknowledge(w) \/ FailRead(w) \/ Retry(w) \/ DeadLetter(w)
    \/ EndOfBatch(w) \/ Requeue(w) \/ Exit(w)

Fault(w) ==
    \/ Stop(w) \/ Crash(w)
    \/ ReclaimBreaks(w) \/ ClaimBreaks(w) \/ AcknowledgeBreaks(w) \/ FailBreaks(w) \/ RequeueBreaks(w)

OutboxInit ==
    /\ status = [e \in Events |-> "NONE"]
    /\ attempts = [e \in Events |-> 0]
    /\ due = [e \in Events |-> TRUE]
    /\ deliveries = [e \in Events |-> [n \in 1 .. MaxAttempts |-> 0]]
    /\ step = [w \in Workers |-> "down"]
    /\ stopping = {}
    /\ reading = [w \in Workers |-> {}]
    /\ claims = [w \in Workers |-> {}]
    /\ current = [w \in Workers |-> NoClaim]
    /\ stops = 0 /\ errors = 0

OutboxNext ==
    \/ \E e \in Events : Emit(e) \/ BecomesDue(e) \/ Prune(e)
    \/ \E w \in Workers : WorkerStep(w) \/ Fault(w)

OutboxSpec == OutboxInit /\ [][OutboxNext]_outboxVars

\* The event loop of a running worker goes on, the container is restarted when
\* it exits, and time passes.
OutboxFairness ==
    /\ \A w \in Workers : WF_outboxVars(WorkerStep(w))
    /\ \A e \in Events : WF_outboxVars(BecomesDue(e))

OutboxFairSpec == OutboxSpec /\ OutboxFairness
-----------------------------------------------------------------------------
(* Properties *)

\* The variables of the outbox have their types.
OutboxTypeOK ==
    /\ status \in [Events -> RowStatus]
    /\ attempts \in [Events -> 0 .. MaxAttempts]
    /\ due \in [Events -> BOOLEAN]
    /\ deliveries \in [Events -> [1 .. MaxAttempts -> Nat]]
    /\ step \in [Workers -> Step]
    /\ stopping \subseteq Workers
    /\ reading \in [Workers -> SUBSET Claim]
    /\ claims \in [Workers -> SUBSET Claim]
    /\ current \in [Workers -> Claim \union {NoClaim}]
    /\ \A w \in Workers : step[w] \in Busy => current[w] \in Claim
    /\ stops \in 0 .. MaxStops /\ errors \in 0 .. MaxErrors

Held(w) == claims[w] \union (IF step[w] \in Busy THEN {current[w]} ELSE {})

\* Two workers never hold the same claim, whatever is reclaimed at a boot while
\* another worker is running: the compare-and-set of claimBatch is on the status
\* and the attempts, and nothing ever takes an attempt back.
ClaimIsExclusive ==
    \A w, v \in Workers : w # v => Held(w) \intersect Held(v) = {}

\* Rows stay PROCESSING without a holder only through a crash, which the next
\* boot repairs, or through a statement that failed.
HeldBy(w, e) == \E c \in Held(w) : c.event = e
ReclaimedBy(w, e) == step[w] = "reclaim" /\ \E c \in reading[w] : c.event = e
Stranded(e) ==
    /\ status[e] = "PROCESSING"
    /\ \A w \in Workers : ~HeldBy(w, e) /\ step[w] # "down" /\ ~ReclaimedBy(w, e)

NothingIsStranded ==
    errors = 0 => \A e \in Events : ~Stranded(e)

\* The outbox keeps the promise of EventDelivery: an acknowledgement follows a
\* run of the handler, tries are finite, a dead letter has used them all, and
\* no late worker reopens or overwrites a settled event.
FateOf(s) == CASE s = "NONE" -> "none"
               [] s \in {"PENDING", "PROCESSING"} -> "open"
               [] s = "PROCESSED" -> "done"
               [] s = "FAILED" -> "dead"
               [] OTHER -> "gone"
Fate == [e \in Events |-> FateOf(status[e])]
Delivery == INSTANCE EventDelivery WITH
    fate <- Fate, tries <- attempts, runs <- deliveries
DeliveryIsKept == Delivery!Spec

\* Every event that was written comes to rest acknowledged or dead-lettered -
\* or, the two ways this code has of losing one, requeued at a shutdown with
\* its tries used up, or stranded by a statement that failed.
Exhausted(e) == status[e] = "PENDING" /\ attempts[e] = MaxAttempts
EventsSettle ==
    \A e \in Events :
        status[e] = "PENDING" ~>
            \/ status[e] \in {"PROCESSED", "FAILED", "PRUNED"}
            \/ Exhausted(e)
            \/ errors > 0 /\ Stranded(e)
=============================================================================
