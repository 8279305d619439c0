----------------------------- MODULE WorkerProofs -----------------------------
(***************************************************************************)
(* Proofs about the two jobs of the worker process, the outbox and the     *)
(* platform's subscriptions, for every set of events, workers, orders,     *)
(* handlers and processes.  First the outbox: it is well typed, its claims *)
(* are exclusive, and it implements EventDelivery.                         *)
(***************************************************************************)
EXTENDS Outbox, Subscriptions, SequenceTheorems, TLAPS

\* What a worker read to claim may still be claimed; every claim was counted in
\* its row; a claim that waits has not been delivered, nor has a later attempt;
\* what is acknowledged was delivered, what is given up used all its attempts.
ReadIsClaimable ==
    \A w \in Workers : step[w] = "claim" =>
        \A c \in reading[w] : c.attempt < MaxAttempts
HeldIsCounted ==
    \A w \in Workers : \A c \in Held(w) : c.attempt \in 1 .. attempts[c.event]
WaitingIsUndelivered ==
    \A w \in Workers : \A c \in claims[w] : deliveries[c.event][c.attempt] = 0
FutureIsUndelivered ==
    \A e \in Events : \A n \in 1 .. MaxAttempts :
        n > attempts[e] => deliveries[e][n] = 0
AckIsDelivered ==
    \A w \in Workers : step[w] = "ack" =>
        deliveries[current[w].event][current[w].attempt] > 0
DeadIsExhausted ==
    \A w \in Workers : step[w] = "dead" => attempts[current[w].event] = MaxAttempts

OutboxInv ==
    /\ OutboxTypeOK
    /\ ReadIsClaimable
    /\ HeldIsCounted
    /\ ClaimIsExclusive
    /\ WaitingIsUndelivered
    /\ FutureIsUndelivered
    /\ AckIsDelivered
    /\ DeadIsExhausted

\* What a poll reads is typed and may be claimed.
LEMMA ReadIsTyped ==
    ASSUME OutboxTypeOK
    PROVE  /\ ReadOf(Oldest(Claimable, ClaimLimit)) \subseteq Claim
           /\ \A c \in ReadOf(Oldest(Claimable, ClaimLimit)) : c.attempt < MaxAttempts
<1>1. Oldest(Claimable, ClaimLimit) \subseteq Claimable
  BY DEF Oldest
<1>2. \A c \in ReadOf(Oldest(Claimable, ClaimLimit)) :
         \E e \in Claimable : c = [event |-> e, attempt |-> attempts[e]]
  BY <1>1 DEF ReadOf
<1> QED BY <1>2, OutboxAssumption DEF Claimable, Claim, OutboxTypeOK

\* A claim is its row and its attempt.
LEMMA ClaimsDiffer ==
    ASSUME NEW c \in Claim, NEW d \in Claim, c.event = d.event, c.attempt = d.attempt
    PROVE  c = d
BY DEF Claim

\* The counts of one event and of one of its tries.
LEMMA DeliveriesType ==
    ASSUME OutboxTypeOK, NEW e \in Events, NEW n \in 1 .. MaxAttempts
    PROVE  deliveries[e] \in [1 .. MaxAttempts -> Nat] /\ deliveries[e][n] \in Nat
<1>1. deliveries[e] \in [1 .. MaxAttempts -> Nat]
  BY DEF OutboxTypeOK
<1> QED BY <1>1

\* A won claim: the row counts it, and nobody holds or has delivered it yet.
LEMMA ClaimRowInv ==
    ASSUME OutboxInv, OutboxTypeOK', NEW w \in Workers, ClaimRow(w)
    PROVE  OutboxInv'
<1>1. PICK c \in reading[w] :
        /\ step[w] = "claim"
        /\ reading' = [reading EXCEPT ![w] = @ \ {c}]
        /\ IF status[c.event] = "PENDING" /\ attempts[c.event] = c.attempt
           THEN /\ SetStatus(c.event, "PROCESSING")
                /\ attempts' = [attempts EXCEPT ![c.event] = c.attempt + 1]
                /\ claims' = [claims EXCEPT ![w] = @ \union
                                {[event |-> c.event, attempt |-> c.attempt + 1]}]
           ELSE UNCHANGED <<status, attempts, claims>>
        /\ UNCHANGED <<due, deliveries, step, stopping, current, budget>>
  BY DEF ClaimRow
<1>2. c \in Claim /\ c.event \in Events /\ c.attempt \in 0 .. MaxAttempts
     /\ c.attempt < MaxAttempts
  BY <1>1 DEF OutboxInv, OutboxTypeOK, ReadIsClaimable, Claim
<1>3. ReadIsClaimable'
  BY <1>1 DEF OutboxInv, OutboxTypeOK, ReadIsClaimable
<1>4. CASE ~(status[c.event] = "PENDING" /\ attempts[c.event] = c.attempt)
  <2>1. UNCHANGED <<attempts, claims, deliveries, step, current>>
    BY <1>1, <1>4
  <2> QED
    BY <1>3, <2>1 DEF OutboxInv, HeldIsCounted, ClaimIsExclusive, WaitingIsUndelivered,
       FutureIsUndelivered, AckIsDelivered, DeadIsExhausted, Held
<1>5. CASE status[c.event] = "PENDING" /\ attempts[c.event] = c.attempt
  <2> DEFINE new == [event |-> c.event, attempt |-> c.attempt + 1]
  <2>1. /\ attempts' = [attempts EXCEPT ![c.event] = c.attempt + 1]
        /\ claims' = [claims EXCEPT ![w] = @ \union {new}]
        /\ UNCHANGED <<deliveries, step, current>>
    BY <1>1, <1>5
  <2>2. \A e \in Events : attempts'[e] \in Nat /\ attempts[e] \in Nat
       /\ attempts[e] <= attempts'[e]
    BY <1>2, <1>5, <2>1, OutboxAssumption DEF OutboxInv, OutboxTypeOK
  <2>3. attempts'[c.event] = c.attempt + 1
    BY <1>2, <2>1 DEF OutboxInv, OutboxTypeOK
  <2>4. \A v \in Workers : claims'[v] = IF v = w THEN claims[v] \union {new} ELSE claims[v]
    BY <2>1 DEF OutboxInv, OutboxTypeOK
  <2>5. \A v \in Workers : Held(v)' = IF v = w THEN Held(v) \union {new} ELSE Held(v)
    BY <2>1, <2>4 DEF Held
  <2>6. \A v \in Workers : \A d \in Held(v) : d \in Claim /\ d.event \in Events
    BY DEF OutboxInv, OutboxTypeOK, Held, Claim
  <2>7. \A v \in Workers : new \notin Held(v)
    BY <1>2, <1>5, OutboxAssumption DEF OutboxInv, HeldIsCounted
  <2>8. HeldIsCounted'
    <3> SUFFICES ASSUME NEW v \in Workers, NEW d \in Held(v)'
                 PROVE  d.attempt \in 1 .. attempts'[d.event]
      BY DEF HeldIsCounted
    <3>1. CASE d = new
      BY <1>2, <2>3, <3>1, OutboxAssumption
    <3>2. CASE d \in Held(v)
      <4>1. d.attempt \in 1 .. attempts[d.event] /\ d.event \in Events
        BY <2>6, <3>2 DEF OutboxInv, HeldIsCounted
      <4> QED BY <2>2, <4>1
    <3> QED BY <2>5, <3>1, <3>2
  <2>9. ClaimIsExclusive'
    BY <2>5, <2>7 DEF OutboxInv, ClaimIsExclusive
  <2>10. WaitingIsUndelivered'
    <3>1. c.attempt + 1 \in 1 .. MaxAttempts /\ c.attempt + 1 > attempts[c.event]
      BY <1>2, <1>5, OutboxAssumption
    <3>2. deliveries[c.event][c.attempt + 1] = 0
      BY <1>2, <3>1 DEF OutboxInv, FutureIsUndelivered
    <3> QED BY <2>1, <2>4, <3>2 DEF OutboxInv, WaitingIsUndelivered
  <2>11. FutureIsUndelivered'
    <3> SUFFICES ASSUME NEW e \in Events, NEW n \in 1 .. MaxAttempts, n > attempts'[e]
                 PROVE  deliveries'[e][n] = 0
      BY DEF FutureIsUndelivered
    <3>1. n > attempts[e]
      BY <2>2
    <3> QED BY <2>1, <3>1 DEF OutboxInv, FutureIsUndelivered
  <2>12. AckIsDelivered' /\ DeadIsExhausted'
    <3> SUFFICES ASSUME NEW v \in Workers, step[v] = "dead"
                 PROVE  attempts'[current[v].event] = MaxAttempts
      BY <2>1 DEF OutboxInv, AckIsDelivered, DeadIsExhausted
    <3>1. current[v].event \in Events /\ attempts[current[v].event] = MaxAttempts
      BY DEF OutboxInv, OutboxTypeOK, DeadIsExhausted, Busy, Claim
    <3>2. current[v].event # c.event
      BY <1>2, <1>5, <3>1, OutboxAssumption
    <3> QED BY <2>1, <3>1, <3>2 DEF OutboxInv, OutboxTypeOK
  <2> QED BY <1>3, <2>8, <2>9, <2>10, <2>11, <2>12 DEF OutboxInv
<1> QED BY <1>4, <1>5

\* A handler runs for a claim that nobody else holds and nobody has delivered.
LEMMA HandleInv ==
    ASSUME OutboxInv, OutboxTypeOK', NEW w \in Workers, Handle(w)
    PROVE  OutboxInv'
<1>1. PICK c \in claims[w], done \in BOOLEAN :
        /\ step[w] = "dispatch"
        /\ current' = [current EXCEPT ![w] = c]
        /\ claims' = [claims EXCEPT ![w] = @ \ {c}]
        /\ deliveries' = IF done THEN [deliveries EXCEPT ![c.event][c.attempt] = @ + 1]
                                 ELSE deliveries
        /\ step' = [step EXCEPT ![w] = IF done THEN "ack" ELSE "fail"]
        /\ UNCHANGED <<attempts, reading>>
  BY DEF Handle, Goto, rowVars
<1>2. /\ c \in Claim /\ c.event \in Events
      /\ c.attempt \in 1 .. attempts[c.event] /\ c.attempt \in 1 .. MaxAttempts
  BY OutboxAssumption DEF OutboxInv, OutboxTypeOK, HeldIsCounted, Held, Claim
<1>3. \A v \in Workers : Held(v)' = Held(v)
  BY <1>1 DEF Held, Busy, OutboxInv, OutboxTypeOK
<1>4. \A e \in Events : \A n \in 1 .. MaxAttempts :
         deliveries'[e][n] = IF done /\ e = c.event /\ n = c.attempt
                             THEN deliveries[e][n] + 1 ELSE deliveries[e][n]
  BY <1>1, <1>2 DEF OutboxInv, OutboxTypeOK
<1>5. ReadIsClaimable' /\ HeldIsCounted' /\ ClaimIsExclusive'
  BY <1>1, <1>3 DEF OutboxInv, OutboxTypeOK, ReadIsClaimable, HeldIsCounted, ClaimIsExclusive
<1>6. WaitingIsUndelivered'
  <2> SUFFICES ASSUME NEW v \in Workers, NEW d \in claims'[v]
               PROVE  deliveries'[d.event][d.attempt] = 0
    BY DEF WaitingIsUndelivered
  <2>1. d \in claims[v] /\ d # c
    BY <1>1, <1>2 DEF OutboxInv, OutboxTypeOK, ClaimIsExclusive, Held
  <2>2. d.event \in Events /\ d.attempt \in 1 .. MaxAttempts
    BY <2>1, OutboxAssumption DEF OutboxInv, OutboxTypeOK, HeldIsCounted, Held, Claim
  <2>3. d.event # c.event \/ d.attempt # c.attempt
    <3>1. d \in Claim
      BY <2>1 DEF OutboxInv, OutboxTypeOK
    <3> QED BY <1>2, <2>1, <3>1, ClaimsDiffer
  <2> QED BY <1>4, <2>1, <2>2, <2>3 DEF OutboxInv, WaitingIsUndelivered
<1>7. FutureIsUndelivered'
  BY <1>1, <1>2, <1>4 DEF OutboxInv, OutboxTypeOK, FutureIsUndelivered
<1>8. AckIsDelivered'
  <2> SUFFICES ASSUME NEW v \in Workers, step'[v] = "ack"
               PROVE  deliveries'[current'[v].event][current'[v].attempt] > 0
    BY DEF AckIsDelivered
  <2>1. CASE v = w
    <3>1. done /\ current'[v] = c
      BY <1>1, <2>1 DEF OutboxInv, OutboxTypeOK
    <3>2. deliveries[c.event][c.attempt] \in Nat
      BY <1>2, DeliveriesType DEF OutboxInv
    <3> QED BY <1>2, <1>4, <3>1, <3>2
  <2>2. CASE v # w
    <3>1. step[v] = "ack" /\ current'[v] = current[v] /\ current[v] \in Held(v)
      BY <1>1, <2>2 DEF OutboxInv, OutboxTypeOK, Held, Busy
    <3>2. current[v].event \in Events /\ current[v].attempt \in 1 .. MaxAttempts
      BY <3>1, OutboxAssumption DEF OutboxInv, OutboxTypeOK, HeldIsCounted, Busy, Claim
    <3>3. deliveries[current[v].event][current[v].attempt] \in Nat
      BY <3>2, DeliveriesType DEF OutboxInv
    <3> QED BY <1>4, <3>1, <3>2, <3>3 DEF OutboxInv, AckIsDelivered
  <2> QED BY <2>1, <2>2
<1>9. DeadIsExhausted'
  BY <1>1 DEF OutboxInv, OutboxTypeOK, DeadIsExhausted
<1> QED BY <1>5, <1>6, <1>7, <1>8, <1>9 DEF OutboxInv

\* Running a handler keeps the types.
LEMMA HandleType ==
    ASSUME OutboxInv, NEW w \in Workers, Handle(w)
    PROVE  OutboxTypeOK'
<1>1. PICK c \in claims[w], done \in BOOLEAN :
        /\ current' = [current EXCEPT ![w] = c]
        /\ claims' = [claims EXCEPT ![w] = @ \ {c}]
        /\ deliveries' = IF done THEN [deliveries EXCEPT ![c.event][c.attempt] = @ + 1]
                                 ELSE deliveries
        /\ step' = [step EXCEPT ![w] = IF done THEN "ack" ELSE "fail"]
  BY DEF Handle, Goto
<1>2. c \in Claim /\ c.event \in Events /\ c.attempt \in 1 .. MaxAttempts
  BY <1>1, OutboxAssumption DEF OutboxInv, OutboxTypeOK, HeldIsCounted, Held, Claim
<1>3. deliveries' \in [Events -> [1 .. MaxAttempts -> Nat]]
  <2>1. deliveries[c.event] \in [1 .. MaxAttempts -> Nat]
    BY <1>2, DeliveriesType DEF OutboxInv
  <2>2. deliveries[c.event][c.attempt] + 1 \in Nat
    BY <1>2, DeliveriesType DEF OutboxInv
  <2>3. [deliveries[c.event] EXCEPT ![c.attempt] = @ + 1] \in [1 .. MaxAttempts -> Nat]
    BY <2>1, <2>2
  <2> QED BY <1>1, <1>2, <2>3 DEF OutboxInv, OutboxTypeOK
<1>4. /\ current' \in [Workers -> Claim \union {NoClaim}]
      /\ claims' \in [Workers -> SUBSET Claim] /\ step' \in [Workers -> Step]
      /\ \A v \in Workers : step'[v] \in Busy => current'[v] \in Claim
  BY <1>1, <1>2 DEF OutboxInv, OutboxTypeOK, Step, Busy
<1> QED BY <1>3, <1>4 DEF OutboxInv, OutboxTypeOK, Handle, rowVars, budget

\* A failed event is scheduled again and its worker goes on.
LEMMA RetryInv ==
    ASSUME OutboxInv, OutboxTypeOK', NEW w \in Workers, Retry(w)
    PROVE  OutboxInv'
<1>1. UNCHANGED <<attempts, deliveries, reading, claims>>
  BY DEF Retry, NextEvent
<1>2. \A v \in Workers :
         /\ v # w => step'[v] = step[v] /\ current'[v] = current[v]
         /\ Held(v)' \subseteq Held(v)
         /\ step'[w] = "dispatch"
  BY DEF OutboxInv, OutboxTypeOK, Retry, NextEvent, Goto, Held, Busy
<1> QED BY <1>1, <1>2 DEF OutboxInv, ReadIsClaimable, HeldIsCounted, ClaimIsExclusive,
           WaitingIsUndelivered, FutureIsUndelivered, AckIsDelivered, DeadIsExhausted

\* Every step of a worker and every fault keeps the types.
LEMMA TypeStep ==
    ASSUME OutboxInv, NEW w \in Workers, WorkerStep(w) \/ Fault(w)
    PROVE  OutboxTypeOK'
<1> USE OutboxAssumption DEF OutboxInv, rowVars, budget, SetStatus, Goto, NextEvent,
     FromProcessing, ReadOf,
      OutboxTypeOK, Step, RowStatus, NoClaim, Claim, Busy
<1>1. CASE Boot(w)
  BY <1>1 DEF Boot
<1>2. CASE Reclaim(w)
  <2>1. reading' \in [Workers -> SUBSET Claim]
    BY <1>2 DEF OutboxInv, OutboxTypeOK, Reclaim
  <2>2. status' \in [Events -> RowStatus]
    BY <1>2 DEF OutboxInv, OutboxTypeOK, Reclaim, RowStatus, Claim
  <2> QED BY <1>2, <2>1, <2>2 DEF OutboxInv, OutboxTypeOK, Reclaim, budget
<1>3. CASE StartPolling(w)
  BY <1>3 DEF StartPolling
<1>4. CASE Poll(w)
  BY <1>4, ReadIsTyped DEF OutboxInv, Poll, rowVars, budget, Goto, OutboxTypeOK, Step, Busy
<1>5. CASE ClaimRow(w)
  <2>1. PICK c \in reading[w] :
          /\ reading' = [reading EXCEPT ![w] = @ \ {c}]
          /\ IF status[c.event] = "PENDING" /\ attempts[c.event] = c.attempt
             THEN /\ SetStatus(c.event, "PROCESSING")
                  /\ attempts' = [attempts EXCEPT ![c.event] = c.attempt + 1]
                  /\ claims' = [claims EXCEPT ![w] = @ \union
                                  {[event |-> c.event, attempt |-> c.attempt + 1]}]
             ELSE UNCHANGED <<status, attempts, claims>>
          /\ step[w] = "claim"
    BY <1>5 DEF ClaimRow
  <2>2. c.event \in Events /\ c.attempt \in 0 .. MaxAttempts /\ c.attempt + 1 \in 0 .. MaxAttempts
    BY <2>1, OutboxAssumption DEF OutboxInv, OutboxTypeOK, ReadIsClaimable, Claim
  <2>3. status' \in [Events -> RowStatus] /\ attempts' \in [Events -> 0 .. MaxAttempts]
    BY <2>1, <2>2 DEF OutboxInv, OutboxTypeOK, RowStatus, SetStatus
  <2>4. [event |-> c.event, attempt |-> c.attempt + 1] \in Claim
    BY <2>2 DEF Claim
  <2>5. claims' \in [Workers -> SUBSET Claim]
    <3>1. claims[w] \union {[event |-> c.event, attempt |-> c.attempt + 1]} \in SUBSET Claim
      BY <2>4 DEF OutboxInv, OutboxTypeOK
    <3> QED BY <2>1, <3>1 DEF OutboxInv, OutboxTypeOK
  <2> QED BY <1>5, <2>1, <2>3, <2>5 DEF OutboxInv, OutboxTypeOK, ClaimRow, budget
<1>6. CASE StartDispatch(w)
  BY <1>6 DEF StartDispatch
<1>7. CASE Handle(w)
  BY <1>7, HandleType DEF OutboxInv
<1>8. CASE Acknowledge(w)
  BY <1>8 DEF Acknowledge
<1>9. CASE FailRead(w)
  BY <1>9 DEF FailRead
<1>10. CASE Retry(w)
  BY <1>10 DEF Retry
<1>11. CASE DeadLetter(w)
  BY <1>11 DEF DeadLetter
<1>12. CASE EndOfBatch(w)
  BY <1>12 DEF EndOfBatch
<1>13. CASE Requeue(w)
  <2>1. PICK c \in claims[w] : /\ FromProcessing(c.event, "PENDING")
                               /\ claims' = [claims EXCEPT ![w] = @ \ {c}]
    BY <1>13 DEF Requeue
  <2>2. status' \in [Events -> RowStatus] /\ claims' \in [Workers -> SUBSET Claim]
    BY <2>1 DEF OutboxInv, OutboxTypeOK, FromProcessing, RowStatus, Claim
  <2> QED BY <1>13, <2>2 DEF OutboxInv, OutboxTypeOK, Requeue, budget
<1>14. CASE Exit(w)
  BY <1>14 DEF Exit
<1>15. CASE Stop(w)
  BY <1>15 DEF Stop
<1>16. CASE Crash(w)
  BY <1>16 DEF Crash
<1>17. CASE ReclaimBreaks(w)
  BY <1>17 DEF ReclaimBreaks
<1>18. CASE ClaimBreaks(w)
  BY <1>18 DEF ClaimBreaks
<1>19. CASE AcknowledgeBreaks(w)
  BY <1>19 DEF AcknowledgeBreaks
<1>20. CASE FailBreaks(w)
  BY <1>20 DEF FailBreaks
<1>21. CASE RequeueBreaks(w)
  BY <1>21 DEF RequeueBreaks
<1> QED BY <1>1, <1>2, <1>3, <1>4, <1>5, <1>6, <1>7, <1>8, <1>9, <1>10, <1>11, <1>12, <1>13,
     <1>14, <1>15, <1>16, <1>17, <1>18, <1>19, <1>20, <1>21 DEF WorkerStep, Fault

\* Every step of a worker and every fault keeps the rest of the invariant.
LEMMA RestStep ==
    ASSUME OutboxInv, OutboxTypeOK', NEW w \in Workers, WorkerStep(w) \/ Fault(w)
    PROVE  OutboxInv'
<1> USE OutboxAssumption DEF OutboxInv, rowVars, workerVars, SetStatus, Goto, NextEvent,
     OutboxTypeOK, ReadIsClaimable, HeldIsCounted,
     ClaimIsExclusive, WaitingIsUndelivered, FutureIsUndelivered, AckIsDelivered,
          DeadIsExhausted, Held, Busy
<1>1. CASE Boot(w)
  BY <1>1 DEF Boot
<1>2. CASE Reclaim(w)
  BY <1>2 DEF Reclaim
<1>3. CASE StartPolling(w)
  BY <1>3 DEF StartPolling
<1>4. CASE Poll(w)
  <2>1. ReadIsClaimable'
    BY <1>4, ReadIsTyped DEF OutboxInv, OutboxTypeOK, Poll, Goto, ReadIsClaimable
  <2>2. UNCHANGED <<attempts, deliveries, claims, current>>
    BY <1>4 DEF Poll, rowVars
  <2>3. \A v \in Workers : /\ Held(v)' = Held(v)
                           /\ step'[v] \in {"ack", "dead"} => step[v] = step'[v]
    BY <1>4, <2>2 DEF OutboxInv, OutboxTypeOK, Poll, Goto, Held, Busy
  <2> QED BY <2>1, <2>2, <2>3 DEF OutboxInv, HeldIsCounted, ClaimIsExclusive,
             WaitingIsUndelivered, FutureIsUndelivered, AckIsDelivered, DeadIsExhausted
<1>5. CASE ClaimRow(w)
  BY <1>5, ClaimRowInv DEF OutboxInv
<1>6. CASE StartDispatch(w)
  BY <1>6 DEF StartDispatch
<1>7. CASE Handle(w)
  BY <1>7, HandleInv DEF OutboxInv
<1>8. CASE Acknowledge(w)
  BY <1>8 DEF Acknowledge
<1>9. CASE FailRead(w)
  <2>1. UNCHANGED <<attempts, deliveries, reading, claims>>
    BY <1>9 DEF FailRead, NextEvent, rowVars
  <2>2. \A v \in Workers :
           /\ v # w => step'[v] = step[v] /\ current'[v] = current[v]
           /\ Held(v)' \subseteq Held(v)
           /\ step'[v] \in {"claim", "ack"} => step'[v] = step[v]
    BY <1>9 DEF OutboxInv, OutboxTypeOK, FailRead, NextEvent, Goto, Held, Busy
  <2>3. step'[w] = "dead" => attempts[current[w].event] >= MaxAttempts /\ current'[w] = current[w]
    BY <1>9 DEF OutboxInv, OutboxTypeOK, FailRead, NextEvent, Goto
  <2>4. current[w].event \in Events /\ attempts[current[w].event] \in 0 .. MaxAttempts
    BY <1>9 DEF OutboxInv, OutboxTypeOK, FailRead, Busy, Claim
  <2>5. DeadIsExhausted'
    BY <2>1, <2>2, <2>3, <2>4, OutboxAssumption DEF OutboxInv, DeadIsExhausted
  <2>6. AckIsDelivered'
    BY <1>9, <2>1, <2>2 DEF OutboxInv, OutboxTypeOK, AckIsDelivered, FailRead, NextEvent, Goto
  <2> QED BY <2>1, <2>2, <2>5, <2>6 DEF OutboxInv, ReadIsClaimable, HeldIsCounted,
             ClaimIsExclusive, WaitingIsUndelivered, FutureIsUndelivered
<1>10. CASE Retry(w)
  BY <1>10, RetryInv DEF OutboxInv
<1>11. CASE DeadLetter(w)
  BY <1>11 DEF DeadLetter
<1>12. CASE EndOfBatch(w)
  BY <1>12 DEF EndOfBatch
<1>13. CASE Requeue(w)
  BY <1>13 DEF Requeue
<1>14. CASE Exit(w)
  BY <1>14 DEF Exit
<1>15. CASE Stop(w)
  BY <1>15 DEF Stop
<1>16. CASE Crash(w)
  BY <1>16 DEF Crash
<1>17. CASE ReclaimBreaks(w)
  BY <1>17 DEF ReclaimBreaks
<1>18. CASE ClaimBreaks(w)
  BY <1>18 DEF ClaimBreaks
<1>19. CASE AcknowledgeBreaks(w)
  BY <1>19 DEF AcknowledgeBreaks
<1>20. CASE FailBreaks(w)
  BY <1>20 DEF FailBreaks
<1>21. CASE RequeueBreaks(w)
  BY <1>21 DEF RequeueBreaks
<1> QED BY <1>1, <1>2, <1>3, <1>4, <1>5, <1>6, <1>7, <1>8, <1>9, <1>10, <1>11, <1>12, <1>13,
     <1>14, <1>15, <1>16, <1>17, <1>18, <1>19, <1>20, <1>21 DEF WorkerStep, Fault

\* New events, due rows and the retention job keep the invariant.
LEMMA EnvironmentStep ==
    ASSUME OutboxInv, NEW e \in Events, Emit(e) \/ BecomesDue(e) \/ Prune(e)
    PROVE  OutboxInv'
<1>1. /\ status' \in [Events -> RowStatus] /\ due' \in [Events -> BOOLEAN]
      /\ UNCHANGED <<attempts, deliveries, workerVars, budget>>
  BY DEF Emit, EmitAll, BecomesDue, Prune, SetStatus, OutboxInv, OutboxTypeOK, RowStatus
<1> QED
  BY <1>1 DEF OutboxInv, OutboxTypeOK, ReadIsClaimable, HeldIsCounted, ClaimIsExclusive,
     WaitingIsUndelivered, FutureIsUndelivered, AckIsDelivered, DeadIsExhausted, Held,
     workerVars, budget

\* Every step keeps the invariant.
LEMMA NextInv == OutboxInv /\ [OutboxNext]_outboxVars => OutboxInv'
<1> SUFFICES ASSUME OutboxInv, [OutboxNext]_outboxVars
             PROVE  OutboxInv'
  OBVIOUS
<1>1. CASE UNCHANGED outboxVars
  BY <1>1 DEF OutboxInv, OutboxTypeOK, ReadIsClaimable, HeldIsCounted, ClaimIsExclusive,
     WaitingIsUndelivered, FutureIsUndelivered, AckIsDelivered, DeadIsExhausted, Held,
     outboxVars, rowVars, workerVars, budget
<1>2. ASSUME NEW w \in Workers, WorkerStep(w) \/ Fault(w)
      PROVE  OutboxInv'
  BY <1>2, TypeStep, RestStep
<1> QED BY <1>1, <1>2, EnvironmentStep DEF OutboxNext

\* The empty outbox satisfies the invariant.
LEMMA InitInv == OutboxInit => OutboxInv
BY OutboxAssumption DEF OutboxInit, OutboxInv, OutboxTypeOK, ReadIsClaimable, HeldIsCounted,
   ClaimIsExclusive, WaitingIsUndelivered, FutureIsUndelivered, AckIsDelivered,
   DeadIsExhausted, Held, Busy, Step, RowStatus

\* The invariant holds in every reachable state of the outbox.
THEOREM OutboxInvariant == OutboxSpec => []OutboxInv
BY InitInv, NextInv, PTL DEF OutboxSpec

\* No two workers ever hold the same claim, however many workers there are and
\* whatever a boot reclaims while another worker runs.
THEOREM ClaimsAreExclusive == OutboxSpec => []ClaimIsExclusive
<1>1. OutboxInv => ClaimIsExclusive
  BY DEF OutboxInv
<1> QED BY <1>1, OutboxInvariant, PTL

-----------------------------------------------------------------------------
(* No row is stranded while the database answers. *)

\* A worker looks after a row: it holds a claim on it, is about to hand it back,
\* or is down and will read it when it boots.
Minds(w, e) == HeldBy(w, e) \/ step[w] = "down" \/ ReclaimedBy(w, e)

\* A step that makes no row PROCESSING and takes no row from a worker strands none.
LEMMA MindedStaysMinded ==
    ASSUME NothingIsStranded, errors' = errors,
           \A e \in Events : status'[e] = "PROCESSING" => status[e] = "PROCESSING",
           \A w \in Workers : \A e \in Events :
               status'[e] = "PROCESSING" /\ Minds(w, e) => Minds(w, e)'
    PROVE  NothingIsStranded'
BY DEF NothingIsStranded, Stranded, Minds

\* A worker whose step, reading and held claims stay as they are minds what it minded.
LEMMA IdleWorkerMinds ==
    ASSUME NEW v \in Workers, NEW e \in Events,
           step'[v] = step[v], reading'[v] = reading[v], Held(v)' = Held(v)
    PROVE  Minds(v, e)' <=> Minds(v, e)
BY DEF Minds, HeldBy, ReclaimedBy

\* A step that changes the status of one row to something else than PROCESSING.
LEMMA OneRowLeaves ==
    ASSUME OutboxTypeOK, NEW e \in Events, NEW s \in RowStatus \ {"PROCESSING"},
           FromProcessing(e, s)
    PROVE  /\ \A d \in Events : status'[d] = "PROCESSING" => status[d] = "PROCESSING"
           /\ status'[e] # "PROCESSING"
BY DEF FromProcessing, OutboxTypeOK

\* A worker that leaves its event with the row no longer PROCESSING strands nothing.
LEMMA NextEventMinds ==
    ASSUME OutboxTypeOK, NothingIsStranded, NEW w \in Workers,
           NextEvent(w), step[w] \in Busy, errors' = errors,
           \A e \in Events : status'[e] = "PROCESSING" => status[e] = "PROCESSING",
           status'[current[w].event] # "PROCESSING"
    PROVE  NothingIsStranded'
<1>1. /\ step' = [step EXCEPT ![w] = "dispatch"]
      /\ current' = [current EXCEPT ![w] = NoClaim]
      /\ UNCHANGED <<reading, claims>>
  BY DEF NextEvent, Goto
<1>2. ASSUME NEW v \in Workers, NEW e \in Events, status'[e] = "PROCESSING", Minds(v, e)
      PROVE  Minds(v, e)'
  <2>1. CASE v # w
    BY <1>1, <1>2, <2>1, IdleWorkerMinds DEF OutboxTypeOK, Held
  <2>2. CASE v = w
    <3>1. HeldBy(w, e)
      BY <1>2, <2>2 DEF Minds, ReclaimedBy, Busy
    <3>2. PICK c \in Held(w) : c.event = e
      BY <3>1 DEF HeldBy
    <3>3. c \in claims'[w]
      BY <1>1, <1>2, <3>2 DEF Held
    <3> QED BY <2>2, <3>2, <3>3 DEF Minds, HeldBy, Held
  <2> QED BY <2>1, <2>2
<1> QED BY <1>2, MindedStaysMinded

\* Every step of a worker that no statement fails keeps every PROCESSING row minded.
LEMMA WorkerMinds ==
    ASSUME OutboxInv, OutboxInv', NothingIsStranded, NEW w \in Workers, WorkerStep(w)
    PROVE  NothingIsStranded'
<1> DEFINE Quiet == \A e \in Events : status'[e] = "PROCESSING" => status[e] = "PROCESSING"
<1>1. CASE Boot(w)
  <2>1. /\ step' = [step EXCEPT ![w] = "reclaim"] /\ UNCHANGED <<status, claims, current, errors>>
        /\ reading' = [reading EXCEPT ![w] = ReadOf({e \in Events : status[e] = "PROCESSING"})]
    BY <1>1 DEF Boot, Goto, rowVars, budget
  <2>2. ASSUME NEW e \in Events, status[e] = "PROCESSING"
        PROVE  ReclaimedBy(w, e)'
    <3> DEFINE c == [event |-> e, attempt |-> attempts[e]]
    <3>1. c \in reading'[w]
      BY <2>1, <2>2 DEF ReadOf, OutboxInv, OutboxTypeOK
    <3>2. step'[w] = "reclaim" /\ c.event = e
      BY <2>1 DEF OutboxInv, OutboxTypeOK
    <3> QED BY <3>1, <3>2 DEF ReclaimedBy
  <2> QED BY <2>1, <2>2 DEF NothingIsStranded, Stranded
<1>2. CASE Reclaim(w)
  <2>1. PICK c \in reading[w] :
          /\ reading' = [reading EXCEPT ![w] = @ \ {c}]
          /\ status' = [status EXCEPT ![c.event] = IF @ = "PROCESSING" THEN "PENDING" ELSE @]
          /\ step[w] = "reclaim" /\ UNCHANGED <<step, claims, current, errors>>
    BY <1>2 DEF Reclaim, budget
  <2>2. c.event \in Events /\ FromProcessing(c.event, "PENDING")
    BY <2>1 DEF OutboxInv, OutboxTypeOK, Claim, FromProcessing
  <2>3. Quiet /\ status'[c.event] # "PROCESSING"
    BY <2>2, OneRowLeaves DEF OutboxInv, RowStatus
  <2>4. ASSUME NEW v \in Workers, NEW e \in Events, status'[e] = "PROCESSING", Minds(v, e)
        PROVE  Minds(v, e)'
    <3>1. Held(v)' = Held(v)
      BY <2>1 DEF Held
    <3>2. CASE v # w
      BY <2>1, <2>4, <3>1, <3>2, IdleWorkerMinds DEF OutboxInv, OutboxTypeOK
    <3>3. CASE v = w
      BY <2>1, <2>3, <2>4, <3>1, <3>3 DEF OutboxInv, OutboxTypeOK, Minds, HeldBy, ReclaimedBy
    <3> QED BY <3>2, <3>3
  <2> QED BY <2>1, <2>3, <2>4, MindedStaysMinded
<1>3. CASE StartPolling(w)
  <2>1. /\ step[w] = "reclaim" /\ reading[w] = {} /\ step' = [step EXCEPT ![w] = "poll"]
        /\ UNCHANGED <<status, reading, claims, current, errors>>
    BY <1>3 DEF StartPolling, Goto, rowVars, budget
  <2>2. ASSUME NEW v \in Workers, NEW e \in Events, Minds(v, e)
        PROVE  Minds(v, e)'
    BY <2>1, <2>2 DEF OutboxInv, OutboxTypeOK, Minds, HeldBy, ReclaimedBy, Held, Busy
  <2> QED BY <2>1, <2>2, MindedStaysMinded
<1>4. CASE Poll(w) \/ StartDispatch(w) \/ EndOfBatch(w) \/ Exit(w)
  <2>1. /\ step[w] \in {"poll", "claim", "dispatch"}
        /\ \E s \in {"claim", "dispatch", "poll", "down"} : step' = [step EXCEPT ![w] = s]
        /\ UNCHANGED <<status, claims, current, errors>>
        /\ \A v \in Workers : v # w => reading'[v] = reading[v]
    BY <1>4 DEF Poll, StartDispatch, EndOfBatch, Exit, Goto, rowVars, budget, OutboxInv, OutboxTypeOK
  <2>2. ASSUME NEW v \in Workers, NEW e \in Events, Minds(v, e)
        PROVE  Minds(v, e)'
    BY <2>1, <2>2 DEF OutboxInv, OutboxTypeOK, Minds, HeldBy, ReclaimedBy, Held, Busy
  <2> QED BY <2>1, <2>2, MindedStaysMinded
<1>5. CASE ClaimRow(w)
  <2>1. PICK c \in reading[w] :
        /\ step[w] = "claim"
        /\ reading' = [reading EXCEPT ![w] = @ \ {c}]
        /\ IF status[c.event] = "PENDING" /\ attempts[c.event] = c.attempt
           THEN /\ SetStatus(c.event, "PROCESSING")
                /\ claims' = [claims EXCEPT ![w] = @ \union
                                {[event |-> c.event, attempt |-> c.attempt + 1]}]
           ELSE UNCHANGED <<status, claims>>
        /\ UNCHANGED <<step, current, errors>>
    BY <1>5 DEF ClaimRow, budget
  <2>2. ASSUME NEW v \in Workers, NEW e \in Events, Minds(v, e)
        PROVE  Minds(v, e)'
    <3>1. claims[v] \subseteq claims'[v]
      <4>1. claims' = claims \/ \E d : claims' = [claims EXCEPT ![w] = @ \union {d}]
        BY <2>1
      <4> QED BY <4>1 DEF OutboxInv, OutboxTypeOK
    <3>2. Held(v) \subseteq Held(v)'
      BY <2>1, <3>1 DEF Held
    <3>3. ReclaimedBy(v, e) => ReclaimedBy(v, e)'
      BY <2>1 DEF OutboxInv, OutboxTypeOK, ReclaimedBy
    <3> QED BY <2>1, <2>2, <3>2, <3>3 DEF Minds, HeldBy
  <2>3. CASE status[c.event] = "PENDING" /\ attempts[c.event] = c.attempt
    <3> DEFINE new == [event |-> c.event, attempt |-> c.attempt + 1]
    <3>1. new \in claims'[w] /\ new.event = c.event
      BY <2>1, <2>3 DEF OutboxInv, OutboxTypeOK
    <3>2. HeldBy(w, c.event)'
      BY <3>1 DEF HeldBy, Held
    <3>3. \A e \in Events : e # c.event => status'[e] = status[e]
      BY <2>1, <2>3 DEF SetStatus, OutboxInv, OutboxTypeOK
    <3> QED BY <2>1, <2>2, <3>2, <3>3 DEF NothingIsStranded, Stranded, Minds
  <2>4. CASE ~(status[c.event] = "PENDING" /\ attempts[c.event] = c.attempt)
    BY <2>1, <2>2, <2>4, MindedStaysMinded
  <2> QED BY <2>3, <2>4
<1>6. CASE Handle(w)
  <2>1. PICK c \in claims[w], done \in BOOLEAN :
        /\ step[w] = "dispatch"
        /\ current' = [current EXCEPT ![w] = c]
        /\ claims' = [claims EXCEPT ![w] = @ \ {c}]
        /\ step' = [step EXCEPT ![w] = IF done THEN "ack" ELSE "fail"]
        /\ UNCHANGED <<status, reading, errors>>
    BY <1>6 DEF Handle, Goto, rowVars, budget
  <2>2. ASSUME NEW v \in Workers, NEW e \in Events, Minds(v, e)
        PROVE  Minds(v, e)'
    <3>1. Held(v)' = Held(v)
      BY <2>1 DEF Held, Busy, OutboxInv, OutboxTypeOK
    <3> QED BY <2>1, <2>2, <3>1 DEF OutboxInv, OutboxTypeOK, Minds, HeldBy, ReclaimedBy
  <2> QED BY <2>1, <2>2, MindedStaysMinded
<1>7. CASE Acknowledge(w)
  <2>1. /\ step[w] \in Busy /\ NextEvent(w) /\ errors' = errors
        /\ FromProcessing(current[w].event, "PROCESSED") /\ current[w].event \in Events
    BY <1>7 DEF Acknowledge, Busy, budget, OutboxInv, OutboxTypeOK, Claim
  <2> QED BY <2>1, OneRowLeaves, NextEventMinds DEF OutboxInv, RowStatus
<1>8. CASE FailRead(w)
  <2>1. step[w] = "fail" /\ UNCHANGED <<status, errors>>
    BY <1>8 DEF FailRead, rowVars, budget
  <2>2. CASE status[current[w].event] # "PROCESSING" /\ NextEvent(w)
    BY <2>1, <2>2, NextEventMinds DEF OutboxInv, Busy
  <2>3. CASE /\ \E s \in {"dead", "retry"} : step' = [step EXCEPT ![w] = s]
             /\ UNCHANGED <<reading, claims, current>>
    <3>1. ASSUME NEW v \in Workers, NEW e \in Events, Minds(v, e)
          PROVE  Minds(v, e)'
      BY <2>1, <2>3, <3>1 DEF OutboxInv, OutboxTypeOK, Minds, HeldBy, ReclaimedBy, Held, Busy
    <3> QED BY <2>1, <3>1, MindedStaysMinded
  <2> QED BY <1>8, <2>2, <2>3 DEF FailRead, Goto
<1>9. CASE Retry(w)
  <2>1. /\ step[w] \in Busy /\ NextEvent(w) /\ errors' = errors
        /\ FromProcessing(current[w].event, "PENDING") /\ current[w].event \in Events
    BY <1>9 DEF Retry, Busy, budget, OutboxInv, OutboxTypeOK, Claim
  <2> QED BY <2>1, OneRowLeaves, NextEventMinds DEF OutboxInv, RowStatus
<1>10. CASE DeadLetter(w)
  <2>1. /\ step[w] \in Busy /\ NextEvent(w) /\ errors' = errors
        /\ FromProcessing(current[w].event, "FAILED") /\ current[w].event \in Events
    BY <1>10 DEF DeadLetter, Busy, budget, OutboxInv, OutboxTypeOK, Claim
  <2> QED BY <2>1, OneRowLeaves, NextEventMinds DEF OutboxInv, RowStatus
<1>11. CASE Requeue(w)
  <2>1. PICK c \in claims[w] :
          /\ FromProcessing(c.event, "PENDING")
          /\ claims' = [claims EXCEPT ![w] = @ \ {c}]
          /\ UNCHANGED <<step, reading, current, errors>>
    BY <1>11 DEF Requeue, budget
  <2>2. c.event \in Events
    BY DEF OutboxInv, OutboxTypeOK, Claim
  <2>3. Quiet /\ status'[c.event] # "PROCESSING"
    BY <2>1, <2>2, OneRowLeaves DEF OutboxInv, RowStatus
  <2>4. ASSUME NEW v \in Workers, NEW e \in Events, status'[e] = "PROCESSING", Minds(v, e)
        PROVE  Minds(v, e)'
    <3>1. CASE HeldBy(v, e)
      <4>1. PICK d \in Held(v) : d.event = e
        BY <3>1 DEF HeldBy
      <4>2. d \in Held(v)'
        BY <2>1, <2>3, <2>4, <4>1 DEF Held, OutboxInv, OutboxTypeOK
      <4> QED BY <4>1, <4>2 DEF Minds, HeldBy
    <3> QED BY <2>1, <2>4, <3>1 DEF Minds, ReclaimedBy
  <2> QED BY <2>1, <2>3, <2>4, MindedStaysMinded
<1> QED
  BY <1>1, <1>2, <1>3, <1>4, <1>5, <1>6, <1>7, <1>8, <1>9, <1>10, <1>11, Zenon DEF WorkerStep

\* A fault is a statement that fails, a crash or a signal: the first leaves the
\* hypothesis, the second leaves the worker down, the third changes nothing here.
LEMMA FaultMinds ==
    ASSUME OutboxInv, NothingIsStranded, NEW w \in Workers, Fault(w)
    PROVE  NothingIsStranded'
<1>1. CASE Stop(w)
  <2>1. UNCHANGED <<status, step, reading, claims, current, errors>>
    BY <1>1 DEF Stop, rowVars
  <2> QED BY <2>1 DEF NothingIsStranded, Stranded, HeldBy, ReclaimedBy, Held
<1>2. CASE Crash(w)
  <2>1. step'[w] = "down"
    BY <1>2 DEF Crash, Goto, OutboxInv, OutboxTypeOK
  <2> QED BY <2>1 DEF NothingIsStranded, Stranded
<1>3. CASE errors' = errors + 1
  <2>1. errors' # 0
    BY <1>3, OutboxAssumption DEF OutboxInv, OutboxTypeOK
  <2> QED BY <2>1 DEF NothingIsStranded
<1> QED BY <1>1, <1>2, <1>3
        DEF Fault, ReclaimBreaks, ClaimBreaks, AcknowledgeBreaks, FailBreaks, RequeueBreaks

\* As long as no statement of a worker fails in the database, a row that is being
\* processed is held, is about to be handed back, or waits for a boot - however
\* many workers run, crash and reclaim each other's rows.
THEOREM NoRowIsStranded == OutboxSpec => []NothingIsStranded
<1>1. OutboxInit => NothingIsStranded
  BY DEF OutboxInit, NothingIsStranded, Stranded
<1>2. OutboxInv /\ OutboxInv' /\ NothingIsStranded /\ [OutboxNext]_outboxVars
        => NothingIsStranded'
  <2> SUFFICES ASSUME OutboxInv, OutboxInv', NothingIsStranded, [OutboxNext]_outboxVars
               PROVE  NothingIsStranded'
    OBVIOUS
  <2>1. CASE UNCHANGED outboxVars
    BY <2>1 DEF outboxVars, rowVars, workerVars, budget, NothingIsStranded, Stranded,
       HeldBy, ReclaimedBy, Held
  <2>2. ASSUME NEW e \in Events, Emit(e) \/ BecomesDue(e) \/ Prune(e)
        PROVE  NothingIsStranded'
    <3>1. /\ \A d \in Events : status'[d] = "PROCESSING" => status[d] = "PROCESSING"
          /\ UNCHANGED <<step, reading, claims, current, errors>>
      BY <2>2 DEF Emit, EmitAll, BecomesDue, Prune, SetStatus, OutboxInv, OutboxTypeOK,
         workerVars, budget
    <3> QED BY <3>1, MindedStaysMinded DEF Minds, HeldBy, ReclaimedBy, Held
  <2> QED BY <2>1, <2>2, WorkerMinds, FaultMinds DEF OutboxNext
<1> QED BY <1>1, <1>2, OutboxInvariant, PTL DEF OutboxSpec

-----------------------------------------------------------------------------
(* The refinement *)

\* A step that changes neither fates nor counts is invisible.
LEMMA Invisible ==
    ASSUME UNCHANGED <<attempts, deliveries>>,
           \A e \in Events : FateOf(status'[e]) = FateOf(status[e])
    PROVE  UNCHANGED Delivery!vars
BY DEF Delivery!vars, Fate

\* Moves between PENDING and PROCESSING leave an event open.
LEMMA OpenStaysOpen ==
    ASSUME OutboxTypeOK, NEW e \in Events, NEW s \in {"PENDING", "PROCESSING"},
           FromProcessing(e, s)
    PROVE  \A d \in Events : FateOf(status'[d]) = FateOf(status[d])
BY DEF FromProcessing, OutboxTypeOK, RowStatus, FateOf

\* A status written to one row changes the fate of that event only.
LEMMA FateChanges ==
    ASSUME OutboxTypeOK, NEW e \in Events, NEW s \in RowStatus,
           SetStatus(e, s)
    PROVE  Fate' = [Fate EXCEPT ![e] = FateOf(s)]
BY DEF SetStatus, OutboxTypeOK, Fate

\* Every step of a worker and every fault is a step of EventDelivery or invisible to it.
LEMMA WorkerRefines ==
    ASSUME OutboxInv, OutboxInv', NEW w \in Workers, WorkerStep(w) \/ Fault(w)
    PROVE  [Delivery!Next]_(Delivery!vars)
<1>1. CASE UNCHANGED <<status, attempts, deliveries>>
  BY <1>1, Invisible
<1>2. CASE Reclaim(w)
  BY <1>2, Invisible DEF Reclaim, OutboxInv, OutboxTypeOK, RowStatus, Claim, FateOf
<1>3. CASE ClaimRow(w)
  <2>1. PICK c \in reading[w] :
          /\ step[w] = "claim"
          /\ UNCHANGED deliveries
          /\ IF status[c.event] = "PENDING" /\ attempts[c.event] = c.attempt
             THEN /\ SetStatus(c.event, "PROCESSING")
                  /\ attempts' = [attempts EXCEPT ![c.event] = c.attempt + 1]
             ELSE UNCHANGED <<status, attempts>>
    BY <1>3 DEF ClaimRow
  <2>2. c.event \in Events /\ c.attempt < MaxAttempts
    BY <2>1 DEF OutboxInv, OutboxTypeOK, ReadIsClaimable, Claim
  <2>3. CASE status[c.event] = "PENDING" /\ attempts[c.event] = c.attempt
    <3>1. Fate[c.event] = "open"
      BY <2>2, <2>3 DEF Fate, FateOf
    <3>2. \A d \in Events : FateOf(status'[d]) = FateOf(status[d])
      BY <2>1, <2>2, <2>3 DEF SetStatus, OutboxInv, OutboxTypeOK, FateOf
    <3>3. Delivery!Try(c.event)
      BY <2>1, <2>2, <2>3, <3>1, <3>2 DEF Delivery!Try, Fate, OutboxInv, OutboxTypeOK
    <3> QED BY <2>2, <3>3 DEF Delivery!Next
  <2> QED BY <2>1, <2>3, Invisible
<1>4. CASE Handle(w)
  <2>1. PICK c \in claims[w], done \in BOOLEAN :
          /\ deliveries' = IF done THEN [deliveries EXCEPT ![c.event][c.attempt] = @ + 1]
                                   ELSE deliveries
          /\ UNCHANGED <<status, attempts>>
    BY <1>4 DEF Handle, rowVars
  <2>2. /\ c.event \in Events /\ c.attempt \in 1 .. attempts[c.event]
        /\ deliveries[c.event][c.attempt] = 0
    BY <2>1 DEF OutboxInv, OutboxTypeOK, HeldIsCounted, WaitingIsUndelivered, Held, Claim
  <2>3. CASE done
    <3>1. deliveries' = [deliveries EXCEPT ![c.event][c.attempt] = 1]
      BY <2>1, <2>2, <2>3
    <3>2. Delivery!Run(c.event)
      BY <2>1, <2>2, <3>1 DEF Delivery!Run, Fate
    <3> QED BY <2>2, <3>2 DEF Delivery!Next
  <2> QED BY <2>1, <2>3, <1>1
<1>5. CASE Acknowledge(w)
  <2> DEFINE e == current[w].event
  <2>1. /\ FromProcessing(e, "PROCESSED") /\ UNCHANGED <<attempts, deliveries>>
        /\ step[w] = "ack"
    BY <1>5 DEF Acknowledge, NextEvent
  <2>2. /\ current[w] \in Claim /\ e \in Events
        /\ current[w].attempt \in 1 .. attempts[e]
        /\ deliveries[e][current[w].attempt] > 0
    BY <2>1 DEF OutboxInv, OutboxTypeOK, HeldIsCounted, AckIsDelivered, Held, Busy, Claim
  <2>3. CASE status[e] = "PROCESSING"
    <3>1. SetStatus(e, "PROCESSED") /\ Fate[e] = "open"
      BY <2>1, <2>2, <2>3 DEF FromProcessing, SetStatus, Fate, FateOf
    <3>2. Fate' = [Fate EXCEPT ![e] = "done"]
      BY <2>2, <3>1, FateChanges DEF OutboxInv, RowStatus, FateOf
    <3>3. Delivery!Acknowledge(e)
      BY <2>1, <2>2, <3>1, <3>2 DEF Delivery!Acknowledge
    <3> QED BY <2>2, <3>3 DEF Delivery!Next
  <2>4. CASE status[e] # "PROCESSING"
    BY <1>1, <2>1, <2>2, <2>4 DEF FromProcessing, OutboxInv, OutboxTypeOK
  <2> QED BY <2>3, <2>4
<1>6. CASE Retry(w)
  BY <1>6, Invisible, OpenStaysOpen DEF Retry, NextEvent, OutboxInv, OutboxTypeOK, Busy, Claim
<1>7. CASE DeadLetter(w)
  <2> DEFINE e == current[w].event
  <2>1. /\ FromProcessing(e, "FAILED") /\ UNCHANGED <<attempts, deliveries>>
        /\ step[w] = "dead"
    BY <1>7 DEF DeadLetter, NextEvent
  <2>2. e \in Events /\ attempts[e] = MaxAttempts
    BY <2>1 DEF OutboxInv, OutboxTypeOK, DeadIsExhausted, Busy, Claim
  <2>3. CASE status[e] = "PROCESSING"
    <3>1. SetStatus(e, "FAILED") /\ Fate[e] = "open"
      BY <2>1, <2>2, <2>3 DEF FromProcessing, SetStatus, Fate, FateOf
    <3>2. Fate' = [Fate EXCEPT ![e] = "dead"]
      BY <2>2, <3>1, FateChanges DEF OutboxInv, RowStatus, FateOf
    <3>3. Delivery!GiveUp(e)
      BY <2>1, <2>2, <3>1, <3>2 DEF Delivery!GiveUp
    <3> QED BY <2>2, <3>3 DEF Delivery!Next
  <2>4. CASE status[e] # "PROCESSING"
    BY <1>1, <2>1, <2>2, <2>4 DEF FromProcessing, OutboxInv, OutboxTypeOK
  <2> QED BY <2>3, <2>4
<1>8. CASE Requeue(w)
  <2>1. PICK c \in claims[w] : FromProcessing(c.event, "PENDING")
    BY <1>8 DEF Requeue
  <2>2. c.event \in Events
    BY <2>1 DEF OutboxInv, OutboxTypeOK, Claim
  <2> QED BY <1>8, <2>1, <2>2, Invisible, OpenStaysOpen DEF OutboxInv, Requeue
<1>9. CASE Boot(w) \/ StartPolling(w) \/ Poll(w) \/ StartDispatch(w) \/ EndOfBatch(w) \/ Exit(w)
  BY <1>1, <1>9 DEF Boot, StartPolling, Poll, StartDispatch, EndOfBatch, Exit, rowVars
<1>10. CASE FailRead(w)
  BY <1>1, <1>10 DEF FailRead, NextEvent, rowVars
<1>11. CASE Fault(w)
  BY <1>1, <1>11 DEF Fault, Stop, Crash, ReclaimBreaks, ClaimBreaks, AcknowledgeBreaks,
     FailBreaks, RequeueBreaks, NextEvent, rowVars
<1> QED
  BY <1>2, <1>3, <1>4, <1>5, <1>6, <1>7, <1>8, <1>9, <1>10, <1>11 DEF WorkerStep

\* So is every step of the producers, of time and of the retention job.
LEMMA EnvironmentRefines ==
    ASSUME OutboxInv, NEW e \in Events, Emit(e) \/ BecomesDue(e) \/ Prune(e)
    PROVE  [Delivery!Next]_(Delivery!vars)
<1>1. CASE Emit(e)
  <2>1. SetStatus(e, "PENDING") /\ status[e] = "NONE" /\ UNCHANGED <<attempts, deliveries>>
    BY <1>1 DEF Emit, EmitAll, SetStatus, OutboxInv, OutboxTypeOK
  <2>2. Fate' = [Fate EXCEPT ![e] = "open"] /\ Fate[e] = "none"
    BY <2>1, FateChanges DEF OutboxInv, RowStatus, FateOf, Fate
  <2> QED BY <2>1, <2>2 DEF Delivery!Emit, Delivery!Next
<1>2. CASE BecomesDue(e)
  BY <1>2, Invisible DEF BecomesDue
<1>3. CASE Prune(e)
  <2>1. /\ SetStatus(e, "PRUNED") /\ status[e] \in {"PROCESSED", "FAILED"}
        /\ UNCHANGED <<attempts, deliveries>>
    BY <1>3 DEF Prune
  <2>2. Fate' = [Fate EXCEPT ![e] = "gone"] /\ Fate[e] \in {"done", "dead"}
    BY <2>1, FateChanges DEF OutboxInv, RowStatus, FateOf, Fate
  <2> QED BY <2>1, <2>2 DEF Delivery!Forget, Delivery!Next
<1> QED BY <1>1, <1>2, <1>3

\* The outbox implements EventDelivery: an event is acknowledged only after a
\* handler ran for it, every try runs a handler at most once, only an event that
\* has used up its tries is given up, and a settled event stays settled.
THEOREM DeliveryHolds == OutboxSpec => DeliveryIsKept
<1>1. OutboxInit => Delivery!Init
  BY DEF OutboxInit, Delivery!Init, Fate, FateOf
<1>2. OutboxInv /\ OutboxInv' /\ [OutboxNext]_outboxVars => [Delivery!Next]_(Delivery!vars)
  <2> SUFFICES ASSUME OutboxInv, OutboxInv', [OutboxNext]_outboxVars
               PROVE  [Delivery!Next]_(Delivery!vars)
    OBVIOUS
  <2>1. CASE UNCHANGED outboxVars
    BY <2>1, Invisible DEF outboxVars, rowVars
  <2> QED BY <2>1, WorkerRefines, EnvironmentRefines DEF OutboxNext
<1> QED BY <1>1, <1>2, OutboxInvariant, PTL DEF OutboxSpec, DeliveryIsKept, Delivery!Spec

-----------------------------------------------------------------------------
(***************************************************************************)
(* What the platform itself sells: no window and no revenue without the    *)
(* provider's money, and on one process no period that is paid for is lost.*)
(***************************************************************************)

\* Who runs a handler, and where it may be.
Buyer == {"webhook", "user"}
AdminOps == {"comp", "grant_grace", "expire", "stop"}
Access == {"grant", "insert", "push", "extend", "extending", "revoke", "revoking"}
Opening == {"rows", "window"}
Settling == {"settle", "mark"}
Buying == {"event", "order", "enter", "replay", "capture", "complete"}
              \union Opening \union Settling

\* A handler's local state is a record of these fields; what most of them hold does not
\* matter for the money.
IsCall(r) ==
    r = [pc |-> r.pc, by |-> r.by, on |-> r.on, seen |-> r.seen, row |-> r.row,
         was |-> r.was, end |-> r.end, todo |-> r.todo, ents |-> r.ents]

Bought(o) == o \in paid /\ order[o] = "COMPLETED"

\* What the local state says about the order it is for: an activation goes on only with
\* the provider's money, and opens a window only for a completed order of a plan.
CallOK(r) ==
    /\ IsCall(r) /\ r.by \in Buyer \union {"none", "sweep", "admin"}
    /\ r.by \in Buyer => r.on \in Orders
    /\ r.pc \in Buying => r.by \in Buyer
    /\ r.pc \in Access => r.by # "none"
    /\ r.pc \in {"due", "sweep"} => r.by = "sweep"
    /\ r.pc \in AdminOps => r.by = "admin"
    /\ r.pc \in {"event", "complete"} => r.on \in paid
    /\ r.pc \in Opening => r.on \in Plans
    /\ r.pc = "replay" => r.on \in Plans /\ r.seen = "COMPLETED"
    /\ r.by \in Buyer /\ r.pc \in Opening \union Settling \union Access => Bought(r.on)
    /\ r.by \in Buyer /\ r.seen = "COMPLETED" => order[r.on] = "COMPLETED"

OrderState == {"none", "PENDING", "COMPLETED"}
PaymentState == {"none", "PENDING"} \union MoneyStates

RowsOK ==
    /\ order \in [Orders -> OrderState] /\ payment \in [Orders -> PaymentState]
    /\ windows \in [Plans -> Nat]
    /\ \A o \in Orders : payment[o] \in MoneyStates => o \in paid
    /\ NothingIsFree

SaleInv ==
    /\ call = [c \in Calls |-> call[c]] /\ \A c \in Calls : CallOK(call[c])
    /\ RowsOK

\* What is bought stays bought.
BoughtStays == paid \subseteq paid' /\ \A o \in Orders :
                  order[o] = "COMPLETED" => order'[o] = "COMPLETED"

\* A step of one handler.
LEMMA HandlerMoves ==
    ASSUME SaleInv, NEW c \in Calls, NEW new, call' = [call EXCEPT ![c] = new],
           CallOK(new)', BoughtStays, RowsOK'
    PROVE  SaleInv'
<1>1. call' = [d \in Calls |-> call'[d]] /\ call'[c] = new
  BY DEF SaleInv
<1>2. ASSUME NEW d \in Calls
      PROVE  CallOK(call[d])' 
  <2>1. CASE d = c
    BY <1>1, <2>1 DEF CallOK
  <2>2. CASE d # c
    <3>1. PICK r : r = call[d] /\ call'[d] = r /\ CallOK(r)
      BY <2>2 DEF SaleInv
    <3>2. CallOK(r)'
      BY <3>1 DEF CallOK, BoughtStays, Bought, Orders, Opening
    <3> QED BY <3>1, <3>2 DEF CallOK
  <2> QED BY <2>1, <2>2
<1> QED BY <1>1, <1>2 DEF SaleInv

\* A step of no handler.
LEMMA NobodyMoves ==
    ASSUME SaleInv, call' = call, BoughtStays, RowsOK'
    PROVE  SaleInv'
<1>1. ASSUME NEW d \in Calls
      PROVE  CallOK(call[d])'
  <2>1. PICK r : r = call[d] /\ call'[d] = r /\ CallOK(r)
    BY DEF SaleInv
  <2>2. CallOK(r)'
    BY <2>1 DEF CallOK, BoughtStays, Bought, Orders, Opening
  <2> QED BY <2>1, <2>2 DEF CallOK
<1> QED BY <1>1 DEF SaleInv

\* A step of one handler that leaves the orders and the money alone.
LEMMA OnlyMoves ==
    ASSUME SaleInv, NEW c \in Calls, NEW new, call' = [call EXCEPT ![c] = new],
           CallOK(new), UNCHANGED <<order, payment, paid, ledger, windows>>
    PROVE  SaleInv'
<1>1. CallOK(new)' /\ BoughtStays
  BY DEF CallOK, BoughtStays, Bought
<1>2. RowsOK'
  BY DEF SaleInv, RowsOK, NothingIsFree, Orders
<1> QED BY <1>1, <1>2, HandlerMoves

\* A handler that goes on to p.
LEMMA GoingOn ==
    ASSUME NEW c \in Calls, IsCall(call[c]), NEW p, Continue(c, p)
    PROVE  \E new :
             /\ call' = [call EXCEPT ![c] = new] /\ IsCall(new)
             /\ new.pc = p /\ new.by = call[c].by /\ new.on = call[c].on
             /\ new.seen = call[c].seen /\ new.row = call[c].row /\ new.was = call[c].was
             /\ new.end = call[c].end /\ new.todo = call[c].todo
<1>1. PICK r : r = call[c] /\ IsCall(r)
  OBVIOUS
<1>2. PICK new : call' = [call EXCEPT ![c] = new] /\ new = [r EXCEPT !.pc = p]
  BY <1>1 DEF Continue
<1>3. new = [pc |-> p, by |-> r.by, on |-> r.on, seen |-> r.seen, row |-> r.row,
             was |-> r.was, end |-> r.end, todo |-> r.todo, ents |-> r.ents]
  BY <1>1, <1>2 DEF IsCall
<1> QED BY <1>1, <1>2, <1>3 DEF IsCall

LEMMA IdleIsOK == CallOK(Idle) /\ Idle.pc = "idle" /\ Idle.by = "none"
BY DEF CallOK, IsCall, Idle, Buyer, Buying, Access, AdminOps, Opening, Settling

\* Handlers begin: the webhook, the buyer's request, the sweep, an administrator.
LEMMA BeginSale ==
    ASSUME SaleInv, NEW c \in Calls,
           \/ \E o \in Orders : Deliver(c, o) /\ UNCHANGED subVars
           \/ \E o \in Orders : Activate(c, o) /\ UNCHANGED subVars
           \/ Sweep(c)
           \/ \E r \in Rows : AdminRead(c, r)
    PROVE  SaleInv'
<1>1. CASE \E o \in Orders : Deliver(c, o) /\ UNCHANGED subVars
  <2>0. PICK o \in Orders : Deliver(c, o) /\ UNCHANGED subVars
    BY <1>1
  <2>1. PICK new :
           /\ new = [Idle EXCEPT !.pc = "event", !.by = "webhook", !.on = o]
           /\ call' = [call EXCEPT ![c] = new] /\ o \in paid
           /\ UNCHANGED <<order, payment, paid, ledger, windows>>
    BY <2>0 DEF Deliver, Begin, orderVars, subVars
  <2>2. new = [pc |-> "event", by |-> "webhook", on |-> o, seen |-> "none", row |-> 0,
               was |-> "none", end |-> 0, todo |-> {}, ents |-> {}]
    BY <2>1 DEF Idle
  <2>3. /\ IsCall(new) /\ new.pc = "event" /\ new.by = "webhook" /\ new.on = o
        /\ new.seen = "none"
    BY <2>2 DEF IsCall
  <2>4. CallOK(new)
    BY <2>0, <2>1, <2>3 DEF CallOK, Buyer, Access, AdminOps, Opening, Settling
  <2> QED BY <2>1, <2>4, OnlyMoves
<1>2. CASE \E o \in Orders : Activate(c, o) /\ UNCHANGED subVars
  <2>0. PICK o \in Orders : Activate(c, o) /\ UNCHANGED subVars
    BY <1>2
  <2>1. PICK new :
           /\ new = [Idle EXCEPT !.pc = "order", !.by = "user", !.on = o]
           /\ call' = [call EXCEPT ![c] = new]
           /\ UNCHANGED <<order, payment, paid, ledger, windows>>
    BY <2>0 DEF Activate, Begin, orderVars, subVars
  <2>2. new = [pc |-> "order", by |-> "user", on |-> o, seen |-> "none", row |-> 0,
               was |-> "none", end |-> 0, todo |-> {}, ents |-> {}]
    BY <2>1 DEF Idle
  <2>3. /\ IsCall(new) /\ new.pc = "order" /\ new.by = "user" /\ new.on = o
        /\ new.seen = "none"
    BY <2>2 DEF IsCall
  <2>4. CallOK(new)
    BY <2>0, <2>1, <2>3 DEF CallOK, Buyer, Access, AdminOps, Opening, Settling
  <2> QED BY <2>1, <2>4, OnlyMoves
<1>3. CASE Sweep(c)
  <2>1. PICK new :
           /\ new = [Idle EXCEPT !.pc = "due", !.by = "sweep", !.was = "ACTIVE"]
           /\ call' = [call EXCEPT ![c] = new]
           /\ UNCHANGED <<order, payment, paid, ledger, windows>>
    BY <1>3 DEF Sweep, Begin, orderVars, subVars
  <2>2. new = [pc |-> "due", by |-> "sweep", on |-> "none", seen |-> "none", row |-> 0,
               was |-> "ACTIVE", end |-> 0, todo |-> {}, ents |-> {}]
    BY <2>1 DEF Idle
  <2>3. CallOK(new)
    BY <2>2 DEF CallOK, IsCall, Buyer, Buying, Access, AdminOps, Opening, Settling
  <2> QED BY <2>1, <2>3, OnlyMoves
<1>4. ASSUME NEW op \in AdminOps, NEW r, NEW from, NEW end, Read(c, op, r, from, end)
      PROVE  SaleInv'
  <2>1. PICK new, was :
           /\ new = [Idle EXCEPT !.pc = op, !.by = "admin", !.row = r, !.was = was, !.end = end]
           /\ call' = [call EXCEPT ![c] = new]
           /\ UNCHANGED <<order, payment, paid, ledger, windows>>
    BY <1>4 DEF Read, Begin, orderVars, subVars
  <2>2. new = [pc |-> op, by |-> "admin", on |-> "none", seen |-> "none", row |-> r,
               was |-> was, end |-> end, todo |-> {}, ents |-> {}]
    BY <2>1 DEF Idle
  <2>3. CallOK(new)
    BY <2>2 DEF CallOK, IsCall, Buyer, Buying, Access, AdminOps, Opening, Settling
  <2> QED BY <2>1, <2>3, OnlyMoves
<1>5. CASE \E r \in Rows : AdminRead(c, r)
  <2>1. "comp" \in AdminOps /\ "grant_grace" \in AdminOps /\ "expire" \in AdminOps
        /\ "stop" \in AdminOps
    BY DEF AdminOps
  <2>2. PICK r : AdminRead(c, r)
    BY <1>5
  <2> QED BY <1>4, <2>1, <2>2, Zenon DEF AdminRead
<1> QED BY <1>1, <1>2, <1>3, <1>5

\* The money: the provider's word, the order, the ledger.
LEMMA CaptureSale ==
    ASSUME SaleInv, NEW c \in Calls, UNCHANGED subVars,
           RecordCapture(c) \/ CapturePayment(c) \/ MarkSettled(c)
    PROVE  SaleInv'
<1>1. PICK r : r = call[c] /\ CallOK(r) /\ IsCall(r)
  BY DEF SaleInv, CallOK
<1>2. PICK o \in Orders : o = r.on /\ r.by \in Buyer
  BY <1>1 DEF RecordCapture, CapturePayment, MarkSettled, At, CallOK, Buying, Opening, Settling
<1>3. /\ UNCHANGED <<order, paid, ledger, windows>>
      /\ \/ payment' = payment
         \/ o \in paid /\ \E p \in MoneyStates : payment' = [payment EXCEPT ![o] = p]
  <2>1. payment[o] = "SUCCEEDED" => o \in paid
    BY DEF SaleInv, RowsOK, MoneyStates
  <2>2. "SUCCEEDED" \in MoneyStates /\ "SETTLED" \in MoneyStates
    BY DEF MoneyStates
  <2>3. CASE RecordCapture(c)
    <3>1. o \in paid
      BY <1>1, <1>2, <2>3 DEF RecordCapture, At, CallOK
    <3> QED BY <1>1, <1>2, <2>2, <2>3, <3>1 DEF RecordCapture, subVars
  <2>4. CASE CapturePayment(c)
    BY <1>1, <1>2, <2>2, <2>4 DEF CapturePayment, subVars
  <2>5. CASE MarkSettled(c)
    BY <1>1, <1>2, <2>1, <2>2, <2>5 DEF MarkSettled, subVars
  <2> QED BY <2>3, <2>4, <2>5
<1>4. BoughtStays /\ RowsOK'
  BY <1>3 DEF SaleInv, RowsOK, NothingIsFree, Orders, BoughtStays, PaymentState
<1>5. \A new : call' = [call EXCEPT ![c] = new] /\ CallOK(new) => SaleInv'
  <2> SUFFICES ASSUME NEW new, call' = [call EXCEPT ![c] = new], CallOK(new)
               PROVE  SaleInv'
    OBVIOUS
  <2>1. CallOK(new)'
    BY <1>3 DEF CallOK, Bought
  <2> QED BY <1>4, <2>1, HandlerMoves
<1>6. CASE Return(c)
  BY <1>5, <1>6, IdleIsOK DEF Return
<1>7. ASSUME NEW p, Continue(c, p),
             p \in {"order", "complete", "rows", "done"},
             p = "complete" => o \in paid,
             p = "rows" => Replaying(c) /\ Bought(o)
      PROVE  SaleInv'
  <2>1. PICK new : /\ call' = [call EXCEPT ![c] = new] /\ IsCall(new)
                   /\ new.pc = p /\ new.by = r.by /\ new.on = o /\ new.seen = r.seen
    BY <1>1, <1>2, <1>7, GoingOn
  <2>2. p = "rows" => o \in Plans
    BY <1>1, <1>2, <1>7 DEF Replaying
  <2>3. CallOK(new)
    BY <1>1, <1>2, <1>7, <2>1, <2>2
       DEF CallOK, Buyer, Access, AdminOps, Opening, Settling
  <2> QED BY <1>5, <2>1, <2>3
<1>8. CASE RecordCapture(c)
  <2>1. Return(c) \/ Continue(c, "order")
    BY <1>8 DEF RecordCapture, Route
  <2> QED BY <1>6, <1>7, <2>1
<1>9. CASE CapturePayment(c)
  <2>1. Return(c) \/ (Continue(c, "complete") /\ o \in paid)
    BY <1>1, <1>2, <1>9 DEF CapturePayment, SaleInv, RowsOK
  <2> QED BY <1>6, <1>7, <2>1
<1>10. CASE MarkSettled(c)
  <2>1. Bought(o)
    BY <1>1, <1>2, <1>10 DEF MarkSettled, At, CallOK, Settling
  <2>2. \/ Continue(c, "rows") /\ Replaying(c)
        \/ Continue(c, "done")
    BY <1>10 DEF MarkSettled
  <2> QED BY <1>7, <2>1, <2>2
<1> QED BY <1>8, <1>9, <1>10

\* Up to the domain's own part, and after it.
LEMMA OrderSale ==
    ASSUME SaleInv, NEW c \in Calls, UNCHANGED subVars,
           ReadOrder(c) \/ EnterActivation(c) \/ AckWebhook(c)
    PROVE  SaleInv'
<1>1. PICK r : r = call[c] /\ CallOK(r) /\ IsCall(r)
  BY DEF SaleInv, CallOK
<1>2. UNCHANGED <<order, payment, paid, ledger, windows>>
  BY DEF ReadOrder, EnterActivation, AckWebhook, orderVars, subVars
<1>3. CASE ReadOrder(c)
  <2>1. r.pc = "order" /\ r.by \in Buyer /\ r.on \in Orders
    BY <1>1, <1>3 DEF ReadOrder, At, CallOK, Buying
  <2>2. PICK new, seen : /\ call' = [call EXCEPT ![c] = new] /\ seen = order[r.on]
                         /\ new = [r EXCEPT !.pc = "enter", !.seen = seen]
    BY <1>1, <1>3 DEF ReadOrder
  <2>3. new = [pc |-> "enter", by |-> r.by, on |-> r.on, seen |-> seen, row |-> r.row,
               was |-> r.was, end |-> r.end, todo |-> r.todo, ents |-> r.ents]
    BY <1>1, <2>2 DEF IsCall
  <2>4. IsCall(new) /\ new.pc = "enter" /\ new.by = r.by /\ new.on = r.on /\ new.seen = seen
    BY <2>3 DEF IsCall
  <2>5. CallOK(new)
    BY <2>1, <2>2, <2>4 DEF CallOK, Buyer, Access, AdminOps, Opening, Settling
  <2> QED BY <1>2, <2>2, <2>5, OnlyMoves
<1>4. CASE EnterActivation(c)
  <2>1. r.pc = "enter" /\ r.by \in Buyer /\ r.on \in Orders
    BY <1>1, <1>4 DEF EnterActivation, At, CallOK, Buying
  <2>2. PICK p \in {"replay", "capture"} : /\ Continue(c, p)
                                           /\ p = "replay" => Replaying(c)
    <3>1. CASE Replaying(c)
      BY <1>4, <3>1 DEF EnterActivation
    <3>2. CASE ~Replaying(c)
      BY <1>4, <3>2 DEF EnterActivation
    <3> QED BY <3>1, <3>2
  <2>3. PICK new : /\ call' = [call EXCEPT ![c] = new] /\ IsCall(new)
                   /\ new.pc = p /\ new.by = r.by /\ new.on = r.on /\ new.seen = r.seen
    BY <1>1, <2>2, GoingOn
  <2>4. CallOK(new)
    BY <1>1, <2>1, <2>2, <2>3
       DEF CallOK, Buyer, Access, AdminOps, Opening, Settling, Replaying
  <2> QED BY <1>2, <2>3, <2>4, OnlyMoves
<1>5. CASE AckWebhook(c)
  BY <1>2, <1>5, IdleIsOK, OnlyMoves DEF AckWebhook, Return
<1> QED BY <1>3, <1>4, <1>5

LEMMA CompleteSale ==
    ASSUME SaleInv, NEW c \in Calls, UNCHANGED subVars,
           CompleteOrder(c) \/ SettleRevenue(c)
    PROVE  SaleInv'
<1>1. PICK r : r = call[c] /\ CallOK(r) /\ IsCall(r)
  BY DEF SaleInv, CallOK
<1>2. PICK o \in Orders : o = r.on /\ r.by \in Buyer /\ o \in paid
  BY <1>1 DEF CompleteOrder, SettleRevenue, At, CallOK, Buying, Settling, Bought
<1>3. /\ UNCHANGED <<payment, paid, windows>>
      /\ order' = [order EXCEPT ![o] = "COMPLETED"]
      /\ ledger' \subseteq ledger \union {o}
      /\ Bought(o)'
  <2>1. CASE CompleteOrder(c)
    BY <1>1, <1>2, <2>1 DEF CompleteOrder, subVars, Bought, SaleInv, RowsOK
  <2>2. CASE SettleRevenue(c)
    <3>1. order[o] = "COMPLETED"
      BY <1>1, <1>2, <2>2 DEF SettleRevenue, At, CallOK, Settling, Bought
    <3> QED BY <1>1, <1>2, <2>2, <3>1 DEF SettleRevenue, subVars, Bought, SaleInv, RowsOK
  <2> QED BY <2>1, <2>2
<1>4. BoughtStays /\ RowsOK'
  BY <1>3 DEF SaleInv, RowsOK, NothingIsFree, Orders, BoughtStays, OrderState, Bought
<1>5. PICK p \in {"rows", "settle", "mark"} : Continue(c, p) /\ (p = "rows" => o \in Plans)
  <2>1. CASE CompleteOrder(c)
    BY <1>1, <1>2, <2>1 DEF CompleteOrder
  <2>2. CASE SettleRevenue(c)
    BY <2>2 DEF SettleRevenue
  <2> QED BY <2>1, <2>2
<1>6. PICK new : /\ call' = [call EXCEPT ![c] = new] /\ IsCall(new)
                 /\ new.pc = p /\ new.by = r.by /\ new.on = o /\ new.seen = r.seen
  BY <1>1, <1>2, <1>5, GoingOn
<1>7. CallOK(new)'
  <2>1. order[o] = "COMPLETED" => order'[o] = "COMPLETED"
    BY <1>4 DEF BoughtStays
  <2> QED BY <1>1, <1>2, <1>3, <1>5, <1>6, <2>1
          DEF CallOK, Buyer, Access, AdminOps, Opening, Settling, Bought
<1> QED BY <1>4, <1>6, <1>7, HandlerMoves

\* The windows: a replay, the lock, and the write.
LEMMA WindowSale ==
    ASSUME SaleInv, NEW c \in Calls, Replay(c) \/ EnterUpsert(c) \/ WriteWindow(c)
    PROVE  SaleInv'
<1>1. PICK r : r = call[c] /\ CallOK(r) /\ IsCall(r)
  BY DEF SaleInv, CallOK
<1>2. /\ r.by \in Buyer /\ r.on \in Orders /\ UNCHANGED <<order, payment, paid, ledger>>
      /\ r.pc \in {"replay", "rows", "window"}
  BY <1>1 DEF Replay, EnterUpsert, ReadRows, WriteWindow, At, CallOK, Buying, Opening, orderVars
<1>3. ASSUME NEW p \in {"done", "settle", "grant"}, Continue(c, p), RowsOK',
             p = "done" \/ Bought(r.on)
      PROVE  SaleInv'
  <2>1. PICK new : /\ call' = [call EXCEPT ![c] = new] /\ IsCall(new)
                   /\ new.pc = p /\ new.by = r.by /\ new.on = r.on /\ new.seen = r.seen
    BY <1>1, <1>3, GoingOn
  <2>2. CallOK(new)' /\ BoughtStays
    BY <1>1, <1>2, <1>3, <2>1
       DEF CallOK, Buyer, Access, AdminOps, Opening, Settling, Bought, BoughtStays
  <2> QED BY <1>3, <2>1, <2>2, HandlerMoves
<1>4. UNCHANGED windows => RowsOK'
  BY <1>2 DEF SaleInv, RowsOK, NothingIsFree, Orders
<1>5. ASSUME Return(c), UNCHANGED windows
      PROVE  SaleInv'
  BY <1>2, <1>5, IdleIsOK, OnlyMoves DEF Return
<1>6. CASE Replay(c)
  <2>1. payment[r.on] \in MoneyStates => r.on \in paid
    BY <1>2 DEF SaleInv, RowsOK
  <2>2. Bought(r.on) \/ payment[r.on] \notin MoneyStates
    BY <1>1, <1>2, <1>6, <2>1 DEF Replay, At, CallOK, Bought
  <2>3. \/ Continue(c, "done") \/ Return(c)
        \/ Continue(c, "settle") /\ payment[r.on] \in MoneyStates
    BY <1>1, <1>6, Zenon DEF Replay
  <2>4. UNCHANGED windows
    BY <1>6 DEF Replay, subVars
  <2> QED BY <1>3, <1>4, <1>5, <2>2, <2>3, <2>4
<1>7. CASE EnterUpsert(c)
  <2>1. r.pc = "rows" /\ UNCHANGED windows
    BY <1>1, <1>7 DEF EnterUpsert, ReadRows, At, subVars
  <2>2. ASSUME NEW row, NEW was, NEW end, NEW new, call' = [call EXCEPT ![c] = new],
               \/ new = [r EXCEPT !.pc = "window", !.row = row, !.end = end]
               \/ new = [r EXCEPT !.pc = "window", !.row = row, !.was = was, !.end = end]
        PROVE  SaleInv'
    <3>1. \E s \in {was, r.was} :
             new = [pc |-> "window", by |-> r.by, on |-> r.on, seen |-> r.seen, row |-> row,
                    was |-> s, end |-> end, todo |-> r.todo, ents |-> r.ents]
      BY <1>1, <2>2 DEF IsCall
    <3>2. /\ IsCall(new) /\ new.pc = "window" /\ new.by = r.by /\ new.on = r.on
          /\ new.seen = r.seen
      BY <3>1 DEF IsCall
    <3>3. CallOK(new)
      BY <1>1, <1>2, <2>1, <3>2 DEF CallOK, Buyer, Access, AdminOps, Opening, Settling
    <3> QED BY <1>2, <2>1, <2>2, <3>3, OnlyMoves
  <2>3. CASE call' = [call EXCEPT ![c].pc = "window", ![c].row = 0, ![c].end = now + Period]
    <3>1. PICK end : end = now + Period
      OBVIOUS
    <3>2. PICK new : /\ call' = [call EXCEPT ![c] = new]
                     /\ new = [r EXCEPT !.pc = "window", !.row = 0, !.end = end]
      BY <1>1, <2>3, <3>1
    <3> QED BY <2>2, <3>2
  <2>4. ASSUME NEW q, call' = [call EXCEPT ![c].pc = "window", ![c].row = q,
                                            ![c].was = subs[q].status,
                                            ![c].end = Later(subs[q].expires, now) + Period]
        PROVE  SaleInv'
    <3>1. PICK was, end : was = subs[q].status /\ end = Later(subs[q].expires, now) + Period
      OBVIOUS
    <3>2. PICK new : /\ call' = [call EXCEPT ![c] = new]
                     /\ new = [r EXCEPT !.pc = "window", !.row = q, !.was = was, !.end = end]
      BY <1>1, <2>4, <3>1
    <3> QED BY <2>2, <3>2
  <2> QED BY <1>7, <2>3, <2>4, Zenon DEF EnterUpsert, ReadRows
<1>8. CASE WriteWindow(c)
  <2>1. Bought(r.on) /\ r.on \in Plans
    BY <1>1, <1>2, <1>8 DEF WriteWindow, At, CallOK, Opening
  <2>2. \/ Return(c) /\ UNCHANGED windows
        \/ Continue(c, "grant") /\ windows' = [windows EXCEPT ![r.on] = @ + 1]
    BY <1>1, <1>8 DEF WriteWindow
  <2>3. CASE windows' = [windows EXCEPT ![r.on] = @ + 1]
    <3>1. RowsOK'
      BY <1>2, <2>1, <2>3 DEF SaleInv, RowsOK, NothingIsFree, Orders, Bought
    <3> QED BY <1>3, <1>5, <2>1, <2>2, <3>1
  <2> QED BY <1>5, <2>2, <2>3
<1> QED BY <1>6, <1>7, <1>8

\* The next entitlement of several.
LEMMA NextRowMoves ==
    ASSUME NEW c \in Calls, NEW e, NextRow(c, e)
    PROVE  \E p \in {call[c].pc, AfterAccess(c)} :
             call' = [call EXCEPT ![c] = [call[c] EXCEPT !.ents = call[c].ents \ {e}, !.pc = p]]
<1>1. call' = [call EXCEPT ![c].ents = @ \ {e},
                           ![c].pc = IF call[c].ents = {e} THEN AfterAccess(c) ELSE @]
  BY DEF NextRow
<1>2. CASE call[c].ents = {e}
  BY <1>1, <1>2
<1>3. CASE call[c].ents # {e}
  <2>1. call' = [call EXCEPT ![c].ents = @ \ {e}, ![c].pc = @]
    BY <1>1, <1>3
  <2> QED BY <2>1
<1> QED BY <1>2, <1>3

\* The entitlements, whoever writes them.
LEMMA AccessSale ==
    ASSUME SaleInv, NEW c \in Calls, AccessStep(c), UNCHANGED subVars
    PROVE  SaleInv'
<1>1. PICK r : r = call[c] /\ CallOK(r) /\ IsCall(r)
  BY DEF SaleInv, CallOK
<1>2. r.pc \in Access /\ UNCHANGED <<order, payment, paid, ledger, windows>>
  BY <1>1 DEF AccessStep, LookForGrant, InsertGrant, PushExpiry, LookToExtend, ExtendRow,
     LookToRevoke, RevokeRow, LookFor, At, Access, orderVars, subVars
<1>3. PICK after : after = AfterAccess(c)
  OBVIOUS
<1>4. /\ after \in {"sweep", "done", "settle"}
      /\ after = "sweep" => r.by = "sweep"
      /\ after = "settle" => r.by \in Buyer
  BY <1>1, <1>2, <1>3 DEF AfterAccess, CallOK, Buyer
<1>5. ASSUME NEW new, call' = [call EXCEPT ![c] = new], IsCall(new),
             new.by = r.by, new.on = r.on, new.seen = r.seen,
             new.pc \in Access \/ new.pc = after
      PROVE  SaleInv'
  <2>1. CallOK(new)
    BY <1>1, <1>2, <1>4, <1>5 DEF CallOK, Buyer, Access, AdminOps, Opening, Settling, Buying
  <2> QED BY <1>2, <1>5, <2>1, OnlyMoves
<1>6. ASSUME NEW p, Continue(c, p), p \in Access \/ p = after
      PROVE  SaleInv'
  <2>1. PICK new : /\ call' = [call EXCEPT ![c] = new] /\ IsCall(new)
                   /\ new.pc = p /\ new.by = r.by /\ new.on = r.on /\ new.seen = r.seen
    BY <1>1, <1>6, GoingOn
  <2> QED BY <1>5, <1>6, <2>1
<1>7. ASSUME NEW p, NEW E, p \in Access \/ p = after,
             call' = [call EXCEPT ![c] = [r EXCEPT !.ents = E, !.pc = p]]
      PROVE  SaleInv'
  <2>1. PICK new : /\ call' = [call EXCEPT ![c] = new]
                   /\ new = [r EXCEPT !.ents = E, !.pc = p]
    BY <1>7
  <2>2. new = [pc |-> p, by |-> r.by, on |-> r.on, seen |-> r.seen, row |-> r.row,
               was |-> r.was, end |-> r.end, todo |-> r.todo, ents |-> E]
    BY <1>1, <2>1 DEF IsCall
  <2>3. IsCall(new) /\ new.pc = p /\ new.by = r.by /\ new.on = r.on /\ new.seen = r.seen
    BY <2>2 DEF IsCall
  <2> QED BY <1>5, <1>7, <2>1, <2>3
<1>8. CASE InsertGrant(c) \/ PushExpiry(c)
  BY <1>3, <1>6, <1>8 DEF InsertGrant, PushExpiry
<1>9. CASE LookForGrant(c)
  <2>1. CASE Continue(c, "insert")
    BY <1>6, <2>1 DEF Access
  <2>2. ASSUME NEW e,
               call' = [call EXCEPT ![c].ents = {e},
                   ![c].pc = IF ents[e].expires < call[c].end THEN "push" ELSE AfterAccess(c)]
        PROVE  SaleInv'
    <3>1. PICK p : p = IF ents[e].expires < call[c].end THEN "push" ELSE AfterAccess(c)
      OBVIOUS
    <3>2. p \in Access \/ p = after
      BY <1>3, <3>1 DEF Access
    <3>3. call' = [call EXCEPT ![c] = [r EXCEPT !.ents = {e}, !.pc = p]]
      BY <1>1, <2>2, <3>1
    <3> QED BY <1>7, <3>2, <3>3
  <2> QED BY <1>9, <2>1, <2>2, Zenon DEF LookForGrant
<1>10. ASSUME NEW at, NEW then \in Access, NEW found, LookFor(c, at, then, found)
       PROVE  SaleInv'
  <2>1. PICK p : p = IF found = {} THEN AfterAccess(c) ELSE then
    OBVIOUS
  <2>2. p \in Access \/ p = after
    BY <1>3, <2>1
  <2>3. call' = [call EXCEPT ![c] = [r EXCEPT !.ents = found, !.pc = p]]
    BY <1>1, <1>10, <2>1 DEF LookFor
  <2> QED BY <1>7, <2>2, <2>3
<1>11. CASE LookToExtend(c) \/ LookToRevoke(c)
  <2>1. "extending" \in Access /\ "revoking" \in Access
    BY DEF Access
  <2> QED BY <1>10, <1>11, <2>1 DEF LookToExtend, LookToRevoke
<1>12. ASSUME NEW e, NextRow(c, e)
       PROVE  SaleInv'
  <2>1. PICK p \in {r.pc, after} :
           call' = [call EXCEPT ![c] = [r EXCEPT !.ents = r.ents \ {e}, !.pc = p]]
    <3>1. PICK p \in {call[c].pc, AfterAccess(c)} :
             call' = [call EXCEPT ![c] = [call[c] EXCEPT !.ents = call[c].ents \ {e}, !.pc = p]]
      BY <1>12, NextRowMoves
    <3> QED BY <1>1, <1>3, <3>1
  <2> QED BY <1>2, <1>7, <2>1
<1>13. CASE ExtendRow(c) \/ RevokeRow(c)
  BY <1>12, <1>13 DEF ExtendRow, RevokeRow
<1> QED BY <1>8, <1>9, <1>11, <1>13 DEF AccessStep

\* The sweep and the administrators.
LEMMA SweepSale ==
    ASSUME SaleInv, NEW c \in Calls, SweepStep(c)
    PROVE  SaleInv'
<1>1. PICK r : r = call[c] /\ CallOK(r) /\ IsCall(r)
  BY DEF SaleInv, CallOK
<1>2. r.by = "sweep" /\ UNCHANGED <<order, payment, paid, ledger, windows>>
  BY <1>1 DEF SweepStep, ReadDue, NextStage, SweepRow, At, CallOK, orderVars, subVars
<1>3. ASSUME NEW new, call' = [call EXCEPT ![c] = new], IsCall(new),
             new.by = r.by, new.on = r.on, new.seen = r.seen,
             new.pc \in {"due", "sweep", "extend", "revoke"}
      PROVE  SaleInv'
  <2>1. CallOK(new)
    BY <1>1, <1>2, <1>3 DEF CallOK, Buyer, AdminOps, Opening, Settling, Buying
  <2> QED BY <1>2, <1>3, <2>1, OnlyMoves
<1>4. ASSUME NEW p \in {"due", "sweep", "extend", "revoke"}, NEW T, NEW was, NEW end, NEW new,
             call' = [call EXCEPT ![c] = new],
             new = [pc |-> p, by |-> r.by, on |-> r.on, seen |-> r.seen, row |-> r.row,
                    was |-> was, end |-> end, todo |-> T, ents |-> r.ents]
      PROVE  SaleInv'
  <2>1. IsCall(new) /\ new.pc = p /\ new.by = r.by /\ new.on = r.on /\ new.seen = r.seen
    BY <1>4 DEF IsCall
  <2> QED BY <1>3, <1>4, <2>1
<1>5. ASSUME NEW p \in {"sweep", "revoke"}, NEW T,
             call' = [call EXCEPT ![c] = [r EXCEPT !.pc = p, !.todo = T]]
      PROVE  SaleInv'
  <2>1. PICK new : call' = [call EXCEPT ![c] = new] /\ new = [r EXCEPT !.pc = p, !.todo = T]
    BY <1>5
  <2>2. new = [pc |-> p, by |-> r.by, on |-> r.on, seen |-> r.seen, row |-> r.row,
               was |-> r.was, end |-> r.end, todo |-> T, ents |-> r.ents]
    BY <1>1, <2>1 DEF IsCall
  <2> QED BY <1>4, <2>1, <2>2
<1>6. CASE ReadDue(c)
  <2>1. PICK T : call' = [call EXCEPT ![c].pc = "sweep", ![c].todo = T]
    BY <1>6 DEF ReadDue
  <2>2. call' = [call EXCEPT ![c] = [r EXCEPT !.pc = "sweep", !.todo = T]]
    BY <1>1, <2>1
  <2> QED BY <1>5, <2>2
<1>7. CASE NextStage(c)
  <2>1. CASE Return(c)
    BY <1>2, <2>1, IdleIsOK, OnlyMoves DEF Return
  <2>2. ASSUME NEW was, call' = [call EXCEPT ![c].pc = "due", ![c].was = was]
        PROVE  SaleInv'
    <3>1. PICK new : /\ call' = [call EXCEPT ![c] = new]
                     /\ new = [r EXCEPT !.pc = "due", !.was = was]
      BY <1>1, <2>2
    <3>2. new = [pc |-> "due", by |-> r.by, on |-> r.on, seen |-> r.seen, row |-> r.row,
                 was |-> was, end |-> r.end, todo |-> r.todo, ents |-> r.ents]
      BY <1>1, <3>1 DEF IsCall
    <3> QED BY <1>4, <3>1, <3>2
  <2> QED BY <1>7, <2>1, <2>2, Zenon DEF NextStage
<1>8. CASE SweepRow(c)
  <2>1. r.pc = "sweep"
    BY <1>1, <1>8 DEF SweepRow, At
  <2>2. PICK s \in r.todo : 
          \/ Moved(c, r.todo \ {s})
          \/ call' = [call EXCEPT ![c].pc = "extend", ![c].todo = r.todo \ {s},
                                  ![c].end = AccessUntil(s)]
          \/ call' = [call EXCEPT ![c].pc = "revoke", ![c].todo = r.todo \ {s}]
    BY <1>1, <1>8 DEF SweepRow
  <2>3. PICK T, end : T = r.todo \ {s} /\ end = AccessUntil(s)
    OBVIOUS
  <2>4. CASE Moved(c, r.todo \ {s})
    <3>1. PICK new : call' = [call EXCEPT ![c] = new] /\ new = [r EXCEPT !.todo = T]
      BY <1>1, <2>3, <2>4 DEF Moved
    <3>2. new = [pc |-> "sweep", by |-> r.by, on |-> r.on, seen |-> r.seen, row |-> r.row,
                 was |-> r.was, end |-> r.end, todo |-> T, ents |-> r.ents]
      BY <1>1, <2>1, <3>1 DEF IsCall
    <3>3. /\ IsCall(new) /\ new.pc = "sweep" /\ new.by = r.by /\ new.on = r.on
          /\ new.seen = r.seen
      BY <3>2 DEF IsCall
    <3> QED BY <1>3, <3>1, <3>3
  <2>5. CASE call' = [call EXCEPT ![c].pc = "extend", ![c].todo = r.todo \ {s},
                                  ![c].end = AccessUntil(s)]
    <3>1. PICK new : /\ call' = [call EXCEPT ![c] = new]
                     /\ new = [r EXCEPT !.pc = "extend", !.todo = T, !.end = end]
      BY <1>1, <2>3, <2>5
    <3>2. new = [pc |-> "extend", by |-> r.by, on |-> r.on, seen |-> r.seen, row |-> r.row,
                 was |-> r.was, end |-> end, todo |-> T, ents |-> r.ents]
      BY <1>1, <3>1 DEF IsCall
    <3> QED BY <1>4, <3>1, <3>2
  <2>6. CASE call' = [call EXCEPT ![c].pc = "revoke", ![c].todo = r.todo \ {s}]
    <3>1. call' = [call EXCEPT ![c] = [r EXCEPT !.pc = "revoke", !.todo = T]]
      BY <1>1, <2>3, <2>6
    <3> QED BY <1>5, <3>1
  <2> QED BY <2>2, <2>4, <2>5, <2>6
<1> QED BY <1>6, <1>7, <1>8 DEF SweepStep

LEMMA AdminSale ==
    ASSUME SaleInv, NEW c \in Calls, AdminWrite(c)
    PROVE  SaleInv'
<1>1. PICK r : r = call[c] /\ CallOK(r) /\ IsCall(r)
  BY DEF SaleInv, CallOK
<1>2. r.by = "admin" /\ UNCHANGED <<order, payment, paid, ledger, windows>>
  BY <1>1 DEF AdminWrite, Write, At, CallOK, AdminOps, orderVars
<1>3. ASSUME NEW p \in {"grant", "extend", "revoke"}, Continue(c, p)
      PROVE  SaleInv'
  <2>1. PICK new : /\ call' = [call EXCEPT ![c] = new] /\ IsCall(new)
                   /\ new.pc = p /\ new.by = r.by /\ new.on = r.on /\ new.seen = r.seen
    BY <1>1, <1>3, GoingOn
  <2>2. CallOK(new)
    BY <1>1, <1>2, <1>3, <2>1 DEF CallOK, Buyer, AdminOps, Opening, Settling, Buying
  <2> QED BY <1>2, <2>1, <2>2, OnlyMoves
<1>4. CASE Return(c)
  BY <1>2, <1>4, IdleIsOK, OnlyMoves DEF Return
<1>5. Return(c) \/ Continue(c, "grant") \/ Continue(c, "extend") \/ Continue(c, "revoke")
  BY DEF AdminWrite, Write
<1> QED BY <1>3, <1>4, <1>5

\* The provider, lost calls, the user, time.
LEMMA OutsideSale ==
    ASSUME SaleInv,
           \/ \E o \in Orders : (Checkout(o) \/ Capture(o)) /\ UNCHANGED subVars
           \/ \E c \in Calls : Lose(c) /\ UNCHANGED subVars
           \/ \E r \in Rows : CancelSubscription(r) \/ ResumeSubscription(r) \/ SetAutoRenew(r)
           \/ Tick \/ UNCHANGED vars
    PROVE  SaleInv'
<1>1. ASSUME NEW o \in Orders, Checkout(o) \/ Capture(o), UNCHANGED subVars
      PROVE  SaleInv'
  <2>1. /\ UNCHANGED <<call, ledger, windows>> /\ paid \subseteq paid'
        /\ \/ UNCHANGED <<order, payment>>
           \/ /\ order[o] = "none" /\ order' = [order EXCEPT ![o] = "PENDING"]
              /\ payment' = [payment EXCEPT ![o] = "PENDING"]
    BY <1>1 DEF Checkout, Capture, callVars, subVars
  <2>2. BoughtStays /\ RowsOK'
    BY <2>1 DEF SaleInv, RowsOK, NothingIsFree, Orders, BoughtStays, OrderState, PaymentState,
       MoneyStates
  <2> QED BY <2>1, <2>2, NobodyMoves
<1>2. ASSUME NEW c \in Calls, Lose(c), UNCHANGED subVars
      PROVE  SaleInv'
  BY <1>2, IdleIsOK, OnlyMoves DEF Lose, Return, orderVars, subVars
<1>3. ASSUME UNCHANGED <<call, orderVars, windows>>
      PROVE  SaleInv'
  <2>1. BoughtStays /\ RowsOK'
    BY <1>3 DEF SaleInv, RowsOK, NothingIsFree, Orders, BoughtStays, orderVars
  <2> QED BY <1>3, <2>1, NobodyMoves
<1>4. ASSUME NEW r, CancelSubscription(r) \/ ResumeSubscription(r) \/ SetAutoRenew(r)
      PROVE  SaleInv'
  BY <1>3, <1>4 DEF CancelSubscription, ResumeSubscription, SetAutoRenew, Change
<1>5. CASE Tick \/ UNCHANGED vars
  BY <1>3, <1>5 DEF Tick, vars, callVars, subVars
<1> QED BY <1>1, <1>2, <1>4, <1>5

\* Everything above, together: the money is the provider's in every state.
THEOREM SaleInvariant == Spec => []SaleInv
<1>1. Init => SaleInv
  <2> SUFFICES ASSUME Init
               PROVE  SaleInv
    OBVIOUS
  <2>1. /\ call = [c \in Calls |-> Idle] /\ ledger = {} /\ windows = [o \in Plans |-> 0]
        /\ order = [o \in Orders |-> "none"] /\ payment = [o \in Orders |-> "none"]
    BY DEF Init, OrderInit
  <2>2. RowsOK
    BY <2>1 DEF RowsOK, NothingIsFree, OrderState, PaymentState, MoneyStates
  <2> QED BY <2>1, <2>2, IdleIsOK DEF SaleInv
<1>2. SaleInv /\ [Next]_vars => SaleInv'
  <2> SUFFICES ASSUME SaleInv, [Next]_vars
               PROVE  SaleInv'
    OBVIOUS
  <2>1. ASSUME NEW c \in Calls, CallStep(c)
        PROVE  SaleInv'
    <3>1. CASE OrderStep(c) /\ UNCHANGED <<ents, subVars>>
      <4>1. UNCHANGED subVars
        BY <3>1
      <4> QED BY <3>1, <4>1, CaptureSale, OrderSale, CompleteSale DEF OrderStep
    <3>2. CASE AccessStep(c) /\ UNCHANGED subVars
      BY <3>2, AccessSale
    <3>3. CASE WindowStep(c)
      BY <3>3, WindowSale DEF WindowStep
    <3> QED BY <2>1, <3>1, <3>2, <3>3, SweepSale, AdminSale DEF CallStep
  <2>2. ASSUME NEW o \in Orders,
               Checkout(o) \/ Capture(o) \/ \E c \in Calls : Deliver(c, o) \/ Activate(c, o),
               UNCHANGED <<ents, subVars>>
        PROVE  SaleInv'
    <3>1. UNCHANGED subVars
      BY <2>2
    <3> QED BY <2>2, <3>1, BeginSale, OutsideSale
  <2>3. ASSUME NEW c \in Calls, Sweep(c) \/ \E r \in Rows : AdminRead(c, r)
        PROVE  SaleInv'
    BY <2>3, BeginSale
  <2>4. ASSUME NEW c \in Calls, Lose(c) /\ UNCHANGED <<ents, subVars>>
        PROVE  SaleInv'
    <3>1. UNCHANGED subVars
      BY <2>4
    <3> QED BY <2>4, <3>1, OutsideSale
  <2> QED BY <2>1, <2>2, <2>3, <2>4, OutsideSale, Zenon DEF Next
<1> QED BY <1>1, <1>2, PTL DEF Spec

\* Subscriptions.NothingIsFree, for every set of orders, handlers and processes
\* (subscriptions.ts:332-347).
THEOREM NothingIsEverFree == Spec => []NothingIsFree
<1>1. SaleInv => NothingIsFree
  BY DEF SaleInv, RowsOK
<1> QED BY <1>1, SaleInvariant, PTL
-----------------------------------------------------------------------------
(* No period is lost *)

SubRow == [status : Status, started : Int, renew : BOOLEAN, expires : Int, grace : Int]

\* The rows and ends a handler remembers are rows and times.
DateCallOK(r) ==
    /\ r.end \in Int /\ r.row \in Rows \union {0}
    /\ r.pc \in AdminOps => r.row # 0
    /\ r.todo \subseteq [row : Rows, renew : BOOLEAN, expires : Int]

\* What is about to be written adds a period to the row as it is now.
Extends(r) == r.row # 0 => r.end >= subs[r.row].expires + Period
Alone == Together /\ "comp" \notin load.ops
WindowsOK ==
    Alone => \A c \in Calls :
        /\ ~At(c, "comp")
        /\ At(c, "window") => Extends(call[c]) /\ \A d \in Calls : At(d, "window") => d = c

DatesInv ==
    /\ subs \in Seq(SubRow) /\ now \in Int /\ load \in Workloads
    /\ \A c \in Calls : DateCallOK(call[c])
    /\ WindowsOK

LEMMA RowTyped ==
    ASSUME DatesInv, NEW q \in Rows
    PROVE  subs[q] \in SubRow /\ q \in 1 .. Len(subs)
BY LenProperties DEF DatesInv, Rows

\* A step of one handler; others keep what they know of the rows, which only grow.
LEMMA DatesMove ==
    ASSUME SaleInv, DatesInv, NEW c \in Calls, NEW new, call' = [call EXCEPT ![c] = new],
           load' = load, now' \in Int, subs' \in Seq(SubRow), Rows \subseteq Rows',
           DateCallOK(new)',
           Alone => /\ new.pc # "comp"
                    /\ new.pc = "window" => /\ Extends(new)'
                                            /\ \A d \in Calls : At(d, "window") => d = c
                    /\ ~At(c, "window") => \A q \in Rows : subs'[q].expires = subs[q].expires
    PROVE  DatesInv'
<1>1. call'[c] = new /\ \A d \in Calls : d # c => call'[d] = call[d]
  BY DEF SaleInv
<1>2. ASSUME NEW d \in Calls
      PROVE  DateCallOK(call[d])'
  <2>1. CASE d = c
    BY <1>1, <2>1 DEF DateCallOK, Rows
  <2>2. CASE d # c
    <3>1. PICK r : r = call[d] /\ call'[d] = r /\ DateCallOK(r)
      BY <1>1, <2>2 DEF DatesInv
    <3>2. PICK R, S : R = Rows /\ S = Rows' /\ R \subseteq S
      OBVIOUS
    <3>3. r.todo \subseteq [row : S, renew : BOOLEAN, expires : Int]
      BY <3>1, <3>2 DEF DateCallOK
    <3> QED BY <3>1, <3>2, <3>3 DEF DateCallOK
  <2> QED BY <2>1, <2>2
<1>3. WindowsOK'
  <2> SUFFICES ASSUME Alone, NEW d \in Calls
               PROVE  /\ ~At(d, "comp")'
                      /\ At(d, "window")' => /\ Extends(call[d])'
                                             /\ \A e \in Calls : At(e, "window")' => e = d
    BY DEF WindowsOK, Alone, Together
  <2>1. CASE d = c
    BY <1>1, <2>1 DEF At, Extends
  <2>2. CASE d # c
    <3>1. PICK r : r = call[d] /\ call'[d] = r
      BY <1>1, <2>2
    <3>2. /\ r.pc # "comp"
          /\ r.pc = "window" => Extends(r) /\ \A e \in Calls : At(e, "window") => e = d
      BY <3>1 DEF DatesInv, WindowsOK, At, Extends
    <3>3. ASSUME r.pc = "window"
          PROVE  Extends(r)' /\ \A e \in Calls : At(e, "window")' => e = d
      <4>1. ~At(c, "window") /\ new.pc # "window" /\ At(d, "window")
        BY <2>2, <3>1, <3>2, <3>3 DEF At
      <4>2. r.row # 0 => r.row \in Rows
        BY <3>1 DEF DatesInv, DateCallOK
      <4>3. r.row # 0 => subs'[r.row].expires = subs[r.row].expires
        BY <4>1, <4>2
      <4>4. Extends(r)'
        BY <3>2, <3>3, <4>3 DEF Extends
      <4> QED BY <1>1, <3>2, <3>3, <4>1, <4>4 DEF At
    <3> QED BY <3>1, <3>2, <3>3 DEF At, Extends
  <2> QED BY <2>1, <2>2
<1> QED BY <1>2, <1>3 DEF DatesInv

\* Nobody moves: the rows are changed by the user, or not at all.
LEMMA DatesStay ==
    ASSUME DatesInv, UNCHANGED <<call, load>>, now' \in Int, subs' \in Seq(SubRow),
           Rows' = Rows, \A q \in Rows : subs'[q].expires = subs[q].expires
    PROVE  DatesInv'
<1>1. \A d \in Calls : DateCallOK(call[d])'
  BY DEF DatesInv, DateCallOK
<1>2. ASSUME NEW d \in Calls, Extends(call[d])
      PROVE  Extends(call[d])'
  <2>1. call[d].row # 0 => call[d].row \in Rows
    BY DEF DatesInv, DateCallOK
  <2> QED BY <1>2, <2>1 DEF Extends
<1>3. WindowsOK'
  BY <1>2 DEF DatesInv, WindowsOK, At, Alone, Together
<1> QED BY <1>1, <1>3 DEF DatesInv

\* A step that touches no subscription and remembers nothing new about them.
LEMMA Quiet ==
    ASSUME SaleInv, DatesInv, NEW c \in Calls, NEW new, call' = [call EXCEPT ![c] = new],
           UNCHANGED <<load, now, subs>>,
           new.pc \notin AdminOps \union {"window"},
           new = Idle \/ (new.row = call[c].row /\ new.end = call[c].end
                              /\ new.todo = call[c].todo)
    PROVE  DatesInv'
<1>1. DateCallOK(call[c])
  BY DEF DatesInv
<1>2. DateCallOK(Idle)
  BY DEF DateCallOK, Idle, AdminOps
<1>3. DateCallOK(new)
  <2>1. CASE new = Idle
    BY <1>2, <2>1
  <2>2. CASE new.row = call[c].row /\ new.end = call[c].end /\ new.todo = call[c].todo
    BY <1>1, <2>2 DEF DateCallOK
  <2> QED BY <2>1, <2>2
<1>4. DateCallOK(new)' /\ Rows' = Rows
  BY <1>3 DEF DateCallOK, Rows
<1>5. new.pc # "comp" /\ new.pc # "window"
  BY DEF AdminOps
<1> QED BY <1>4, <1>5, DatesMove DEF DatesInv

LEMMA QuietEnd ==
    ASSUME SaleInv, DatesInv, NEW c \in Calls, Return(c), UNCHANGED <<load, now, subs>>
    PROVE  DatesInv'
<1>1. Idle.pc \notin AdminOps \union {"window"}
  BY DEF Idle, AdminOps
<1> QED BY <1>1, Quiet DEF Return

LEMMA QuietStep ==
    ASSUME SaleInv, DatesInv, NEW c \in Calls, NEW p, Continue(c, p),
           UNCHANGED <<load, now, subs>>, p \notin AdminOps \union {"window"}
    PROVE  DatesInv'
<1>1. PICK new : /\ call' = [call EXCEPT ![c] = new] /\ new.pc = p /\ new.row = call[c].row
                 /\ new.end = call[c].end /\ new.todo = call[c].todo
  BY GoingOn DEF SaleInv, CallOK
<1> QED BY <1>1, Quiet

\* Orders, money and entitlements.
LEMMA OrderDates ==
    ASSUME SaleInv, DatesInv, NEW c \in Calls, UNCHANGED subVars, OrderStep(c)
    PROVE  DatesInv'
<1>1. UNCHANGED <<load, now, subs>>
  BY DEF OrderStep, RecordCapture, ReadOrder, EnterActivation, CapturePayment, CompleteOrder,
     SettleRevenue, MarkSettled, AckWebhook, Carried, subVars
<1>2. {"order", "replay", "capture", "complete", "rows", "settle", "mark", "done"}
          \intersect (AdminOps \union {"window"}) = {}
  BY DEF AdminOps
<1>3. CASE ReadOrder(c)
  <2>1. PICK r : r = call[c] /\ IsCall(r)
    BY DEF SaleInv, CallOK
  <2>2. PICK new, seen : /\ call' = [call EXCEPT ![c] = new]
                         /\ new = [r EXCEPT !.pc = "enter", !.seen = seen]
    BY <1>3, <2>1 DEF ReadOrder
  <2>3. new = [pc |-> "enter", by |-> r.by, on |-> r.on, seen |-> seen, row |-> r.row,
               was |-> r.was, end |-> r.end, todo |-> r.todo, ents |-> r.ents]
    BY <2>1, <2>2 DEF IsCall
  <2>4. /\ new.pc \notin AdminOps \union {"window"}
        /\ new.row = r.row /\ new.end = r.end /\ new.todo = r.todo
    BY <2>3 DEF AdminOps
  <2> QED BY <1>1, <2>1, <2>2, <2>4, Quiet
<1>4. CASE ~ReadOrder(c)
  <2>1. \/ Return(c)
        \/ \E p \in {"order", "replay", "capture", "complete", "rows", "settle", "mark",
                     "done"} : Continue(c, p)
    BY <1>4 DEF OrderStep, RecordCapture, EnterActivation, CapturePayment, CompleteOrder,
       SettleRevenue, MarkSettled, AckWebhook, Route
  <2> QED BY <1>1, <1>2, <2>1, QuietEnd, QuietStep
<1> QED BY <1>3, <1>4

LEMMA AccessDates ==
    ASSUME SaleInv, DatesInv, NEW c \in Calls, UNCHANGED subVars, AccessStep(c)
    PROVE  DatesInv'
<1>1. PICK r : r = call[c] /\ CallOK(r) /\ IsCall(r)
  BY DEF SaleInv, CallOK
<1>2. r.pc \in Access /\ UNCHANGED <<load, now, subs>>
  BY <1>1 DEF AccessStep, LookForGrant, InsertGrant, PushExpiry, LookToExtend, ExtendRow,
     LookToRevoke, RevokeRow, LookFor, At, Access, Carried, NextRow, subVars
<1>3. ASSUME NEW p, p \in Access \/ p = AfterAccess(c)
      PROVE  p \notin AdminOps \union {"window"}
  BY <1>3 DEF Access, AfterAccess, AdminOps
<1>4. CASE InsertGrant(c) \/ PushExpiry(c)
  BY <1>2, <1>3, <1>4, QuietStep DEF InsertGrant, PushExpiry
<1>5. ASSUME NEW p, NEW E, p \in Access \/ p = AfterAccess(c),
             call' = [call EXCEPT ![c] = [r EXCEPT !.ents = E, !.pc = p]]
      PROVE  DatesInv'
  <2>1. PICK new : /\ call' = [call EXCEPT ![c] = new]
                   /\ new = [r EXCEPT !.ents = E, !.pc = p]
    BY <1>5
  <2>2. new = [pc |-> p, by |-> r.by, on |-> r.on, seen |-> r.seen, row |-> r.row,
               was |-> r.was, end |-> r.end, todo |-> r.todo, ents |-> E]
    BY <1>1, <2>1 DEF IsCall
  <2>3. new.pc = p /\ new.row = r.row /\ new.end = r.end /\ new.todo = r.todo
    BY <2>2
  <2> QED BY <1>1, <1>2, <1>3, <1>5, <2>1, <2>3, Quiet
<1>6. CASE LookForGrant(c)
  <2>1. CASE Continue(c, "insert")
    BY <1>2, <1>3, <2>1, QuietStep DEF Access
  <2>2. ASSUME NEW e,
               call' = [call EXCEPT ![c].ents = {e},
                   ![c].pc = IF ents[e].expires < call[c].end THEN "push" ELSE AfterAccess(c)]
        PROVE  DatesInv'
    <3>1. PICK p : p = IF ents[e].expires < call[c].end THEN "push" ELSE AfterAccess(c)
      OBVIOUS
    <3>2. p \in Access \/ p = AfterAccess(c)
      BY <3>1 DEF Access
    <3>3. call' = [call EXCEPT ![c] = [r EXCEPT !.ents = {e}, !.pc = p]]
      BY <1>1, <2>2, <3>1
    <3> QED BY <1>5, <3>2, <3>3
  <2> QED BY <1>6, <2>1, <2>2, Zenon DEF LookForGrant
<1>7. ASSUME NEW at, NEW then \in Access, NEW found, LookFor(c, at, then, found)
      PROVE  DatesInv'
  <2>1. PICK p : p = IF found = {} THEN AfterAccess(c) ELSE then
    OBVIOUS
  <2>2. p \in Access \/ p = AfterAccess(c)
    BY <2>1
  <2>3. call' = [call EXCEPT ![c] = [r EXCEPT !.ents = found, !.pc = p]]
    BY <1>1, <1>7, <2>1 DEF LookFor
  <2> QED BY <1>5, <2>2, <2>3
<1>8. CASE LookToExtend(c) \/ LookToRevoke(c)
  <2>1. "extending" \in Access /\ "revoking" \in Access
    BY DEF Access
  <2> QED BY <1>7, <1>8, <2>1 DEF LookToExtend, LookToRevoke
<1>9. ASSUME NEW e, NextRow(c, e)
      PROVE  DatesInv'
  <2>1. PICK p \in {r.pc, AfterAccess(c)} :
           call' = [call EXCEPT ![c] = [r EXCEPT !.ents = r.ents \ {e}, !.pc = p]]
    <3>1. PICK p \in {call[c].pc, AfterAccess(c)} :
             call' = [call EXCEPT ![c] = [call[c] EXCEPT !.ents = call[c].ents \ {e}, !.pc = p]]
      BY <1>9, NextRowMoves
    <3> QED BY <1>1, <3>1
  <2> QED BY <1>2, <1>5, <2>1
<1>10. CASE ExtendRow(c) \/ RevokeRow(c)
  BY <1>9, <1>10 DEF ExtendRow, RevokeRow
<1> QED BY <1>4, <1>6, <1>8, <1>10 DEF AccessStep

\* The handlers begin with nothing remembered, an administrator with the row read.
LEMMA BeginDates ==
    ASSUME SaleInv, DatesInv, NEW c \in Calls,
           \/ \E o \in Orders : Deliver(c, o) /\ UNCHANGED subVars
           \/ \E o \in Orders : Activate(c, o) /\ UNCHANGED subVars
           \/ Sweep(c)
           \/ \E q \in Rows : AdminRead(c, q)
    PROVE  DatesInv'
<1>1. ASSUME NEW new, NEW p \in {"event", "order", "due"}, NEW by, NEW on, NEW was,
             call' = [call EXCEPT ![c] = new],
             new = [pc |-> p, by |-> by, on |-> on, seen |-> "none", row |-> 0,
                    was |-> was, end |-> 0, todo |-> {}, ents |-> {}],
             UNCHANGED <<load, subVars>>
      PROVE  DatesInv'
  <2>1. DateCallOK(new)' /\ new.pc # "comp" /\ new.pc # "window"
    BY <1>1 DEF DateCallOK, AdminOps
  <2> QED BY <1>1, <2>1, DatesMove DEF DatesInv, subVars, Rows
<1>2. CASE \E o \in Orders : Deliver(c, o) /\ UNCHANGED subVars
  <2>1. PICK o \in Orders : Deliver(c, o) /\ UNCHANGED subVars
    BY <1>2
  <2>2. PICK new : /\ new = [Idle EXCEPT !.pc = "event", !.by = "webhook", !.on = o]
                   /\ call' = [call EXCEPT ![c] = new] /\ UNCHANGED <<load, subVars>>
    BY <2>1 DEF Deliver, Begin, Carried
  <2>3. new = [pc |-> "event", by |-> "webhook", on |-> o, seen |-> "none", row |-> 0,
               was |-> "none", end |-> 0, todo |-> {}, ents |-> {}]
    BY <2>2 DEF Idle
  <2> QED BY <1>1, <2>2, <2>3
<1>3. CASE \E o \in Orders : Activate(c, o) /\ UNCHANGED subVars
  <2>1. PICK o \in Orders : Activate(c, o) /\ UNCHANGED subVars
    BY <1>3
  <2>2. PICK new : /\ new = [Idle EXCEPT !.pc = "order", !.by = "user", !.on = o]
                   /\ call' = [call EXCEPT ![c] = new] /\ UNCHANGED <<load, subVars>>
    BY <2>1 DEF Activate, Begin
  <2>3. new = [pc |-> "order", by |-> "user", on |-> o, seen |-> "none", row |-> 0,
               was |-> "none", end |-> 0, todo |-> {}, ents |-> {}]
    BY <2>2 DEF Idle
  <2> QED BY <1>1, <2>2, <2>3
<1>4. CASE Sweep(c)
  <2>1. PICK new : /\ new = [Idle EXCEPT !.pc = "due", !.by = "sweep", !.was = "ACTIVE"]
                   /\ call' = [call EXCEPT ![c] = new] /\ UNCHANGED <<load, subVars>>
    BY <1>4 DEF Sweep, Begin
  <2>2. new = [pc |-> "due", by |-> "sweep", on |-> "none", seen |-> "none", row |-> 0,
               was |-> "ACTIVE", end |-> 0, todo |-> {}, ents |-> {}]
    BY <2>1 DEF Idle
  <2> QED BY <1>1, <2>1, <2>2
<1>5. ASSUME NEW op \in AdminOps, NEW q \in Rows, NEW from, NEW end \in Int,
             Read(c, op, q, from, end)
      PROVE  DatesInv'
  <2>1. PICK new, was :
           /\ new = [Idle EXCEPT !.pc = op, !.by = "admin", !.row = q, !.was = was, !.end = end]
           /\ call' = [call EXCEPT ![c] = new]
           /\ UNCHANGED <<load, subVars>> /\ op \in load.ops
    BY <1>5 DEF Read, Begin, Occurs
  <2>2. new = [pc |-> op, by |-> "admin", on |-> "none", seen |-> "none", row |-> q,
               was |-> was, end |-> end, todo |-> {}, ents |-> {}]
    BY <2>1 DEF Idle
  <2>3. q \in Rows' /\ q # 0
    BY <2>1, LenProperties DEF subVars, Rows, DatesInv
  <2>4. DateCallOK(new)' /\ new.pc # "window" /\ (Alone => new.pc # "comp")
    <3>1. new.pc = op /\ new.row = q /\ new.end = end /\ new.todo = {}
      BY <2>2
    <3>2. op # "window" /\ (Alone => op # "comp")
      BY <2>1 DEF AdminOps, Alone
    <3>3. DateCallOK(new)'
      BY <2>3, <3>1 DEF DateCallOK
    <3> QED BY <3>1, <3>2, <3>3
  <2> QED BY <2>1, <2>4, DatesMove DEF DatesInv, subVars, Rows
<1>6. CASE \E q \in Rows : AdminRead(c, q)
  <2>1. "comp" \in AdminOps /\ "grant_grace" \in AdminOps /\ "expire" \in AdminOps
        /\ "stop" \in AdminOps
    BY DEF AdminOps
  <2>2. PICK q \in Rows : AdminRead(c, q)
    BY <1>6
  <2>3. subs[q].expires \in Int
    <3>1. subs[q] \in SubRow
      BY <2>2, RowTyped
    <3> QED BY <3>1 DEF SubRow
  <2>4. /\ now + Period \in Int /\ 0 \in Int
        /\ \A g \in Courtesies : Later(now, subs[q].expires) + g \in Int
    <3>1. now \in Int /\ Period \in Int /\ Courtesies \subseteq Int
      BY PeriodAssumption DEF DatesInv
    <3>2. Later(now, subs[q].expires) \in Int
      BY <2>3, <3>1, Zenon DEF Later
    <3>3. \A x \in Int : \A g \in Courtesies : x + g \in Int
      BY <3>1
    <3>4. now + Period \in Int /\ 0 \in Int
      BY <3>1
    <3> QED BY <3>2, <3>3, <3>4, Zenon
  <2> QED BY <1>5, <2>1, <2>2, <2>4, Zenon DEF AdminRead
<1> QED BY <1>2, <1>3, <1>4, <1>6

\* One row is written.
LEMMA RowWritten ==
    ASSUME DatesInv, NEW q \in Rows, NEW row \in SubRow, subs' = [subs EXCEPT ![q] = row]
    PROVE  /\ subs' \in Seq(SubRow) /\ Rows' = Rows /\ subs'[q] = row
           /\ \A p \in Rows : p # q => subs'[p] = subs[p]
<1>1. subs \in Seq(SubRow) /\ q \in 1 .. Len(subs)
  BY RowTyped DEF DatesInv
<1>2. subs' \in Seq(SubRow)
  BY <1>1, ExceptSeq
<1> QED BY <1>2 DEF Rows

\* Only the status, the renewal or the grace of a row is written.
LEMMA RowChanged ==
    ASSUME DatesInv, NEW q \in Rows, NEW row \in SubRow, row.expires = subs[q].expires,
           subs' = [subs EXCEPT ![q] = row]
    PROVE  /\ subs' \in Seq(SubRow) /\ Rows' = Rows
           /\ \A p \in Rows : subs'[p].expires = subs[p].expires
BY RowWritten

\* The row to extend is read, with nobody else about to write.
LEMMA UpsertDates ==
    ASSUME SaleInv, DatesInv, NEW c \in Calls, EnterUpsert(c)
    PROVE  DatesInv'
<1>1. PICK r : r = call[c] /\ IsCall(r)
  BY DEF SaleInv, CallOK
<1>2. UNCHANGED <<load, now, subs>> /\ DateCallOK(r) /\ now \in Int /\ Period \in Int
  <2>1. UNCHANGED <<load, now, subs>>
    BY DEF EnterUpsert, ReadRows, Carried, subVars
  <2>2. Period \in Int
    BY PeriodAssumption
  <2> QED BY <1>1, <2>1, <2>2 DEF DatesInv
<1>3. Alone => \A d \in Calls : At(d, "window") => d = c
  BY DEF EnterUpsert, Neighbour, Alone, Together
<1>4. ASSUME NEW new, NEW q \in Rows \union {0}, NEW end \in Int,
             call' = [call EXCEPT ![c] = new], new.pc = "window", new.row = q, new.end = end,
             new.todo = r.todo, q # 0 => end >= subs[q].expires + Period
      PROVE  DatesInv'
  <2>1. DateCallOK(new)' /\ Extends(new)'
    BY <1>2, <1>4 DEF DateCallOK, AdminOps, Extends, Rows
  <2> QED BY <1>2, <1>3, <1>4, <2>1, DatesMove DEF DatesInv, Rows
<1>5. CASE call' = [call EXCEPT ![c].pc = "window", ![c].row = 0, ![c].end = now + Period]
  <2>1. PICK end \in Int : end = now + Period
    BY <1>2
  <2>2. PICK new : /\ call' = [call EXCEPT ![c] = new]
                   /\ new = [r EXCEPT !.pc = "window", !.row = 0, !.end = end]
    BY <1>1, <1>5, <2>1
  <2>3. new = [pc |-> "window", by |-> r.by, on |-> r.on, seen |-> r.seen, row |-> 0,
               was |-> r.was, end |-> end, todo |-> r.todo, ents |-> r.ents]
    BY <1>1, <2>2 DEF IsCall
  <2>4. new.pc = "window" /\ new.row = 0 /\ new.end = end /\ new.todo = r.todo
    BY <2>3
  <2> QED BY <1>4, <2>2, <2>4
<1>6. ASSUME NEW q \in LiveRows,
             call' = [call EXCEPT ![c].pc = "window", ![c].row = q,
                                  ![c].was = subs[q].status,
                                  ![c].end = Later(subs[q].expires, now) + Period]
      PROVE  DatesInv'
  <2>1. q \in Rows /\ subs[q].expires \in Int
    BY RowTyped DEF LiveRows, SubRow
  <2>2. PICK was, end : was = subs[q].status /\ end = Later(subs[q].expires, now) + Period
    OBVIOUS
  <2>3. end \in Int /\ end >= subs[q].expires + Period
    BY <1>2, <2>1, <2>2 DEF Later
  <2>4. PICK new : /\ call' = [call EXCEPT ![c] = new]
                   /\ new = [r EXCEPT !.pc = "window", !.row = q, !.was = was, !.end = end]
    BY <1>1, <1>6, <2>2
  <2>5. new = [pc |-> "window", by |-> r.by, on |-> r.on, seen |-> r.seen, row |-> q,
               was |-> was, end |-> end, todo |-> r.todo, ents |-> r.ents]
    BY <1>1, <2>4 DEF IsCall
  <2>6. new.pc = "window" /\ new.row = q /\ new.end = end /\ new.todo = r.todo
    BY <2>5
  <2> QED BY <1>4, <2>1, <2>3, <2>4, <2>6
<1> QED BY <1>5, <1>6, Zenon DEF EnterUpsert, ReadRows

\* The write itself: a new row, or the period that was added to the row it was read of.
LEMMA WriteDates ==
    ASSUME SaleInv, DatesInv, NEW c \in Calls, WriteWindow(c)
    PROVE  /\ DatesInv'
           /\ Alone /\ windows' # windows =>
                 \/ Len(subs') > Len(subs)
                 \/ \E q \in Rows : subs'[q].expires >= subs[q].expires + Period
<1>1. PICK r : r = call[c] /\ DateCallOK(r) /\ r.pc = "window"
  BY DEF SaleInv, DatesInv, WriteWindow, At
<1>2. UNCHANGED <<load, now>> /\ now \in Int /\ At(c, "window")
  BY DEF WriteWindow, Carried, DatesInv
<1>3. CASE Return(c) /\ UNCHANGED <<subs, windows>>
  BY <1>2, <1>3, QuietEnd
<1>4. ASSUME Continue(c, "grant"), subs' \in Seq(SubRow), Rows \subseteq Rows'
      PROVE  DatesInv'
  <2>1. PICK new : /\ call' = [call EXCEPT ![c] = new] /\ new.pc = "grant"
                   /\ new.row = r.row /\ new.end = r.end /\ new.todo = r.todo
    BY <1>1, <1>4, GoingOn DEF SaleInv, CallOK
  <2>2. DateCallOK(new)'
    <3>1. PICK R, S : R = Rows /\ S = Rows' /\ R \subseteq S
      BY <1>4
    <3>2. r.todo \subseteq [row : S, renew : BOOLEAN, expires : Int]
      BY <1>1, <3>1 DEF DateCallOK
    <3> QED BY <1>1, <2>1, <3>1, <3>2 DEF DateCallOK, AdminOps
  <2> QED BY <1>2, <1>4, <2>1, <2>2, DatesMove DEF DatesInv
<1>5. CASE /\ Continue(c, "grant")
           /\ subs' = Append(subs, [status |-> "ACTIVE", started |-> now, renew |-> TRUE,
                                    expires |-> call[c].end, grace |-> 0])
  <2>1. PICK row \in SubRow : subs' = Append(subs, row)
    <3>1. /\ r.end \in Int
          /\ subs' = Append(subs, [status |-> "ACTIVE", started |-> now, renew |-> TRUE,
                                   expires |-> r.end, grace |-> 0])
      BY <1>1, <1>5 DEF DateCallOK
    <3>2. [status |-> "ACTIVE", started |-> now, renew |-> TRUE,
           expires |-> r.end, grace |-> 0] \in SubRow
      BY <1>2, <3>1 DEF SubRow, Status, Live
    <3> QED BY <3>1, <3>2
  <2>2. /\ subs' \in Seq(SubRow) /\ Len(subs') = Len(subs) + 1 /\ Len(subs) \in Nat
        /\ Rows = 1 .. Len(subs) /\ Rows' = 1 .. Len(subs')
    BY <2>1, AppendProperties, LenProperties DEF DatesInv, Rows
  <2> QED BY <1>4, <1>5, <2>2
<1>6. CASE /\ Continue(c, "grant") /\ call[c].row # 0
           /\ subs' = [subs EXCEPT ![call[c].row].status = "ACTIVE", ![call[c].row].grace = 0,
                                   ![call[c].row].expires = call[c].end]
  <2>1. PICK q \in Rows : q = r.row /\ q # 0
    BY <1>1, <1>6 DEF DateCallOK
  <2>2. PICK row \in SubRow : subs' = [subs EXCEPT ![q] = row] /\ row.expires = r.end
    <3>1. subs[q] \in SubRow /\ r.end \in Int
      BY <1>1, RowTyped DEF DateCallOK
    <3>2. PICK old \in SubRow : old = subs[q]
      BY <3>1
    <3>3. PICK row : /\ subs' = [subs EXCEPT ![q] = row]
                     /\ row = [old EXCEPT !.status = "ACTIVE", !.grace = 0, !.expires = r.end]
      BY <1>1, <1>6, <2>1, <3>2
    <3>4. row = [status |-> "ACTIVE", started |-> old.started, renew |-> old.renew,
                 expires |-> r.end, grace |-> 0]
      BY <3>3 DEF SubRow
    <3>5. row \in SubRow /\ row.expires = r.end
      BY <3>1, <3>4 DEF SubRow, Status, Live
    <3> QED BY <3>3, <3>5
  <2>3. subs' \in Seq(SubRow) /\ Rows' = Rows /\ subs'[q] = row
    BY <2>2, RowWritten
  <2>4. Alone => r.end >= subs[q].expires + Period
    BY <1>1, <1>2, <2>1 DEF DatesInv, WindowsOK, Extends
  <2> QED BY <1>4, <1>6, <2>2, <2>3, <2>4
<1> QED BY <1>3, <1>5, <1>6, Zenon DEF WriteWindow

\* The fields of a row that the sweep, the user and administrators write.
LEMMA ChangedStatus ==
    ASSUME NEW old \in SubRow, NEW st \in Status
    PROVE  /\ [old EXCEPT !.status = st] \in SubRow
           /\ [old EXCEPT !.status = st].expires = old.expires
BY DEF SubRow

LEMMA ChangedRenewal ==
    ASSUME NEW old \in SubRow, NEW b \in BOOLEAN
    PROVE  /\ [old EXCEPT !.renew = b] \in SubRow
           /\ [old EXCEPT !.renew = b].expires = old.expires
BY DEF SubRow

\* The sweep finds what is due, and ends or extends row after row.
LEMMA SweepDates ==
    ASSUME SaleInv, DatesInv, NEW c \in Calls, SweepStep(c)
    PROVE  DatesInv'
<1>1. PICK r : r = call[c] /\ IsCall(r) /\ DateCallOK(r)
  BY DEF SaleInv, CallOK, DatesInv
<1>2. UNCHANGED <<load, now>> /\ now \in Int /\ r.pc \in {"due", "sweep"}
  BY <1>1 DEF SweepStep, ReadDue, NextStage, SweepRow, At, Carried, subVars, DatesInv
<1>3. ASSUME NEW new, NEW p \in {"sweep", "extend", "revoke"}, NEW end \in Int,
             NEW T \in SUBSET [row : Rows, renew : BOOLEAN, expires : Int],
             call' = [call EXCEPT ![c] = new],
             new = [pc |-> p, by |-> r.by, on |-> r.on, seen |-> r.seen, row |-> r.row,
                    was |-> r.was, end |-> end, todo |-> T, ents |-> r.ents],
             subs' \in Seq(SubRow), Rows' = Rows,
             \A q \in Rows : subs'[q].expires = subs[q].expires
      PROVE  DatesInv'
  <2>1. new.pc = p /\ new.row = r.row /\ new.end = end /\ new.todo = T
    BY <1>3
  <2>2. PICK R : R = Rows
    OBVIOUS
  <2>3. T \subseteq [row : R, renew : BOOLEAN, expires : Int] /\ R = Rows'
    BY <1>3, <2>2
  <2>4. DateCallOK(new)'
    BY <1>1, <2>1, <2>2, <2>3 DEF DateCallOK, AdminOps
  <2> QED BY <1>2, <1>3, <2>1, <2>4, DatesMove
<1>4. subs \in Seq(SubRow)
  BY DEF DatesInv
<1>5. CASE ReadDue(c)
  <2>1. PICK T : T = {[row |-> q, renew |-> subs[q].renew, expires |-> subs[q].expires] :
                         q \in Due(call[c].was)}
    OBVIOUS
  <2>2. T \in SUBSET [row : Rows, renew : BOOLEAN, expires : Int]
    BY <2>1, RowTyped DEF Due, SubRow
  <2>3. PICK new : call' = [call EXCEPT ![c] = new] /\ new = [r EXCEPT !.pc = "sweep", !.todo = T]
    BY <1>1, <1>5, <2>1 DEF ReadDue
  <2>4. new = [pc |-> "sweep", by |-> r.by, on |-> r.on, seen |-> r.seen, row |-> r.row,
               was |-> r.was, end |-> r.end, todo |-> T, ents |-> r.ents]
    BY <1>1, <2>3 DEF IsCall
  <2>5. subs' = subs /\ r.end \in Int
    BY <1>1, <1>5 DEF ReadDue, subVars, DateCallOK
  <2> QED BY <1>3, <1>4, <2>2, <2>3, <2>4, <2>5 DEF Rows
<1>6. CASE NextStage(c)
  <2>1. UNCHANGED <<load, now, subs>>
    BY <1>2, <1>6 DEF NextStage, subVars
  <2>2. ASSUME NEW was, call' = [call EXCEPT ![c].pc = "due", ![c].was = was]
        PROVE  DatesInv'
    <3>1. PICK new : call' = [call EXCEPT ![c] = new] /\ new = [r EXCEPT !.pc = "due", !.was = was]
      BY <1>1, <2>2
    <3>2. new = [pc |-> "due", by |-> r.by, on |-> r.on, seen |-> r.seen, row |-> r.row,
                 was |-> was, end |-> r.end, todo |-> r.todo, ents |-> r.ents]
      BY <1>1, <3>1 DEF IsCall
    <3>3. /\ new.pc \notin AdminOps \union {"window"}
          /\ new.row = r.row /\ new.end = r.end /\ new.todo = r.todo
      BY <3>2 DEF AdminOps
    <3> QED BY <1>1, <2>1, <3>1, <3>3, Quiet
  <2>3. CASE Return(c)
    BY <2>1, <2>3, QuietEnd
  <2> QED BY <1>6, <2>2, <2>3, Zenon DEF NextStage
<1>7. CASE SweepRow(c)
  <2>1. PICK s \in r.todo :
           LET rest == r.todo \ {s} IN
           \/ Moved(c, rest) /\ UNCHANGED subs
           \/ /\ call' = [call EXCEPT ![c].pc = "extend", ![c].todo = rest,
                                      ![c].end = AccessUntil(s)]
              /\ subs' = [subs EXCEPT ![s.row].status = "GRACE_PERIOD",
                                      ![s.row].grace = s.expires + Grace]
           \/ /\ call' = [call EXCEPT ![c].pc = "revoke", ![c].todo = rest]
              /\ subs' = [subs EXCEPT ![s.row].status = "EXPIRED"]
    BY <1>1, <1>7 DEF SweepRow
  <2>2. /\ s.row \in Rows /\ s.expires \in Int /\ Grace \in Int
        /\ r.todo \ {s} \in SUBSET [row : Rows, renew : BOOLEAN, expires : Int]
        /\ r.pc = "sweep" /\ r.end \in Int
    BY <1>1, <1>7, PeriodAssumption DEF DateCallOK, SweepRow, At
  <2>3. PICK q \in Rows : q = s.row
    BY <2>2
  <2>4. PICK old \in SubRow : old = subs[q]
    BY RowTyped
  <2>5. PICK T \in SUBSET [row : Rows, renew : BOOLEAN, expires : Int] : T = r.todo \ {s}
    BY <2>2
  <2>6. PICK end \in Int : end = s.expires + Grace
    BY <2>2
  <2>7. "GRACE_PERIOD" \in Status /\ "EXPIRED" \in Status
    BY DEF Status, Live
  <2>8. CASE Moved(c, r.todo \ {s}) /\ UNCHANGED subs
    <3>1. PICK new : call' = [call EXCEPT ![c] = new] /\ new = [r EXCEPT !.todo = T]
      BY <1>1, <2>5, <2>8 DEF Moved
    <3>2. new = [pc |-> "sweep", by |-> r.by, on |-> r.on, seen |-> r.seen, row |-> r.row,
                 was |-> r.was, end |-> r.end, todo |-> T, ents |-> r.ents]
      BY <1>1, <2>2, <3>1 DEF IsCall
    <3> QED BY <1>3, <1>4, <2>2, <2>8, <3>1, <3>2 DEF Rows
  <2>9. CASE /\ call' = [call EXCEPT ![c].pc = "extend", ![c].todo = r.todo \ {s},
                                     ![c].end = AccessUntil(s)]
             /\ subs' = [subs EXCEPT ![s.row].status = "GRACE_PERIOD",
                                     ![s.row].grace = s.expires + Grace]
    <3>1. PICK new : /\ call' = [call EXCEPT ![c] = new]
                     /\ new = [r EXCEPT !.pc = "extend", !.todo = T, !.end = end]
      BY <1>1, <2>5, <2>6, <2>9 DEF AccessUntil
    <3>2. new = [pc |-> "extend", by |-> r.by, on |-> r.on, seen |-> r.seen, row |-> r.row,
                 was |-> r.was, end |-> end, todo |-> T, ents |-> r.ents]
      BY <1>1, <3>1 DEF IsCall
    <3>3. PICK row : /\ subs' = [subs EXCEPT ![q] = row]
                     /\ row = [old EXCEPT !.status = "GRACE_PERIOD", !.grace = end]
      BY <2>3, <2>4, <2>6, <2>9
    <3>4. row \in SubRow /\ row.expires = subs[q].expires
      <4>1. row = [status |-> "GRACE_PERIOD", started |-> old.started, renew |-> old.renew,
                   expires |-> old.expires, grace |-> end]
        BY <2>4, <3>3 DEF SubRow
      <4> QED BY <2>4, <2>6, <2>7, <4>1 DEF SubRow
    <3> QED BY <1>3, <2>6, <3>1, <3>2, <3>3, <3>4, RowChanged
  <2>10. CASE /\ call' = [call EXCEPT ![c].pc = "revoke", ![c].todo = r.todo \ {s}]
              /\ subs' = [subs EXCEPT ![s.row].status = "EXPIRED"]
    <3>1. PICK new : /\ call' = [call EXCEPT ![c] = new]
                     /\ new = [r EXCEPT !.pc = "revoke", !.todo = T]
      BY <1>1, <2>5, <2>10
    <3>2. new = [pc |-> "revoke", by |-> r.by, on |-> r.on, seen |-> r.seen, row |-> r.row,
                 was |-> r.was, end |-> r.end, todo |-> T, ents |-> r.ents]
      BY <1>1, <3>1 DEF IsCall
    <3>3. subs' = [subs EXCEPT ![q] = [old EXCEPT !.status = "EXPIRED"]]
      BY <2>3, <2>4, <2>10
    <3>4. PICK row \in SubRow : subs' = [subs EXCEPT ![q] = row] /\ row.expires = subs[q].expires
      BY <2>4, <2>7, <3>3, ChangedStatus
    <3> QED BY <1>3, <2>2, <3>1, <3>2, <3>4, RowChanged
  <2> QED BY <2>1, <2>8, <2>9, <2>10
<1> QED BY <1>5, <1>6, <1>7 DEF SweepStep

\* An administrator comps nothing while Alone holds; the rest leaves the expiry alone.
LEMMA AdminDates ==
    ASSUME SaleInv, DatesInv, NEW c \in Calls, AdminWrite(c)
    PROVE  DatesInv'
<1>1. PICK r : r = call[c] /\ DateCallOK(r)
  BY DEF DatesInv
<1>2. /\ UNCHANGED <<load, now>> /\ now \in Int /\ r.pc \in AdminOps
      /\ r.row \in Rows /\ r.end \in Int
  BY <1>1 DEF AdminWrite, Write, At, Carried, AdminOps, DateCallOK, DatesInv
<1>3. PICK q \in Rows, old \in SubRow : q = r.row /\ old = subs[q]
  BY <1>2, RowTyped
<1>4. PICK end \in Int : end = r.end
  BY <1>2
<1>5. CASE Return(c) /\ UNCHANGED subs
  BY <1>2, <1>5, QuietEnd
<1>6. ASSUME NEW p \in {"grant", "extend", "revoke"}, Continue(c, p), NEW row \in SubRow,
             subs' = [subs EXCEPT ![q] = row],
             row.expires = old.expires \/ At(c, "comp")
      PROVE  DatesInv'
  <2>1. PICK new : /\ call' = [call EXCEPT ![c] = new] /\ new.pc = p
                   /\ new.row = r.row /\ new.end = r.end /\ new.todo = r.todo
    BY <1>1, <1>6, GoingOn DEF SaleInv, CallOK
  <2>2. subs' \in Seq(SubRow) /\ Rows' = Rows
    BY <1>6, RowWritten
  <2>3. Alone => \A k \in Rows : subs'[k].expires = subs[k].expires
    <3>1. Alone => row.expires = subs[q].expires
      BY <1>3, <1>6 DEF DatesInv, WindowsOK
    <3> QED BY <1>6, <3>1, RowChanged
  <2>4. DateCallOK(new)'
    BY <1>1, <2>1, <2>2 DEF DateCallOK, AdminOps
  <2> QED BY <1>2, <2>1, <2>2, <2>3, <2>4, DatesMove
<1>7. CASE /\ Continue(c, "grant") /\ At(c, "comp")
           /\ subs' = [subs EXCEPT ![r.row] = [subs[r.row] EXCEPT !.status = "ACTIVE",
                           !.started = now, !.expires = r.end, !.grace = 0]]
  <2>0. PICK t \in Int : t = now
    BY <1>2
  <2>1. PICK row :
           /\ row = [old EXCEPT !.status = "ACTIVE", !.started = t, !.expires = end, !.grace = 0]
           /\ subs' = [subs EXCEPT ![q] = row]
    BY <1>3, <1>4, <1>7, <2>0
  <2>2. row = [status |-> "ACTIVE", started |-> t, renew |-> old.renew, expires |-> end,
               grace |-> 0]
    BY <1>3, <2>1 DEF SubRow
  <2>3. row \in SubRow
    BY <1>3, <1>4, <2>0, <2>2 DEF SubRow, Status, Live
  <2> QED BY <1>6, <1>7, <2>1, <2>3
<1>8. CASE /\ Continue(c, "extend")
           /\ subs' = [subs EXCEPT ![r.row] = [subs[r.row] EXCEPT !.status = "GRACE_PERIOD",
                                                                  !.grace = r.end]]
  <2>1. PICK row : /\ subs' = [subs EXCEPT ![q] = row]
                   /\ row = [old EXCEPT !.status = "GRACE_PERIOD", !.grace = end]
    BY <1>3, <1>4, <1>8
  <2>2. "GRACE_PERIOD" \in Status
    BY DEF Status, Live
  <2>3. row \in SubRow /\ row.expires = old.expires
    <3>1. row = [status |-> "GRACE_PERIOD", started |-> old.started, renew |-> old.renew,
                 expires |-> old.expires, grace |-> end]
      BY <1>3, <2>1 DEF SubRow
    <3> QED BY <1>3, <1>4, <2>2, <3>1 DEF SubRow
  <2> QED BY <1>6, <1>8, <2>1, <2>3
<1>9. ASSUME NEW st \in Status, Continue(c, "revoke"),
             subs' = [subs EXCEPT ![r.row] = [subs[r.row] EXCEPT !.status = st]]
      PROVE  DatesInv'
  <2>1. subs' = [subs EXCEPT ![q] = [old EXCEPT !.status = st]]
    BY <1>3, <1>9
  <2>2. PICK row \in SubRow : subs' = [subs EXCEPT ![q] = row] /\ row.expires = old.expires
    BY <2>1, ChangedStatus
  <2> QED BY <1>6, <1>9, <2>2
<1>10. "EXPIRED" \in Status /\ "CANCELLED" \in Status
  BY DEF Status
<1> QED BY <1>1, <1>5, <1>7, <1>8, <1>9, <1>10 DEF AdminWrite, Write

\* The user, and time.
LEMMA UserDates ==
    ASSUME DatesInv, NEW q \in Rows,
           CancelSubscription(q) \/ ResumeSubscription(q) \/ SetAutoRenew(q)
    PROVE  DatesInv'
<1>1. PICK old \in SubRow : old = subs[q]
  BY RowTyped
<1>2. UNCHANGED <<call, load>> /\ now' = now /\ now \in Int
  BY DEF CancelSubscription, ResumeSubscription, SetAutoRenew, Change, DatesInv
<1>3. PICK row \in SubRow : subs' = [subs EXCEPT ![q] = row] /\ row.expires = subs[q].expires
  <2>1. "CANCELLED" \in Status /\ "ACTIVE" \in Status
    BY DEF Status, Live
  <2>2. CASE CancelSubscription(q)
    <3>1. subs' = [subs EXCEPT ![q] = [old EXCEPT !.status = "CANCELLED"]]
      BY <1>1, <2>2 DEF CancelSubscription, Change
    <3> QED BY <1>1, <2>1, <3>1, ChangedStatus
  <2>3. CASE ResumeSubscription(q)
    <3>1. subs' = [subs EXCEPT ![q] = [old EXCEPT !.status = "ACTIVE"]]
      BY <1>1, <2>3 DEF ResumeSubscription, Change
    <3> QED BY <1>1, <2>1, <3>1, ChangedStatus
  <2>4. CASE SetAutoRenew(q)
    <3>1. PICK b \in BOOLEAN : b = ~old.renew
      OBVIOUS
    <3>2. subs' = [subs EXCEPT ![q] = [old EXCEPT !.renew = b]]
      BY <1>1, <2>4, <3>1 DEF SetAutoRenew, Change
    <3> QED BY <1>1, <3>2, ChangedRenewal
  <2> QED BY <2>2, <2>3, <2>4
<1> QED BY <1>2, <1>3, RowChanged, DatesStay

\* Every window is right, and every write of one adds what was paid for.
THEOREM DatesInvariant == Spec => [](SaleInv /\ DatesInv)
<1>1. Init => DatesInv
  <2> SUFFICES ASSUME Init
               PROVE  DatesInv
    OBVIOUS
  <2>1. /\ call = [c \in Calls |-> Idle] /\ load \in Workloads /\ now = 0
        /\ subs = [i \in 1 .. load.rows |-> [status |-> "ACTIVE", started |-> 0,
                                             renew |-> TRUE, expires |-> Period, grace |-> 0]]
    BY DEF Init, OrderInit
  <2>2. PICK n \in Nat, row \in SubRow : subs = [i \in 1 .. n |-> row]
    <3>1. load.rows \in Nat
      BY <2>1, PlatformAssumption
    <3>2. PICK e \in Int : e = Period
      BY PeriodAssumption
    <3>3. [status |-> "ACTIVE", started |-> 0, renew |-> TRUE, expires |-> e, grace |-> 0]
             \in SubRow
      BY DEF SubRow, Status, Live
    <3> QED BY <2>1, <3>1, <3>2, <3>3
  <2>3. subs \in Seq(SubRow)
    BY <2>2, SeqDef
  <2>4. \A c \in Calls : DateCallOK(call[c]) /\ call[c].pc = "idle"
    BY <2>1 DEF DateCallOK, Idle, AdminOps
  <2> QED BY <2>1, <2>3, <2>4 DEF DatesInv, WindowsOK, At
<1>2. SaleInv /\ DatesInv /\ [Next]_vars => DatesInv'
  <2> SUFFICES ASSUME SaleInv, DatesInv, [Next]_vars
               PROVE  DatesInv'
    OBVIOUS
  <2>1. ASSUME UNCHANGED <<call, load, now, subs>>
        PROVE  DatesInv'
    BY <2>1, DatesStay DEF DatesInv, Rows
  <2>2. ASSUME NEW c \in Calls, CallStep(c)
        PROVE  DatesInv'
    <3>1. CASE OrderStep(c) /\ UNCHANGED <<ents, subVars>>
      <4>1. UNCHANGED subVars
        BY <3>1
      <4> QED BY <3>1, <4>1, OrderDates
    <3>2. CASE AccessStep(c) /\ UNCHANGED subVars
      BY <3>2, AccessDates
    <3>3. CASE Replay(c)
      <4>1. UNCHANGED <<load, now, subs>>
        BY <3>3 DEF Replay, Carried, subVars
      <4>2. Return(c) \/ Continue(c, "done") \/ Continue(c, "settle")
        BY <3>3 DEF Replay
      <4>3. {"done", "settle"} \intersect (AdminOps \union {"window"}) = {}
        BY DEF AdminOps
      <4> QED BY <4>1, <4>2, <4>3, QuietEnd, QuietStep
    <3> QED BY <2>2, <3>1, <3>2, <3>3, UpsertDates, WriteDates, SweepDates, AdminDates
            DEF CallStep, WindowStep
  <2>3. ASSUME NEW o \in Orders,
               Checkout(o) \/ Capture(o) \/ \E c \in Calls : Deliver(c, o) \/ Activate(c, o),
               UNCHANGED <<ents, subVars>>
        PROVE  DatesInv'
    <3>1. UNCHANGED subVars
      BY <2>3
    <3>2. Checkout(o) \/ Capture(o) => UNCHANGED <<call, load, now, subs>>
      BY <3>1 DEF Checkout, Capture, callVars, subVars
    <3> QED BY <2>1, <2>3, <3>1, <3>2, BeginDates
  <2>4. ASSUME NEW c \in Calls, Sweep(c) \/ \E r \in Rows : AdminRead(c, r)
        PROVE  DatesInv'
    BY <2>4, BeginDates
  <2>5. ASSUME NEW c \in Calls, Lose(c), UNCHANGED <<ents, subVars>>
        PROVE  DatesInv'
    <3>1. UNCHANGED <<load, now, subs>> /\ Return(c)
      BY <2>5 DEF Lose, subVars
    <3> QED BY <3>1, QuietEnd
  <2>6. CASE Tick
    <3>1. UNCHANGED <<call, load, subs>> /\ now' \in Int
      BY <2>6 DEF Tick, callVars, DatesInv
    <3> QED BY <3>1, DatesStay DEF DatesInv, Rows
  <2>7. CASE UNCHANGED vars
    BY <2>1, <2>7 DEF vars, callVars, subVars
  <2> QED BY <2>2, <2>3, <2>4, <2>5, <2>6, <2>7, UserDates, Zenon DEF Next
<1> QED BY <1>1, <1>2, SaleInvariant, PTL DEF Spec

\* Subscriptions.WindowsAddUp, for every set of orders, handlers and rows
\* (subscriptions.ts:489-491): only the write of a window counts one.
THEOREM WindowsAlwaysAddUp == Spec => WindowsAddUp
<1>1. SaleInv /\ DatesInv /\ [Next]_vars =>
        [Together /\ "comp" \notin load.ops /\ windows' # windows =>
          \/ Len(subs') > Len(subs)
          \/ \E r \in Rows : subs'[r].expires >= subs[r].expires + Period]_windows
  <2> SUFFICES ASSUME SaleInv, DatesInv, Next, Alone, windows' # windows
               PROVE  \/ Len(subs') > Len(subs)
                      \/ \E r \in Rows : subs'[r].expires >= subs[r].expires + Period
    BY DEF vars, subVars, Alone
  <2>1. PICK c \in Calls : WriteWindow(c)
    BY DEF Next, CallStep, WindowStep, SweepStep, Replay, EnterUpsert, ReadRows, ReadDue,
       NextStage, SweepRow, AdminWrite, Write, AdminRead, Read, Sweep, Change,
       CancelSubscription, ResumeSubscription, SetAutoRenew, Tick, subVars
  <2> QED BY <2>1, WriteDates
<1> QED BY <1>1, DatesInvariant, PTL DEF Spec, WindowsAddUp
=============================================================================
