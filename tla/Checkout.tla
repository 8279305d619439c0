-------------------------------- MODULE Checkout --------------------------------
(***************************************************************************)
(* Checkout of resource and service lines under one discount campaign:     *)
(* the handlers behind the Idempotency-Key wrapper, the in-process key     *)
(* lock, the live-purchase index, and the completion transaction that      *)
(* consumes the discount.  A purchase row is named after the request that  *)
(* created it.                                                             *)
(***************************************************************************)
EXTENDS Idempotency, Integers, Sequences, SequencesExt

CONSTANTS
    Instances,    \* backend processes, each with its own key locks
    Workloads,    \* the inputs the requests may carry, one choice per behaviour
    UsageLimits,  \* the values DiscountCampaign.usageLimit may have
    MaxEvents     \* bound on crashes, switches, withdrawals and disputes

ASSUME CheckoutAssumption ==
    /\ UsageLimits \subseteq Nat
    /\ MaxEvents \in Nat
    /\ \A load \in Workloads : \A r \in Requests : load[r].key \in Keys \union {NoKey}

VARIABLES
    step,         \* where a checkout handler stands
    rows,         \* purchase rows, oldest first
    status,       \* Purchase.status, ServicePurchase.status
    paid,         \* rows whose payment the provider captured (external)
    campaign,     \* isActive, usageLimit and usedCount of the DiscountCampaign
    usages,       \* rows with a DiscountUsage
    attempt,      \* the usedCount an open completion transaction has read
    events        \* crashes, switches, withdrawals and disputes left

checkoutVars == <<step, rows, status, paid, campaign, usages, attempt, events>>
vars == <<idempotencyVars, checkoutVars>>

PerUserLimit == 1                                  \* the MVP's only limit
NoAttempt == -1
Line(r) == input[r].body
Buyer(r) == input[r].user
IsService(r) == Line(r).op = "service"
SameTarget(p, q) ==
    /\ Line(p).op = "resource" /\ Line(q).op = "resource"
    /\ Buyer(p) = Buyer(q) /\ Line(p).item = Line(q).item
RowsLike(r) == SelectSeq(rows, LAMBDA p : SameTarget(p, r))
Live(p) == status[p] \in {"PENDING", "COMPLETED"}
IndexAdmits(r) == \A i \in 1 .. Len(RowsLike(r)) : ~Live(RowsLike(r)[i])
UsedBy(buyer) == {p \in usages : Buyer(p) = buyer}

Goto(r, s) == step' = [step EXCEPT ![r] = s]
SetStatus(p, s) == status' = [status EXCEPT ![p] = s]
RowVars == <<rows, status, paid, campaign, usages, attempt, events>>
Reply(r, reply) == Respond(r, reply) /\ Goto(r, "out")
-----------------------------------------------------------------------------
(* The handler *)

\* The key lock admits one checkout per buyer and resource in a process.
Inside(r) == phase[r] = "run" /\ step[r] \in {"look", "validate", "create", "represent", "complete"}
Enter(r) ==
    /\ phase[r] = "run" /\ step[r] = "start" /\ Line(r).op = "resource"
    /\ ~\E s \in Requests : Inside(s) /\ SameTarget(r, s) /\ input[s].at = input[r].at
    /\ Goto(r, "look")
    /\ UNCHANGED <<idempotencyVars, RowVars>>

ToPrice(r) == Goto(r, IF Line(r).coupon THEN "validate" ELSE "create")

\* Purchases of the buyer and the resource: first() takes any of them.
Look(r) ==
    /\ phase[r] = "run" /\ step[r] = "look"
    /\ \/ RowsLike(r) = << >> /\ ToPrice(r) /\ UNCHANGED idempotencyVars
       \/ \E i \in 1 .. Len(RowsLike(r)) :
            LET p == RowsLike(r)[i] IN
            \/ status[p] = "COMPLETED" /\ Reply(r, "rejected")
            \/ status[p] = "PENDING" /\ Reply(r, p)
            \/ ~Live(p) /\ ToPrice(r) /\ UNCHANGED idempotencyVars
    /\ UNCHANGED RowVars

\* The resource or service has been taken off sale.
Unavailable(r) ==
    /\ phase[r] = "run" /\ step[r] = IF IsService(r) THEN "start" ELSE "look"
    /\ events > 0 /\ events' = events - 1
    /\ Reply(r, "rejected")
    /\ UNCHANGED <<rows, status, paid, campaign, usages, attempt>>

StartService(r) ==
    /\ phase[r] = "run" /\ step[r] = "start" /\ IsService(r)
    /\ ToPrice(r)
    /\ UNCHANGED <<idempotencyVars, RowVars>>

\* validateDiscount reads the campaign; nothing is reserved.
Available == campaign.active /\ campaign.used < campaign.limit
Honoured(r) ==
    /\ Available
    /\ Cardinality(UsedBy(Buyer(r))) < PerUserLimit
Validate(r) ==
    /\ phase[r] = "run" /\ step[r] = "validate"
    /\ \/ Honoured(r) /\ Goto(r, "create") /\ UNCHANGED idempotencyVars
       \/ ~Honoured(r) /\ Reply(r, "rejected")
    /\ UNCHANGED RowVars

AddRow(r, s) == rows' = Append(rows, r) /\ SetStatus(r, s)

\* Mutant: a free purchase is left to a completion nobody runs.
CreateAndReply(r) ==
    /\ phase[r] = "run" /\ step[r] = "create" /\ ~IsService(r) /\ IndexAdmits(r)
    /\ AddRow(r, "PENDING") /\ Reply(r, r)
    /\ UNCHANGED <<paid, campaign, usages, attempt, events>>

CreatePurchase(r) ==
    /\ phase[r] = "run" /\ step[r] = "create" /\ ~IsService(r) /\ IndexAdmits(r)
    /\ AddRow(r, "PENDING")
    /\ \/ Line(r).free /\ Goto(r, "complete") /\ UNCHANGED idempotencyVars
       \/ ~Line(r).free /\ Reply(r, r)
    /\ UNCHANGED <<paid, campaign, usages, attempt, events>>

\* The live index refuses the row.  What the transaction's own query after the
\* violation does is the database's choice: an aborted transaction answers 500.
LoseCreateRace(r) ==
    /\ phase[r] = "run" /\ step[r] = "create" /\ ~IsService(r) /\ ~IndexAdmits(r)
    /\ \/ Goto(r, "represent") /\ UNCHANGED idempotencyVars
       \/ Reply(r, "rejected")
    /\ UNCHANGED RowVars

\* The newest purchase is re-presented while it is live.
Represent(r) ==
    /\ phase[r] = "run" /\ step[r] = "represent"
    /\ Reply(r, IF Live(Last(RowsLike(r))) THEN Last(RowsLike(r)) ELSE "rejected")
    /\ UNCHANGED RowVars

CreateService(r) ==
    /\ phase[r] = "run" /\ step[r] = "create" /\ IsService(r)
    /\ AddRow(r, IF Line(r).free THEN "IN_PROGRESS" ELSE "PENDING")
    /\ Reply(r, r)
    /\ UNCHANGED <<paid, campaign, usages, attempt, events>>

\* Another wrapped operation: it answers, throws, or sends no body.
OtherHandler(r) ==
    /\ phase[r] = "run" /\ Line(r).op = "other"
    /\ Respond(r, r) \/ Throw(r) \/ EndWithoutBody(r)
    /\ UNCHANGED checkoutVars
-----------------------------------------------------------------------------
(* Completion: by the free checkout itself, or by the captured payment *)

MayComplete(p) ==
    /\ p \in ToSet(rows) /\ ~IsService(p) /\ status[p] = "PENDING"
    /\ attempt[p] = NoAttempt
    /\ p \in paid \/ (phase[p] = "run" /\ step[p] = "complete")

\* A free checkout answers with its outcome; a notification is delivered again.
Outcome(p, reply) ==
    IF step[p] = "complete" THEN Reply(p, reply)
                            ELSE UNCHANGED <<idempotencyVars, step>>

CompleteWithoutDiscount(p) ==
    /\ MayComplete(p) /\ ~Line(p).coupon
    /\ SetStatus(p, "COMPLETED")
    /\ Outcome(p, p)
    /\ UNCHANGED <<rows, paid, campaign, usages, attempt, events>>

\* The transaction holds the purchase row and has read the campaign.
ReadCampaign(p) ==
    /\ MayComplete(p) /\ Line(p).coupon
    /\ \/ /\ Available
          /\ attempt' = [attempt EXCEPT ![p] = campaign.used]
          /\ UNCHANGED <<idempotencyVars, step>>
       \/ /\ ~Available
          /\ step[p] = "complete" /\ Reply(p, "rejected")
          /\ UNCHANGED attempt
    /\ UNCHANGED <<rows, status, paid, campaign, usages, events>>

Consume(p) ==
    /\ campaign' = [campaign EXCEPT !.used = attempt[p] + 1]
    /\ usages' = usages \union {p}
    /\ SetStatus(p, "COMPLETED")
    /\ Outcome(p, p)
Refuse(p) ==
    /\ Outcome(p, "rejected")
    /\ UNCHANGED <<campaign, usages, status>>
\* Mutant: an aborted transaction leaves what it had read behind.
FinishedStale(p) ==
    /\ attempt' = [attempt EXCEPT ![p] = IF status'[p] = "COMPLETED" THEN NoAttempt ELSE @]
    /\ UNCHANGED <<rows, paid, events>>

Finished(p) ==
    /\ attempt' = [attempt EXCEPT ![p] = NoAttempt]
    /\ UNCHANGED <<rows, paid, events>>

\* Mutant: usedCount is written without comparing it.
ConsumeBlindly(p) ==
    /\ attempt[p] # NoAttempt
    /\ IF Cardinality(UsedBy(Buyer(p))) < PerUserLimit THEN Consume(p) ELSE Refuse(p)
    /\ Finished(p)

\* Compare-and-set on usedCount, then the buyer's own limit; a breach aborts
\* the whole transaction.
ConsumeDiscount(p) ==
    /\ attempt[p] # NoAttempt
    /\ IF /\ campaign.used = attempt[p]
          /\ Cardinality(UsedBy(Buyer(p))) < PerUserLimit
       THEN Consume(p) ELSE Refuse(p)
    /\ Finished(p)

\* markServicePurchasePaid: PENDING -> IN_PROGRESS, no discount is consumed.
MarkServicePaid(p) ==
    /\ p \in ToSet(rows) /\ IsService(p) /\ p \in paid /\ status[p] = "PENDING"
    /\ SetStatus(p, "IN_PROGRESS")
    /\ UNCHANGED <<idempotencyVars, step, rows, paid, campaign, usages, attempt, events>>
-----------------------------------------------------------------------------
(* The rest of the system *)

Pay(p) ==
    /\ p \in ToSet(rows) /\ status[p] = "PENDING" /\ ~Line(p).free /\ p \notin paid
    /\ paid' = paid \union {p}
    /\ UNCHANGED <<idempotencyVars, step, rows, status, campaign, usages, attempt, events>>

\* A canceled payment closes its purchase; a refund ends a completed one.
Close(p) ==
    /\ p \in ToSet(rows) /\ ~IsService(p) /\ ~Line(p).free
    /\ status[p] = "PENDING" /\ p \notin paid
    /\ SetStatus(p, "FAILED")
    /\ UNCHANGED <<idempotencyVars, step, rows, paid, campaign, usages, attempt, events>>

Refund(p) ==
    /\ p \in paid /\ status[p] = "COMPLETED"
    /\ SetStatus(p, "REFUNDED")
    /\ UNCHANGED <<idempotencyVars, step, rows, paid, campaign, usages, attempt, events>>

\* A dispute takes a completed purchase out of the live index; the decision puts it
\* back, unless a newer purchase is live.
Freeze(p) ==
    /\ p \in ToSet(rows) /\ ~IsService(p) /\ status[p] = "COMPLETED" /\ events > 0
    /\ SetStatus(p, "DISPUTED")
    /\ events' = events - 1
    /\ UNCHANGED <<idempotencyVars, step, rows, paid, campaign, usages, attempt>>
Thaw(p) ==
    /\ status[p] = "DISPUTED" /\ IndexAdmits(p)
    /\ SetStatus(p, "COMPLETED")
    /\ UNCHANGED <<idempotencyVars, step, rows, paid, campaign, usages, attempt, events>>

\* The seller switches the campaign on or off.
Toggle ==
    /\ events > 0
    /\ campaign' = [campaign EXCEPT !.active = ~@]
    /\ events' = events - 1
    /\ UNCHANGED <<idempotencyVars, step, rows, status, paid, usages, attempt>>

\* A process stops: its requests and their open transactions are gone.
Crash(i) ==
    /\ events > 0
    /\ LET here == {r \in Requests : input[r].at = i} IN
       /\ Lost(here)
       /\ attempt' = [p \in Requests |-> IF p \in here THEN NoAttempt ELSE attempt[p]]
    /\ events' = events - 1
    /\ UNCHANGED <<step, rows, status, paid, campaign, usages>>

CheckoutInit ==
    /\ input \in Workloads
    /\ IdempotencyInit
    /\ step = [r \in Requests |-> "start"]
    /\ rows = << >>
    /\ status = [r \in Requests |-> "NONE"]
    /\ paid = {}
    /\ \E limit \in UsageLimits : campaign = [active |-> TRUE, limit |-> limit, used |-> 0]
    /\ usages = {}
    /\ attempt = [r \in Requests |-> NoAttempt]
    /\ events = MaxEvents

HandlerStep(r) ==
    \/ Enter(r) \/ Look(r) \/ Unavailable(r) \/ StartService(r) \/ Validate(r)
    \/ CreatePurchase(r) \/ LoseCreateRace(r) \/ Represent(r) \/ CreateService(r)
    \/ OtherHandler(r)
CompletionStep(p) ==
    CompleteWithoutDiscount(p) \/ ReadCampaign(p) \/ ConsumeDiscount(p) \/ MarkServicePaid(p)
RequestStep(r) == (WrapperStep(r) /\ UNCHANGED checkoutVars) \/ HandlerStep(r)

CheckoutNext ==
    \/ \E r \in Requests :
         \/ RequestStep(r) \/ CompletionStep(r)
         \/ Pay(r) \/ Close(r) \/ Refund(r) \/ Freeze(r) \/ Thaw(r)
         \/ (Lapse(r) /\ UNCHANGED checkoutVars)
    \/ Toggle
    \/ \E i \in Instances : Crash(i)

CheckoutSpec == CheckoutInit /\ [][CheckoutNext]_vars

\* A request that has started goes on, and the provider delivers a capture until
\* its completion is acknowledged.
CheckoutFairness ==
    \A r \in Requests :
        /\ WF_vars(phase[r] # "idle" /\ RequestStep(r))
        /\ WF_vars(CompletionStep(r))
CheckoutFairSpec == CheckoutSpec /\ CheckoutFairness
-----------------------------------------------------------------------------
(* Properties *)

\* What is stored under a key is what its own client was told, and whoever is
\* answered under the key, retry or original, is told the same and sent the same
\* body.  It need not be the same user: the record keeps who asked, and no request
\* compares it.
RetriesAgree ==
    /\ \A k \in Keys : record[k].status = "COMPLETED" => record[k].body = answer[record[k].by]
    /\ \A r, s \in Requests :
         /\ KeyOf(r) = KeyOf(s) /\ KeyOf(r) # NoKey
         /\ {answer[r], answer[s]} \subseteq Replies
         /\ \A t \in lapsed : KeyOf(t) # KeyOf(r)
         => answer[r] = answer[s] /\ PayloadOf(r) = PayloadOf(s)

\* The counter, the usage rows and the completed purchases agree, and no buyer
\* uses the campaign twice, however completions overlap.
UsageIsExact ==
    /\ campaign.used = Cardinality(usages)
    /\ \A r \in Requests : Cardinality(UsedBy(Buyer(r))) <= PerUserLimit
    /\ usages = {p \in ToSet(rows) : /\ ~IsService(p) /\ Line(p).coupon
                                     /\ status[p] \in {"COMPLETED", "DISPUTED", "REFUNDED"}}

\* A free purchase is completed by the request that created it, unless that
\* request died or was refused the discount: nothing else ever completes it.
FreeIsCompleted ==
    <>[](\A p \in Requests : Line(p).free /\ status[p] = "PENDING" =>
            phase[p] = "lost" \/ answer[p] = "rejected")

\* A captured resource purchase is completed, unless its discount is not honoured
\* any more: switched off, used up, or used by the same buyer elsewhere.
PaidIsCompleted ==
    <>[](\A p \in paid : status[p] = "PENDING" => Line(p).coupon /\ ~Honoured(p))
=============================================================================
