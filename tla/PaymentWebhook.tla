---------------------------- MODULE PaymentWebhook ----------------------------
(***************************************************************************)
(* POST /payments/webhook/:provider for resource purchases: the handler    *)
(* runs once per delivery, deliveries overlap, and every await is a point  *)
(* where another request may run.  One action per await.                   *)
(***************************************************************************)
EXTENDS CommerceStore

CONSTANTS
    Events,       \* provider notifications, one per [providerEventId, eventType]
    Handlers,     \* webhook requests that may be in progress at once
    Mismatched    \* payments whose provider-side amount is not FinalPrice

EventType == {"payment.succeeded", "payment.canceled"}

ASSUME EventsType ==
    /\ Events # {}
    /\ \A e \in Events : e.payment \in Payments /\ e.type \in EventType
ASSUME MismatchedType == Mismatched \subseteq Payments

VARIABLES
    provider,     \* the payment's state at the provider (external)
    sent,         \* notifications the provider delivers until acknowledged (external)
    event,        \* PaymentProviderEvent.status; "NONE" while there is no row
    pc,           \* where each request stands
    serving,      \* the notification a request serves
    seen,         \* the Purchase.status a request read at its lookup
    hasRow        \* whether a request found a local Payment row

providerVars == <<provider, sent>>
handlerVars == <<pc, serving, seen, hasRow>>

EventStatus == {"NONE", "PROCESSING", "PROCESSED", "FAILED"}
HandlerStep == {"idle", "mark", "read_payment", "cancel_payment",
    "cancel_overwrite", "cancel_purchase", "repair_payment", "lookup", "verify",
    "capture", "reopen", "complete", "settle", "confirm", "to_settled", "finish"}

Pay(h) == serving[h].payment
Order(h) == PurchaseOf[Pay(h)]
At(h, step) == pc[h] = step
Goto(h, step) == pc' = [pc EXCEPT ![h] = step]
Locals == <<serving, seen, hasRow>>
SetEvent(h, status) == event' = [event EXCEPT ![serving[h]] = status]

\* What an idle request serves is not read; Reply forgets the request's locals.
Unserved == CHOOSE e \in Events : TRUE
Reply(h) ==
    /\ Goto(h, "idle")
    /\ serving' = [serving EXCEPT ![h] = Unserved]
    /\ seen' = [seen EXCEPT ![h] = "NONE"]
    /\ hasRow' = [hasRow EXCEPT ![h] = FALSE]
-----------------------------------------------------------------------------
\* The event row is found or inserted; an insert that loses the unique race
\* adopts the winner's row.  A PROCESSED event is acknowledged, nothing more.
Deliver(h, e) ==
    /\ At(h, "idle") /\ e \in sent /\ event[e] # "PROCESSED"
    /\ serving' = [serving EXCEPT ![h] = e]
    /\ event' = [event EXCEPT ![e] = IF @ = "NONE" THEN "PROCESSING" ELSE @]
    /\ Goto(h, "mark")
    /\ UNCHANGED <<seen, hasRow, providerVars, storeVars>>

DeliverProcessed(e) ==
    /\ e \in sent /\ event[e] = "PROCESSED"
    /\ sent' = sent \ {e}
    /\ UNCHANGED <<provider, event, handlerVars, storeVars>>

\* Unconditional: a sibling delivery may have written PROCESSED since.
MarkProcessing(h) ==
    /\ At(h, "mark")
    /\ SetEvent(h, "PROCESSING")
    /\ Goto(h, "read_payment")
    /\ UNCHANGED <<Locals, providerVars, storeVars>>

\* localPayment decides the branch: cancellation, repair or plain success.
ReadPayment(h) ==
    /\ At(h, "read_payment")
    /\ Goto(h,
         IF serving[h].type = "payment.canceled"
         THEN IF payment[Pay(h)] = "PENDING" THEN "cancel_payment"
                                             ELSE "cancel_purchase"
         ELSE IF payment[Pay(h)] = "CANCELED" THEN "repair_payment"
                                              ELSE "lookup")
    /\ UNCHANGED <<Locals, event, providerVars, storeVars>>

CancelPayment(h) ==
    /\ At(h, "cancel_payment")
    /\ TransitionPaymentTo(Pay(h), "CANCELED")
    /\ Goto(h, "cancel_overwrite")
    /\ UNCHANGED <<Locals, event, providerVars, entitlementVars, moneyVars>>

\* The plain update() that follows the transition.
CancelOverwrite(h) ==
    /\ At(h, "cancel_overwrite")
    /\ SetPayment(Pay(h), "CANCELED")
    /\ Goto(h, "cancel_purchase")
    /\ UNCHANGED <<Locals, event, providerVars, entitlementVars, moneyVars>>

\* Only a PENDING purchase is closed.
ClosePending(p) ==
    purchase' = [purchase EXCEPT ![p] = IF @ = "PENDING" THEN "FAILED" ELSE @]

CancelPurchase(h) ==
    /\ At(h, "cancel_purchase")
    /\ ClosePending(Order(h))
    /\ Goto(h, "finish")
    /\ UNCHANGED <<Locals, event, license, payment, providerVars, moneyVars>>

\* Provider truth wins: CANCELED -> PENDING, outside the transition table.
RepairPayment(h) ==
    /\ At(h, "repair_payment")
    /\ IF payment[Pay(h)] = "CANCELED" THEN SetPayment(Pay(h), "PENDING")
                                       ELSE UNCHANGED payment
    /\ Goto(h, "lookup")
    /\ UNCHANGED <<Locals, event, providerVars, entitlementVars, moneyVars>>

Lookup(h) ==
    /\ At(h, "lookup")
    /\ seen' = [seen EXCEPT ![h] = purchase[Order(h)]]
    /\ Goto(h, "verify")
    /\ UNCHANGED <<serving, hasRow, event, providerVars, storeVars>>

\* The provider re-fetch confirms capture and amount.
Verified(x) == provider[x] = "SUCCEEDED" /\ x \notin Mismatched

\* Mutant: the provider is not asked for state and amount.
TrustBody(h) ==
    /\ At(h, "verify")
    /\ hasRow' = [hasRow EXCEPT ![h] = payment[Pay(h)] # "NONE"]
    /\ Goto(h, IF payment[Pay(h)] # "NONE" THEN "capture" ELSE "reopen")
    /\ UNCHANGED <<serving, seen, event, providerVars, storeVars>>

VerifyOk(h) ==
    /\ At(h, "verify")
    /\ Verified(Pay(h))
    /\ hasRow' = [hasRow EXCEPT ![h] = payment[Pay(h)] # "NONE"]
    /\ Goto(h, IF payment[Pay(h)] # "NONE" THEN "capture" ELSE "reopen")
    /\ UNCHANGED <<serving, seen, event, providerVars, storeVars>>

\* Not captured, or captured for another amount: quarantine, no entitlement.
VerifyFailed(h) ==
    /\ At(h, "verify")
    /\ ~Verified(Pay(h))
    /\ SetEvent(h, "FAILED")
    /\ Reply(h)
    /\ UNCHANGED <<providerVars, storeVars>>

Capture(h) ==
    /\ At(h, "capture")
    /\ TransitionPaymentTo(Pay(h), "SUCCEEDED")
    /\ Goto(h, "reopen")
    /\ UNCHANGED <<Locals, event, providerVars, entitlementVars, moneyVars>>

\* A purchase read as FAILED is reopened, if the live index admits it.
ReopenBlocked(p) == purchase[p] = "FAILED" /\ ~LiveIndexAdmits(p)

Reopen(h) ==
    /\ At(h, "reopen")
    /\ IF seen[h] = "FAILED"
       THEN /\ ~ReopenBlocked(Order(h))
            /\ purchase' = [purchase EXCEPT ![Order(h)] =
                              IF @ = "FAILED" THEN "PENDING" ELSE @]
       ELSE UNCHANGED purchase
    /\ Goto(h, "complete")
    /\ UNCHANGED <<Locals, event, license, payment, providerVars, moneyVars>>

\* Mutant: a rejected completion is settled all the same.
CompleteUnchecked(h) ==
    /\ At(h, "complete")
    /\ IF CompletionRejected(Order(h)) THEN UNCHANGED entitlementVars
       ELSE GrantPurchase(Order(h)) \/ RepairPurchase(Order(h))
    /\ Goto(h, "settle")
    /\ UNCHANGED <<Locals, event, payment, providerVars, moneyVars>>

\* Mutant: settlement runs on the fresh path only.
CompleteWithoutRepair(h) ==
    /\ At(h, "complete")
    /\ \/ GrantPurchase(Order(h)) /\ Goto(h, "settle")
       \/ RepairPurchase(Order(h)) /\ Goto(h, "confirm")
    /\ UNCHANGED <<Locals, event, payment, providerVars, moneyVars>>

Complete(h) ==
    /\ At(h, "complete")
    /\ GrantPurchase(Order(h)) \/ RepairPurchase(Order(h))
    /\ Goto(h, "settle")
    /\ UNCHANGED <<Locals, event, payment, providerVars, moneyVars>>

\* Ledger settlement after commit, on the fresh path and on the repair path.
Settle(h) ==
    /\ At(h, "settle")
    /\ SettleRevenue(Order(h))
    /\ Goto(h, "confirm")
    /\ UNCHANGED <<Locals, event, payment, providerVars, entitlementVars>>

\* A row found at verification is set to SUCCEEDED whatever it holds now; a
\* missing one is inserted, unless the row or another capture exists by now.
ConfirmBlocked(h) ==
    \/ ~CapturedIndexAdmits(Pay(h))
    \/ ~hasRow[h] /\ payment[Pay(h)] # "NONE"

Confirm(h) ==
    /\ At(h, "confirm")
    /\ ~ConfirmBlocked(h)
    /\ SetPayment(Pay(h), "SUCCEEDED")
    /\ Goto(h, "to_settled")
    /\ UNCHANGED <<Locals, event, providerVars, entitlementVars, moneyVars>>

ToSettled(h) ==
    /\ At(h, "to_settled")
    /\ TransitionPaymentTo(Pay(h), "SETTLED")
    /\ Goto(h, "finish")
    /\ UNCHANGED <<Locals, event, providerVars, entitlementVars, moneyVars>>

\* 200: the provider stops delivering the notification.
Finish(h) ==
    /\ At(h, "finish")
    /\ SetEvent(h, "PROCESSED")
    /\ sent' = sent \ {serving[h]}
    /\ Reply(h)
    /\ UNCHANGED <<provider, storeVars>>

\* What the handler cannot do throws: an illegal transition, a unique index, a
\* rejected completion.  The catch block answers 4xx/5xx and writes nothing.
Thrown(h) ==
    \/ At(h, "cancel_payment") /\ ~MayMoveTo(Pay(h), "CANCELED")
    \/ At(h, "capture") /\ ~MayMoveTo(Pay(h), "SUCCEEDED")
    \/ At(h, "reopen") /\ seen[h] = "FAILED" /\ ReopenBlocked(Order(h))
    \/ At(h, "complete") /\ CompletionRejected(Order(h))
    \/ At(h, "confirm") /\ ConfirmBlocked(h)
    \/ At(h, "to_settled") /\ ~MayMoveTo(Pay(h), "SETTLED")

Throw(h) ==
    /\ Thrown(h)
    /\ Reply(h)
    /\ UNCHANGED <<event, providerVars, storeVars>>

\* The request is lost: the process stops, or a statement's connection fails.
Lose(h) ==
    /\ ~At(h, "idle")
    /\ Reply(h)
    /\ UNCHANGED <<event, providerVars, storeVars>>

\* The provider does not get the answer, and delivers the notification again.
LoseAnswer(e) ==
    /\ e \notin sent /\ event[e] # "NONE"
    /\ sent' = sent \union {e}
    /\ UNCHANGED <<provider, event, handlerVars, storeVars>>

HandlerNext(h) ==
    \/ MarkProcessing(h) \/ ReadPayment(h) \/ CancelPayment(h)
    \/ CancelOverwrite(h) \/ CancelPurchase(h) \/ RepairPayment(h) \/ Lookup(h)
    \/ VerifyOk(h) \/ VerifyFailed(h) \/ Capture(h) \/ Reopen(h) \/ Complete(h)
    \/ Settle(h) \/ Confirm(h) \/ ToSettled(h) \/ Finish(h) \/ Throw(h)

WebhookTypeOK ==
    /\ provider \in [Payments -> {"NONE", "PENDING", "SUCCEEDED", "CANCELED"}]
    /\ sent \subseteq Events
    /\ event \in [Events -> EventStatus]
    /\ pc \in [Handlers -> HandlerStep]
    /\ serving \in [Handlers -> Events]
    /\ seen \in [Handlers -> PurchaseStatus]
    /\ hasRow \in [Handlers -> BOOLEAN]

WebhookInit ==
    /\ provider = [x \in Payments |-> "NONE"]
    /\ sent = {}
    /\ event = [e \in Events |-> "NONE"]
    /\ pc = [h \in Handlers |-> "idle"]
    /\ serving = [h \in Handlers |-> Unserved]
    /\ seen = [h \in Handlers |-> "NONE"]
    /\ hasRow = [h \in Handlers |-> FALSE]
=============================================================================
