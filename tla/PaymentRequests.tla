--------------------------- MODULE PaymentRequests ---------------------------
(***************************************************************************)
(* The buyer's requests around a payment - checkout, POST /payments/create *)
(* and POST /payments/cancel - and the provider they talk to.              *)
(***************************************************************************)
EXTENDS PaymentWebhook

CONSTANT LatePayments   \* invoices a buyer can still pay after they expired

ASSUME LatePaymentsType == LatePayments \subseteq Payments

VARIABLES
    inserting,    \* payments created at the provider, their row not inserted yet
    canceling     \* where the cancel request of a payment stands

requestVars == <<inserting, canceling>>
CancelStep == {"idle", "provider", "transition", "close"}

NotifyOf(x, type) == {e \in Events : e.payment = x /\ e.type = type}
-----------------------------------------------------------------------------
(* createResourceCheckout: at most one live purchase; the loser of a create *)
(* race gets no row of its own.                                             *)
Checkout(p) ==
    /\ purchase[p] = "NONE"
    /\ LiveIndexAdmits(p)
    /\ purchase' = [purchase EXCEPT ![p] = "PENDING"]
    /\ UNCHANGED <<license, payment, moneyVars, providerVars, event, handlerVars, requestVars>>

\* POST /payments/create first creates the payment at the provider ...
CreateAtProvider(x) ==
    /\ provider[x] = "NONE"
    /\ purchase[PurchaseOf[x]] = "PENDING"
    /\ provider' = [provider EXCEPT ![x] = "PENDING"]
    /\ inserting' = inserting \union {x}
    /\ UNCHANGED <<sent, canceling, event, handlerVars, storeVars>>

\* ... then inserts its row, unless a webhook has inserted one by now.
InsertPayment(x) ==
    /\ x \in inserting
    /\ inserting' = inserting \ {x}
    /\ payment' = [payment EXCEPT ![x] = IF @ = "NONE" THEN "PENDING" ELSE @]
    /\ UNCHANGED <<entitlementVars, moneyVars, providerVars, event, handlerVars, canceling>>

\* The request stops between the two: a payment without a local row.
LoseInsert(x) ==
    /\ x \in inserting
    /\ inserting' = inserting \ {x}
    /\ UNCHANGED <<canceling, providerVars, event, handlerVars, storeVars>>
-----------------------------------------------------------------------------
(* POST /payments/cancel *)

CancelRequested(x) ==
    /\ canceling[x] = "idle"
    /\ payment[x] = "PENDING"
    /\ canceling' = [canceling EXCEPT ![x] = "provider"]
    /\ UNCHANGED <<inserting, providerVars, event, handlerVars, storeVars>>

\* provider.cancelPayment: succeeds only while the provider holds it PENDING;
\* invoices cannot be canceled through the provider's API.
CancelAtProvider(x) ==
    /\ canceling[x] = "provider"
    /\ IF provider[x] = "PENDING" /\ x \notin LatePayments
       THEN /\ provider' = [provider EXCEPT ![x] = "CANCELED"]
            /\ sent' = sent \union NotifyOf(x, "payment.canceled")
            /\ canceling' = [canceling EXCEPT ![x] = "transition"]
       ELSE /\ canceling' = [canceling EXCEPT ![x] = "idle"]
            /\ UNCHANGED providerVars
    /\ UNCHANGED <<inserting, event, handlerVars, storeVars>>

CancelTransition(x) ==
    /\ canceling[x] = "transition"
    /\ IF MayMoveTo(x, "CANCELED")
       THEN /\ TransitionPaymentTo(x, "CANCELED")
            /\ canceling' = [canceling EXCEPT ![x] = "close"]
       ELSE /\ canceling' = [canceling EXCEPT ![x] = "idle"]
            /\ UNCHANGED payment
    /\ UNCHANGED <<inserting, entitlementVars, moneyVars, providerVars, event, handlerVars>>

\* A canceled payment closes its PENDING purchase.
CancelClose(x) ==
    /\ canceling[x] = "close"
    /\ ClosePending(PurchaseOf[x])
    /\ canceling' = [canceling EXCEPT ![x] = "idle"]
    /\ UNCHANGED <<inserting, license, payment, moneyVars, providerVars, event, handlerVars>>

LoseCancel(x) ==
    /\ canceling[x] # "idle"
    /\ canceling' = [canceling EXCEPT ![x] = "idle"]
    /\ UNCHANGED <<inserting, providerVars, event, handlerVars, storeVars>>
-----------------------------------------------------------------------------
(* The provider (external) *)

ProviderCaptures(x) ==
    /\ \/ provider[x] = "PENDING"
       \/ provider[x] = "CANCELED" /\ x \in LatePayments
    /\ provider' = [provider EXCEPT ![x] = "SUCCEEDED"]
    /\ sent' = sent \union NotifyOf(x, "payment.succeeded")
    /\ UNCHANGED <<event, handlerVars, requestVars, storeVars>>

ProviderCancels(x) ==
    /\ provider[x] = "PENDING"
    /\ provider' = [provider EXCEPT ![x] = "CANCELED"]
    /\ sent' = sent \union NotifyOf(x, "payment.canceled")
    /\ UNCHANGED <<event, handlerVars, requestVars, storeVars>>

RequestNext ==
    \/ \E p \in Purchases : Checkout(p)
    \/ \E x \in Payments :
         \/ CreateAtProvider(x) \/ InsertPayment(x)
         \/ CancelRequested(x) \/ CancelAtProvider(x) \/ CancelTransition(x)
         \/ CancelClose(x)
         \/ ProviderCaptures(x) \/ ProviderCancels(x)

RequestTypeOK ==
    /\ inserting \subseteq Payments
    /\ canceling \in [Payments -> CancelStep]

RequestInit ==
    /\ inserting = {}
    /\ canceling = [x \in Payments |-> "idle"]
=============================================================================
