--------------------------- MODULE RefundLifecycle ---------------------------
(***************************************************************************)
(* Refunds of captured payments: the administrator's request (createRefund *)
(* of lib/refunds.ts), the refund.* branch of the payment webhook, and the *)
(* confirmed-refund effects both end in (applyRefundEffects).              *)
(***************************************************************************)
EXTENDS PaymentRequests, FiniteSetsExt

CONSTANTS
    Refunds,      \* refund requests
    RefundOf,     \* the payment a request refunds
    Amounts       \* amounts a request may name; "rest" is also possible

ASSUME RefundOfType == RefundOf \in [Refunds -> Payments]
ASSUME AmountsType == Amounts \subseteq Nat

VARIABLES
    refund,       \* Refund.status; "NONE" while there is no row
    amount,       \* Refund.amount
    known,        \* refunds whose row carries the provider's refund id
    atProvider,   \* the refund's state at the provider (external)
    refundEvent,  \* PaymentProviderEvent.status of the refund's notification
    step,         \* where the refund's request stands
    hook,         \* where the delivery of its notification stands
    full,         \* willBeFull, as an effects run computed it
    sawPayment    \* the Payment.status an effects run read

refundRows == <<refund, amount, known>>
effectLocals == <<full, sawPayment>>
refundVars == <<refundRows, atProvider, refundEvent, step, hook, effectLocals>>
commerceVars == <<storeVars, providerVars, event, handlerVars, requestVars>>

RefundStatus == {"NONE", "PENDING", "SUCCEEDED", "FAILED"}
RequestStep == {"idle", "reserve", "provider", "record_succeeded",
                "record_pending", "effects", "apply", "fail", "done"}
HookStep == {"idle", "cas", "effects", "apply", "finish"}

Refundable == {"SUCCEEDED", "SETTLED", "PARTIALLY_REFUNDED"}
GoStep(r, s) == step' = [step EXCEPT ![r] = s]
GoHook(r, s) == hook' = [hook EXCEPT ![r] = s]
SetRefund(r, status) == refund' = [refund EXCEPT ![r] = status]

\* Refunds of the same payment that are confirmed or in flight.
Reserved(x, without) ==
    SumFunctionOnSet(amount,
        {r \in Refunds \ without :
            RefundOf[r] = x /\ refund[r] \in {"SUCCEEDED", "PENDING"}})
-----------------------------------------------------------------------------
(* createRefund *)

RequestRefund(r) ==
    /\ step[r] = "idle"
    /\ payment[RefundOf[r]] \in Refundable
    /\ GoStep(r, "reserve")
    /\ UNCHANGED <<refundRows, atProvider, refundEvent, hook, effectLocals, commerceVars>>

\* Mutant: refunds in flight do not count against the ceiling.
RefundableLessConfirmed(x) ==
    FinalPrice - SumFunctionOnSet(amount,
        {r \in Refunds : RefundOf[r] = x /\ refund[r] = "SUCCEEDED"})

\* INV-013: what may still be refunded of a payment.
RefundableOf(x) == FinalPrice - Reserved(x, {})

\* Under the per-payment advisory lock: the ceiling check and the PENDING row.
Reserve(r) ==
    /\ step[r] = "reserve"
    /\ \E a \in Amounts \union {RefundableOf(RefundOf[r])} :
         /\ IF a \in Nat \ {0} /\ a <= RefundableOf(RefundOf[r])
            THEN /\ SetRefund(r, "PENDING")
                 /\ amount' = [amount EXCEPT ![r] = a]
                 /\ GoStep(r, "provider")
            ELSE /\ GoStep(r, "done")
                 /\ UNCHANGED <<refund, amount>>
    /\ UNCHANGED <<known, atProvider, refundEvent, hook, effectLocals, commerceVars>>

\* The provider never refunds more than it captured (external).
ProviderAdmits(r) ==
    amount[r] + SumFunctionOnSet(amount,
        {q \in Refunds : RefundOf[q] = RefundOf[r] /\ atProvider[q] \in {"SUCCEEDED", "PENDING"}})
    <= FinalPrice

\* The provider refunds at once, or later, or not at all; whatever it does,
\* its answer may be lost, and the caller then sees an error.
CallProvider(r) ==
    /\ step[r] = "provider"
    /\ \E s \in {"SUCCEEDED", "PENDING", "NONE"} :
         /\ s = "NONE" \/ ProviderAdmits(r)
         /\ atProvider' = [atProvider EXCEPT ![r] = s]
         /\ \/ s = "SUCCEEDED" /\ GoStep(r, "record_succeeded")
            \/ s = "PENDING" /\ GoStep(r, "record_pending")
            \/ GoStep(r, "fail")
    /\ UNCHANGED <<refundRows, refundEvent, hook, effectLocals, commerceVars>>

ConfirmedAtOnce(r) == step[r] = "record_succeeded"

RecordRefund(r) ==
    /\ step[r] \in {"record_succeeded", "record_pending"}
    /\ known' = known \union {r}
    /\ SetRefund(r, IF ConfirmedAtOnce(r) THEN "SUCCEEDED" ELSE "PENDING")
    /\ GoStep(r, IF ConfirmedAtOnce(r) THEN "effects" ELSE "done")
    /\ UNCHANGED <<amount, atProvider, refundEvent, hook, effectLocals, commerceVars>>

\* Mutant: the catch block writes a status the effects do not know.
CancelRefund(r) ==
    /\ step[r] = "fail"
    /\ SetRefund(r, "CANCELED")
    /\ GoStep(r, "done")
    /\ UNCHANGED <<amount, known, atProvider, refundEvent, hook, effectLocals, commerceVars>>

\* The catch block covers the effects too.
FailRefund(r) ==
    /\ step[r] = "fail"
    /\ SetRefund(r, "FAILED")
    /\ GoStep(r, "done")
    /\ UNCHANGED <<amount, known, atProvider, refundEvent, hook, effectLocals, commerceVars>>
-----------------------------------------------------------------------------
(* applyRefundEffects, run by the request or by the webhook *)

Target(isFull) == IF isFull THEN "REFUNDED" ELSE "PARTIALLY_REFUNDED"

\* The run at r may go on from state `at' to state `next'.
EffectsAt(r, at) == step[r] = at \/ hook[r] = at
EffectsGo(r, at, next, whenHook) ==
    /\ step' = [step EXCEPT ![r] = IF @ = at THEN next ELSE @]
    /\ hook' = [hook EXCEPT ![r] = IF @ = at THEN whenHook ELSE @]

\* What a run read is not used once the run has ended.
ForgetEffects(r) ==
    /\ full' = [full EXCEPT ![r] = FALSE]
    /\ sawPayment' = [sawPayment EXCEPT ![r] = "NONE"]

\* The early returns: the refund is not confirmed, or its posting exists.
NothingToApply(r) == refund[r] # "SUCCEEDED" \/ r \in refundTx

\* Reads ahead of the compare-and-set: the refunded total (PENDING ones
\* included) and the payment state; an illegal transition throws.
ReadEffects(r) ==
    LET x == RefundOf[r]
        isFull == Reserved(x, {r}) + amount[r] >= FinalPrice
        allowed == payment[x] = Target(isFull) \/ CanTransition(payment[x], Target(isFull))
    IN /\ EffectsAt(r, "effects")
       /\ IF allowed /\ ~NothingToApply(r)
          THEN /\ full' = [full EXCEPT ![r] = isFull]
               /\ sawPayment' = [sawPayment EXCEPT ![r] = payment[x]]
               /\ EffectsGo(r, "effects", "apply", "apply")
          ELSE /\ IF NothingToApply(r) THEN EffectsGo(r, "effects", "done", "finish")
                                       ELSE EffectsGo(r, "effects", "fail", "idle")
               /\ UNCHANGED effectLocals
       /\ UNCHANGED <<refundRows, atProvider, refundEvent, commerceVars>>

SellerShare(r) == RefundSellerPart(amount[r], SellerNet(FinalPrice), FinalPrice)
PlatformShare(r) == RefundPlatformPart(amount[r], SellerNet(FinalPrice), FinalPrice)

\* A full refund ends the purchase and revokes an active license (K-004).
RevokeIfFull(r) ==
    LET p == PurchaseOf[RefundOf[r]] IN
    IF full[r]
    THEN /\ purchase' = [purchase EXCEPT ![p] = IF @ = "COMPLETED" THEN "REFUNDED" ELSE @]
         /\ license' = [license EXCEPT ![p] = IF @ = "ACTIVE" THEN "REVOKED" ELSE @]
    ELSE UNCHANGED entitlementVars

\* The payment compare-and-set and every money effect, in one transaction.
ApplyEffects(r) ==
    LET x == RefundOf[r] IN
    /\ EffectsAt(r, "apply")
    /\ payment[x] = sawPayment[r] \/ sawPayment[r] = Target(full[r])
    /\ IF payment[x] = sawPayment[r] THEN SetPayment(x, Target(full[r]))
                                     ELSE UNCHANGED payment
    /\ RevokeIfFull(r)
    /\ balance' = balance - SellerShare(r)
    /\ Post(-SellerShare(r), -PlatformShare(r))
    /\ refundTx' = refundTx \union {r}
    /\ EffectsGo(r, "apply", "done", "finish")
    /\ ForgetEffects(r)
    /\ UNCHANGED <<settled, refundRows, atProvider, refundEvent, providerVars, event, handlerVars, requestVars>>

\* The payment moved since it was read: payment_state_conflict.
EffectsConflict(r) ==
    /\ EffectsAt(r, "apply")
    /\ payment[RefundOf[r]] # sawPayment[r] /\ sawPayment[r] # Target(full[r])
    /\ EffectsGo(r, "apply", "fail", "idle")
    /\ ForgetEffects(r)
    /\ UNCHANGED <<refundRows, atProvider, refundEvent, commerceVars>>
-----------------------------------------------------------------------------
(* The refund.* branch of the webhook *)

Notified(r) == atProvider[r] \in {"SUCCEEDED", "FAILED"}

DeliverRefund(r) ==
    /\ hook[r] = "idle" /\ Notified(r) /\ refundEvent[r] # "PROCESSED"
    /\ refundEvent' = [refundEvent EXCEPT ![r] = "PROCESSING"]
    /\ GoHook(r, "cas")
    /\ UNCHANGED <<refundRows, atProvider, step, effectLocals, commerceVars>>

\* No row carries the provider's refund id yet: FAILED, answered 404.
RefundUnknown(r) ==
    /\ hook[r] = "cas" /\ r \notin known
    /\ refundEvent' = [refundEvent EXCEPT ![r] = "FAILED"]
    /\ GoHook(r, "idle")
    /\ UNCHANGED <<refundRows, atProvider, step, effectLocals, commerceVars>>

\* Mutant: the row is read, not compared and set.
AnyConfirmation(r) == refund[r] \in {"PENDING", "SUCCEEDED"}

WinsRefundRow(r) == refund[r] = "PENDING"

\* Compare-and-set PENDING -> SUCCEEDED | FAILED: only the winner of a success
\* runs the effects.
ResolveRefund(r) ==
    /\ hook[r] = "cas" /\ r \in known
    /\ IF WinsRefundRow(r)
       THEN /\ SetRefund(r, atProvider[r])
            /\ GoHook(r, IF atProvider[r] = "SUCCEEDED" THEN "effects" ELSE "finish")
       ELSE /\ GoHook(r, "finish")
            /\ UNCHANGED refund
    /\ UNCHANGED <<amount, known, atProvider, refundEvent, step, effectLocals, commerceVars>>

FinishRefundEvent(r) ==
    /\ hook[r] = "finish"
    /\ refundEvent' = [refundEvent EXCEPT ![r] = "PROCESSED"]
    /\ GoHook(r, "idle")
    /\ UNCHANGED <<refundRows, atProvider, step, effectLocals, commerceVars>>

\* A refund the provider holds PENDING is confirmed or refused there (external).
ProviderResolves(r) ==
    /\ atProvider[r] = "PENDING"
    /\ \E s \in {"SUCCEEDED", "FAILED"} : atProvider' = [atProvider EXCEPT ![r] = s]
    /\ UNCHANGED <<refundRows, refundEvent, step, hook, effectLocals, commerceVars>>

\* The process stops during a request or a delivery.
LoseRefundRequest(r) ==
    /\ step[r] \notin {"idle", "done"}
    /\ GoStep(r, "done")
    /\ IF step[r] = "apply" THEN ForgetEffects(r) ELSE UNCHANGED effectLocals
    /\ UNCHANGED <<refundRows, atProvider, refundEvent, hook, commerceVars>>

LoseRefundHook(r) ==
    /\ hook[r] # "idle"
    /\ GoHook(r, "idle")
    /\ IF hook[r] = "apply" THEN ForgetEffects(r) ELSE UNCHANGED effectLocals
    /\ UNCHANGED <<refundRows, atProvider, refundEvent, step, commerceVars>>

RefundStepOf(r) ==
    \/ RequestRefund(r) \/ Reserve(r) \/ CallProvider(r) \/ RecordRefund(r)
    \/ FailRefund(r) \/ ReadEffects(r) \/ ApplyEffects(r) \/ EffectsConflict(r)
    \/ DeliverRefund(r) \/ RefundUnknown(r) \/ ResolveRefund(r)
    \/ FinishRefundEvent(r) \/ ProviderResolves(r)

RefundNext == \E r \in Refunds : RefundStepOf(r)

RefundTypeOK ==
    /\ refundTx \subseteq Refunds
    /\ refund \in [Refunds -> RefundStatus]
    /\ amount \in [Refunds -> Nat]
    /\ known \subseteq Refunds
    /\ atProvider \in [Refunds -> RefundStatus]
    /\ refundEvent \in [Refunds -> EventStatus]
    /\ step \in [Refunds -> RequestStep]
    /\ hook \in [Refunds -> HookStep]
    /\ full \in [Refunds -> BOOLEAN]
    /\ sawPayment \in [Refunds -> PaymentState \union {"NONE"}]

RefundInit ==
    /\ refund = [r \in Refunds |-> "NONE"]
    /\ amount = [r \in Refunds |-> 0]
    /\ known = {}
    /\ atProvider = [r \in Refunds |-> "NONE"]
    /\ refundEvent = [r \in Refunds |-> "NONE"]
    /\ step = [r \in Refunds |-> "idle"]
    /\ hook = [r \in Refunds |-> "idle"]
    /\ full = [r \in Refunds |-> FALSE]
    /\ sawPayment = [r \in Refunds |-> "NONE"]
=============================================================================
