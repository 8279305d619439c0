------------------------------- MODULE Commerce -------------------------------
(***************************************************************************)
(* Resource commerce as a whole: checkout, payment, provider webhooks,     *)
(* settlement, refunds and disputes of one buyer's purchases of one        *)
(* resource, with requests that interleave, get lost, and are delivered    *)
(* again.                                                                  *)
(***************************************************************************)
EXTENDS PurchaseDisputes, FiniteSets

CONSTANT MaxLosses    \* bound on the requests lost half-way

ASSUME MaxLossesType == MaxLosses \in Nat

VARIABLE losses       \* requests lost so far

vars == <<commerceVars, refundVars, disputeVars, losses>>

Init ==
    /\ StoreInit
    /\ WebhookInit
    /\ RequestInit
    /\ RefundInit
    /\ DisputeInit
    /\ losses = 0

WebhookStep ==
    /\ \/ \E h \in Handlers : HandlerNext(h)
       \/ \E e \in Events : DeliverProcessed(e) \/ \E h \in Handlers : Deliver(h, e)
    /\ UNCHANGED <<requestVars, refundVars, disputeVars, losses>>

RequestOrProviderStep == RequestNext /\ UNCHANGED <<refundVars, disputeVars, losses>>

RefundStep == RefundNext /\ UNCHANGED <<disputeVars, losses>>

DisputeStep == DisputeNext /\ UNCHANGED losses

\* A process stops, or a connection fails, under one request.
LossStep ==
    /\ losses < MaxLosses
    /\ losses' = losses + 1
    /\ \/ /\ (\E h \in Handlers : Lose(h)) \/ (\E e \in Events : LoseAnswer(e))
          /\ UNCHANGED <<requestVars, refundVars, disputeVars>>
       \/ /\ \E x \in Payments : LoseInsert(x) \/ LoseCancel(x)
          /\ UNCHANGED <<refundVars, disputeVars>>
       \/ /\ \E r \in Refunds : LoseRefundRequest(r) \/ LoseRefundHook(r)
          /\ UNCHANGED disputeVars

Next == WebhookStep \/ RequestOrProviderStep \/ RefundStep \/ DisputeStep \/ LossStep

Spec == Init /\ [][Next]_vars

\* Requests in progress go on, and the provider delivers a notification again
\* until it is acknowledged.  Buyers, administrators and the provider's
\* own decisions are not fair.
Fairness ==
    /\ \A h \in Handlers :
         WF_vars(HandlerNext(h) /\ UNCHANGED <<requestVars, refundVars, disputeVars, losses>>)
    /\ \A e \in Events :
         SF_vars((\E h \in Handlers : Deliver(h, e))
                 /\ UNCHANGED <<requestVars, refundVars, disputeVars, losses>>)
    /\ \A x \in Payments :
         WF_vars((InsertPayment(x) \/ CancelAtProvider(x) \/ CancelTransition(x)
                  \/ CancelClose(x)) /\ UNCHANGED <<refundVars, disputeVars, losses>>)

FairSpec == Spec /\ Fairness
-----------------------------------------------------------------------------
\* Every row, request and notification is in a state the code can write.
TypeOK ==
    /\ StoreTypeOK
    /\ WebhookTypeOK
    /\ RequestTypeOK
    /\ RefundTypeOK
    /\ DisputeTypeOK
    /\ losses \in Nat

\* The purchases a license was issued for.
Granted == {"COMPLETED", "DISPUTED", "REFUNDED"}

\* No entitlement without money: an active license is backed by a payment the
\* provider captured, for the right amount, on this purchase - whichever way
\* deliveries, cancellations and repairs interleaved (INV-001, A-010, A-011).
LicenseIsPaid ==
    \A p \in Purchases : license[p] # "NONE" =>
        \E x \in Payments : PurchaseOf[x] = p /\ Verified(x)

\* Money follows entitlement: revenue is settled only for a purchase that was
\* granted, and the settlement survives the dispute that freezes it and the refund
\* that ends it (INV-001).
SettledIsEntitled == \A p \in settled : purchase[p] \in Granted /\ license[p] # "NONE"

\* Two licenses are in force at once only while a dispute keeps the purchase of one
\* of them out of the index: a frozen purchase keeps its license, and neither the
\* checkout nor the completion looks for it (commerce.ts:129-157, 543-546).
OneLicenseInForce ==
    \A p, q \in Purchases :
        p # q /\ license[p] = "ACTIVE" /\ license[q] = "ACTIVE"
            => "DISPUTED" \in {purchase[p], purchase[q]}

\* A success notification is PROCESSED only once the purchase it names has been
\* granted and settled, so the provider may stop delivering it (E-004).
ProcessedIsSettled ==
    \A e \in Events :
        e.type = "payment.succeeded" /\ event[e] = "PROCESSED"
            => PurchaseOf[e.payment] \in settled

\* Exactly once: the cached balance and the seller's ledger account both hold
\* one settlement per settled purchase less one posting per applied refund.
SellerIsCreditedOnce ==
    LET due == Cardinality(settled) * SellerNet(FinalPrice)
                 - SumFunctionOnSet([r \in Refunds |-> SellerShare(r)], refundTx)
    IN balance = due /\ book["seller_available"] = due

\* INV-013: confirmed and in-flight refunds never exceed the captured amount.
RefundCeiling == \A x \in Payments : Reserved(x, {}) <= FinalPrice

\* A refund's effects are applied only to a refund the provider confirmed.
AppliedIsConfirmed ==
    \A r \in refundTx : refund[r] = "SUCCEEDED" /\ atProvider[r] = "SUCCEEDED"

\* A payment row holds a captured state only if the provider captured it, and
\* at most one payment of a purchase ever does (E-003, PLAN-012 6).
CapturedIsReal ==
    /\ \A x \in Payments : payment[x] \in Captured => Verified(x)
    /\ \A x, y \in Payments :
         {payment[x], payment[y]} \subseteq Captured /\ PurchaseOf[x] = PurchaseOf[y] => x = y

\* The compare-and-set on the refund row arbitrates the request and the
\* notification: one effects run per refund, and none once it has committed
\* (B-004.3).
EffectsRunOnce ==
    \A r \in Refunds :
        LET byRequest == step[r] \in {"effects", "apply"}
            byHook == hook[r] \in {"effects", "apply"}
        IN /\ ~(byRequest /\ byHook)
           /\ byRequest \/ byHook => refund[r] = "SUCCEEDED" /\ r \notin refundTx

\* What a refund ended stays ended: no later delivery, repair or completion
\* re-opens a refunded purchase or revives a revoked license (K-004).
RefundIsFinal ==
    [][\A p \in Purchases :
          /\ purchase[p] = "REFUNDED" => purchase'[p] = "REFUNDED"
          /\ license[p] = "REVOKED" => license'[p] = "REVOKED"]_vars

\* The requests, with all their interleavings, losses and redeliveries, implement
\* the promise: every step of theirs is one step of Entitlement, or none.
Promise == INSTANCE Entitlement WITH
    paid <- {PurchaseOf[x] : x \in {y \in Payments : Verified(y)}},
    frozen <- {p \in Purchases : purchase[p] = "DISPUTED"},
    Net <- SellerNet(FinalPrice)

PromiseIsKept == Promise!Spec

\* What keeps a captured payment from being settled, as long as it lasts: the
\* purchase is in dispute; it was closed and a newer one is live, so that it cannot
\* be reopened; or a refund took the money back before it was settled.
Stuck(p) ==
    \/ purchase[p] = "DISPUTED"
    \/ purchase[p] = "FAILED" /\ ~LiveIndexAdmits(p)
    \/ \E r \in refundTx : PurchaseOf[RefundOf[r]] = p

\* A captured payment is settled in the end, whatever requests are lost and however
\* its notifications overlap (E-003, audit GAP-1 and GAP-2), or it is stuck for good.
CapturedIsSettled ==
    <>[](\A x \in Payments : Verified(x) => PurchaseOf[x] \in settled \/ Stuck(PurchaseOf[x]))
-----------------------------------------------------------------------------
(* What makes the invariants above inductive *)

\* The live index: at most one purchase is live.
LiveIsUnique ==
    \A p, q \in Purchases : purchase[p] \in Live /\ purchase[q] \in Live => p = q

\* What a webhook request has established when it stands where it stands.
RequestInv(h) ==
    /\ pc[h] \in {"cancel_payment", "cancel_overwrite", "cancel_purchase"}
         => serving[h].type = "payment.canceled"
    /\ pc[h] \in {"capture", "reopen", "complete", "settle", "confirm", "to_settled"}
         => Verified(Pay(h))
    /\ pc[h] = "settle" => license[Order(h)] # "NONE"
    /\ pc[h] \in {"confirm", "to_settled"} => Order(h) \in settled
    /\ pc[h] = "finish" => serving[h].type = "payment.canceled" \/ Order(h) \in settled

\* Entitlement and money agree, between requests and inside each of them.
EntitlementInv ==
    /\ \A p \in Purchases :
         /\ license[p] # "NONE" <=> purchase[p] \in Granted
         /\ purchase[p] = "REFUNDED" => license[p] = "REVOKED"
    /\ LicenseIsPaid
    /\ \A p \in settled : license[p] # "NONE"
    /\ ProcessedIsSettled
    /\ \A h \in Handlers : RequestInv(h)

\* A refund's row, its request, its notification and the provider agree: who
\* may still confirm it, and who has.
RefundRowInv(r) ==
    /\ step[r] \in {"idle", "reserve", "provider"} => atProvider[r] = "NONE"
    /\ step[r] \in {"idle", "reserve", "provider", "record_succeeded", "record_pending"}
         => r \notin known
    /\ step[r] \in {"provider", "record_succeeded", "record_pending"} => refund[r] = "PENDING"
    /\ step[r] = "record_succeeded" => atProvider[r] = "SUCCEEDED"
    /\ step[r] = "fail" => r \notin refundTx /\ (r \notin known \/ refund[r] = "SUCCEEDED")
    /\ hook[r] # "idle" => Notified(r)
    /\ hook[r] \in {"effects", "apply"} => step[r] = "done"
    /\ step[r] \in {"effects", "apply"} \/ hook[r] \in {"effects", "apply"}
         => r \in known /\ refund[r] = "SUCCEEDED" /\ r \notin refundTx
    /\ step[r] = "apply" \/ hook[r] = "apply" => sawPayment[r] \in Captured
    /\ refund[r] = "SUCCEEDED" => r \in known /\ atProvider[r] = "SUCCEEDED"
    /\ r \in refundTx => refund[r] = "SUCCEEDED"

RefundInv == \A r \in Refunds : RefundRowInv(r)
=============================================================================
