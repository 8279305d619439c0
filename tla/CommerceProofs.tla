----------------------------- MODULE CommerceProofs -----------------------------
(***************************************************************************)
(* Proofs about resource commerce, for every set of purchases, payments,   *)
(* notifications and overlapping requests.                                 *)
(***************************************************************************)
EXTENDS Commerce, SumTheorems, TLAPS

(* The arithmetic of fees and refunds, for every amount *)

\* Rounding an integer quotient gives the integer nearest to it.
LEMMA RoundDivBounds ==
    ASSUME NEW a \in Int, NEW b \in Nat \ {0}
    PROVE  /\ RoundDiv(a, b) \in Int
           /\ 2 * b * RoundDiv(a, b) <= 2 * a + b
           /\ 2 * a - b < 2 * b * RoundDiv(a, b)
<1> DEFINE q == (2 * a + b) \div (2 * b)
           n == 2 * a + b
           d == 2 * b
<1>1. n \in Int /\ d \in Nat \ {0}
  OBVIOUS
<1>2. n \div d \in Int /\ d * (n \div d) <= n /\ n < d * (n \div d) + d
  BY <1>1, SMT
<1> QED BY <1>2 DEF RoundDiv

\* splitFees: on a price in kopecks the fee and the seller's net are both
\* non-negative and add up to the price, so the settlement posting balances.
THEOREM FeesAddUp ==
    ASSUME NEW finalPrice \in Nat
    PROVE  /\ PlatformFee(finalPrice) \in 0..finalPrice
           /\ SellerNet(finalPrice) \in 0..finalPrice
           /\ PlatformFee(finalPrice) + SellerNet(finalPrice) = finalPrice
<1> DEFINE fee == RoundDiv(finalPrice, 10)
<1>1. /\ fee \in Int
      /\ 20 * fee <= 2 * finalPrice + 10
      /\ 2 * finalPrice - 10 < 20 * fee
  BY RoundDivBounds
<1>2. fee \in 0..finalPrice
  BY <1>1
<1> QED BY <1>2 DEF PlatformFee, SellerNet

\* applyRefundEffects: the seller's and the platform's parts of a refund are
\* both non-negative and add up to the refunded amount, however the original
\* revenue was split.
THEOREM RefundPartsAddUp ==
    ASSUME NEW captured \in Nat \ {0}, NEW kopecks \in Nat,
           NEW sellerRevenue \in 0..captured
    PROVE  /\ RefundSellerPart(kopecks, sellerRevenue, captured) \in 0..kopecks
           /\ RefundPlatformPart(kopecks, sellerRevenue, captured) \in 0..kopecks
           /\ RefundSellerPart(kopecks, sellerRevenue, captured)
                + RefundPlatformPart(kopecks, sellerRevenue, captured) = kopecks
<1> DEFINE product == kopecks * sellerRevenue
           part == RoundDiv(product, captured)
<1>1. product \in Nat /\ product <= kopecks * captured
  <2>1. sellerRevenue \in Nat /\ captured - sellerRevenue \in Nat
    OBVIOUS
  <2>2. kopecks * (captured - sellerRevenue) \in Nat
    BY <2>1
  <2>3. kopecks * (captured - sellerRevenue) = kopecks * captured - product
    BY <2>1
  <2> QED BY <2>1, <2>2, <2>3
<1>2. /\ part \in Int
      /\ 2 * captured * part <= 2 * product + captured
      /\ 2 * product - captured < 2 * captured * part
  BY <1>1, RoundDivBounds
<1>3. part >= 0
  <2>1. SUFFICES ASSUME part <= -1 PROVE FALSE
    BY <1>2
  <2>2. 2 * captured * part <= -(2 * captured)
    BY <1>2, <2>1
  <2> QED BY <1>1, <1>2, <2>2
<1>4. part <= kopecks
  <2>1. SUFFICES ASSUME part >= kopecks + 1 PROVE FALSE
    BY <1>2
  <2>2. 2 * captured * part >= 2 * captured * (kopecks + 1)
    BY <1>2, <2>1
  <2>3. 2 * captured * (kopecks + 1) = 2 * (kopecks * captured) + 2 * captured
    OBVIOUS
  <2> QED BY <1>1, <1>2, <2>2, <2>3
<1> HIDE DEF part
<1>5. part \in 0..kopecks /\ kopecks - part \in 0..kopecks /\ part + (kopecks - part) = kopecks
  BY <1>2, <1>3, <1>4
<1> QED BY <1>5 DEF RefundSellerPart, RefundPlatformPart, part
-----------------------------------------------------------------------------
(* The types of the store *)

\* A balanced posting of integer parts leaves integer accounts.
LEMMA PostType ==
    ASSUME book \in [Accounts -> Int], NEW s \in Int, NEW t \in Int, Post(s, t)
    PROVE  book' \in [Accounts -> Int]
BY DEF Post, Accounts

\* The two shares of the price of the runs.
LEMMA AmountsAreIntegers ==
    /\ SellerNet(FinalPrice) \in 0..FinalPrice
    /\ PlatformFee(FinalPrice) \in 0..FinalPrice
    /\ PlatformFee(FinalPrice) + SellerNet(FinalPrice) = FinalPrice
BY FinalPriceIsPositive, FeesAddUp

\* The two shares of every refund.
LEMMA SharesAreIntegers ==
    ASSUME NEW r \in Refunds, amount \in [Refunds -> Nat]
    PROVE  /\ SellerShare(r) \in 0..amount[r]
           /\ PlatformShare(r) \in 0..amount[r]
BY AmountsAreIntegers, FinalPriceIsPositive, RefundPartsAddUp DEF SellerShare, PlatformShare

\* A settlement keeps the accounts and the balance integers.
LEMMA SettleRevenueType ==
    ASSUME NEW p \in Purchases, StoreTypeOK, SettleRevenue(p)
    PROVE  /\ settled' \subseteq Purchases
           /\ book' \in [Accounts -> Int]
           /\ balance' \in Int
           /\ refundTx' = refundTx
<1>1. CASE p \in settled
  BY <1>1 DEF SettleRevenue, StoreTypeOK, moneyVars
<1>2. CASE p \notin settled
  <2>1. book' \in [Accounts -> Int]
    BY <1>2, AmountsAreIntegers, PostType DEF SettleRevenue, StoreTypeOK
  <2> QED BY <1>2, <2>1, AmountsAreIntegers DEF SettleRevenue, StoreTypeOK
<1> QED BY <1>1, <1>2

\* The purchase a request serves exists in the constants.
LEMMA ServedType ==
    ASSUME NEW h \in Handlers, WebhookTypeOK
    PROVE  serving[h] \in Events /\ Pay(h) \in Payments /\ Order(h) \in Purchases
BY EventsType, PurchaseOfType DEF WebhookTypeOK, Pay, Order

\* A notification nobody served yet has the type of one.
LEMMA UnservedType == Unserved \in Events
BY EventsType DEF Unserved

\* The initial rows have their types (schema of commerce, payments and refunds).
THEOREM InitTypes == Init => TypeOK
BY UnservedType, MaxDisputesType DEF Init, StoreInit, WebhookInit, RequestInit, RefundInit,
   DisputeInit, TypeOK, DisputeTypeOK, StoreTypeOK, WebhookTypeOK, RequestTypeOK, RefundTypeOK, PurchaseStatus, LicenseStatus,
   PaymentState, Accounts, EventStatus, HandlerStep, CancelStep, RefundStatus, RequestStep,
   HookStep

\* Every step of a webhook request keeps the store and the request well-typed.
LEMMA HandlerTypes ==
    ASSUME StoreTypeOK, WebhookTypeOK, NEW h \in Handlers, HandlerNext(h)
    PROVE  StoreTypeOK' /\ WebhookTypeOK' /\ refundTx' = refundTx
<1> USE DEF StoreTypeOK, WebhookTypeOK, PurchaseStatus, LicenseStatus, PaymentState,
           EventStatus, HandlerStep, Goto, Locals, storeVars, entitlementVars, moneyVars,
           providerVars
<1>0. serving[h] \in Events /\ Pay(h) \in Payments /\ Order(h) \in Purchases /\ Unserved \in Events
  BY ServedType, UnservedType
<1>1. CASE MarkProcessing(h)
  BY <1>0, <1>1 DEF MarkProcessing, SetEvent
<1>2. CASE ReadPayment(h)
  BY <1>0, <1>2 DEF ReadPayment
<1>3. CASE CancelPayment(h)
  BY <1>0, <1>3 DEF CancelPayment, SetPayment, TransitionPaymentTo, MayMoveTo
<1>4. CASE CancelOverwrite(h)
  BY <1>0, <1>4 DEF CancelOverwrite, SetPayment
<1>5. CASE CancelPurchase(h)
  BY <1>0, <1>5 DEF CancelPurchase, ClosePending
<1>6. CASE RepairPayment(h)
  BY <1>0, <1>6 DEF RepairPayment, SetPayment
<1>7. CASE Lookup(h)
  BY <1>0, <1>7 DEF Lookup
<1>8. CASE VerifyOk(h)
  BY <1>0, <1>8 DEF VerifyOk
<1>9. CASE VerifyFailed(h)
  BY <1>0, <1>9 DEF VerifyFailed, SetEvent, Reply
<1>10. CASE Capture(h)
  BY <1>0, <1>10 DEF Capture, SetPayment, TransitionPaymentTo, MayMoveTo
<1>11. CASE Reopen(h)
  BY <1>0, <1>11 DEF Reopen
<1>12. CASE Complete(h)
  BY <1>0, <1>12 DEF Complete, GrantPurchase, RepairPurchase, EnsureLicense
<1>13. CASE Settle(h)
  BY <1>0, <1>13, SettleRevenueType DEF Settle
<1>14. CASE Confirm(h)
  BY <1>0, <1>14 DEF Confirm, SetPayment
<1>15. CASE ToSettled(h)
  BY <1>0, <1>15 DEF ToSettled, SetPayment, TransitionPaymentTo, MayMoveTo
<1>16. CASE Finish(h)
  BY <1>0, <1>16 DEF Finish, SetEvent, Reply
<1>17. CASE Throw(h)
  BY <1>0, <1>17 DEF Throw, Reply
<1> QED
  BY <1>1, <1>2, <1>3, <1>4, <1>5, <1>6, <1>7, <1>8, <1>9, <1>10, <1>11, <1>12, <1>13, <1>14, <1>15, <1>16, <1>17 DEF HandlerNext

\* Every request of the buyer and every decision of the provider.
LEMMA RequestTypes ==
    ASSUME StoreTypeOK, WebhookTypeOK, RequestTypeOK, RequestNext
    PROVE  StoreTypeOK' /\ WebhookTypeOK' /\ RequestTypeOK' /\ refundTx' = refundTx
<1> USE DEF StoreTypeOK, WebhookTypeOK, RequestTypeOK, PurchaseStatus, LicenseStatus, PaymentState,
           CancelStep, storeVars, entitlementVars, moneyVars, providerVars, handlerVars, requestVars
<1>1. CASE \E p \in Purchases : Checkout(p)
  BY <1>1 DEF Checkout
<1>2. ASSUME NEW x \in Payments, CreateAtProvider(x)
      PROVE  StoreTypeOK' /\ WebhookTypeOK' /\ RequestTypeOK' /\ refundTx' = refundTx
  BY <1>2 DEF CreateAtProvider
<1>3. ASSUME NEW x \in Payments, InsertPayment(x)
      PROVE  StoreTypeOK' /\ WebhookTypeOK' /\ RequestTypeOK' /\ refundTx' = refundTx
  BY <1>3 DEF InsertPayment
<1>4. ASSUME NEW x \in Payments, CancelRequested(x)
      PROVE  StoreTypeOK' /\ WebhookTypeOK' /\ RequestTypeOK' /\ refundTx' = refundTx
  BY <1>4 DEF CancelRequested
<1>5. ASSUME NEW x \in Payments, CancelAtProvider(x)
      PROVE  StoreTypeOK' /\ WebhookTypeOK' /\ RequestTypeOK' /\ refundTx' = refundTx
  BY <1>5 DEF CancelAtProvider, NotifyOf
<1>6. ASSUME NEW x \in Payments, CancelTransition(x)
      PROVE  StoreTypeOK' /\ WebhookTypeOK' /\ RequestTypeOK' /\ refundTx' = refundTx
  BY <1>6 DEF CancelTransition, SetPayment, TransitionPaymentTo, MayMoveTo
<1>7. ASSUME NEW x \in Payments, CancelClose(x)
      PROVE  StoreTypeOK' /\ WebhookTypeOK' /\ RequestTypeOK' /\ refundTx' = refundTx
  BY <1>7, PurchaseOfType DEF CancelClose, ClosePending
<1>8. ASSUME NEW x \in Payments, ProviderCaptures(x)
      PROVE  StoreTypeOK' /\ WebhookTypeOK' /\ RequestTypeOK' /\ refundTx' = refundTx
  BY <1>8 DEF ProviderCaptures, NotifyOf
<1>9. ASSUME NEW x \in Payments, ProviderCancels(x)
      PROVE  StoreTypeOK' /\ WebhookTypeOK' /\ RequestTypeOK' /\ refundTx' = refundTx
  BY <1>9 DEF ProviderCancels, NotifyOf
<1> QED
  BY <1>1, <1>2, <1>3, <1>4, <1>5, <1>6, <1>7, <1>8, <1>9 DEF RequestNext

\* The effects of a refund keep the types of the rows.
LEMMA EffectsGoType ==
    ASSUME RefundTypeOK, NEW r \in Refunds, NEW at, NEW next \in RequestStep,
           NEW whenHook \in HookStep, EffectsGo(r, at, next, whenHook)
    PROVE  step' \in [Refunds -> RequestStep] /\ hook' \in [Refunds -> HookStep]
BY DEF EffectsGo, RefundTypeOK

\* Every step of a refund, its notification and its effects.
LEMMA RefundTypes ==
    ASSUME StoreTypeOK, WebhookTypeOK, RequestTypeOK, RefundTypeOK,
           NEW r \in Refunds, RefundStepOf(r)
    PROVE  StoreTypeOK' /\ WebhookTypeOK' /\ RequestTypeOK' /\ RefundTypeOK'
<1> USE RefundOfType, PurchaseOfType
    DEF RefundTypeOK, RefundStatus, RequestStep, HookStep, EventStatus, PaymentState,
        GoStep, GoHook, SetRefund, refundRows, effectLocals
<1> DEFINE Frame == commerceVars' = commerceVars
<1>0. Frame => StoreTypeOK' /\ WebhookTypeOK' /\ RequestTypeOK' /\ refundTx' = refundTx
  BY DEF StoreTypeOK, WebhookTypeOK, RequestTypeOK, commerceVars, storeVars, entitlementVars,
         moneyVars, providerVars, handlerVars, requestVars
<1> HIDE DEF Frame
<1>1. CASE RequestRefund(r)
  BY <1>0, <1>1 DEF RequestRefund, Frame
<1>2. CASE Reserve(r)
  BY <1>0, <1>2 DEF Reserve, Frame
<1>3. CASE CallProvider(r)
  BY <1>0, <1>3 DEF CallProvider, Frame
<1>4. CASE RecordRefund(r)
  BY <1>0, <1>4 DEF RecordRefund, Frame
<1>5. CASE FailRefund(r)
  BY <1>0, <1>5 DEF FailRefund, Frame
<1>6. CASE ReadEffects(r)
  <2>1. step' \in [Refunds -> RequestStep] /\ hook' \in [Refunds -> HookStep]
    BY <1>6, EffectsGoType DEF ReadEffects
  <2> DEFINE isFull == Reserved(RefundOf[r], {r}) + amount[r] >= FinalPrice
  <2>2. isFull \in BOOLEAN
    OBVIOUS
  <2>3. \/ UNCHANGED effectLocals
        \/ /\ full' = [full EXCEPT ![r] = isFull]
           /\ sawPayment' = [sawPayment EXCEPT ![r] = payment[RefundOf[r]]]
    BY <1>6 DEF ReadEffects
  <2>4. UNCHANGED <<refundRows, atProvider, refundEvent, commerceVars>>
    BY <1>6 DEF ReadEffects
  <2> HIDE DEF isFull
  <2>5. full' \in [Refunds -> BOOLEAN]
    BY <2>2, <2>3
  <2>6. sawPayment' \in [Refunds -> PaymentState \union {"NONE"}]
    BY <2>3 DEF StoreTypeOK
  <2> QED BY <1>0, <2>1, <2>4, <2>5, <2>6 DEF Frame
<1>7. CASE ApplyEffects(r)
  <2>1. step' \in [Refunds -> RequestStep] /\ hook' \in [Refunds -> HookStep]
    BY <1>7, EffectsGoType DEF ApplyEffects
  <2>2. SellerShare(r) \in Int /\ PlatformShare(r) \in Int
    BY SharesAreIntegers
  <2>3. book' \in [Accounts -> Int] /\ balance' \in Int
    BY <1>7, <2>2, PostType DEF ApplyEffects, StoreTypeOK
  <2>4. purchase' \in [Purchases -> PurchaseStatus] /\ license' \in [Purchases -> LicenseStatus]
    BY <1>7 DEF ApplyEffects, RevokeIfFull, StoreTypeOK, PurchaseStatus, LicenseStatus, entitlementVars
  <2>5. payment' \in [Payments -> PaymentState \union {"NONE"}]
    BY <1>7 DEF ApplyEffects, SetPayment, Target, StoreTypeOK
  <2>6. StoreTypeOK'
    BY <1>7, <2>3, <2>4, <2>5 DEF ApplyEffects, StoreTypeOK
  <2>7. WebhookTypeOK' /\ RequestTypeOK'
    BY <1>7 DEF ApplyEffects, WebhookTypeOK, RequestTypeOK, providerVars, handlerVars, requestVars
  <2> QED BY <1>7, <2>1, <2>6, <2>7 DEF ApplyEffects, ForgetEffects
<1>8. CASE EffectsConflict(r)
  <2>1. step' \in [Refunds -> RequestStep] /\ hook' \in [Refunds -> HookStep]
    BY <1>8, EffectsGoType DEF EffectsConflict
  <2> QED BY <1>0, <1>8, <2>1 DEF EffectsConflict, ForgetEffects, Frame
<1>9. CASE DeliverRefund(r)
  BY <1>0, <1>9 DEF DeliverRefund, Frame
<1>10. CASE RefundUnknown(r)
  BY <1>0, <1>10 DEF RefundUnknown, Frame
<1>11. CASE ResolveRefund(r)
  BY <1>0, <1>11 DEF ResolveRefund, Frame, Notified
<1>12. CASE FinishRefundEvent(r)
  BY <1>0, <1>12 DEF FinishRefundEvent, Frame
<1>13. CASE ProviderResolves(r)
  BY <1>0, <1>13 DEF ProviderResolves, Frame
<1> QED
  BY <1>1, <1>2, <1>3, <1>4, <1>5, <1>6, <1>7, <1>8, <1>9, <1>10, <1>11, <1>12, <1>13 DEF RefundStepOf

\* A dispute moves a purchase and nothing else.
LEMMA DisputeTypes ==
    ASSUME StoreTypeOK, DisputeTypeOK, DisputeNext
    PROVE  /\ StoreTypeOK' /\ DisputeTypeOK' /\ refundTx' = refundTx
           /\ UNCHANGED <<providerVars, event, handlerVars, requestVars, refundVars>>
<1> USE DEF StoreTypeOK, DisputeTypeOK, PurchaseStatus, PurchaseOnly, moneyVars, disputeVars
<1>1. ASSUME NEW p \in Purchases, FreezePurchase(p)
      PROVE  /\ StoreTypeOK' /\ DisputeTypeOK' /\ refundTx' = refundTx
             /\ UNCHANGED <<providerVars, event, handlerVars, requestVars, refundVars>>
  BY <1>1 DEF FreezePurchase
<1>2. ASSUME NEW p \in Purchases, RestorePurchase(p)
      PROVE  /\ StoreTypeOK' /\ DisputeTypeOK' /\ refundTx' = refundTx
             /\ UNCHANGED <<providerVars, event, handlerVars, requestVars, refundVars>>
  BY <1>2 DEF RestorePurchase
<1> QED BY <1>1, <1>2 DEF DisputeNext

\* A webhook request may be lost anywhere, a notification delivered at any time.
LEMMA DeliveryTypes ==
    ASSUME StoreTypeOK, WebhookTypeOK,
           \/ \E h \in Handlers : Lose(h) \/ \E e \in Events : Deliver(h, e)
           \/ \E e \in Events : DeliverProcessed(e) \/ LoseAnswer(e)
    PROVE  StoreTypeOK' /\ WebhookTypeOK' /\ refundTx' = refundTx
<1> USE UnservedType
    DEF Reply, Goto, StoreTypeOK, WebhookTypeOK, PurchaseStatus, EventStatus, HandlerStep,
        storeVars, entitlementVars, moneyVars, providerVars, handlerVars
<1>1. ASSUME NEW h \in Handlers, Lose(h)
      PROVE  StoreTypeOK' /\ WebhookTypeOK' /\ refundTx' = refundTx
  BY <1>1 DEF Lose
<1>2. ASSUME NEW h \in Handlers, NEW e \in Events, Deliver(h, e)
      PROVE  StoreTypeOK' /\ WebhookTypeOK' /\ refundTx' = refundTx
  BY <1>2 DEF Deliver
<1>3. ASSUME NEW e \in Events, DeliverProcessed(e) \/ LoseAnswer(e)
      PROVE  StoreTypeOK' /\ WebhookTypeOK' /\ refundTx' = refundTx
  BY <1>3 DEF DeliverProcessed, LoseAnswer
<1> QED BY <1>1, <1>2, <1>3

\* Every row, request and notification stays in a state the code can write.
THEOREM TypeCorrect == Spec => []TypeOK
<1>1. TypeOK /\ [Next]_vars => TypeOK'
  <2> SUFFICES ASSUME TypeOK, [Next]_vars PROVE TypeOK'
    OBVIOUS
  <2> USE DEF TypeOK
  <2> DEFINE FrameRefunds == refundVars' = refundVars /\ refundTx' = refundTx
             FrameRequests == requestVars' = requestVars
             FrameDisputes == disputeVars' = disputeVars
  <2>1. FrameRefunds => RefundTypeOK'
    BY DEF RefundTypeOK, refundVars, refundRows, effectLocals
  <2>2. FrameRequests => RequestTypeOK'
    BY DEF RequestTypeOK, requestVars
  <2>8. FrameDisputes => DisputeTypeOK'
    BY DEF DisputeTypeOK, disputeVars
  <2> HIDE DEF FrameRefunds, FrameRequests, FrameDisputes
  <2>3. CASE WebhookStep
    <3>1. StoreTypeOK' /\ WebhookTypeOK' /\ refundTx' = refundTx
      BY <2>3, HandlerTypes, DeliveryTypes DEF WebhookStep
    <3> QED BY <2>1, <2>2, <2>3, <2>8, <3>1 DEF WebhookStep, FrameRefunds, FrameRequests, FrameDisputes
  <2>4. CASE RequestOrProviderStep
    BY <2>1, <2>4, <2>8, RequestTypes DEF RequestOrProviderStep, FrameRefunds, FrameDisputes
  <2>5. CASE RefundStep
    <3>1. StoreTypeOK' /\ WebhookTypeOK' /\ RequestTypeOK' /\ RefundTypeOK'
      BY <2>5, RefundTypes DEF RefundStep, RefundNext
    <3> QED BY <2>5, <2>8, <3>1 DEF RefundStep, FrameDisputes
  <2>9. CASE DisputeStep
    <3>1. /\ StoreTypeOK' /\ DisputeTypeOK' /\ FrameRefunds /\ FrameRequests
          /\ UNCHANGED <<providerVars, event, handlerVars, losses>>
      BY <2>9, DisputeTypes DEF DisputeStep, FrameRefunds, FrameRequests
    <3>2. WebhookTypeOK'
      BY <3>1 DEF WebhookTypeOK, providerVars, handlerVars
    <3> QED BY <2>1, <2>2, <3>1, <3>2
  <2>6. CASE LossStep
    <3>1. losses' \in Nat
      BY <2>6 DEF LossStep
    <3>2. CASE /\ (\E h \in Handlers : Lose(h)) \/ (\E e \in Events : LoseAnswer(e))
               /\ UNCHANGED <<requestVars, refundVars, disputeVars>>
      <4>1. StoreTypeOK' /\ WebhookTypeOK' /\ refundTx' = refundTx
        BY <3>2, DeliveryTypes
      <4> QED BY <2>1, <2>2, <2>8, <3>1, <3>2, <4>1 DEF FrameRefunds, FrameRequests, FrameDisputes
    <3>3. CASE /\ \E x \in Payments : LoseInsert(x) \/ LoseCancel(x)
               /\ UNCHANGED <<refundVars, disputeVars>>
      <4>1. StoreTypeOK' /\ WebhookTypeOK' /\ RequestTypeOK' /\ refundTx' = refundTx
        BY <3>3 DEF LoseInsert, LoseCancel, StoreTypeOK, WebhookTypeOK, RequestTypeOK, CancelStep,
                    storeVars, entitlementVars, moneyVars, providerVars, handlerVars
      <4> QED BY <2>1, <2>8, <3>1, <3>3, <4>1 DEF FrameRefunds, FrameDisputes
    <3>4. CASE /\ \E r \in Refunds : LoseRefundRequest(r) \/ LoseRefundHook(r)
               /\ UNCHANGED disputeVars
      <4>1. StoreTypeOK' /\ WebhookTypeOK' /\ RequestTypeOK'
        BY <3>4 DEF LoseRefundRequest, LoseRefundHook, commerceVars, StoreTypeOK, WebhookTypeOK,
                    RequestTypeOK, storeVars, entitlementVars, moneyVars, providerVars,
                    handlerVars, requestVars
      <4>2. PICK r \in Refunds : LoseRefundRequest(r) \/ LoseRefundHook(r)
        BY <3>4
      <4>3. UNCHANGED <<refundTx, refundRows, atProvider, refundEvent>>
        BY <4>2 DEF LoseRefundRequest, LoseRefundHook, commerceVars, storeVars, moneyVars
      <4>4. step' \in [Refunds -> RequestStep] /\ hook' \in [Refunds -> HookStep]
        BY <4>2 DEF LoseRefundRequest, LoseRefundHook, GoStep, GoHook, RefundTypeOK, RequestStep,
                    HookStep
      <4>5. /\ full' \in [Refunds -> BOOLEAN]
            /\ sawPayment' \in [Refunds -> PaymentState \union {"NONE"}]
        BY <4>2 DEF LoseRefundRequest, LoseRefundHook, ForgetEffects, RefundTypeOK, effectLocals
      <4>6. RefundTypeOK'
        BY <4>3, <4>4, <4>5 DEF RefundTypeOK, refundRows
      <4> QED BY <2>8, <3>1, <3>4, <4>1, <4>6 DEF FrameDisputes
    <3> QED BY <2>6, <3>2, <3>3, <3>4 DEF LossStep
  <2>7. CASE UNCHANGED vars
    BY <2>1, <2>2, <2>7, <2>8 DEF vars, commerceVars, FrameRefunds, FrameRequests, FrameDisputes, StoreTypeOK,
        WebhookTypeOK, storeVars, entitlementVars, moneyVars, providerVars, handlerVars
  <2> QED BY <2>3, <2>4, <2>5, <2>6, <2>7, <2>9 DEF Next
<1> QED BY <1>1, InitTypes, PTL DEF Spec

-----------------------------------------------------------------------------
(* Entitlement and money agree: EntitlementInv is inductive, and with it   *)
(* LicenseIsPaid, SettledIsEntitled and ProcessedIsSettled are invariants, *)
(* whichever requests overlap, get lost or are delivered again.  Hence     *)
(* Commerce implements Entitlement: every step is one step of the promise  *)
(* made to buyer and seller, or none.                                      *)

\* At first nobody is licensed.
LEMMA EntitlementInit == Init => EntitlementInv
BY DEF Granted, Init, StoreInit, WebhookInit, EntitlementInv, LicenseIsPaid, ProcessedIsSettled,
       RequestInv, Verified

\* Steps that touch none of the state the invariant relates.
LEMMA EntitlementFrame ==
    ASSUME EntitlementInv,
           UNCHANGED <<purchase, license, settled, provider, event, pc, serving>>
    PROVE  EntitlementInv'
BY DEF EntitlementInv, LicenseIsPaid, ProcessedIsSettled, RequestInv, Verified, Pay, Order

\* Steps that move purchases only among the states without entitlement.
LEMMA UnentitledFrame ==
    ASSUME EntitlementInv, StoreTypeOK,
           UNCHANGED <<license, settled, provider, event, pc, serving>>,
           \A p \in Purchases :
               \/ purchase'[p] = purchase[p]
               \/ {purchase[p], purchase'[p]} \intersect Granted = {}
    PROVE  EntitlementInv'
BY DEF Granted, EntitlementInv, LicenseIsPaid, ProcessedIsSettled, RequestInv, Verified, Pay, Order

\* Steps of the provider: what it captured stays captured.
LEMMA ProviderFrame ==
    ASSUME EntitlementInv, UNCHANGED <<purchase, license, settled, event, pc, serving>>,
           \A x \in Payments : provider[x] = "SUCCEEDED" => provider'[x] = "SUCCEEDED",
           WebhookTypeOK
    PROVE  EntitlementInv'
<1>1. \A x \in Payments : Verified(x) => Verified(x)'
  BY DEF Verified
<1>2. \A h \in Handlers : Pay(h) \in Payments /\ Pay(h)' = Pay(h) /\ Order(h)' = Order(h)
  BY ServedType DEF Pay, Order
<1> QED BY <1>1, <1>2 DEF EntitlementInv, LicenseIsPaid, ProcessedIsSettled, RequestInv

\* Every step of a webhook request.
LEMMA HandlerKeepsEntitlement ==
    ASSUME StoreTypeOK, WebhookTypeOK, EntitlementInv, NEW h \in Handlers, HandlerNext(h)
    PROVE  EntitlementInv'
<1> USE DEF Granted, EntitlementInv, RequestInv, LicenseIsPaid, ProcessedIsSettled, Verified, Pay, Order,
            StoreTypeOK, WebhookTypeOK, At, Goto, Locals, storeVars, entitlementVars, moneyVars,
            providerVars
<1>0. serving[h] \in Events /\ Pay(h) \in Payments /\ Order(h) \in Purchases /\ Unserved \in Events
  BY ServedType, UnservedType
<1>1. CASE MarkProcessing(h)
  BY <1>0, <1>1 DEF MarkProcessing, SetEvent
<1>2. CASE ReadPayment(h)
  BY <1>0, <1>2, EventsType DEF ReadPayment
<1>3. CASE CancelPayment(h)
  BY <1>0, <1>3 DEF CancelPayment
<1>4. CASE CancelOverwrite(h)
  BY <1>0, <1>4 DEF CancelOverwrite
<1>5. CASE CancelPurchase(h)
  BY <1>0, <1>5 DEF CancelPurchase, ClosePending
<1>6. CASE RepairPayment(h)
  BY <1>0, <1>6 DEF RepairPayment
<1>7. CASE Lookup(h)
  BY <1>0, <1>7 DEF Lookup
<1>8. CASE VerifyOk(h)
  BY <1>0, <1>8 DEF VerifyOk
<1>9. CASE VerifyFailed(h)
  BY <1>0, <1>9 DEF VerifyFailed, SetEvent, Reply
<1>10. CASE Capture(h)
  BY <1>0, <1>10 DEF Capture
<1>11. CASE Reopen(h)
  BY <1>0, <1>11 DEF Reopen
<1>12. CASE Complete(h)
  <2> DEFINE p == Order(h)
  <2>1. purchase' = [purchase EXCEPT ![p] = "COMPLETED"]
    BY <1>0, <1>12 DEF Complete, GrantPurchase, RepairPurchase
  <2>2. /\ license'[p] # "NONE"
        /\ \A q \in Purchases \ {p} : license'[q] = license[q]
        /\ license' \in [Purchases -> LicenseStatus]
    BY <1>0, <1>12 DEF Complete, GrantPurchase, RepairPurchase, EnsureLicense, LicenseStatus
  <2>3. pc' = [pc EXCEPT ![h] = "settle"] /\ Verified(Pay(h))
    BY <1>12 DEF Complete
  <2>4. UNCHANGED <<serving, event, provider, settled>>
    BY <1>12 DEF Complete
  <2>5. \A q \in Purchases :
          /\ license'[q] # "NONE" <=> purchase'[q] \in Granted
          /\ purchase'[q] = "REFUNDED" => license'[q] = "REVOKED"
    BY <1>0, <2>1, <2>2
  <2>6. LicenseIsPaid'
    BY <1>0, <2>2, <2>3, <2>4
  <2>7. \A q \in settled' : license'[q] # "NONE"
    BY <2>2, <2>4
  <2>8. ProcessedIsSettled'
    BY <2>4
  <2>9. \A k \in Handlers : RequestInv(k)'
    BY <1>0, <2>2, <2>3, <2>4, ServedType
  <2> QED BY <2>5, <2>6, <2>7, <2>8, <2>9
<1>13. CASE Settle(h)
  BY <1>0, <1>13 DEF Settle, SettleRevenue
<1>14. CASE Confirm(h)
  BY <1>0, <1>14 DEF Confirm
<1>15. CASE ToSettled(h)
  BY <1>0, <1>15 DEF ToSettled
<1>16. CASE Finish(h)
  BY <1>0, <1>16, EventsType DEF Finish, SetEvent, Reply
<1>17. CASE Throw(h)
  BY <1>0, <1>17 DEF Throw, Reply
<1> QED
  BY <1>1, <1>2, <1>3, <1>4, <1>5, <1>6, <1>7, <1>8, <1>9, <1>10, <1>11, <1>12, <1>13, <1>14, <1>15, <1>16, <1>17 DEF HandlerNext

\* Every request of the buyer and every decision of the provider.
LEMMA RequestKeepsEntitlement ==
    ASSUME StoreTypeOK, WebhookTypeOK, RequestTypeOK, EntitlementInv, RequestNext
    PROVE  EntitlementInv'
<1> USE DEF Granted, storeVars, entitlementVars, moneyVars, providerVars, handlerVars
<1>1. ASSUME NEW p \in Purchases, Checkout(p)
      PROVE  EntitlementInv'
  BY <1>1, UnentitledFrame DEF Checkout, StoreTypeOK
<1>2. ASSUME NEW x \in Payments, CancelClose(x)
      PROVE  EntitlementInv'
  BY <1>2, UnentitledFrame, PurchaseOfType DEF CancelClose, ClosePending, StoreTypeOK
<1>3. ASSUME NEW x \in Payments, InsertPayment(x) \/ CancelRequested(x) \/ CancelTransition(x)
      PROVE  EntitlementInv'
  BY <1>3, EntitlementFrame DEF InsertPayment, CancelRequested, CancelTransition
<1>4. ASSUME NEW x \in Payments,
             \/ CreateAtProvider(x) \/ CancelAtProvider(x)
             \/ ProviderCaptures(x) \/ ProviderCancels(x)
      PROVE  EntitlementInv'
  BY <1>4, ProviderFrame DEF CreateAtProvider, CancelAtProvider, ProviderCaptures,
         ProviderCancels, WebhookTypeOK
<1> QED BY <1>1, <1>2, <1>3, <1>4 DEF RequestNext

\* Of the refund steps only the effects transaction touches an entitlement, and
\* it revokes without removing: the purchase stays granted, the license issued.
LEMMA RefundKeepsEntitlement ==
    ASSUME StoreTypeOK, WebhookTypeOK, EntitlementInv, NEW r \in Refunds, RefundStepOf(r)
    PROVE  EntitlementInv'
<1> USE DEF commerceVars, storeVars, entitlementVars, moneyVars, providerVars, handlerVars
<1>1. CASE ApplyEffects(r)
  <2>1. UNCHANGED <<settled, provider, event, pc, serving>>
    BY <1>1 DEF ApplyEffects
  <2>2. \A q \in Purchases :
          /\ license'[q] # "NONE" <=> license[q] # "NONE"
          /\ license'[q] # "NONE" <=> purchase'[q] \in Granted
          /\ purchase'[q] = "REFUNDED" => license'[q] = "REVOKED"
    BY <1>1, RefundOfType, PurchaseOfType
       DEF ApplyEffects, RevokeIfFull, StoreTypeOK, EntitlementInv, Granted, LicenseStatus
  <2>3. settled \subseteq Purchases /\ \A h \in Handlers : RequestInv(h)
    BY DEF StoreTypeOK, EntitlementInv
  <2>4. \A h \in Handlers : pc[h] = "settle" => license'[Order(h)] # "NONE"
    BY <2>2, <2>3, ServedType DEF RequestInv
  <2> QED BY <2>1, <2>2, <2>3, <2>4
          DEF EntitlementInv, RequestInv, LicenseIsPaid, ProcessedIsSettled, Verified, Pay, Order
<1>2. CASE ~ApplyEffects(r)
  BY <1>2, EntitlementFrame DEF RefundStepOf, RequestRefund, Reserve, CallProvider,
     RecordRefund, FailRefund, ReadEffects, EffectsConflict, DeliverRefund, RefundUnknown,
     ResolveRefund, FinishRefundEvent, ProviderResolves
<1> QED BY <1>1, <1>2

\* Requests that are lost, notifications that are delivered (again).
LEMMA DeliveryKeepsEntitlement ==
    ASSUME WebhookTypeOK, EntitlementInv,
           \/ \E h \in Handlers : Lose(h) \/ \E e \in Events : Deliver(h, e)
           \/ \E e \in Events : DeliverProcessed(e) \/ LoseAnswer(e)
    PROVE  EntitlementInv'
<1> USE DEF EntitlementInv, RequestInv, LicenseIsPaid, ProcessedIsSettled, Verified, Pay, Order,
            WebhookTypeOK, storeVars, entitlementVars, moneyVars, providerVars, handlerVars
<1>1. ASSUME NEW h \in Handlers, Lose(h)
      PROVE  EntitlementInv'
  BY <1>1 DEF Lose, Reply, Goto
<1>2. ASSUME NEW h \in Handlers, NEW e \in Events, Deliver(h, e)
      PROVE  EntitlementInv'
  BY <1>2 DEF Deliver, Goto
<1>3. ASSUME NEW e \in Events, DeliverProcessed(e) \/ LoseAnswer(e)
      PROVE  EntitlementInv'
  BY <1>3, EntitlementFrame DEF DeliverProcessed, LoseAnswer
<1> QED BY <1>1, <1>2, <1>3

\* A request that dies writes nothing.
LEMMA LossKeepsEntitlement ==
    ASSUME WebhookTypeOK, EntitlementInv, LossStep
    PROVE  EntitlementInv'
<1> USE DEF commerceVars, storeVars, entitlementVars, moneyVars, providerVars, handlerVars
<1>1. CASE (\E h \in Handlers : Lose(h)) \/ (\E e \in Events : LoseAnswer(e))
  BY <1>1, DeliveryKeepsEntitlement
<1>2. ASSUME NEW x \in Payments, LoseInsert(x) \/ LoseCancel(x)
      PROVE  EntitlementInv'
  BY <1>2, EntitlementFrame DEF LoseInsert, LoseCancel
<1>3. ASSUME NEW r \in Refunds, LoseRefundRequest(r) \/ LoseRefundHook(r)
      PROVE  EntitlementInv'
  BY <1>3, EntitlementFrame DEF LoseRefundRequest, LoseRefundHook
<1> QED BY <1>1, <1>2, <1>3 DEF LossStep

\* A dispute moves a purchase between two states that keep its license.
LEMMA DisputeKeepsEntitlement ==
    ASSUME StoreTypeOK, EntitlementInv, DisputeNext
    PROVE  EntitlementInv'
<1> USE DEF PurchaseOnly, moneyVars, providerVars, handlerVars
<1>1. /\ UNCHANGED <<license, settled, provider, event, pc, serving>>
      /\ \A q \in Purchases :
           purchase'[q] = purchase[q] \/ {purchase[q], purchase'[q]} \subseteq {"COMPLETED", "DISPUTED"}
  <2>1. ASSUME NEW p \in Purchases, FreezePurchase(p)
        PROVE  /\ UNCHANGED <<license, settled, provider, event, pc, serving>>
               /\ \A q \in Purchases :
                    \/ purchase'[q] = purchase[q]
                    \/ {purchase[q], purchase'[q]} \subseteq {"COMPLETED", "DISPUTED"}
    BY <2>1 DEF FreezePurchase, StoreTypeOK
  <2>2. ASSUME NEW p \in Purchases, RestorePurchase(p)
        PROVE  /\ UNCHANGED <<license, settled, provider, event, pc, serving>>
               /\ \A q \in Purchases :
                    \/ purchase'[q] = purchase[q]
                    \/ {purchase[q], purchase'[q]} \subseteq {"COMPLETED", "DISPUTED"}
    BY <2>2 DEF RestorePurchase, StoreTypeOK
  <2> QED BY <2>1, <2>2 DEF DisputeNext
<1> QED BY <1>1 DEF Granted, EntitlementInv, LicenseIsPaid, ProcessedIsSettled, RequestInv, Verified, Pay, Order

\* The inductive invariant of webhook, checkout, cancellation, refund and dispute.
THEOREM Entitlement == Spec => []EntitlementInv
<1>1. TypeOK /\ EntitlementInv /\ [Next]_vars => EntitlementInv'
  <2> SUFFICES ASSUME TypeOK, EntitlementInv, [Next]_vars PROVE EntitlementInv'
    OBVIOUS
  <2> USE DEF TypeOK
  <2>1. CASE WebhookStep
    BY <2>1, HandlerKeepsEntitlement, DeliveryKeepsEntitlement DEF WebhookStep
  <2>2. CASE RequestOrProviderStep
    BY <2>2, RequestKeepsEntitlement DEF RequestOrProviderStep
  <2>3. CASE RefundStep
    BY <2>3, RefundKeepsEntitlement DEF RefundStep, RefundNext
  <2>4. CASE LossStep
    BY <2>4, LossKeepsEntitlement
  <2>5. CASE UNCHANGED vars
    BY <2>5, EntitlementFrame DEF vars, commerceVars, storeVars, entitlementVars, moneyVars,
           providerVars, handlerVars
  <2>6. CASE DisputeStep
    BY <2>6, DisputeKeepsEntitlement DEF DisputeStep
  <2> QED BY <2>1, <2>2, <2>3, <2>4, <2>5, <2>6 DEF Next
<1> QED BY <1>1, EntitlementInit, TypeCorrect, PTL DEF Spec

\* No entitlement without money captured for the right amount (INV-001).
THEOREM LicensesArePaid == Spec => []LicenseIsPaid
<1>1. EntitlementInv => LicenseIsPaid
  BY DEF EntitlementInv
<1> QED BY <1>1, Entitlement, PTL

\* Revenue is settled only for purchases that were granted (INV-001).
THEOREM SettledAreEntitled == Spec => []SettledIsEntitled
<1>1. TypeOK /\ EntitlementInv => SettledIsEntitled
  BY DEF TypeOK, StoreTypeOK, EntitlementInv, SettledIsEntitled, LicenseStatus
<1> QED BY <1>1, Entitlement, TypeCorrect, PTL

\* An acknowledged success notification has been granted and settled (E-004).
THEOREM ProcessedAreSettled == Spec => []ProcessedIsSettled
<1>1. EntitlementInv => ProcessedIsSettled
  BY DEF EntitlementInv
<1> QED BY <1>1, Entitlement, PTL
-----------------------------------------------------------------------------
(* The refinement of Entitlement *)


Paid == {PurchaseOf[x] : x \in {y \in Payments : Verified(y)}}

InDispute == {p \in Purchases : purchase[p] = "DISPUTED"}

\* Steps that move purchases only among the other states.
LEMMA DisputesStay ==
    ASSUME \A p \in Purchases :
               purchase'[p] = purchase[p] \/ "DISPUTED" \notin {purchase[p], purchase'[p]}
    PROVE  InDispute' = InDispute
BY DEF InDispute

\* The first state of the rows is one of the promise.
LEMMA PromiseInit == Init => Promise!Init
BY DEF Init, StoreInit, WebhookInit, Promise!Init, Verified

\* Most steps change nothing the promise speaks of.
LEMMA PromiseFrame ==
    ASSUME UNCHANGED <<provider, license, settled, balance>>, InDispute' = InDispute
    PROVE  UNCHANGED Promise!vars
BY DEF Promise!vars, Verified, InDispute

\* The provider captures: a purchase is paid, unless the amount is wrong.
LEMMA CapturePays ==
    ASSUME WebhookTypeOK, NEW x \in Payments, ProviderCaptures(x)
    PROVE  [Promise!Next]_Promise!vars
<1>1. /\ provider' = [provider EXCEPT ![x] = "SUCCEEDED"]
      /\ UNCHANGED <<purchase, license, settled, balance>>
  BY DEF ProviderCaptures, storeVars, entitlementVars, moneyVars
<1>2. \A y \in Payments : Verified(y)' <=> Verified(y) \/ (y = x /\ x \notin Mismatched)
  BY <1>1 DEF Verified, WebhookTypeOK
<1>3. CASE x \in Mismatched
  BY <1>1, <1>2, <1>3 DEF Promise!vars
<1>4. CASE x \notin Mismatched
  <2>1. Paid' = Paid \union {PurchaseOf[x]}
    BY <1>2, <1>4 DEF Paid
  <2>2. Promise!Pay(PurchaseOf[x])
    BY <1>1, <2>1 DEF Promise!Pay, Paid
  <2> QED BY <2>2, PurchaseOfType DEF Promise!Next
<1> QED BY <1>3, <1>4

\* No other decision of the provider, and no request to it, captures anything.
LEMMA OthersDoNotPay ==
    ASSUME WebhookTypeOK, UNCHANGED <<purchase, license, settled, balance>>,
           \A x \in Payments : provider'[x] = "SUCCEEDED" <=> provider[x] = "SUCCEEDED"
    PROVE  UNCHANGED Promise!vars
BY DEF Promise!vars, Verified

\* What a buyer asks for is a step of the promise or none.
LEMMA RequestKeepsPromise ==
    ASSUME StoreTypeOK, WebhookTypeOK, RequestNext
    PROVE  [Promise!Next]_Promise!vars
<1> USE DEF storeVars, entitlementVars, moneyVars, providerVars
<1>1. ASSUME NEW x \in Payments, CreateAtProvider(x) \/ CancelAtProvider(x) \/ ProviderCancels(x)
      PROVE  UNCHANGED Promise!vars
  BY <1>1, OthersDoNotPay DEF CreateAtProvider, CancelAtProvider, ProviderCancels, WebhookTypeOK
<1>2. ASSUME NEW x \in Payments,
             InsertPayment(x) \/ CancelRequested(x) \/ CancelTransition(x)
      PROVE  UNCHANGED Promise!vars
  BY <1>2, PromiseFrame, DisputesStay DEF InsertPayment, CancelRequested, CancelTransition
<1>3. ASSUME NEW p \in Purchases, Checkout(p)
      PROVE  UNCHANGED Promise!vars
  BY <1>3, PromiseFrame, DisputesStay DEF Checkout, StoreTypeOK
<1>4. ASSUME NEW x \in Payments, CancelClose(x)
      PROVE  UNCHANGED Promise!vars
  BY <1>4, PromiseFrame, DisputesStay, PurchaseOfType DEF CancelClose, ClosePending, StoreTypeOK
<1> QED BY <1>1, <1>2, <1>3, <1>4, CapturePays DEF RequestNext

\* Completion grants, once and to a buyer without another license in force.
LEMMA CompletionGrants ==
    ASSUME StoreTypeOK, WebhookTypeOK, EntitlementInv, NEW h \in Handlers, Complete(h)
    PROVE  [Promise!Next]_Promise!vars
<1> DEFINE p == Order(h)
<1>0. p \in Purchases /\ Pay(h) \in Payments
  BY ServedType
<1>1. UNCHANGED <<provider, settled, balance>>
  BY DEF Complete, providerVars, moneyVars
<1>2. CASE RepairPurchase(p)
  <2>1. license[p] # "NONE"
    BY <1>0, <1>2 DEF RepairPurchase, EntitlementInv, Granted
  <2>2. license' = license
    BY <1>0, <1>2, <2>1 DEF RepairPurchase, EnsureLicense, StoreTypeOK
  <2>3. InDispute' = InDispute
    BY <1>2, DisputesStay DEF RepairPurchase
  <2> QED BY <1>1, <2>2, <2>3, PromiseFrame
<1>3. CASE GrantPurchase(p)
  <2>1. license[p] = "NONE"
    BY <1>0, <1>3 DEF GrantPurchase, EntitlementInv, StoreTypeOK, LicenseStatus, Granted
  <2>2. \A q \in Purchases \ InDispute : license[q] # "ACTIVE"
    BY <1>0, <1>3, <2>1 DEF GrantPurchase, OtherOwned, EntitlementInv, Granted, InDispute
  <2>3. p \in Paid
    BY <1>0 DEF Complete, At, EntitlementInv, RequestInv, Paid, Order
  <2>4. license' = [license EXCEPT ![p] = "ACTIVE"]
    BY <1>0, <1>3, <2>1 DEF GrantPurchase, EnsureLicense, StoreTypeOK
  <2>5. Paid' = Paid /\ InDispute' = InDispute
    BY <1>0, <1>1, <1>3, DisputesStay DEF Paid, Verified, GrantPurchase, StoreTypeOK
  <2>6. Promise!Grant(p)
    BY <1>1, <2>1, <2>2, <2>3, <2>4, <2>5
       DEF Promise!Grant, Promise!NoneInForce, Paid, InDispute
  <2> QED BY <1>0, <2>6 DEF Promise!Next
<1> QED BY <1>2, <1>3 DEF Complete

\* The settlement marker admits one credit per purchase.
LEMMA SettlementCredits ==
    ASSUME StoreTypeOK, WebhookTypeOK, EntitlementInv, NEW h \in Handlers, Settle(h)
    PROVE  [Promise!Next]_Promise!vars
<1> DEFINE p == Order(h)
<1>0. p \in Purchases
  BY ServedType
<1>1. UNCHANGED <<provider, license>> /\ InDispute' = InDispute
  BY DEF Settle, providerVars, entitlementVars, InDispute
<1>2. CASE p \in settled
  BY <1>1, <1>2, PromiseFrame DEF Settle, SettleRevenue, moneyVars
<1>3. CASE p \notin settled
  <2>1. settled' = settled \union {p} /\ balance' = balance + SellerNet(FinalPrice)
    BY <1>3 DEF Settle, SettleRevenue
  <2>2. license[p] # "NONE"
    BY DEF Settle, At, EntitlementInv, RequestInv
  <2>3. Paid' = Paid
    BY <1>1 DEF Paid, Verified
  <2>4. Promise!Settle(p)
    BY <1>1, <1>3, <2>1, <2>2, <2>3 DEF Promise!Settle, Paid, InDispute
  <2> QED BY <1>0, <2>4 DEF Promise!Next
<1> QED BY <1>2, <1>3

\* A step of a handler is a step of the promise or none.
LEMMA HandlerKeepsPromise ==
    ASSUME StoreTypeOK, WebhookTypeOK, EntitlementInv, NEW h \in Handlers, HandlerNext(h)
    PROVE  [Promise!Next]_Promise!vars
<1>1. CASE Complete(h)
  BY <1>1, CompletionGrants
<1>2. CASE Settle(h)
  BY <1>2, SettlementCredits
<1>3. CASE CancelPurchase(h) \/ Reopen(h)
  <2>1. InDispute' = InDispute
    BY <1>3, ServedType, DisputesStay DEF CancelPurchase, ClosePending, Reopen, StoreTypeOK
  <2> QED BY <1>3, <2>1, PromiseFrame DEF CancelPurchase, Reopen, moneyVars, providerVars
<1>4. CASE UNCHANGED <<provider, purchase, license, settled, balance>>
  BY <1>4, PromiseFrame, DisputesStay
<1> QED
  BY <1>1, <1>2, <1>3, <1>4
     DEF HandlerNext, MarkProcessing, ReadPayment, CancelPayment, CancelOverwrite,
         RepairPayment, Lookup, VerifyOk, VerifyFailed, Capture, Confirm, ToSettled,
         Finish, Throw, storeVars, entitlementVars, moneyVars, providerVars

\* Refund effects lower the balance, and revoke at most the active license.
LEMMA RefundKeepsPromise ==
    ASSUME StoreTypeOK, WebhookTypeOK, RefundTypeOK, NEW r \in Refunds, RefundStepOf(r)
    PROVE  [Promise!Next]_Promise!vars
<1>1. CASE ApplyEffects(r)
  <2> DEFINE p == PurchaseOf[RefundOf[r]]
  <2>0. p \in Purchases
    BY RefundOfType, PurchaseOfType
  <2>1. UNCHANGED <<provider, settled>>
    BY <1>1 DEF ApplyEffects, providerVars
  <2>2. balance' <= balance
    BY <1>1, SharesAreIntegers DEF ApplyEffects, StoreTypeOK, RefundTypeOK
  <2>3. UNCHANGED license \/ Promise!Revoke(p)
    BY <1>1, <2>0 DEF ApplyEffects, RevokeIfFull, entitlementVars, Promise!Revoke, StoreTypeOK
  <2>4. InDispute' = InDispute
    BY <1>1, <2>0, DisputesStay DEF ApplyEffects, RevokeIfFull, entitlementVars, StoreTypeOK
  <2>5. Promise!Refund
    BY <2>0, <2>1, <2>2, <2>3, <2>4 DEF Promise!Refund, Verified, InDispute
  <2> QED BY <2>5 DEF Promise!Next
<1>2. CASE ~ApplyEffects(r)
  BY <1>2, PromiseFrame, DisputesStay
     DEF RefundStepOf, RequestRefund, Reserve, CallProvider, RecordRefund, FailRefund, ReadEffects,
         EffectsConflict, DeliverRefund, RefundUnknown, ResolveRefund, FinishRefundEvent,
         ProviderResolves, commerceVars, storeVars, entitlementVars, moneyVars, providerVars
<1> QED BY <1>1, <1>2

\* What a dispute freezes was granted; it restores a purchase only while the live
\* index holds no other, so that no license beside it is in force.
LEMMA DisputeKeepsPromise ==
    ASSUME StoreTypeOK, EntitlementInv, DisputeNext
    PROVE  [Promise!Next]_Promise!vars
<1> USE DEF PurchaseOnly, moneyVars, providerVars
<1>1. ASSUME NEW p \in Purchases, FreezePurchase(p)
      PROVE  Promise!Freeze(p)
  <2>1. license[p] # "NONE"
    BY <1>1 DEF FreezePurchase, EntitlementInv, Granted
  <2>2. InDispute' = InDispute \union {p}
    BY <1>1 DEF FreezePurchase, InDispute, StoreTypeOK
  <2>3. UNCHANGED <<provider, license, settled, balance>>
    BY <1>1 DEF FreezePurchase
  <2> QED BY <2>1, <2>2, <2>3 DEF Promise!Freeze, Verified, InDispute
<1>2. ASSUME NEW p \in Purchases, RestorePurchase(p)
      PROVE  Promise!Thaw(p)
  <2>1. \A q \in Purchases \ InDispute : license[q] # "ACTIVE"
    BY <1>2 DEF RestorePurchase, LiveIndexAdmits, Live, EntitlementInv, Granted, InDispute
  <2>2. p \in InDispute /\ InDispute' = InDispute \ {p}
    BY <1>2 DEF RestorePurchase, InDispute, StoreTypeOK
  <2>3. UNCHANGED <<provider, license, settled, balance>>
    BY <1>2 DEF RestorePurchase
  <2> QED BY <2>1, <2>2, <2>3 DEF Promise!Thaw, Promise!NoneInForce, Verified, InDispute
<1> QED BY <1>1, <1>2 DEF DisputeNext, Promise!Next

\* Whatever overlaps, is lost or is delivered again: buyer and seller see only
\* what Entitlement promises.
THEOREM PromiseHolds == Spec => PromiseIsKept
<1>1. TypeOK /\ EntitlementInv /\ [Next]_vars => [Promise!Next]_Promise!vars
  <2> SUFFICES ASSUME TypeOK, EntitlementInv, [Next]_vars
               PROVE  [Promise!Next]_Promise!vars
    OBVIOUS
  <2> USE DEF TypeOK
  <2>1. CASE UNCHANGED <<provider, purchase, license, settled, balance>>
    BY <2>1, PromiseFrame, DisputesStay
  <2>2. CASE WebhookStep
    BY <2>1, <2>2, HandlerKeepsPromise
       DEF WebhookStep, Deliver, DeliverProcessed, storeVars, entitlementVars, moneyVars, providerVars
  <2>3. CASE RequestOrProviderStep
    BY <2>3, RequestKeepsPromise DEF RequestOrProviderStep
  <2>4. CASE RefundStep
    BY <2>4, RefundKeepsPromise DEF RefundStep, RefundNext
  <2>5. CASE LossStep
    BY <2>1, <2>5 DEF LossStep, Lose, LoseAnswer, LoseInsert, LoseCancel, LoseRefundRequest,
           LoseRefundHook, commerceVars, storeVars, entitlementVars, moneyVars, providerVars
  <2>6. CASE UNCHANGED vars
    BY <2>1, <2>6 DEF vars, commerceVars, storeVars, entitlementVars, moneyVars, providerVars
  <2>7. CASE DisputeStep
    BY <2>7, DisputeKeepsPromise DEF DisputeStep
  <2> QED BY <2>2, <2>3, <2>4, <2>5, <2>6, <2>7 DEF Next
<1> QED BY <1>1, PromiseInit, TypeCorrect, Entitlement, PTL DEF Spec, PromiseIsKept, Promise!Spec

-----------------------------------------------------------------------------
(* The live index holds at most one purchase, whichever of them is         *)
(* completed, reopened beside it, or restored from a dispute.              *)

\* A step that makes at most one purchase live, and that one past the index.
LEMMA LiveFrame ==
    ASSUME LiveIsUnique, NEW p \in Purchases,
           \A q \in Purchases \ {p} : purchase'[q] = purchase[q],
           purchase'[p] \in Live => purchase[p] \in Live \/ LiveIndexAdmits(p)
    PROVE  LiveIsUnique'
BY DEF LiveIsUnique, LiveIndexAdmits

\* Every step, of whichever request.
LEMMA StepKeepsLive ==
    ASSUME TypeOK, LiveIsUnique, Next
    PROVE  LiveIsUnique'
<1> USE DEF TypeOK, StoreTypeOK, Live
<1>0. CASE UNCHANGED purchase
  BY <1>0 DEF LiveIsUnique
<1>1. ASSUME NEW h \in Handlers, CancelPurchase(h) \/ Reopen(h) \/ Complete(h)
      PROVE  LiveIsUnique'
  <2>1. Order(h) \in Purchases
    BY ServedType
  <2>2. CASE CancelPurchase(h)
    BY <2>1, <2>2, LiveFrame DEF CancelPurchase, ClosePending
  <2>3. CASE Reopen(h)
    BY <2>1, <2>3, LiveFrame DEF Reopen, ReopenBlocked
  <2>4. CASE Complete(h)
    BY <2>1, <2>4, LiveFrame DEF Complete, GrantPurchase, RepairPurchase
  <2> QED BY <1>1, <2>2, <2>3, <2>4
<1>2. CASE WebhookStep
  BY <1>0, <1>1, <1>2
     DEF WebhookStep, HandlerNext, MarkProcessing, ReadPayment, CancelPayment, CancelOverwrite,
         RepairPayment, Lookup, VerifyOk, VerifyFailed, Capture, Settle, Confirm, ToSettled, Finish,
         Throw, Deliver, DeliverProcessed, storeVars, entitlementVars
<1>3. ASSUME NEW p \in Purchases, Checkout(p) \/ FreezePurchase(p) \/ RestorePurchase(p)
      PROVE  LiveIsUnique'
  BY <1>3, LiveFrame DEF Checkout, FreezePurchase, RestorePurchase
<1>4. ASSUME NEW x \in Payments, CancelClose(x)
      PROVE  LiveIsUnique'
  BY <1>4, PurchaseOfType, LiveFrame DEF CancelClose, ClosePending
<1>5. CASE RequestOrProviderStep
  BY <1>0, <1>3, <1>4, <1>5
     DEF RequestOrProviderStep, RequestNext, CreateAtProvider, InsertPayment, CancelRequested,
         CancelAtProvider, CancelTransition, ProviderCaptures, ProviderCancels, storeVars, entitlementVars
<1>6. ASSUME NEW r \in Refunds, ApplyEffects(r)
      PROVE  LiveIsUnique'
  <2>1. PurchaseOf[RefundOf[r]] \in Purchases
    BY RefundOfType, PurchaseOfType
  <2> QED BY <1>6, <2>1, LiveFrame DEF ApplyEffects, RevokeIfFull, entitlementVars
<1>7. CASE RefundStep
  BY <1>0, <1>6, <1>7
     DEF RefundStep, RefundNext, RefundStepOf, RequestRefund, Reserve, CallProvider, RecordRefund,
         FailRefund, ReadEffects, EffectsConflict, DeliverRefund, RefundUnknown, ResolveRefund,
         FinishRefundEvent, ProviderResolves, commerceVars, storeVars, entitlementVars
<1>8. CASE LossStep
  BY <1>0, <1>8 DEF LossStep, Lose, LoseAnswer, LoseInsert, LoseCancel, LoseRefundRequest,
         LoseRefundHook, commerceVars, storeVars, entitlementVars
<1> QED BY <1>2, <1>3, <1>5, <1>7, <1>8 DEF Next, DisputeStep, DisputeNext

\* Whichever requests overlap, of two licenses in force one belongs to a purchase a
\* dispute has frozen (INV-001, the live index of contract.prisma:368).
THEOREM LicensesAreExclusive == Spec => []OneLicenseInForce
<1>1. Init => LiveIsUnique
  BY DEF Init, StoreInit, LiveIsUnique, Live
<1>2. TypeOK /\ LiveIsUnique /\ [Next]_vars => LiveIsUnique'
  <2> SUFFICES ASSUME TypeOK, LiveIsUnique, [Next]_vars PROVE LiveIsUnique'
    OBVIOUS
  <2>1. CASE UNCHANGED vars
    BY <2>1 DEF vars, commerceVars, storeVars, entitlementVars, LiveIsUnique
  <2> QED BY <2>1, StepKeepsLive
<1>3. TypeOK /\ LiveIsUnique /\ EntitlementInv => OneLicenseInForce
  <2> SUFFICES ASSUME LiveIsUnique, EntitlementInv,
                      NEW p \in Purchases, NEW q \in Purchases, p # q,
                      license[p] = "ACTIVE", license[q] = "ACTIVE"
               PROVE  "DISPUTED" \in {purchase[p], purchase[q]}
    BY DEF OneLicenseInForce
  <2>1. purchase[p] \in {"COMPLETED", "DISPUTED"} /\ purchase[q] \in {"COMPLETED", "DISPUTED"}
    BY DEF EntitlementInv, Granted
  <2> QED BY <2>1 DEF LiveIsUnique, Live
<1> QED BY <1>1, <1>2, <1>3, TypeCorrect, Entitlement, PTL DEF Spec

-----------------------------------------------------------------------------
(* Refunds: the row, the request, the notification and the provider agree  *)
(* on who may confirm a refund; effects are applied at most once, and only *)
(* to confirmed refunds; what a refund ended stays ended.                  *)

\* At first nothing was refunded.
LEMMA RefundInvInit == Init => RefundInv
BY DEF Init, StoreInit, RefundInit, RefundInv, RefundRowInv

\* Steps outside the refund lifecycle.
LEMMA RefundFrame ==
    ASSUME RefundInv, UNCHANGED <<refundVars, refundTx>>
    PROVE  RefundInv'
BY DEF RefundInv, RefundRowInv, Notified, refundVars, refundRows, effectLocals

\* One refund's step leaves the rows of the others alone.
LEMMA OtherRefunds ==
    ASSUME RefundTypeOK, RefundInv, NEW r \in Refunds, RefundRowInv(r)',
           \A q \in Refunds \ {r} :
               /\ refund'[q] = refund[q] /\ atProvider'[q] = atProvider[q]
               /\ step'[q] = step[q] /\ hook'[q] = hook[q] /\ sawPayment'[q] = sawPayment[q]
               /\ q \in known' <=> q \in known
               /\ q \in refundTx' <=> q \in refundTx
    PROVE  RefundInv'
BY DEF RefundInv, RefundRowInv, Notified

\* Every step of a refund.
LEMMA RefundStepKeepsRows ==
    ASSUME RefundTypeOK, RefundInv, NEW r \in Refunds, RefundStepOf(r)
    PROVE  RefundInv'
<1> USE DEF RefundTypeOK, Notified, GoStep, GoHook, SetRefund, EffectsGo, EffectsAt, ForgetEffects,
            refundRows, effectLocals, commerceVars, storeVars, moneyVars, RefundRowInv
<1>0. RefundRowInv(r)
  BY DEF RefundInv
<1>1. CASE RequestRefund(r)
  <2>1. RefundRowInv(r)'
    BY <1>0, <1>1 DEF RequestRefund
  <2> QED BY <1>1, <2>1, OtherRefunds DEF RequestRefund
<1>2. CASE Reserve(r)
  <2>1. RefundRowInv(r)'
    BY <1>0, <1>2 DEF Reserve
  <2> QED BY <1>2, <2>1, OtherRefunds DEF Reserve
<1>3. CASE CallProvider(r)
  <2>1. RefundRowInv(r)'
    BY <1>0, <1>3 DEF CallProvider
  <2> QED BY <1>3, <2>1, OtherRefunds DEF CallProvider
<1>4. CASE RecordRefund(r)
  <2>1. RefundRowInv(r)'
    BY <1>0, <1>4 DEF RecordRefund, ConfirmedAtOnce
  <2> QED BY <1>4, <2>1, OtherRefunds DEF RecordRefund
<1>5. CASE FailRefund(r)
  <2>1. RefundRowInv(r)'
    BY <1>0, <1>5 DEF FailRefund
  <2> QED BY <1>5, <2>1, OtherRefunds DEF FailRefund
<1>6. CASE ReadEffects(r)
  <2>1. CanTransition(payment[RefundOf[r]], Target(TRUE)) => payment[RefundOf[r]] \in Captured
    BY DEF CanTransition, TRANSITIONS, PaymentState, Captured, Target
  <2>2. CanTransition(payment[RefundOf[r]], Target(FALSE)) => payment[RefundOf[r]] \in Captured
    BY DEF CanTransition, TRANSITIONS, PaymentState, Captured, Target
  <2>3. Target(TRUE) \in Captured /\ Target(FALSE) \in Captured
    BY DEF Target, Captured
  <2> DEFINE isFull == Reserved(RefundOf[r], {r}) + amount[r] >= FinalPrice
  <2>4. /\ isFull \in BOOLEAN
        /\ payment[RefundOf[r]] = Target(isFull) \/ CanTransition(payment[RefundOf[r]], Target(isFull))
             => payment[RefundOf[r]] \in Captured
    BY <2>1, <2>2, <2>3 DEF Target
  <2>5. RefundRowInv(r)'
    BY <1>0, <1>6, <2>4 DEF ReadEffects, NothingToApply, EffectsAt
  <2> QED BY <1>6, <2>5, OtherRefunds DEF ReadEffects
<1>7. CASE ApplyEffects(r)
  <2>1. RefundRowInv(r)'
    BY <1>0, <1>7 DEF ApplyEffects
  <2> QED BY <1>7, <2>1, OtherRefunds DEF ApplyEffects
<1>8. CASE EffectsConflict(r)
  <2>1. RefundRowInv(r)'
    BY <1>0, <1>8 DEF EffectsConflict
  <2> QED BY <1>8, <2>1, OtherRefunds DEF EffectsConflict
<1>9. CASE DeliverRefund(r)
  <2>1. RefundRowInv(r)'
    BY <1>0, <1>9 DEF DeliverRefund
  <2> QED BY <1>9, <2>1, OtherRefunds DEF DeliverRefund
<1>10. CASE RefundUnknown(r)
  <2>1. RefundRowInv(r)'
    BY <1>0, <1>10 DEF RefundUnknown
  <2> QED BY <1>10, <2>1, OtherRefunds DEF RefundUnknown
<1>11. CASE ResolveRefund(r)
  <2>1. refund[r] = "PENDING" => step[r] = "done"
    BY <1>0, <1>11 DEF ResolveRefund, RequestStep
  <2>2. RefundRowInv(r)'
    BY <1>0, <1>11, <2>1 DEF ResolveRefund, WinsRefundRow
  <2> QED BY <1>11, <2>2, OtherRefunds DEF ResolveRefund
<1>12. CASE FinishRefundEvent(r)
  <2>1. RefundRowInv(r)'
    BY <1>0, <1>12 DEF FinishRefundEvent
  <2> QED BY <1>12, <2>1, OtherRefunds DEF FinishRefundEvent
<1>13. CASE ProviderResolves(r)
  <2>1. RefundRowInv(r)'
    BY <1>0, <1>13 DEF ProviderResolves
  <2> QED BY <1>13, <2>1, OtherRefunds DEF ProviderResolves
<1> QED
  BY <1>1, <1>2, <1>3, <1>4, <1>5, <1>6, <1>7, <1>8, <1>9, <1>10, <1>11, <1>12, <1>13 DEF RefundStepOf

\* A request that dies writes nothing.
LEMMA RefundLossKeepsRows ==
    ASSUME RefundTypeOK, RefundInv, LossStep
    PROVE  RefundInv'
<1>1. CASE UNCHANGED <<refundVars, refundTx>>
  BY <1>1, RefundFrame
<1>2. ASSUME NEW r \in Refunds, LoseRefundRequest(r) \/ LoseRefundHook(r)
      PROVE  RefundInv'
  <2> USE DEF RefundTypeOK, RefundRowInv, Notified, GoStep, GoHook, LoseRefundRequest, LoseRefundHook,
              refundRows, effectLocals, ForgetEffects, commerceVars, storeVars, moneyVars
  <2>1. RefundRowInv(r)'
    BY <1>2 DEF RefundInv
  <2> QED BY <1>2, <2>1, OtherRefunds
<1> QED BY <1>1, <1>2 DEF LossStep, Lose, LoseAnswer, LoseInsert, LoseCancel, storeVars, moneyVars

\* A dispute moves the statuses of purchases, and nothing else a request here reads.
LEMMA DisputeFrame ==
    ASSUME DisputeStep
    PROVE  PurchaseOnly
BY DEF DisputeStep, DisputeNext, FreezePurchase, RestorePurchase

\* Every step of a webhook, of the buyer or of the provider leaves refunds alone.
LEMMA CommerceKeepsRefunds ==
    ASSUME StoreTypeOK, WebhookTypeOK, RequestTypeOK, WebhookStep \/ RequestOrProviderStep
    PROVE  UNCHANGED <<refundVars, refundTx>>
BY HandlerTypes, DeliveryTypes, RequestTypes DEF WebhookStep, RequestOrProviderStep

\* What a refund row says agrees with its payment, in every reachable state (refunds.ts).
THEOREM RefundRows == Spec => []RefundInv
<1>1. TypeOK /\ RefundInv /\ [Next]_vars => RefundInv'
  <2> SUFFICES ASSUME TypeOK, RefundInv, [Next]_vars PROVE RefundInv'
    OBVIOUS
  <2> USE DEF TypeOK
  <2>1. CASE WebhookStep \/ RequestOrProviderStep
    BY <2>1, CommerceKeepsRefunds, RefundFrame
  <2>2. CASE RefundStep
    BY <2>2, RefundStepKeepsRows DEF RefundStep, RefundNext
  <2>3. CASE LossStep
    BY <2>3, RefundLossKeepsRows
  <2>4. CASE UNCHANGED vars
    BY <2>4, RefundFrame DEF vars, commerceVars, storeVars, moneyVars
  <2>5. CASE DisputeStep
    BY <2>5, DisputeFrame, RefundFrame DEF PurchaseOnly, moneyVars
  <2> QED BY <2>1, <2>2, <2>3, <2>4, <2>5 DEF Next
<1> QED BY <1>1, RefundInvInit, TypeCorrect, PTL DEF Spec

\* Effects are applied only to refunds the provider confirmed (K-004).
THEOREM AppliedAreConfirmed == Spec => []AppliedIsConfirmed
<1>1. TypeOK /\ RefundInv => AppliedIsConfirmed
  BY DEF TypeOK, RefundTypeOK, RefundInv, RefundRowInv, AppliedIsConfirmed
<1> QED BY <1>1, RefundRows, TypeCorrect, PTL

\* The compare-and-set on the refund row admits one effects run (B-004.3).
THEOREM EffectsAreRunOnce == Spec => []EffectsRunOnce
<1>1. RefundInv => EffectsRunOnce
  BY DEF RefundInv, RefundRowInv, EffectsRunOnce
<1> QED BY <1>1, RefundRows, PTL

\* No step of any request re-opens a refunded purchase or revives a revoked
\* license (K-004).
THEOREM RefundsAreFinal == Spec => RefundIsFinal
<1> DEFINE Final == \A p \in Purchases :
             /\ purchase[p] = "REFUNDED" => purchase'[p] = "REFUNDED"
             /\ license[p] = "REVOKED" => license'[p] = "REVOKED"
<1>1. TypeOK /\ [Next]_vars => Final
  <2> SUFFICES ASSUME TypeOK, [Next]_vars PROVE Final
    OBVIOUS
  <2> USE DEF TypeOK, StoreTypeOK, commerceVars, storeVars, entitlementVars, moneyVars
  <2>1. ASSUME NEW h \in Handlers, HandlerNext(h) PROVE Final
    <3> USE ServedType
    <3>1. CASE Complete(h)
      BY <3>1 DEF Complete, GrantPurchase, RepairPurchase, EnsureLicense
    <3>2. CASE Reopen(h)
      BY <3>2 DEF Reopen
    <3>3. CASE CancelPurchase(h)
      BY <3>3 DEF CancelPurchase, ClosePending
    <3> QED BY <2>1, <3>1, <3>2, <3>3 DEF HandlerNext, MarkProcessing, ReadPayment,
            CancelPayment, CancelOverwrite, RepairPayment, Lookup, VerifyOk, VerifyFailed,
            Capture, Settle, Confirm, ToSettled, Finish, Throw
  <2>2. CASE WebhookStep
    BY <2>1, <2>2 DEF WebhookStep, Deliver, DeliverProcessed
  <2>3. CASE RequestOrProviderStep
    BY <2>3, PurchaseOfType DEF RequestOrProviderStep, RequestNext, Checkout, CreateAtProvider,
       InsertPayment, CancelRequested, CancelAtProvider, CancelTransition, CancelClose,
       ClosePending, ProviderCaptures, ProviderCancels
  <2>4. ASSUME NEW r \in Refunds, RefundStepOf(r) PROVE Final
    <3>1. CASE ApplyEffects(r)
      BY <3>1, RefundOfType, PurchaseOfType DEF ApplyEffects, RevokeIfFull
    <3> QED BY <2>4, <3>1 DEF RefundStepOf, RequestRefund, Reserve, CallProvider, RecordRefund,
            FailRefund, ReadEffects, EffectsConflict, DeliverRefund, RefundUnknown,
            ResolveRefund, FinishRefundEvent, ProviderResolves
  <2>5. CASE LossStep
    BY <2>5 DEF LossStep, Lose, LoseAnswer, LoseInsert, LoseCancel, LoseRefundRequest, LoseRefundHook
  <2>6. CASE UNCHANGED vars
    BY <2>6 DEF vars
  <2>7. CASE DisputeStep
    BY <2>7 DEF DisputeStep, DisputeNext, FreezePurchase, RestorePurchase, PurchaseOnly
  <2> QED BY <2>2, <2>3, <2>4, <2>5, <2>6, <2>7 DEF Next, RefundStep, RefundNext
<1> QED BY <1>1, TypeCorrect, PTL DEF Spec, RefundIsFinal

-----------------------------------------------------------------------------
(* A captured payment row is a payment the provider captured, and a        *)
(* purchase has at most one: whichever of its payments are notified,       *)
(* repaired, confirmed by the plain update, or refunded.                   *)

\* Steps that leave the payment rows alone; what the provider captured stays so.
LEMMA CapturedFrame ==
    ASSUME CapturedIsReal, UNCHANGED payment,
           \A x \in Payments : provider[x] = "SUCCEEDED" => provider'[x] = "SUCCEEDED"
    PROVE  CapturedIsReal'
BY DEF CapturedIsReal, Verified

\* A write of one row is safe if it captures nothing that is not captured, or
\* verified and admitted by the index.
LEMMA WriteKeepsCaptured ==
    ASSUME StoreTypeOK, CapturedIsReal, NEW x \in Payments, NEW state,
           SetPayment(x, state), provider' = provider,
           state \in Captured =>
               payment[x] \in Captured \/ (Verified(x) /\ CapturedIndexAdmits(x))
    PROVE  CapturedIsReal'
<1>1. \A y \in Payments : payment'[y] = IF y = x THEN state ELSE payment[y]
  BY DEF SetPayment, StoreTypeOK
<1>2. \A y \in Payments : Verified(y)' = Verified(y)
  BY DEF Verified
<1>3. ASSUME state \in Captured
      PROVE  Verified(x) /\ CapturedIndexAdmits(x)
  BY <1>3 DEF CapturedIsReal, CapturedIndexAdmits
<1> QED BY <1>1, <1>2, <1>3 DEF CapturedIsReal, CapturedIndexAdmits

\* transitionPaymentTo captures only through the index.
LEMMA TransitionKeepsCaptured ==
    ASSUME StoreTypeOK, CapturedIsReal, NEW x \in Payments, NEW to,
           TransitionPaymentTo(x, to), provider' = provider,
           to \in Captured => Verified(x)
    PROVE  CapturedIsReal'
<1>1. CASE payment[x] = "NONE"
  BY <1>1, CapturedFrame DEF TransitionPaymentTo
<1>2. CASE payment[x] # "NONE"
  BY <1>2, WriteKeepsCaptured DEF TransitionPaymentTo, MayMoveTo
<1> QED BY <1>1, <1>2

\* Every step of a webhook request: what captures is verified (RequestInv).
LEMMA HandlerKeepsCaptured ==
    ASSUME StoreTypeOK, WebhookTypeOK, EntitlementInv, CapturedIsReal,
           NEW h \in Handlers, HandlerNext(h)
    PROVE  CapturedIsReal'
<1>0. Pay(h) \in Payments /\ RequestInv(h)
  BY ServedType DEF EntitlementInv
<1>1. CASE CancelPayment(h)
  BY <1>0, <1>1, TransitionKeepsCaptured DEF CancelPayment, providerVars, Captured
<1>2. CASE CancelOverwrite(h)
  BY <1>0, <1>2, WriteKeepsCaptured DEF CancelOverwrite, providerVars, Captured
<1>3. CASE RepairPayment(h)
  <2>1. CASE payment[Pay(h)] = "CANCELED"
    BY <1>0, <1>3, <2>1, WriteKeepsCaptured DEF RepairPayment, providerVars, Captured
  <2>2. CASE payment[Pay(h)] # "CANCELED"
    BY <1>3, <2>2, CapturedFrame DEF RepairPayment, providerVars
  <2> QED BY <2>1, <2>2
<1>4. CASE Capture(h)
  <2>1. Verified(Pay(h))
    BY <1>0, <1>4 DEF Capture, RequestInv, At
  <2> QED BY <1>0, <1>4, <2>1, TransitionKeepsCaptured DEF Capture, providerVars
<1>5. CASE Confirm(h)
  <2>1. Verified(Pay(h)) /\ CapturedIndexAdmits(Pay(h))
    BY <1>0, <1>5 DEF Confirm, ConfirmBlocked, RequestInv, At
  <2> QED BY <1>0, <1>5, <2>1, WriteKeepsCaptured DEF Confirm, providerVars
<1>6. CASE ToSettled(h)
  <2>1. Verified(Pay(h))
    BY <1>0, <1>6 DEF ToSettled, RequestInv, At
  <2> QED BY <1>0, <1>6, <2>1, TransitionKeepsCaptured DEF ToSettled, providerVars
<1>7. CASE UNCHANGED <<payment, provider>>
  BY <1>7, CapturedFrame
<1> QED
  BY <1>1, <1>2, <1>3, <1>4, <1>5, <1>6, <1>7
     DEF HandlerNext, MarkProcessing, ReadPayment, CancelPurchase, Lookup, VerifyOk, VerifyFailed,
         Reopen, Complete, Settle, Finish, Throw, storeVars, providerVars

\* Every request of the buyer and every decision of the provider.
LEMMA RequestKeepsCaptured ==
    ASSUME StoreTypeOK, WebhookTypeOK, CapturedIsReal, RequestNext
    PROVE  CapturedIsReal'
<1> USE DEF storeVars, providerVars
<1>1. ASSUME NEW x \in Payments, InsertPayment(x)
      PROVE  CapturedIsReal'
  <2>1. SetPayment(x, IF payment[x] = "NONE" THEN "PENDING" ELSE payment[x])
    BY <1>1 DEF InsertPayment, SetPayment
  <2> QED BY <1>1, <2>1, WriteKeepsCaptured DEF InsertPayment, Captured
<1>2. ASSUME NEW x \in Payments, CancelTransition(x)
      PROVE  CapturedIsReal'
  <2>1. CASE MayMoveTo(x, "CANCELED")
    BY <1>2, <2>1, TransitionKeepsCaptured DEF CancelTransition, Captured
  <2>2. CASE ~MayMoveTo(x, "CANCELED")
    BY <1>2, <2>2, CapturedFrame DEF CancelTransition
  <2> QED BY <2>1, <2>2
<1>3. ASSUME NEW x \in Payments,
             \/ CreateAtProvider(x) \/ CancelAtProvider(x) \/ CancelRequested(x)
             \/ CancelClose(x) \/ ProviderCaptures(x) \/ ProviderCancels(x)
      PROVE  CapturedIsReal'
  BY <1>3, CapturedFrame DEF CreateAtProvider, CancelAtProvider, CancelRequested, CancelClose,
         ProviderCaptures, ProviderCancels, WebhookTypeOK
<1>4. ASSUME NEW p \in Purchases, Checkout(p)
      PROVE  CapturedIsReal'
  BY <1>4, CapturedFrame DEF Checkout
<1> QED BY <1>1, <1>2, <1>3, <1>4 DEF RequestNext

\* Refund effects write over the captured state they read (RefundInv).
LEMMA RefundKeepsCaptured ==
    ASSUME StoreTypeOK, RefundInv, CapturedIsReal, NEW r \in Refunds, RefundStepOf(r)
    PROVE  CapturedIsReal'
<1>1. CASE ApplyEffects(r)
  <2>1. RefundOf[r] \in Payments /\ provider' = provider
    BY <1>1, RefundOfType DEF ApplyEffects, providerVars
  <2>2. sawPayment[r] \in Captured
    BY <1>1 DEF ApplyEffects, EffectsAt, RefundInv, RefundRowInv
  <2>3. CASE payment[RefundOf[r]] = sawPayment[r]
    BY <1>1, <2>1, <2>2, <2>3, WriteKeepsCaptured DEF ApplyEffects
  <2>4. CASE payment[RefundOf[r]] # sawPayment[r]
    BY <1>1, <2>1, <2>4, CapturedFrame DEF ApplyEffects
  <2> QED BY <2>3, <2>4
<1>2. CASE UNCHANGED <<payment, provider>>
  BY <1>2, CapturedFrame
<1> QED
  BY <1>1, <1>2 DEF RefundStepOf, RequestRefund, Reserve, CallProvider, RecordRefund, FailRefund,
     ReadEffects, EffectsConflict, DeliverRefund, RefundUnknown, ResolveRefund, FinishRefundEvent,
     ProviderResolves, commerceVars, storeVars, providerVars

\* A captured row was captured by the provider, for the right amount, and a
\* purchase has at most one of them (E-003, PLAN-012 6).
THEOREM CapturedAreReal == Spec => []CapturedIsReal
<1>1. Init => CapturedIsReal
  BY DEF Init, StoreInit, CapturedIsReal, Captured
<1>2. TypeOK /\ EntitlementInv /\ RefundInv /\ CapturedIsReal /\ [Next]_vars => CapturedIsReal'
  <2> SUFFICES ASSUME TypeOK, EntitlementInv, RefundInv, CapturedIsReal, [Next]_vars
               PROVE  CapturedIsReal'
    OBVIOUS
  <2> USE DEF TypeOK
  <2>1. CASE UNCHANGED <<payment, provider>>
    BY <2>1, CapturedFrame
  <2>2. CASE WebhookStep
    BY <2>1, <2>2, HandlerKeepsCaptured DEF WebhookStep, Deliver, DeliverProcessed, storeVars, providerVars
  <2>3. CASE RequestOrProviderStep
    BY <2>3, RequestKeepsCaptured DEF RequestOrProviderStep
  <2>4. CASE RefundStep
    BY <2>4, RefundKeepsCaptured DEF RefundStep, RefundNext
  <2>5. CASE LossStep
    BY <2>1, <2>5 DEF LossStep, Lose, LoseAnswer, LoseInsert, LoseCancel, LoseRefundRequest,
           LoseRefundHook, commerceVars, storeVars, providerVars
  <2>6. CASE UNCHANGED vars
    BY <2>1, <2>6 DEF vars, commerceVars, storeVars, providerVars
  <2>7. CASE DisputeStep
    BY <2>1, <2>7, DisputeFrame DEF PurchaseOnly, providerVars
  <2> QED BY <2>2, <2>3, <2>4, <2>5, <2>6, <2>7 DEF Next
<1> QED BY <1>1, <1>2, TypeCorrect, Entitlement, RefundRows, PTL DEF Spec

-----------------------------------------------------------------------------
(* Refunds never take more than was captured.                              *)

\* The refunds with a row, and those of a payment that count against the ceiling.
Underway == {r \in Refunds : refund[r] # "NONE"}
Counted(x) == {r \in Refunds : RefundOf[r] = x /\ refund[r] \in {"SUCCEEDED", "PENDING"}}

\* A refund has no row before it is reserved; finitely many have one at any time.
CeilingInv ==
    /\ IsFiniteSet(Underway)
    /\ \A r \in Refunds : step[r] \in {"idle", "reserve"} => refund[r] = "NONE"
    /\ RefundCeiling

LEMMA ReservedIsSum ==
    ASSUME NEW x
    PROVE  Reserved(x, {}) = SumFunctionOnSet(amount, Counted(x))
<1>1. {r \in Refunds \ {} : RefundOf[r] = x /\ refund[r] \in {"SUCCEEDED", "PENDING"}} = Counted(x)
  BY DEF Counted
<1> QED BY <1>1, Zenon DEF Reserved

\* What counts against the ceiling of a payment is a sum of naturals over a finite set.
LEMMA CountedIsSummable ==
    ASSUME RefundTypeOK, CeilingInv, NEW x
    PROVE  /\ IsFiniteSet(Counted(x)) /\ \A r \in Counted(x) : amount[r] \in Nat
           /\ SumFunctionOnSet(amount, Counted(x)) \in Nat
<1>1. Counted(x) \subseteq Underway
  BY DEF Counted, Underway
<1>2. IsFiniteSet(Counted(x))
  BY <1>1, FS_Subset DEF CeilingInv
<1>3. \A r \in Counted(x) : amount[r] \in Nat
  BY DEF Counted, RefundTypeOK
<1> QED BY <1>2, <1>3, SumOfNaturals

\* Steps that start no refund and change no amount: a refund may stop counting.
LEMMA CeilingFrame ==
    ASSUME RefundTypeOK, CeilingInv, NEW r \in Refunds, amount' = amount,
           \A q \in Refunds \ {r} : refund'[q] = refund[q] /\ step'[q] = step[q],
           refund'[r] \in {"SUCCEEDED", "PENDING"} => refund[r] \in {"SUCCEEDED", "PENDING"},
           step'[r] \in {"idle", "reserve"} => refund'[r] = "NONE"
    PROVE  CeilingInv'
<1>1. Underway' \subseteq Underway \union {r}
  BY DEF Underway
<1>2. IsFiniteSet(Underway')
  BY <1>1, FS_Subset, FS_AddElement DEF CeilingInv
<1>3. \A q \in Refunds : step'[q] \in {"idle", "reserve"} => refund'[q] = "NONE"
  BY DEF CeilingInv
<1>4. ASSUME NEW x \in Payments
      PROVE  Reserved(x, {})' <= FinalPrice
  <2>1. Counted(x)' = Counted(x) \/ Counted(x)' = Counted(x) \ {r}
    BY DEF Counted
  <2>2. Reserved(x, {})' = SumFunctionOnSet(amount, Counted(x)')
    <3>1. {q \in Refunds \ {} : RefundOf[q] = x /\ refund'[q] \in {"SUCCEEDED", "PENDING"}} = Counted(x)'
      BY DEF Counted
    <3> QED BY <3>1, Zenon DEF Reserved
  <2>3. SumFunctionOnSet(amount, Counted(x)) <= FinalPrice
    BY ReservedIsSum DEF CeilingInv, RefundCeiling
  <2>4. /\ SumFunctionOnSet(amount, Counted(x) \ {r}) \in Nat
        /\ SumFunctionOnSet(amount, Counted(x) \ {r}) <= SumFunctionOnSet(amount, Counted(x))
    BY CountedIsSummable, SumOfLess
  <2>5. SumFunctionOnSet(amount, Counted(x) \ {r}) <= FinalPrice
    BY <2>3, <2>4, CountedIsSummable, FinalPriceIsPositive
  <2> QED BY <2>1, <2>2, <2>3, <2>5, Zenon
<1> QED BY <1>2, <1>3, <1>4 DEF CeilingInv, RefundCeiling

\* The reservation takes at most what is left.
LEMMA ReserveKeepsCeiling ==
    ASSUME RefundTypeOK, CeilingInv, NEW r \in Refunds, Reserve(r)
    PROVE  CeilingInv'
<1>1. CASE UNCHANGED <<refund, amount>> /\ step' = [step EXCEPT ![r] = "done"]
  BY <1>1, CeilingFrame DEF RefundTypeOK, CeilingInv
<1>2. ASSUME NEW a \in Nat, a <= RefundableOf(RefundOf[r]),
             refund' = [refund EXCEPT ![r] = "PENDING"], amount' = [amount EXCEPT ![r] = a],
             step' = [step EXCEPT ![r] = "provider"]
      PROVE  CeilingInv'
  <2> USE <1>2
  <2>1. refund[r] = "NONE"
    BY DEF Reserve, CeilingInv
  <2>2. Underway' = Underway \union {r}
    BY <2>1 DEF Underway, RefundTypeOK
  <2>3. IsFiniteSet(Underway')
    BY <2>2, FS_AddElement DEF CeilingInv
  <2>4. \A q \in Refunds : step'[q] \in {"idle", "reserve"} => refund'[q] = "NONE"
    BY DEF CeilingInv, RefundTypeOK
  <2>5. ASSUME NEW x \in Payments
        PROVE  Reserved(x, {})' <= FinalPrice
    <3>1. Reserved(x, {})' = SumFunctionOnSet(amount', Counted(x)')
      <4>1. {q \in Refunds \ {} : RefundOf[q] = x /\ refund'[q] \in {"SUCCEEDED", "PENDING"}} = Counted(x)'
        BY DEF Counted
      <4> QED BY <4>1, Zenon DEF Reserved
    <3>2. SumFunctionOnSet(amount, Counted(x)) <= FinalPrice
      BY ReservedIsSum DEF CeilingInv, RefundCeiling
    <3>3. r \notin Counted(x) /\ \A q \in Counted(x) : amount'[q] = amount[q]
      BY <2>1 DEF Counted, RefundTypeOK
    <3>4. CASE RefundOf[r] = x
      <4>1. Counted(x)' = Counted(x) \union {r}
        BY <3>4 DEF Counted, RefundTypeOK
      <4>2. amount'[r] = a
        BY DEF RefundTypeOK
      <4>3. SumFunctionOnSet(amount', Counted(x) \union {r}) = a + SumFunctionOnSet(amount, Counted(x))
        <5>1. /\ IsFiniteSet(Counted(x)) /\ \A q \in Counted(x) : amount[q] \in Int
              /\ amount'[r] \in Int
          BY <4>2, CountedIsSummable
        <5> QED BY <3>3, <4>2, <5>1, SumOfMore, Zenon
      <4>4. a <= FinalPrice - SumFunctionOnSet(amount, Counted(x))
        BY <3>4, ReservedIsSum DEF RefundableOf
      <4>5. a + SumFunctionOnSet(amount, Counted(x)) <= FinalPrice
        BY <4>4, CountedIsSummable, FinalPriceIsPositive
      <4> QED BY <3>1, <4>1, <4>3, <4>5, Zenon
    <3>5. CASE RefundOf[r] # x
      <4>1. Counted(x)' = Counted(x)
        BY <3>5 DEF Counted, RefundTypeOK
      <4>2. SumFunctionOnSet(amount', Counted(x)) = SumFunctionOnSet(amount, Counted(x))
        BY <3>3, CountedIsSummable, SameSum
      <4> QED BY <3>1, <3>2, <4>1, <4>2, Zenon
    <3> QED BY <3>4, <3>5
  <2> QED BY <2>3, <2>4, <2>5 DEF CeilingInv, RefundCeiling
<1> QED BY <1>1, <1>2 DEF Reserve, SetRefund, GoStep

\* Every step of a refund.
LEMMA RefundKeepsCeiling ==
    ASSUME RefundTypeOK, RefundInv, CeilingInv, NEW r \in Refunds, RefundStepOf(r)
    PROVE  CeilingInv'
<1>0. /\ RefundRowInv(r)
      /\ step[r] \in {"idle", "reserve"} => refund[r] = "NONE"
  BY DEF RefundInv, CeilingInv
<1>1. CASE Reserve(r)
  BY <1>1, ReserveKeepsCeiling
<1>2. CASE RecordRefund(r)
  <2>1. refund[r] = "PENDING" /\ step'[r] \in {"effects", "done"}
    BY <1>0, <1>2 DEF RecordRefund, GoStep, RefundTypeOK, RefundRowInv
  <2> QED BY <1>2, <2>1, CeilingFrame DEF RecordRefund, SetRefund, GoStep, RefundTypeOK
<1>7. CASE FailRefund(r)
  <2>1. refund'[r] = "FAILED" /\ step'[r] = "done"
    BY <1>0, <1>7 DEF FailRefund, SetRefund, GoStep, RefundTypeOK, RefundRowInv
  <2> QED BY <1>7, <2>1, CeilingFrame DEF FailRefund, SetRefund, GoStep, RefundTypeOK
<1>3. CASE ResolveRefund(r)
  BY <1>0, <1>3, CeilingFrame DEF ResolveRefund, WinsRefundRow, SetRefund, RefundTypeOK, RefundRowInv
<1>4. CASE RequestRefund(r) \/ CallProvider(r)
  BY <1>0, <1>4, CeilingFrame
     DEF RequestRefund, CallProvider, GoStep, RefundTypeOK, refundRows
<1>5. CASE ReadEffects(r) \/ ApplyEffects(r) \/ EffectsConflict(r)
  <2>1. /\ UNCHANGED refundRows
        /\ \A q \in Refunds \ {r} : step'[q] = step[q]
        /\ step'[r] \in {"idle", "reserve"} => step[r] \in {"idle", "reserve"}
    BY <1>5 DEF ReadEffects, ApplyEffects, EffectsConflict, EffectsGo, RefundTypeOK
  <2> QED BY <1>0, <2>1, CeilingFrame DEF refundRows
<1>6. CASE DeliverRefund(r) \/ RefundUnknown(r) \/ FinishRefundEvent(r) \/ ProviderResolves(r)
  BY <1>0, <1>6, CeilingFrame
     DEF DeliverRefund, RefundUnknown, FinishRefundEvent, ProviderResolves, refundRows
<1> QED BY <1>1, <1>2, <1>3, <1>4, <1>5, <1>6, <1>7 DEF RefundStepOf

\* A request that dies reserves nothing.
LEMMA LossKeepsCeiling ==
    ASSUME RefundTypeOK, CeilingInv, LossStep
    PROVE  CeilingInv'
<1>1. CASE UNCHANGED refundVars
  BY <1>1 DEF refundVars, refundRows, CeilingInv, RefundCeiling, Reserved, Underway
<1>2. ASSUME NEW r \in Refunds, LoseRefundRequest(r) \/ LoseRefundHook(r)
      PROVE  CeilingInv'
  BY <1>2, CeilingFrame DEF LoseRefundRequest, LoseRefundHook, GoStep, RefundTypeOK, refundRows, CeilingInv
<1> QED BY <1>1, <1>2 DEF LossStep

\* Nothing is reserved at first, and nobody reserves but reservations.
THEOREM CeilingInvariant == Spec => []CeilingInv
<1>1. Init => CeilingInv
  <2> SUFFICES ASSUME Init
               PROVE  CeilingInv
    OBVIOUS
  <2>1. refund = [r \in Refunds |-> "NONE"]
    BY DEF Init, RefundInit
  <2>2. Underway = {} /\ \A x \in Payments : Counted(x) = {}
    BY <2>1 DEF Underway, Counted
  <2>3. \A x \in Payments : Reserved(x, {}) = 0
    BY <2>2, ReservedIsSum, SumOfNothing
  <2> QED BY <2>1, <2>2, <2>3, FS_EmptySet, FinalPriceIsPositive DEF CeilingInv, RefundCeiling
<1>2. TypeOK /\ RefundInv /\ CeilingInv /\ [Next]_vars => CeilingInv'
  <2> SUFFICES ASSUME TypeOK, RefundInv, CeilingInv, [Next]_vars
               PROVE  CeilingInv'
    OBVIOUS
  <2> USE DEF TypeOK
  <2>1. CASE UNCHANGED refundVars
    BY <2>1 DEF refundVars, refundRows, CeilingInv, RefundCeiling, Reserved, Underway
  <2>2. CASE WebhookStep \/ RequestOrProviderStep
    BY <2>1, <2>2, CommerceKeepsRefunds
  <2>3. CASE RefundStep
    BY <2>3, RefundKeepsCeiling DEF RefundStep, RefundNext
  <2>4. CASE LossStep
    BY <2>4, LossKeepsCeiling
  <2>5. CASE UNCHANGED vars
    BY <2>1, <2>5 DEF vars
  <2>6. CASE DisputeStep
    BY <2>1, <2>6, DisputeFrame DEF PurchaseOnly
  <2> QED BY <2>2, <2>3, <2>4, <2>5, <2>6 DEF Next
<1> QED BY <1>1, <1>2, TypeCorrect, RefundRows, PTL DEF Spec

\* However many refunds are asked for at once, and whatever is lost or answered
\* late, those confirmed and in flight never exceed what was captured (INV-013).
THEOREM CeilingHolds == Spec => []RefundCeiling
<1>1. CeilingInv => RefundCeiling
  BY DEF CeilingInv
<1> QED BY <1>1, CeilingInvariant, PTL

-----------------------------------------------------------------------------
(* The seller is credited once: both books hold one settlement for each    *)
(* settled purchase, less one share for each refund that was applied.      *)

Shares == [r \in Refunds |-> SellerShare(r)]
Due(n, taken) == n * SellerNet(FinalPrice) - taken

CreditInv ==
    /\ IsFiniteSet(settled) /\ IsFiniteSet(refundTx)
    /\ SellerIsCreditedOnce

\* What was applied is a sum of integers over a finite set.
LEMMA TakenIsSummable ==
    ASSUME RefundTypeOK, CreditInv
    PROVE  /\ \A r \in Refunds : Shares[r] = SellerShare(r) /\ Shares[r] \in Int
           /\ SumFunctionOnSet(Shares, refundTx) \in Int
           /\ balance = Due(Cardinality(settled), SumFunctionOnSet(Shares, refundTx))
           /\ book["seller_available"] = Due(Cardinality(settled), SumFunctionOnSet(Shares, refundTx))
<1>1. \A r \in Refunds : Shares[r] = SellerShare(r) /\ Shares[r] \in Int
  BY SharesAreIntegers DEF Shares, RefundTypeOK
<1>2. refundTx \subseteq Refunds /\ IsFiniteSet(refundTx)
  BY DEF RefundTypeOK, CreditInv
<1>3. SumFunctionOnSet(Shares, refundTx) \in Int
  BY <1>1, <1>2, SumType
<1> QED BY <1>1, <1>3 DEF CreditInv, SellerIsCreditedOnce, Shares, Due

\* The converse, in the next state.
LEMMA CreditAgain ==
    ASSUME NEW n, NEW taken,
           IsFiniteSet(settled'), IsFiniteSet(refundTx'), Cardinality(settled') = n,
           SumFunctionOnSet(Shares', refundTx') = taken,
           balance' = Due(n, taken), book'["seller_available"] = Due(n, taken)
    PROVE  CreditInv'
BY DEF CreditInv, SellerIsCreditedOnce, Shares, Due

\* Steps without money leave the shares that were applied as they are.
LEMMA CreditFrame ==
    ASSUME RefundTypeOK, CreditInv, UNCHANGED moneyVars,
           \A r \in refundTx : amount'[r] = amount[r]
    PROVE  CreditInv'
<1>1. refundTx \subseteq Refunds
  BY DEF RefundTypeOK
<1>2. \A r \in refundTx : Shares'[r] = Shares[r]
  BY <1>1 DEF Shares, SellerShare
<1>3. SumFunctionOnSet(Shares', refundTx) = SumFunctionOnSet(Shares, refundTx)
  BY <1>2, SameSum DEF CreditInv
<1> QED BY <1>3, CreditAgain, TakenIsSummable DEF moneyVars, CreditInv

\* A settlement adds one seller's net to both books.
LEMMA SettlementKeepsCredit ==
    ASSUME StoreTypeOK, RefundTypeOK, CreditInv, NEW p \in Purchases, SettleRevenue(p), amount' = amount
    PROVE  CreditInv'
<1>1. CASE p \in settled
  BY <1>1, CreditFrame DEF SettleRevenue
<1>2. CASE p \notin settled
  <2> DEFINE net == SellerNet(FinalPrice)
             taken == SumFunctionOnSet(Shares, refundTx)
             n == Cardinality(settled)
  <2>1. net \in Int
    BY AmountsAreIntegers
  <2>2. /\ settled' = settled \union {p} /\ refundTx' = refundTx
        /\ balance' = balance + net
        /\ book'["seller_available"] = book["seller_available"] + net
    BY <1>2 DEF SettleRevenue, Post, Accounts
  <2>3. IsFiniteSet(settled') /\ Cardinality(settled') = n + 1 /\ n \in Nat
    BY <1>2, <2>2, FS_AddElement, FS_CardinalityType DEF CreditInv
  <2>4. Shares' = Shares
    BY DEF Shares, SellerShare
  <2>5. taken \in Int /\ balance = Due(n, taken) /\ book["seller_available"] = Due(n, taken)
    BY TakenIsSummable
  <2>6. \A i \in Nat, j, k \in Int : i * j - k + j = (i + 1) * j - k
    OBVIOUS
  <2> HIDE DEF net, taken, n
  <2>7. Due(n, taken) + net = Due(n + 1, taken)
    BY <2>1, <2>3, <2>5, <2>6 DEF Due, net
  <2>8. balance' = Due(n + 1, taken) /\ book'["seller_available"] = Due(n + 1, taken)
    BY <2>2, <2>5, <2>7
  <2>9. SumFunctionOnSet(Shares', refundTx') = taken /\ IsFiniteSet(refundTx')
    BY <2>2, <2>4 DEF taken, CreditInv
  <2> QED BY <2>3, <2>8, <2>9, CreditAgain
<1> QED BY <1>1, <1>2

\* The effects of a refund take its share from both, once.
LEMMA EffectsKeepCredit ==
    ASSUME StoreTypeOK, RefundTypeOK, RefundInv, CreditInv, NEW r \in Refunds, ApplyEffects(r)
    PROVE  CreditInv'
<1> DEFINE share == SellerShare(r)
           taken == SumFunctionOnSet(Shares, refundTx)
           n == Cardinality(settled)
<1>1. /\ settled' = settled /\ refundTx' = refundTx \union {r} /\ amount' = amount
      /\ balance' = balance - share
      /\ book'["seller_available"] = book["seller_available"] + (-share)
  BY DEF ApplyEffects, Post, Accounts, refundRows
<1>2. r \notin refundTx
  BY DEF RefundInv, RefundRowInv, ApplyEffects, EffectsAt
<1>3. /\ share \in Int /\ Shares[r] = share
      /\ \A q \in Refunds : Shares[q] \in Int
      /\ taken \in Int /\ balance = Due(n, taken) /\ book["seller_available"] = Due(n, taken)
  BY TakenIsSummable
<1>4. Shares' = Shares
  BY <1>1 DEF Shares, SellerShare
<1>5. IsFiniteSet(refundTx') /\ IsFiniteSet(settled') /\ n \in Nat
  BY <1>1, FS_AddElement, FS_CardinalityType DEF CreditInv
<1>6. SumFunctionOnSet(Shares, refundTx \union {r}) = share + taken
  BY <1>2, <1>3, SumOfMore DEF CreditInv, RefundTypeOK
<1>7. SellerNet(FinalPrice) \in Int
  BY AmountsAreIntegers
<1> HIDE DEF share, taken, n
<1>8. n * SellerNet(FinalPrice) \in Int
  BY <1>5, <1>7
<1>9. Due(n, taken) - share = Due(n, share + taken) /\ Due(n, taken) + (-share) = Due(n, share + taken)
  BY <1>3, <1>8 DEF Due
<1>10. balance' = Due(n, share + taken) /\ book'["seller_available"] = Due(n, share + taken)
  BY <1>1, <1>3, <1>9
<1>11. SumFunctionOnSet(Shares', refundTx') = share + taken
  BY <1>1, <1>4, <1>6
<1>12. Cardinality(settled') = n
  BY <1>1 DEF n
<1> QED BY <1>5, <1>10, <1>11, <1>12, CreditAgain

\* Every step of a handler of the webhook.
LEMMA HandlerKeepsCredit ==
    ASSUME StoreTypeOK, WebhookTypeOK, RefundTypeOK, CreditInv, amount' = amount,
           NEW h \in Handlers, HandlerNext(h)
    PROVE  CreditInv'
<1>1. CASE Settle(h)
  BY <1>1, ServedType, SettlementKeepsCredit DEF Settle
<1>2. CASE ~Settle(h)
  BY <1>2, CreditFrame
     DEF HandlerNext, MarkProcessing, ReadPayment, CancelPayment, CancelOverwrite, CancelPurchase,
         RepairPayment, Lookup, VerifyOk, VerifyFailed, Capture, Reopen, Complete, Confirm, ToSettled,
         Finish, Throw, storeVars, moneyVars
<1> QED BY <1>1, <1>2

\* Every step of a refund: an amount is settled before anything is applied.
LEMMA RefundKeepsCredit ==
    ASSUME StoreTypeOK, RefundTypeOK, RefundInv, CreditInv, NEW r \in Refunds, RefundStepOf(r)
    PROVE  CreditInv'
<1>1. CASE ApplyEffects(r)
  BY <1>1, EffectsKeepCredit
<1>2. CASE Reserve(r)
  <2>1. r \notin refundTx
    BY <1>2 DEF Reserve, RefundInv, RefundRowInv
  <2>2. \A q \in refundTx : amount'[q] = amount[q]
    BY <1>2, <2>1 DEF Reserve, RefundTypeOK
  <2> QED BY <1>2, <2>2, CreditFrame DEF Reserve, commerceVars, storeVars
<1>3. CASE ~ApplyEffects(r) /\ ~Reserve(r)
  BY <1>3, CreditFrame
     DEF RefundStepOf, RequestRefund, CallProvider, RecordRefund, FailRefund, ReadEffects,
         EffectsConflict, DeliverRefund, RefundUnknown, ResolveRefund, FinishRefundEvent,
         ProviderResolves, commerceVars, storeVars, refundRows
<1> QED BY <1>1, <1>2, <1>3

\* However requests, notifications and refunds overlap, the seller's cached
\* balance and the ledger agree, and hold each settlement and each refund once.
THEOREM SellersAreCreditedOnce == Spec => []SellerIsCreditedOnce
<1>1. Init => CreditInv
  <2> SUFFICES ASSUME Init
               PROVE  CreditInv
    OBVIOUS
  <2>1. settled = {} /\ refundTx = {} /\ balance = 0 /\ book["seller_available"] = 0
    BY DEF Init, StoreInit, Accounts
  <2>2. Cardinality(settled) = 0 /\ SumFunctionOnSet(Shares, refundTx) = 0
    BY <2>1, SumOfNothing, FS_EmptySet
  <2>3. 0 * SellerNet(FinalPrice) - 0 = 0
    BY AmountsAreIntegers
  <2> QED BY <2>1, <2>2, <2>3, FS_EmptySet DEF CreditInv, SellerIsCreditedOnce, Shares
<1>2. TypeOK /\ RefundInv /\ CreditInv /\ [Next]_vars => CreditInv'
  <2> SUFFICES ASSUME TypeOK, RefundInv, CreditInv, [Next]_vars
               PROVE  CreditInv'
    OBVIOUS
  <2> USE DEF TypeOK
  <2>1. CASE UNCHANGED <<moneyVars, amount>>
    BY <2>1, CreditFrame
  <2>2. CASE WebhookStep
    BY <2>1, <2>2, HandlerKeepsCredit
       DEF WebhookStep, Deliver, DeliverProcessed, refundVars, refundRows, storeVars
  <2>3. CASE RequestOrProviderStep
    BY <2>1, <2>3 DEF RequestOrProviderStep, RequestNext, Checkout, CreateAtProvider,
       InsertPayment, CancelRequested, CancelAtProvider, CancelTransition, CancelClose,
       ProviderCaptures, ProviderCancels, refundVars, refundRows, storeVars
  <2>4. CASE RefundStep
    BY <2>4, RefundKeepsCredit DEF RefundStep, RefundNext
  <2>5. CASE LossStep
    BY <2>1, <2>5 DEF LossStep, Lose, LoseAnswer, LoseInsert, LoseCancel, LoseRefundRequest,
           LoseRefundHook, refundVars, refundRows, commerceVars, storeVars
  <2>6. CASE UNCHANGED vars
    BY <2>1, <2>6 DEF vars, refundVars, refundRows, commerceVars, storeVars
  <2>7. CASE DisputeStep
    BY <2>1, <2>7, DisputeFrame DEF PurchaseOnly, refundVars, refundRows
  <2> QED BY <2>2, <2>3, <2>4, <2>5, <2>6, <2>7 DEF Next
<1>3. CreditInv => SellerIsCreditedOnce
  BY DEF CreditInv
<1> QED BY <1>1, <1>2, <1>3, TypeCorrect, RefundRows, PTL DEF Spec
=============================================================================
