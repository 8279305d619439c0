---------------------------- MODULE CommerceStore ----------------------------
(***************************************************************************)
(* The tables the resource-commerce requests share, for the purchases of   *)
(* ONE buyer of ONE resource (the scope of the partial unique indexes),    *)
(* and the database transactions on them.  A statement, or a transaction   *)
(* whose conflicts a row lock or a unique index arbitrates, is one step.   *)
(***************************************************************************)
EXTENDS MoneyMath

CONSTANTS
    Purchases,    \* Purchase rows this buyer may create for this resource
    Payments,     \* provider payments, named by providerPaymentId
    PurchaseOf,   \* the purchase whose id a provider payment carries
    FinalPrice    \* the price of the line after discounts

ASSUME PurchaseOfType == PurchaseOf \in [Payments -> Purchases]
ASSUME FinalPriceIsPositive == FinalPrice \in Nat \ {0}

VARIABLES
    purchase,     \* Purchase.status; "NONE" while there is no row
    license,      \* License.status of the purchase; "NONE" without a row
    payment,      \* Payment.status; "NONE" while there is no row
    settled,      \* purchases with a SELLER_REVENUE row and a settle:* posting
    refundTx,     \* refunds whose balanced posting refund:<id> exists
    book,         \* ledger account balances
    balance       \* SellerBalance.availableAmount, the cached balance

entitlementVars == <<purchase, license>>
moneyVars == <<settled, refundTx, book, balance>>
storeVars == <<entitlementVars, payment, moneyVars>>
-----------------------------------------------------------------------------
PurchaseStatus == {"NONE", "PENDING", "COMPLETED", "FAILED", "REFUNDED", "DISPUTED"}
LicenseStatus == {"NONE", "ACTIVE", "REVOKED"}
PaymentState == {"PENDING", "SUCCEEDED", "SETTLEMENT_PENDING", "SETTLED",
                 "FAILED", "CANCELED", "REFUNDED", "PARTIALLY_REFUNDED"}
Accounts == {"platform_cash", "seller_available", "platform_revenue"}

\* The rows the partial unique indexes range over.
Live == {"PENDING", "COMPLETED"}
Captured == {"SUCCEEDED", "SETTLEMENT_PENDING", "SETTLED", "REFUNDED",
             "PARTIALLY_REFUNDED"}

TRANSITIONS ==
    [PENDING            |-> {"SUCCEEDED", "FAILED", "CANCELED"},
     SUCCEEDED          |-> {"SETTLEMENT_PENDING", "SETTLED",
                             "PARTIALLY_REFUNDED", "REFUNDED"},
     SETTLEMENT_PENDING |-> {"SETTLED", "FAILED"},
     SETTLED            |-> {"PARTIALLY_REFUNDED", "REFUNDED"},
     FAILED             |-> {},
     CANCELED           |-> {},
     REFUNDED           |-> {},
     PARTIALLY_REFUNDED |-> {"REFUNDED"}]

CanTransition(from, to) == from \in PaymentState /\ to \in TRANSITIONS[from]
-----------------------------------------------------------------------------
(* Unique indexes *)

\* purchase_buyer_resource_live_uq admits a live row for p.
LiveIndexAdmits(p) == \A q \in Purchases \ {p} : purchase[q] \notin Live

\* Mutant: a database without the index.
NoCapturedIndex(x) == TRUE

\* payment_purchase_captured_uq admits a captured row for x.
CapturedIndexAdmits(x) ==
    \A y \in Payments \ {x} :
        PurchaseOf[y] = PurchaseOf[x] => payment[y] \notin Captured

SetPayment(x, state) == payment' = [payment EXCEPT ![x] = state]

\* transitionPaymentTo: compare-and-set along the canonical table, a no-op in
\* the target state.  A lost compare-and-set re-reads and retries.
MayMoveTo(x, to) ==
    \/ payment[x] \in {"NONE", to}
    \/ /\ CanTransition(payment[x], to)
       /\ to \in Captured => CapturedIndexAdmits(x)

TransitionPaymentTo(x, to) ==
    /\ MayMoveTo(x, to)
    /\ IF payment[x] = "NONE" THEN UNCHANGED payment ELSE SetPayment(x, to)
-----------------------------------------------------------------------------
(* The completion transaction of completeResourceOrderItem *)

OtherOwned(p) == \E q \in Purchases \ {p} : purchase[q] = "COMPLETED"

\* The license is created iff it is missing; it is never re-activated.
EnsureLicense(p) ==
    license' = [license EXCEPT ![p] = IF @ = "NONE" THEN "ACTIVE" ELSE @]

\* The compare-and-set PENDING -> COMPLETED wins and grants the entitlement.
GrantPurchase(p) ==
    /\ purchase[p] = "PENDING"
    /\ ~OtherOwned(p)
    /\ purchase' = [purchase EXCEPT ![p] = "COMPLETED"]
    /\ EnsureLicense(p)

\* Mutant: the retry completes whatever was completed before.
RepairEnded(p) ==
    /\ purchase[p] \in {"COMPLETED", "REFUNDED"}
    /\ purchase' = [purchase EXCEPT ![p] = "COMPLETED"]
    /\ EnsureLicense(p)

\* The idempotent retry repairs a missing license.
RepairPurchase(p) ==
    /\ purchase[p] = "COMPLETED"
    /\ EnsureLicense(p)
    /\ UNCHANGED purchase

CompletionRejected(p) ==
    /\ purchase[p] # "COMPLETED"
    /\ purchase[p] = "PENDING" => OtherOwned(p)
-----------------------------------------------------------------------------
(* Money *)

\* One balanced ledger posting: the cash account grows by the sum of what the
\* seller and the platform accounts grow by.
Post(sellerPart, platformPart) ==
    book' = [a \in Accounts |->
               CASE a = "seller_available" -> book[a] + sellerPart
                 [] a = "platform_revenue" -> book[a] + platformPart
                 [] OTHER                  -> book[a] + sellerPart + platformPart]

\* Mutant: the marker row is not looked up.
SettleAgain(p) ==
    /\ settled' = settled \union {p}
    /\ balance' = balance + SellerNet(FinalPrice)
    /\ Post(SellerNet(FinalPrice), PlatformFee(FinalPrice))
    /\ UNCHANGED refundTx

\* settlePurchaseRevenue: marker row, cached balance and settle:purchase:<id>
\* posting in one transaction; a settlement already applied is a no-op.
SettleRevenue(p) ==
    IF p \in settled
    THEN UNCHANGED moneyVars
    ELSE /\ settled' = settled \union {p}
         /\ balance' = balance + SellerNet(FinalPrice)
         /\ Post(SellerNet(FinalPrice), PlatformFee(FinalPrice))
         /\ UNCHANGED refundTx

StoreTypeOK ==
    /\ purchase \in [Purchases -> PurchaseStatus]
    /\ license \in [Purchases -> LicenseStatus]
    /\ payment \in [Payments -> PaymentState \union {"NONE"}]
    /\ settled \subseteq Purchases
    /\ book \in [Accounts -> Int]
    /\ balance \in Int

StoreInit ==
    /\ purchase = [p \in Purchases |-> "NONE"]
    /\ license = [p \in Purchases |-> "NONE"]
    /\ payment = [x \in Payments |-> "NONE"]
    /\ settled = {}
    /\ refundTx = {}
    /\ book = [a \in Accounts |-> 0]
    /\ balance = 0
=============================================================================
