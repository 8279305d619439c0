--------------------------- MODULE PurchaseDisputes ---------------------------
(***************************************************************************)
(* What disputes do to the purchases of this buyer (routes/disputes.ts).   *)
(* The dispute rows, and the requests that write a row and its target one  *)
(* after the other, are modelled in Disputes.  Of them a purchase sees two *)
(* compare-and-sets: one of a request that opens a dispute, and one of a   *)
(* request that decides it, each at any time after its row or, if the      *)
(* request dies, never.  A frozen purchase is out of the live index though *)
(* its license stays active: its buyer may check out again.                *)
(***************************************************************************)
EXTENDS RefundLifecycle

CONSTANT MaxDisputes    \* bound on the disputes that freeze a purchase

ASSUME MaxDisputesType == MaxDisputes \in Nat

VARIABLE complaints     \* disputes that may still freeze a purchase

disputeVars == <<complaints>>

PurchaseOnly == UNCHANGED <<license, payment, moneyVars, providerVars, event, handlerVars,
                            requestVars, refundVars>>

\* POST /disputes, after its row: COMPLETED -> DISPUTED.
FreezePurchase(p) ==
    /\ complaints > 0 /\ complaints' = complaints - 1
    /\ purchase[p] = "COMPLETED"
    /\ purchase' = [purchase EXCEPT ![p] = "DISPUTED"]
    /\ PurchaseOnly

\* Mutant: a database whose live index does not refuse it.
RestoreBeside(p) ==
    /\ purchase[p] = "DISPUTED"
    /\ purchase' = [purchase EXCEPT ![p] = "COMPLETED"]
    /\ UNCHANGED disputeVars /\ PurchaseOnly

\* POST /disputes/:id/transition, after RESOLVED_SELLER or CLOSED: DISPUTED ->
\* COMPLETED, which the live index refuses beside a newer purchase.
RestorePurchase(p) ==
    /\ purchase[p] = "DISPUTED" /\ LiveIndexAdmits(p)
    /\ purchase' = [purchase EXCEPT ![p] = "COMPLETED"]
    /\ UNCHANGED disputeVars /\ PurchaseOnly

DisputeNext == \E p \in Purchases : FreezePurchase(p) \/ RestorePurchase(p)

DisputeTypeOK == complaints \in Nat
DisputeInit == complaints = MaxDisputes
=============================================================================
