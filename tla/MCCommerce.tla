------------------------------ MODULE MCCommerce ------------------------------
(***************************************************************************)
(* Instances of Commerce for TLC.                                          *)
(***************************************************************************)
EXTENDS Commerce, TLC

CONSTANTS p1, p2, x1, x2, x3, x4, r1, r2, h1, h2

Succeeded(x, id) == [payment |-> x, type |-> "payment.succeeded", id |-> id]
Canceled(x) == [payment |-> x, type |-> "payment.canceled", id |-> 1]

\* One payment with one notification of each type, or with the two success
\* notifications T-Bank sends (AUTHORIZED and CONFIRMED).
EventsOfOne == {Succeeded(x1, 1), Canceled(x1)}
EventsOfSuccess == {Succeeded(x1, 1)}
\* Two payments for one order, of which the first also expires at the provider, and
\* one for another order.
EventsOfTwo == {Succeeded(x1, 1), Canceled(x1), Succeeded(x2, 1)}
EventsOfFour == EventsOfTwo \union {Succeeded(x3, 1), Succeeded(x4, 1)}

PurchaseOfEach == [x \in Payments |-> IF x \in {x3, x4} THEN p2 ELSE p1]
PurchaseOfOne == [x \in Payments |-> p1]
RefundOfOne == [r \in Refunds |-> x1]

\* The bounds on overlap.  Webhook requests are served one at a time once a purchase is
\* frozen, a refund requested or a third payment created; a payment of the wrong amount
\* has one other beside it; and a refund meets neither another order nor a
\* cancellation of its payment.
Refunding == \E r \in Refunds : step[r] # "idle"
Frozen == complaints < MaxDisputes
Created == {x \in Payments : provider[x] # "NONE"}
Served == {h \in Handlers : pc[h] # "idle"}
BoundedNext ==
    /\ Next
    /\ (Frozen \/ Refunding \/ Cardinality(Created) > 2)' => Cardinality(Served') <= 1
    /\ Created' \intersect Mismatched # {} => Cardinality(Created') <= 2
    /\ Refunding' =>
         purchase'[p2] = "NONE" /\ event'[Canceled(x1)] = "NONE" /\ Canceled(x1) \notin sent'

BoundedSpec == Init /\ [][BoundedNext]_vars

\* Without symmetry, that one request is h1.
BoundedFairSpec ==
    /\ Init /\ [][BoundedNext /\ ((Frozen \/ Refunding)' => Served' \subseteq {h1})]_vars
    /\ Fairness

\* A dispute and a lost request do not meet.
DisputeOrLoss == Frozen => losses = 0

HandlerSymmetry == Permutations(Handlers)
RefundSymmetry == Permutations(Refunds)
=============================================================================
