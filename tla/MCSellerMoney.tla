----------------------------- MODULE MCSellerMoney -----------------------------
(***************************************************************************)
(* Two handlers at a time.  Each behaviour exercises one part of the       *)
(* system, or, in the last workload, the way of the money through all.     *)
(***************************************************************************)
EXTENDS SellerMoney, TLC

CONSTANTS o1, o2, p1, p2, c1, c2, i1, i2, r1

Together == [c \in Calls |-> i1]
Apart == [c \in Calls |-> IF c = c1 THEN i1 ELSE i2]
Work(at, targets, ops) == [at |-> at, targets |-> targets, ops |-> ops]

ServiceOps == {"pay", "deliver", "close", "cancel", "freeze", "revise", "accept"}
DisputeOps == {"dispute", "rule"}
PurchaseOps == {"complete", "refund"}
PayoutOps == {"request", "decide"}

\* A priced order and a free one; a purchase; payouts on one and two processes;
\* an order's revenue and a purchase's on their way to a payout; a deal room.
MCWorkloads ==
    { Work(Together, {o1}, ServiceOps \union DisputeOps),
      Work(Together, {o2}, ServiceOps),
      Work(Together, {p1}, PurchaseOps \union DisputeOps),
      Work(Together, {p1}, PurchaseOps \union PayoutOps),
      Work(Apart, {p1}, PurchaseOps \union PayoutOps),
      Work(Together, {o1, p1}, {"pay", "deliver", "accept", "complete"} \union PayoutOps),
      Work(Together, {r1}, {"deal"}) }

MCManualIds == {<<"manual", 1>>}
=============================================================================
