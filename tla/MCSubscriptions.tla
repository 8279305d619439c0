---------------------------- MODULE MCSubscriptions ----------------------------
(***************************************************************************)
(* Two handlers at a time, on one process or on two.  Each workload meets  *)
(* activations with one other part: another order of the same plan, the    *)
(* sweep and the user, an administrator, a campaign.                       *)
(***************************************************************************)
EXTENDS Subscriptions, TLC

CONSTANTS c1, c2, i1, i2, s1, s2, a1

OneProcess == [c \in Calls |-> i1]
TwoProcesses == [c \in Calls |-> IF c = c1 THEN i1 ELSE i2]
Work(at, rows, orders, n, losses, time, ops) ==
    [at |-> at, rows |-> rows, orders |-> orders, left |-> n, losses |-> losses,
     time |-> time, ops |-> ops]

MCWorkloads ==
    { Work(OneProcess, 0, {s1}, 2, 1, 0, {"activate"}),
      Work(OneProcess, 1, {s1, s2}, 0, 1, 1, {}),
      Work(TwoProcesses, 1, {s1, s2}, 0, 1, 1, {}),
      Work(OneProcess, 0, {s1}, 2, 0, 3, {"sweep", "cancel", "renew", "expire"}),
      Work(OneProcess, 0, {s1}, 2, 0, 2, {"sweep", "cancel", "resume", "stop"}),
      Work(OneProcess, 0, {s1, s2}, 2, 0, 3, {"sweep"}),
      Work(OneProcess, 0, {s1}, 3, 0, 2, {"cancel", "comp", "grant_grace", "expire"}),
      Work(OneProcess, 0, {a1}, 2, 1, 0, {"activate"}) }

\* The webhook and the buyer.
OneOrder == {Work(OneProcess, 0, {s1}, 1, 0, 0, {"activate"})}
=============================================================================
