------------------------------- MODULE MCAccounts -------------------------------
(***************************************************************************)
(* One user with two browsers, two requests at a time.                     *)
(***************************************************************************)
EXTENDS Accounts, TLC

CONSTANTS c1, c2, b1, b2, q1, q2

Work(signedIn, ids, n, losses, ops) ==
    [cookie |-> [b \in Browsers |-> IF b \notin signedIn THEN 0 ELSE IF b = b1 THEN 1 ELSE 2],
     identities |-> ids, left |-> n, losses |-> losses, ops |-> ops]

MCWorkloads ==
    { Work({b1}, {q1}, 4, 1, {"refresh", "logout"}),
      Work({b1}, {}, 4, 0, {"login", "refresh"}),
      Work({b1, b2}, {q1}, 3, 0, {"refresh", "login", "password"}),
      Work({b1}, {}, 3, 0, {"oauth", "suspend", "restore"}),
      Work({b1, b2}, {q1}, 3, 1, {"refresh", "login", "suspend", "restore"}),
      Work({b1, b2}, {q1}, 3, 0, {"refresh", "revoke", "others", "expire"}),
      Work({b1}, {q1, q2}, 4, 0, {"unlink", "link", "oauth"}) }
=============================================================================
