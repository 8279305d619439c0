------------------------------- MODULE MCLicenses -------------------------------
(***************************************************************************)
(* The module, another machine of the same license, and two requests at a  *)
(* time.                                                                   *)
(***************************************************************************)
EXTENDS LicenseClient, TLC

CONSTANTS c1, c2, own, other, n1, n2, k1, k2, k3

Work(mine, n, losses, ops) ==
    [installation |-> [i \in Keys |-> IF i = own THEN mine ELSE "ACTIVE"],
     left |-> n, losses |-> losses, ops |-> ops]

MCWorkloads ==
    { Work("none", 0, 0, {}),
      Work("none", 0, 2, {}),
      Work("none", 2, 0, {"revoke", "refund", "yank"}),
      Work("none", 2, 0, {"revoke", "activate"}),
      Work("none", 2, 1, {"rotate"}),
      Work("none", 3, 0, {"activate", "dek", "refund", "expire"}),
      Work("none", 2, 0, {"rotate", "activate"}) }
=============================================================================
