------------------------------- MODULE MCCheckout -------------------------------
(***************************************************************************)
(* Three requests, two backend processes, one key.  Each behaviour starts  *)
(* with one of the workloads below.                                        *)
(***************************************************************************)
EXTENDS Checkout

CONSTANTS q1, q2, q3, k1, none, b1, b2, x1, x2, i1, i2

Body(op, item, coupon, free) == [op |-> op, item |-> item, coupon |-> coupon, free |-> free]
At(i, key, user, body) == [at |-> i, key |-> key, user |-> user, body |-> body]
Load(r1, r2, r3) == (q1 :> r1) @@ (q2 :> r2) @@ (q3 :> r3)

Priced(item) == Body("resource", item, TRUE, FALSE)
Plain(item) == Body("resource", item, FALSE, FALSE)
Gift(item) == Body("resource", item, TRUE, TRUE)
Service == Body("service", x1, TRUE, FALSE)
Opaque == Body("other", x1, FALSE, FALSE)

\* Retries of one key; the key reused for another payload; the key and the payload of
\* one user sent by another; a buyer's checkouts of one resource through one and
\* through two processes; two resources of a buyer and one of another under the
\* campaign's limit; service orders; other handlers, the last asked by another user.
MCWorkloads ==
    { Load(At(i1, k1, b1, Priced(x1)), At(i2, k1, b1, Priced(x1)), At(i1, none, b1, Priced(x1))),
      Load(At(i1, k1, b1, Gift(x1)), At(i1, k1, b1, Gift(x1)), At(i2, k1, b1, Priced(x2))),
      Load(At(i1, k1, b1, Gift(x1)), At(i2, k1, b2, Gift(x1)), At(i1, none, b2, Gift(x1))),
      Load(At(i1, none, b1, Priced(x1)), At(i1, none, b1, Priced(x1)), At(i2, none, b1, Plain(x1))),
      Load(At(i1, none, b1, Gift(x1)), At(i2, none, b1, Gift(x2)), At(i1, none, b2, Gift(x1))),
      Load(At(i1, none, b1, Priced(x1)), At(i2, none, b1, Priced(x2)), At(i1, none, b2, Priced(x1))),
      Load(At(i1, none, b1, Service), At(i2, none, b1, Service),
           At(i1, none, b2, Body("service", x2, FALSE, TRUE))),
      Load(At(i1, k1, b1, Opaque), At(i2, k1, b1, Opaque), At(i1, k1, b2, Opaque)) }

MCReplies == Requests \union {"rejected"}
=============================================================================
