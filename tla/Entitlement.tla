----------------------------- MODULE Entitlement -----------------------------
(***************************************************************************)
(* What the market promises one buyer of one resource and its seller,      *)
(* without requests, rows or retries: a license only for money received,   *)
(* one active license at a time beside those in dispute, revenue once and  *)
(* only for a license, and no way back from a revocation.                  *)
(***************************************************************************)
EXTENDS Integers

CONSTANTS
    Purchases,    \* orders of the resource
    Net           \* what the seller earns by one of them

VARIABLES
    paid,         \* purchases a payment was captured for, in full
    license,      \* the license each purchase has brought
    frozen,       \* purchases in dispute; their licenses stay
    settled,      \* purchases whose revenue was credited to the seller
    balance       \* the seller's balance

vars == <<paid, license, frozen, settled, balance>>

Init ==
    /\ paid = {}
    /\ license = [p \in Purchases |-> "NONE"]
    /\ frozen = {}
    /\ settled = {}
    /\ balance = 0

\* No license is in force but those in dispute.
NoneInForce == \A q \in Purchases \ frozen : license[q] # "ACTIVE"

Pay(p) ==
    /\ paid' = paid \union {p}
    /\ UNCHANGED <<license, frozen, settled, balance>>

Grant(p) ==
    /\ p \in paid /\ license[p] = "NONE"
    /\ NoneInForce
    /\ license' = [license EXCEPT ![p] = "ACTIVE"]
    /\ UNCHANGED <<paid, frozen, settled, balance>>

Settle(p) ==
    /\ license[p] # "NONE" /\ p \notin settled
    /\ settled' = settled \union {p}
    /\ balance' = balance + Net
    /\ UNCHANGED <<paid, license, frozen>>

\* A refund takes the seller's share back, and may end a license.
Revoke(p) ==
    /\ license[p] = "ACTIVE"
    /\ license' = [license EXCEPT ![p] = "REVOKED"]

Refund ==
    /\ balance' <= balance
    /\ UNCHANGED license \/ \E p \in Purchases : Revoke(p)
    /\ UNCHANGED <<paid, frozen, settled>>

\* A dispute puts a granted purchase aside; one that is over brings it back, unless
\* the buyer holds another license by then.
Freeze(p) ==
    /\ license[p] # "NONE"
    /\ frozen' = frozen \union {p}
    /\ UNCHANGED <<paid, license, settled, balance>>

Thaw(p) ==
    /\ p \in frozen /\ NoneInForce
    /\ frozen' = frozen \ {p}
    /\ UNCHANGED <<paid, license, settled, balance>>

Next ==
    \/ Refund
    \/ \E p \in Purchases : Pay(p) \/ Grant(p) \/ Settle(p) \/ Freeze(p) \/ Thaw(p)

Spec == Init /\ [][Next]_vars
=============================================================================
