------------------------------ MODULE ServiceOrders ------------------------------
(***************************************************************************)
(* routes/services.ts: the life of a service order from its payment to the *)
(* settlement of the seller's revenue.  A handler whose read is only       *)
(* re-checked by the compare-and-set that follows is one action: nothing   *)
(* it read survives a lost race.                                           *)
(***************************************************************************)
EXTENDS SellerLedger

CONSTANTS
    Orders,       \* service orders
    FreeOrders,   \* those whose finalPrice is 0
    Revenue,      \* sellerRevenue of a priced order or purchase
    MaxRevisions  \* MAX_REVISIONS_PER_ORDER

ASSUME OrderAssumption ==
    FreeOrders \subseteq Orders /\ Revenue \in Nat \ {0} /\ MaxRevisions \in Nat \ {0}

VARIABLES
    status,       \* ServicePurchase.status, Purchase.status
    captured,     \* orders whose payment the provider captured (external)
    revisions     \* ServiceRevision rows of an order

orderVars == <<status, captured, revisions>>

SettleId(t) == <<"settle", t>>
RevenueOf(o) == IF o \in FreeOrders THEN 0 ELSE Revenue

\* One guarded update: the row moves if it is still in `from`.
Move(t, from, to) == status[t] \in from /\ status' = [status EXCEPT ![t] = to]
OrderOnly == UNCHANGED <<callVars, ledgerVars, captured, revisions>>
-----------------------------------------------------------------------------
Capture(o) ==
    /\ Occurs("pay") /\ o \in load.targets \ (FreeOrders \union captured)
    /\ captured' = captured \union {o}
    /\ UNCHANGED <<callVars, ledgerVars, status, revisions>>

\* Mutant: the work is resumed whatever the order was waiting for.
ResumeWhenPaid(o) ==
    /\ o \in captured
    /\ Move(o, {"PENDING", "DISPUTED"}, "IN_PROGRESS")
    /\ OrderOnly

MarkServicePurchasePaid(o) ==
    /\ o \in captured
    /\ Move(o, {"PENDING"}, "IN_PROGRESS")
    /\ OrderOnly

Deliver(o) ==
    /\ Occurs("deliver") /\ o \in load.targets
    /\ Move(o, {"IN_PROGRESS"}, "DELIVERED")
    /\ OrderOnly

Close(o) ==
    /\ Occurs("close")
    /\ Move(o, {"ACCEPTED"}, "CLOSED")
    /\ OrderOnly

Cancel(o) ==
    /\ Occurs("cancel") /\ o \in load.targets
    /\ Move(o, {"PENDING", "IN_PROGRESS"}, "CANCELLED")
    /\ OrderOnly

\* POST /services/orders/:id/dispute writes no Dispute row.
DisputeOrder(o) ==
    /\ Occurs("freeze") /\ o \in load.targets
    /\ Move(o, {"PENDING", "IN_PROGRESS", "DELIVERED"}, "DISPUTED")
    /\ OrderOnly

\* Mutant: the limit is left to the form that asks for the revision.
CountNothing(c, o) ==
    /\ Occurs("revise") /\ o \in load.targets
    /\ Begin(c, [Idle EXCEPT !.pc = "revise", !.on = o])
    /\ UNCHANGED <<load, faults, ledgerVars, orderVars>>

\* The revisions are counted before the order is moved; the count is what the
\* transaction saw, and another one may commit in between.
CountRevisions(c, o) ==
    /\ Occurs("revise") /\ o \in load.targets
    /\ revisions[o] < MaxRevisions
    /\ Begin(c, [Idle EXCEPT !.pc = "revise", !.on = o])
    /\ UNCHANGED <<load, faults, ledgerVars, orderVars>>

\* An order that is no longer DELIVERED, or a delivery that is not found, leaves
\* everything as it was.
Revise(c) ==
    LET o == call[c].on IN
    /\ At(c, "revise") /\ Return(c)
    /\ \/ /\ Move(o, {"DELIVERED"}, "IN_PROGRESS")
          /\ revisions' = [revisions EXCEPT ![o] = @ + 1]
       \/ UNCHANGED <<status, revisions>>
    /\ UNCHANGED <<load, faults, ledgerVars, captured>>

\* Acceptance commits before the revenue is settled.
Accept(c, o) ==
    /\ Occurs("accept") /\ o \in load.targets
    /\ Move(o, {"DELIVERED"}, "ACCEPTED")
    /\ Begin(c, [Idle EXCEPT !.pc = "settle", !.on = o])
    /\ UNCHANGED <<load, faults, ledgerVars, captured, revisions>>

\* Mutant: the settlement of an order that moved on is skipped.
SettleAccepted(c) ==
    LET o == call[c].on IN
    /\ At(c, "settle") /\ Return(c)
    /\ IF SettleId(o) \in ledger \/ o \in FreeOrders \/ status[o] # "ACCEPTED"
       THEN UNCHANGED ledgerVars ELSE Apply(SettleId(o), RevenueOf(o))
    /\ UNCHANGED <<load, faults, orderVars>>

\* settleServiceRevenue: the marker of an earlier settlement stops it, a free
\* order posts nothing.
SettleServiceRevenue(c) ==
    LET o == call[c].on IN
    /\ At(c, "settle") /\ Return(c)
    /\ IF SettleId(o) \in ledger \/ o \in FreeOrders
       THEN UNCHANGED ledgerVars ELSE Apply(SettleId(o), RevenueOf(o))
    /\ UNCHANGED <<load, faults, orderVars>>

ServiceStep(c) == Revise(c) \/ SettleServiceRevenue(c)
ServiceNext ==
    \/ \E o \in Orders :
        \/ Capture(o) \/ MarkServicePurchasePaid(o) \/ Deliver(o) \/ Close(o)
        \/ Cancel(o) \/ DisputeOrder(o)
        \/ \E c \in Calls : CountRevisions(c, o) \/ Accept(c, o)
    \/ \E c \in Calls : ServiceStep(c)
=============================================================================
