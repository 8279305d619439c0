-------------------------------- MODULE Disputes --------------------------------
(***************************************************************************)
(* routes/disputes.ts over service orders and resource purchases: the      *)
(* dispute row and the order it freezes are updated one after the other.   *)
(***************************************************************************)
EXTENDS ServiceOrders

CONSTANTS
    Purchases,    \* resource purchases
    MaxDisputes   \* bound on the disputes of one target

ASSUME DisputeAssumption ==
    Purchases \intersect Orders = {} /\ MaxDisputes \in Nat \ {0}

VARIABLE disputes     \* the Dispute rows of a target, oldest first
disputeVars == <<disputes>>

Targets == Orders \union Purchases
PurchaseStatus == {"PENDING", "COMPLETED", "REFUNDED", "DISPUTED"}
RefundId(p) == <<"refund", p>>

DisputeTransitions ==
    [OPEN |-> {"WAITING_BUYER", "WAITING_SELLER", "UNDER_REVIEW", "CLOSED"},
     WAITING_BUYER |-> {"WAITING_SELLER", "UNDER_REVIEW", "CLOSED"},
     WAITING_SELLER |-> {"WAITING_BUYER", "UNDER_REVIEW", "CLOSED"},
     UNDER_REVIEW |-> {"RESOLVED_BUYER", "RESOLVED_SELLER", "PARTIAL_REFUND", "CLOSED"},
     PARTIAL_REFUND |-> {"CLOSED"},
     RESOLVED_BUYER |-> {}, RESOLVED_SELLER |-> {}, CLOSED |-> {}]
DisputeStatus == DOMAIN DisputeTransitions
Decisions == {"RESOLVED_BUYER", "RESOLVED_SELLER", "PARTIAL_REFUND", "CLOSED"}

Freezable(t) ==
    IF t \in Orders THEN {"PENDING", "IN_PROGRESS", "DELIVERED"} ELSE {"COMPLETED"}
Disputable(t) ==
    Freezable(t) \union {"DISPUTED"} \union (IF t \in Purchases THEN {"PENDING"} ELSE {})
NoneOpen(t) == \A i \in DOMAIN disputes[t] : disputes[t][i] = "CLOSED"
-----------------------------------------------------------------------------
(* Purchases: completed with their settlement, refunded in full *)

Complete(p) ==
    /\ Occurs("complete") /\ p \in load.targets
    /\ Move(p, {"PENDING"}, "COMPLETED")
    /\ Apply(SettleId(p), Revenue)
    /\ UNCHANGED <<callVars, captured, revisions, disputes>>

\* The payment is refunded whatever became of the purchase; only a COMPLETED
\* purchase is moved.
Refund(p) ==
    /\ Occurs("refund")
    /\ SettleId(p) \in ledger /\ RefundId(p) \notin ledger
    /\ Apply(RefundId(p), -Revenue)
    /\ status' = [status EXCEPT ![p] = IF @ = "COMPLETED" THEN "REFUNDED" ELSE @]
    /\ UNCHANGED <<callVars, captured, revisions, disputes>>
-----------------------------------------------------------------------------
(* POST /disputes: read the target, insert the row, freeze the target *)

Inserting(t) == {c \in Calls : At(c, "insert") /\ call[c].on = t}
ReadTarget(c, t) ==
    /\ Occurs("dispute") /\ t \in load.targets
    /\ Len(disputes[t]) + Cardinality(Inserting(t)) < MaxDisputes     \* bound
    /\ status[t] \in Disputable(t) /\ NoneOpen(t)
    /\ Begin(c, [Idle EXCEPT !.pc = "insert", !.on = t, !.seen = status[t]])
    /\ UNCHANGED <<load, faults, ledgerVars, orderVars, disputes>>

\* The index admits one dispute that is not CLOSED.
InsertDispute(c) ==
    LET t == call[c].on IN
    /\ At(c, "insert")
    /\ \/ /\ NoneOpen(t)
          /\ disputes' = [disputes EXCEPT ![t] = Append(@, "OPEN")]
          /\ IF call[c].seen \in Freezable(t) THEN Continue(c, "freeze") ELSE Return(c)
       \/ ~NoneOpen(t) /\ Return(c) /\ UNCHANGED disputes
    /\ UNCHANGED <<load, faults, ledgerVars, orderVars>>

\* The freeze expects the status that was read before the row was written.
Freeze(c) ==
    LET t == call[c].on IN
    /\ At(c, "freeze") /\ Return(c)
    /\ \/ Move(t, {call[c].seen}, "DISPUTED")
       \/ status[t] # call[c].seen /\ UNCHANGED status
    /\ UNCHANGED <<load, faults, ledgerVars, captured, revisions, disputes>>
-----------------------------------------------------------------------------
(* POST /disputes/:id/transition: move the row, then the target *)

TransitionDispute(c, t, i, next) ==
    /\ Occurs("rule") /\ next \in DisputeTransitions[disputes[t][i]]
    /\ disputes' = [disputes EXCEPT ![t][i] = next]
    /\ Begin(c, IF next \in Decisions
                THEN [Idle EXCEPT !.pc = "effect", !.on = t, !.seen = next] ELSE Idle)
    /\ UNCHANGED <<load, faults, ledgerVars, orderVars>>

\* Mutant: every decision lets the work go on.
OutcomeResumes(t, decision) ==
    CASE t \in Orders -> "IN_PROGRESS"
      [] t \in Purchases /\ decision \in {"RESOLVED_SELLER", "CLOSED"} -> "COMPLETED"
      [] OTHER -> "DISPUTED"

\* What a decision makes of a frozen target; a refund is left to the refund service.
Outcome(t, decision) ==
    CASE t \in Orders -> IF decision = "RESOLVED_SELLER" THEN "IN_PROGRESS" ELSE "CLOSED"
      [] t \in Purchases /\ decision \in {"RESOLVED_SELLER", "CLOSED"} -> "COMPLETED"
      [] OTHER -> "DISPUTED"

ApplyDecision(c) ==
    LET t == call[c].on IN
    /\ At(c, "effect") /\ Return(c)
    /\ \/ Move(t, {"DISPUTED"}, Outcome(t, call[c].seen))
       \/ status[t] # "DISPUTED" /\ UNCHANGED status
    /\ UNCHANGED <<load, faults, ledgerVars, captured, revisions, disputes>>

DisputeStep(c) == InsertDispute(c) \/ Freeze(c) \/ ApplyDecision(c)
DisputesNext ==
    \/ ServiceNext /\ UNCHANGED disputes
    \/ \E p \in Purchases : Complete(p) \/ Refund(p)
    \/ \E c \in Calls :
        \/ \E t \in Targets :
            \/ ReadTarget(c, t)
            \/ \E i \in DOMAIN disputes[t], next \in DisputeStatus :
                TransitionDispute(c, t, i, next)
        \/ DisputeStep(c)

DisputesInit ==
    /\ status = [t \in Targets |-> IF t \in FreeOrders THEN "IN_PROGRESS" ELSE "PENDING"]
    /\ captured = {} /\ revisions = [o \in Orders |-> 0]
    /\ disputes = [t \in Targets |-> << >>]
-----------------------------------------------------------------------------
(* Properties *)

\* The seller of a priced order is credited only for accepted work that was paid
\* for.  The exception is an order that went to work unpaid, because a dispute of
\* the pending order was resolved in the seller's favour (disputes.ts:326-329).
CreditIsEarned ==
    \A o \in Orders : SettleId(o) \in ledger =>
        /\ status[o] \in {"ACCEPTED", "CLOSED"}
        /\ \/ o \in captured
           \/ \E i \in DOMAIN disputes[o] : disputes[o][i] = "RESOLVED_SELLER"

\* A frozen target leaves DISPUTED for what one of its decided disputes makes of
\* it, and in no other way: no party moves it, no payment, and no refund.
OnlyRulingsThaw ==
    [][\A t \in Targets : status[t] = "DISPUTED" /\ status'[t] # "DISPUTED" =>
        \E i \in DOMAIN disputes[t] :
            /\ disputes[t][i] \in Decisions
            /\ status'[t] = Outcome(t, disputes[t][i])]_<<status, disputes>>
=============================================================================
