------------------------------ MODULE SellerMoney ------------------------------
(***************************************************************************)
(* One seller's money: what orders and purchases earn, refunds take back   *)
(* and payouts take out, with every handler interleaved; and the deal      *)
(* rooms beside it, which record what was agreed and move no money.        *)
(***************************************************************************)
EXTENDS Disputes, Payouts, Deals, FiniteSetsExt

\* An administrator enters the ids of other transfers by hand, not those that
\* settlements and refunds are posted under.
ASSUME ManualAssumption ==
    \A t \in Targets : SettleId(t) \notin ManualIds /\ RefundId(t) \notin ManualIds

tradeVars == <<orderVars, disputeVars, payoutVars>>
vars == <<callVars, ledgerVars, tradeVars, dealVars>>

Init == LedgerInit /\ DisputesInit /\ PayoutInit /\ DealInit
Next ==
    \/ DisputesNext /\ UNCHANGED <<payoutVars, dealVars>>
    \/ PayoutNext /\ UNCHANGED <<orderVars, disputeVars, dealVars>>
    \/ DealNext /\ UNCHANGED <<ledgerVars, tradeVars>>
    \/ \E c \in Calls : Lose(c) /\ UNCHANGED <<tradeVars, dealVars>>

\* A handler that has begun is carried on; the key lock serves its calls in turn,
\* so that none is passed over for ever.  No user is obliged to do anything.
CallStep(c) ==
    \/ ServiceStep(c) /\ UNCHANGED <<disputes, payoutVars, dealVars>>
    \/ DisputeStep(c) /\ UNCHANGED <<payoutVars, dealVars>>
    \/ (RequestStep(c) \/ CompletionStep(c)) /\ UNCHANGED <<orderVars, disputeVars, dealVars>>
    \/ DealStep(c) /\ UNCHANGED <<ledgerVars, tradeVars>>
Spec == Init /\ [][Next]_vars
FairSpec == Spec /\ \A c \in Calls : SF_vars(CallStep(c))
-----------------------------------------------------------------------------
(* Properties *)

SumOf(ids) == Revenue * Cardinality(ids)
Earned == {t \in Targets : SettleId(t) \in ledger}
TakenBack == {p \in Purchases : RefundId(p) \in ledger}
PaidOut ==
    SumFunctionOnSet([p \in Rows |-> payouts[p].amount], InStatus("COMPLETED"))

\* The balance is what was earned, less the refunds and every completed payout
\* counted once, whoever completes them at the same time.
BalanceIsEarned == available = SumOf(Earned) - SumOf(TakenBack) - PaidOut

\* The lock and the two reads leave one open payout per backend process, though an
\* administrator approves it between the reads (payouts.ts:91-101, 129-134).
OneOpenPerProcess ==
    \A p, q \in Open : payouts[p].by = payouts[q].by => p = q

\* An accepted order is settled in the end, whoever closes it first, unless a call
\* was lost after the order was accepted.
Accepted(o) == \/ status[o] = "ACCEPTED"
               \/ status[o] = "CLOSED" /\ disputes[o] = << >>
AcceptedIsSettled ==
    <>[](\A o \in Orders \ FreeOrders : Accepted(o) =>
            SettleId(o) \in ledger \/ faults < MaxFaults)
=============================================================================
