-------------------------------- MODULE Payouts --------------------------------
(***************************************************************************)
(* lib/payouts.ts: a seller's payout requests and the transitions an       *)
(* administrator drives.  A request reads twice for an open payout, then   *)
(* the balance, then inserts, under a lock of its process; no index limits *)
(* the rows.  A decision whose read is re-checked by its compare-and-set   *)
(* is one action.                                                          *)
(***************************************************************************)
EXTENDS SellerLedger

CONSTANTS
    Sums,         \* the amounts a seller may ask for
    ManualIds,    \* ledgerTxnIds an administrator may enter by hand
    MaxPayouts    \* bound on payout rows

ASSUME PayoutAssumption == Sums \subseteq Nat \ {0} /\ MaxPayouts \in Nat

VARIABLE payouts      \* the PayoutRequest rows, oldest first
payoutVars == <<payouts>>

NoTxn == <<"none", 0>>
PayoutId(p) == <<"payout", p>>
Rows == DOMAIN payouts
InStatus(s) == {p \in Rows : payouts[p].status = s}
Open == InStatus("PENDING") \union InStatus("PROCESSING")
Neighbour(c, d) == c # d /\ load.at[c] = load.at[d]
-----------------------------------------------------------------------------
(* requestPayout *)

Requesting(c) == call[c].pc \in {"pending", "processing", "balance", "create"}
Asking == {c \in Calls : Requesting(c) \/ At(c, "request")}

Request(c, amount) ==
    /\ Occurs("request")
    /\ Len(payouts) + Cardinality(Asking) < MaxPayouts     \* bound
    /\ Begin(c, [Idle EXCEPT !.pc = "request", !.nr = amount])
    /\ UNCHANGED <<load, faults, ledgerVars, payoutVars>>

\* withKeyLock(`payout:${sellerId}`)
EnterRequest(c) ==
    /\ At(c, "request")
    /\ ~\E d \in Calls : Neighbour(c, d) /\ Requesting(d)
    /\ Continue(c, "pending")
    /\ UNCHANGED <<load, faults, ledgerVars, payoutVars>>

LookFor(c, s, next) ==
    /\ IF InStatus(s) = {} THEN Continue(c, next) ELSE Return(c)
    /\ UNCHANGED <<load, faults, ledgerVars, payoutVars>>

\* Mutant: the PROCESSING payout is looked for first.
ReadOpenBackwards(c) ==
    \/ At(c, "pending") /\ LookFor(c, "PROCESSING", "processing")
    \/ At(c, "processing") /\ LookFor(c, "PENDING", "balance")

\* getOpenPayout reads the PENDING payout first and the PROCESSING one next.
GetOpenPayout(c) ==
    \/ At(c, "pending") /\ LookFor(c, "PENDING", "processing")
    \/ At(c, "processing") /\ LookFor(c, "PROCESSING", "balance")

ReadBalance(c) ==
    /\ At(c, "balance")
    /\ IF available < call[c].nr THEN Return(c) ELSE Continue(c, "create")
    /\ UNCHANGED <<load, faults, ledgerVars, payoutVars>>

CreatePayout(c) ==
    /\ At(c, "create") /\ Return(c)
    /\ payouts' = Append(payouts, [amount |-> call[c].nr, status |-> "PENDING",
                                   by |-> load.at[c], txn |-> NoTxn])
    /\ UNCHANGED <<load, faults, ledgerVars>>
-----------------------------------------------------------------------------
(* transitionPayout *)

\* approve, cancel and fail move no money.
Decide(p, from, to) ==
    /\ Occurs("decide") /\ payouts[p].status = from
    /\ payouts' = [payouts EXCEPT ![p].status = to]
    /\ UNCHANGED <<callVars, ledgerVars>>

Decided(p) == \/ Decide(p, "PENDING", "PROCESSING") \/ Decide(p, "PENDING", "CANCELLED")
              \/ Decide(p, "PROCESSING", "FAILED")

\* A completion names its ledger transaction, by default after the payout.
Transition(c, p, id) ==
    /\ Occurs("decide") /\ payouts[p].status = "PROCESSING"
    /\ Begin(c, [Idle EXCEPT !.pc = "complete", !.nr = p, !.seen = id])
    /\ UNCHANGED <<load, faults, ledgerVars, payoutVars>>

\* withKeyLock(`payout:${payoutId}`), and the row is read again.
Completing(c) == call[c].pc \in {"mark", "apply"}
EnterCompletion(c) ==
    /\ At(c, "complete")
    /\ ~\E d \in Calls : Neighbour(c, d) /\ Completing(d) /\ call[d].nr = call[c].nr
    /\ IF payouts[call[c].nr].status = "PROCESSING" THEN Continue(c, "mark") ELSE Return(c)
    /\ UNCHANGED <<load, faults, ledgerVars, payoutVars>>

\* The transaction looks for entries with its id: if there are any, it does nothing, and
\* the completion is audited and answered although the row has not moved.
ReadMarker(c) ==
    /\ At(c, "mark")
    /\ IF call[c].seen \in ledger THEN Return(c) ELSE Continue(c, "apply")
    /\ UNCHANGED <<load, faults, ledgerVars, payoutVars>>

Completed(p, id) == [payouts EXCEPT ![p].status = "COMPLETED", ![p].txn = id]

\* Mutant: the transaction relies on the row it read before.
ApplyTwice(c) ==
    LET p == call[c].nr IN
    /\ At(c, "apply") /\ Return(c)
    /\ available >= payouts[p].amount
    /\ payouts' = Completed(p, call[c].seen)
    /\ Apply(call[c].seen, -payouts[p].amount)
    /\ UNCHANGED <<load, faults>>

\* One transaction: compare-and-set, balance, ledger.  It is rolled back if the row
\* has moved or the balance would fall below zero.
ApplyCompletion(c) ==
    LET p == call[c].nr IN
    /\ At(c, "apply") /\ Return(c)
    /\ IF payouts[p].status = "PROCESSING" /\ available >= payouts[p].amount
       THEN /\ payouts' = Completed(p, call[c].seen)
            /\ Apply(call[c].seen, -payouts[p].amount)
       ELSE UNCHANGED <<ledgerVars, payoutVars>>
    /\ UNCHANGED <<load, faults>>

RequestStep(c) == EnterRequest(c) \/ GetOpenPayout(c) \/ ReadBalance(c) \/ CreatePayout(c)
CompletionStep(c) ==
    EnterCompletion(c) \/ ReadMarker(c) \/ ApplyCompletion(c)
PayoutNext ==
    \/ \E c \in Calls :
        \/ \E amount \in Sums : Request(c, amount)
        \/ \E p \in Rows : \E id \in ManualIds \union {PayoutId(p)} : Transition(c, p, id)
        \/ RequestStep(c) \/ CompletionStep(c)
    \/ \E p \in Rows : Decided(p)
PayoutInit == payouts = << >>
=============================================================================
