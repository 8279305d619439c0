------------------------------ MODULE SellerLedger ------------------------------
(***************************************************************************)
(* lib/ledger.ts as one seller sees it: the cached balance and the ledger  *)
(* transactions that were posted, and the handlers in flight that reach    *)
(* them.  A handler's local variables live in its call; a call is lost     *)
(* when a statement of it fails or its process stops.                      *)
(***************************************************************************)
EXTENDS Integers, FiniteSets, Sequences, SequencesExt

CONSTANTS
    Calls,        \* handlers in flight at once
    Instances,    \* backend processes
    Workloads,    \* where the calls run and which operations occur
    MaxFaults     \* bound on calls and audit rows that are lost

ASSUME LedgerAssumption ==
    MaxFaults \in Nat /\ \A w \in Workloads : w.at \in [Calls -> Instances]

VARIABLES
    load,         \* the workload of this behaviour
    call,         \* the local state of each handler in flight
    faults,       \* losses left
    available,    \* SellerBalance.availableAmount
    ledger        \* the transactionIds with posted entries

ledgerVars == <<available, ledger>>
callVars == <<load, call, faults>>

Idle == [pc |-> "idle", on |-> "none", nr |-> 0, seen |-> "none"]
At(c, p) == call[c].pc = p
Begin(c, new) == At(c, "idle") /\ call' = [call EXCEPT ![c] = new]
Continue(c, p) == call' = [call EXCEPT ![c].pc = p]
Return(c) == call' = [call EXCEPT ![c] = Idle]
Occurs(op) == op \in load.ops

\* postLedgerEntries returns early when the transaction id is already posted.
Post(id) == ledger' = ledger \union {id}

\* recordSellerRevenue: the balance moves and the entries are posted together.
Apply(id, delta) == available' = available + delta /\ Post(id)

Lose(c) ==
    /\ ~At(c, "idle") /\ faults > 0
    /\ faults' = faults - 1 /\ Return(c)
    /\ UNCHANGED <<load, ledgerVars>>

LedgerInit ==
    /\ load \in Workloads
    /\ call = [c \in Calls |-> Idle]
    /\ faults = MaxFaults
    /\ available = 0 /\ ledger = {}
=============================================================================
