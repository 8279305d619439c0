----------------------------- MODULE PlatformOrders -----------------------------
(***************************************************************************)
(* What the platform itself sells (lib/subscriptions.ts, lib/adsBilling.ts)*)
(* from the checkout to the ledger: capture, completion and settlement are *)
(* the same for a subscription period and an advertising campaign.  An     *)
(* activation is started by the provider's webhook or by the buyer.        *)
(* A call is lost when a statement of it fails or its process stops.       *)
(***************************************************************************)
EXTENDS Integers, FiniteSets, Sequences, FiniteSetsExt

CONSTANTS
    Calls,        \* handlers in flight at once
    Instances,    \* backend processes
    Workloads,    \* where the calls run, which orders and operations occur, and the
                  \* bounds on operations, lost calls and time
    Plans,        \* orders of a subscription period, of one user and plan
    Campaigns     \* orders of an advertising campaign

ASSUME PlatformAssumption ==
    Plans \intersect Campaigns = {} /\ \A w \in Workloads : w.rows \in Nat

VARIABLES
    load,         \* the workload of this behaviour
    call,         \* the local state of each handler in flight
    faults,       \* losses left
    left,         \* operations left that somebody may start
    order,        \* Order.status
    payment,      \* Payment.status
    paid,         \* the orders whose payment the provider has captured
    acked,        \* the orders whose webhook was answered with success
    ledger        \* the orders whose revenue is posted

callVars == <<load, call, faults, left>>
orderVars == <<order, payment, paid, acked, ledger>>

Orders == Plans \union Campaigns
MoneyStates == {"SUCCEEDED", "SETTLED"}

Idle == [pc |-> "idle", by |-> "none", on |-> "none", seen |-> "none", row |-> 0,
         was |-> "none", end |-> 0, todo |-> {}, ents |-> {}]
At(c, p) == call[c].pc = p
Begin(c, new) == At(c, "idle") /\ call' = [call EXCEPT ![c] = new]
Continue(c, p) == call' = [call EXCEPT ![c].pc = p]
Return(c) == call' = [call EXCEPT ![c] = Idle]
Occurs(op) == op \in load.ops /\ left > 0 /\ left' = left - 1
Neighbour(c, d) == c # d /\ load.at[c] = load.at[d]
Carried == UNCHANGED <<load, faults, left>>

Lose(c) ==
    /\ ~At(c, "idle") /\ faults > 0
    /\ faults' = faults - 1 /\ Return(c)
    /\ UNCHANGED <<load, left, orderVars>>
-----------------------------------------------------------------------------
(* Checkout, the provider and its webhook *)

\* createPlatformOrderLine, createProviderPayment
Checkout(o) ==
    /\ o \in load.orders /\ order[o] = "none"
    /\ order' = [order EXCEPT ![o] = "PENDING"]
    /\ payment' = [payment EXCEPT ![o] = "PENDING"]
    /\ UNCHANGED <<callVars, paid, acked, ledger>>

Capture(o) ==
    /\ order[o] # "none" /\ o \notin paid
    /\ paid' = paid \union {o}
    /\ UNCHANGED <<callVars, order, payment, acked, ledger>>

\* The provider delivers the event again until it is answered with success.
Deliver(c, o) ==
    /\ o \in paid \ acked
    /\ ~\E d \in Calls : call[d].by = "webhook" /\ call[d].on = o
    /\ Begin(c, [Idle EXCEPT !.pc = "event", !.by = "webhook", !.on = o])
    /\ Carried /\ UNCHANGED orderVars

\* The tag the line's title ends with: a plan's kind, or a campaign's id.  The
\* route for campaigns waits for the tag AD_CAMPAIGN, which no title ends with.
Route(o) == IF o \in Plans THEN "order" ELSE "none"

\* transitionPaymentTo(SUCCEEDED), then the line's tag routes the event; an event
\* that is not routed is answered with 409.
RecordCapture(c) ==
    LET o == call[c].on IN
    /\ At(c, "event")
    /\ payment' = IF payment[o] = "PENDING" THEN [payment EXCEPT ![o] = "SUCCEEDED"]
                                            ELSE payment
    /\ IF Route(o) = "none" THEN Return(c) ELSE Continue(c, Route(o))
    /\ Carried /\ UNCHANGED <<order, paid, acked, ledger>>

\* POST /subscriptions/:id/activate-payment, /campaigns/:id/activate-payment
Activate(c, o) ==
    /\ order[o] # "none" /\ Occurs("activate")
    /\ Begin(c, [Idle EXCEPT !.pc = "order", !.by = "user", !.on = o])
    /\ UNCHANGED <<load, faults, orderVars>>

AckWebhook(c) ==
    /\ At(c, "done") /\ Return(c)
    /\ acked' = IF call[c].by = "webhook" THEN acked \union {call[c].on} ELSE acked
    /\ Carried /\ UNCHANGED <<order, payment, paid, ledger>>
-----------------------------------------------------------------------------
(* Activation, up to the domain's own part *)

\* The order is read before the lock and not again under it.
ReadOrder(c) ==
    /\ At(c, "order")
    /\ call' = [call EXCEPT ![c].pc = "enter", ![c].seen = order[call[c].on]]
    /\ Carried /\ UNCHANGED orderVars

Outside == {"idle", "event", "order", "enter", "done"}
Replaying(c) == call[c].on \in Plans /\ call[c].seen = "COMPLETED"

\* withKeyLock(`subscription-activate:${order.id}`), (`ads-capture:${order.id}`)
EnterActivation(c) ==
    /\ At(c, "enter")
    /\ ~\E d \in Calls : /\ Neighbour(c, d) /\ call[d].on = call[c].on
                         /\ call[d].pc \notin Outside
    /\ Continue(c, IF Replaying(c) THEN "replay" ELSE "capture")
    /\ Carried /\ UNCHANGED orderVars

\* Mutant: the local row is believed without asking the provider.
CaptureUnasked(c) ==
    /\ At(c, "capture") /\ Continue(c, "complete")
    /\ payment' = IF payment[call[c].on] = "PENDING"
                  THEN [payment EXCEPT ![call[c].on] = "SUCCEEDED"] ELSE payment
    /\ Carried /\ UNCHANGED <<order, paid, acked, ledger>>

\* capturePlatformPayment: a PENDING payment is confirmed by the provider first;
\* whoever loses the compare-and-set finds it in a money state.
CapturePayment(c) ==
    LET o == call[c].on IN
    /\ At(c, "capture")
    /\ \/ /\ payment[o] = "PENDING" /\ o \notin paid
          /\ Return(c) /\ UNCHANGED payment
       \/ /\ payment[o] = "PENDING" /\ o \in paid
          /\ payment' = [payment EXCEPT ![o] = "SUCCEEDED"] /\ Continue(c, "complete")
       \/ /\ payment[o] \in MoneyStates
          /\ Continue(c, "complete") /\ UNCHANGED payment
    /\ Carried /\ UNCHANGED <<order, paid, acked, ledger>>

\* completePendingOrder; finding the order COMPLETED by another is no reason to stop.
CompleteOrder(c) ==
    /\ At(c, "complete")
    /\ order' = [order EXCEPT ![call[c].on] = "COMPLETED"]
    /\ Continue(c, IF call[c].on \in Plans THEN "rows" ELSE "settle")
    /\ Carried /\ UNCHANGED <<payment, paid, acked, ledger>>

\* settlePlatformOrderRevenue: the entries, once by their transaction id, ...
SettleRevenue(c) ==
    /\ At(c, "settle") /\ Continue(c, "mark")
    /\ ledger' = ledger \union {call[c].on}
    /\ Carried /\ UNCHANGED <<order, payment, paid, acked>>

\* ... and then the payment.  A replay settles before its domain part.
MarkSettled(c) ==
    LET o == call[c].on IN
    /\ At(c, "mark")
    /\ payment' = IF payment[o] = "SUCCEEDED" THEN [payment EXCEPT ![o] = "SETTLED"]
                                              ELSE payment
    /\ Continue(c, IF Replaying(c) THEN "rows" ELSE "done")
    /\ Carried /\ UNCHANGED <<order, paid, acked, ledger>>

OrderStep(c) ==
    \/ RecordCapture(c) \/ ReadOrder(c) \/ EnterActivation(c) \/ CapturePayment(c)
    \/ CompleteOrder(c) \/ SettleRevenue(c) \/ MarkSettled(c) \/ AckWebhook(c)

OrderInit ==
    /\ load \in Workloads
    /\ call = [c \in Calls |-> Idle]
    /\ faults = load.losses /\ left = load.left
    /\ order = [o \in Orders |-> "none"] /\ payment = [o \in Orders |-> "none"]
    /\ paid = {} /\ acked = {} /\ ledger = {}
=============================================================================
