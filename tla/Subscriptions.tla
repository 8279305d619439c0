------------------------------ MODULE Subscriptions ------------------------------
(***************************************************************************)
(* lib/subscriptions.ts: the windows of one user and plan.  Activations    *)
(* open and extend them, the sweep ends them, the user and administrators  *)
(* change them; every write is a compare-and-set on the status alone.      *)
(***************************************************************************)
EXTENDS PlanAccess

CONSTANTS
    Period, Grace,    \* periodDays and GRACE_PERIOD_DAYS, in units of the model's time
    Courtesies        \* the grace an administrator may grant

ASSUME PeriodAssumption == /\ {Period, Grace} \union Courtesies \subseteq Nat \ {0}
                           /\ Grace <= Period /\ \A g \in Courtesies : g <= Period

VARIABLES
    subs,             \* Subscription rows, oldest first
    now,              \* the database's and every process's clock
    windows           \* history: how often each order opened or extended a window

subVars == <<subs, now, windows>>
vars == <<callVars, orderVars, ents, subVars>>

\* Nothing assigns PAST_DUE.
Live == {"ACTIVE", "GRACE_PERIOD"}
Status == Live \union {"CANCELLED", "EXPIRED"}
Rows == DOMAIN subs
LiveRows == {r \in Rows : subs[r].status \in Live}
Later(a, b) == IF a > b THEN a ELSE b
-----------------------------------------------------------------------------
(* activateSubscriptionPayment *)

\* Mutant: without a live subscription the replay is refused.
ReplayRefused(c) ==
    /\ At(c, "replay")
    /\ IF LiveRows # {} THEN Continue(c, "done") ELSE Return(c)
    /\ Carried /\ UNCHANGED <<orderVars, ents, subVars>>

\* A replay re-presents a live subscription, whoever paid for it; without one it
\* goes through the steps again.
Replay(c) ==
    /\ At(c, "replay")
    /\ IF LiveRows # {} THEN Continue(c, "done")
       ELSE IF payment[call[c].on] \in MoneyStates THEN Continue(c, "settle") ELSE Return(c)
    /\ Carried /\ UNCHANGED <<orderVars, ents, subVars>>

\* Of the live rows the one that ends last is extended.
ReadRows(c) ==
    /\ At(c, "rows")
    /\ \/ /\ LiveRows = {}
          /\ call' = [call EXCEPT ![c].pc = "window", ![c].row = 0, ![c].end = now + Period]
       \/ \E r \in LiveRows :
          /\ \A q \in LiveRows : subs[q].expires <= subs[r].expires
          /\ call' = [call EXCEPT ![c].pc = "window", ![c].row = r,
                                  ![c].was = subs[r].status,
                                  ![c].end = Later(subs[r].expires, now) + Period]
    /\ Carried /\ UNCHANGED <<orderVars, ents, subVars>>

\* Mutant: without the lock.
EnterUnlocked(c) == ReadRows(c)

\* withKeyLock(`subscription-upsert:${userId}:${planKind}`)
EnterUpsert(c) == ReadRows(c) /\ ~\E d \in Calls : Neighbour(c, d) /\ At(d, "window")

\* The row is created, or extended by a compare-and-set that a change of the status
\* makes fail with 409.
WriteWindow(c) ==
    LET r == call[c].row IN
    /\ At(c, "window")
    /\ \/ /\ r = 0 /\ Continue(c, "grant")
          /\ subs' = Append(subs, [status |-> "ACTIVE", started |-> now, renew |-> TRUE,
                                   expires |-> call[c].end, grace |-> 0])
          /\ windows' = [windows EXCEPT ![call[c].on] = @ + 1]
       \/ /\ r # 0 /\ subs[r].status = call[c].was /\ Continue(c, "grant")
          /\ subs' = [subs EXCEPT ![r].status = "ACTIVE", ![r].grace = 0,
                                  ![r].expires = call[c].end]
          /\ windows' = [windows EXCEPT ![call[c].on] = @ + 1]
       \/ /\ r # 0 /\ subs[r].status # call[c].was
          /\ Return(c) /\ UNCHANGED <<subs, windows>>
    /\ Carried /\ UNCHANGED <<orderVars, ents, now>>
-----------------------------------------------------------------------------
(* expireSweep *)

Sweep(c) ==
    /\ Occurs("sweep")
    /\ Begin(c, [Idle EXCEPT !.pc = "due", !.by = "sweep", !.was = "ACTIVE"])
    /\ UNCHANGED <<load, faults, orderVars, ents, subVars>>

Ends(r) == IF subs[r].status = "GRACE_PERIOD" THEN subs[r].grace ELSE subs[r].expires
Due(s) == {r \in Rows : subs[r].status = s /\ Ends(r) <= now}

ReadDue(c) ==
    /\ At(c, "due")
    /\ call' = [call EXCEPT ![c].pc = "sweep", ![c].todo =
          {[row |-> r, renew |-> subs[r].renew, expires |-> subs[r].expires] :
              r \in Due(call[c].was)}]
    /\ Carried /\ UNCHANGED <<orderVars, ents, subVars>>

\* ACTIVE rows first, then those in grace, then the cancelled ones.
NextStage(c) ==
    /\ At(c, "sweep") /\ call[c].todo = {}
    /\ CASE call[c].was = "ACTIVE" ->
                call' = [call EXCEPT ![c].pc = "due", ![c].was = "GRACE_PERIOD"]
         [] call[c].was = "GRACE_PERIOD" ->
                call' = [call EXCEPT ![c].pc = "due", ![c].was = "CANCELLED"]
         [] OTHER -> Return(c)
    /\ Carried /\ UNCHANGED <<orderVars, ents, subVars>>

\* extendPlanEntitlementExpiry(.., graceUntil)
AccessUntil(s) == s.expires + Grace

Moved(c, rest) == call' = [call EXCEPT ![c].todo = rest]

\* Each row by a compare-and-set on its status; its expiry is not looked at again.
SweepRow(c) ==
    /\ At(c, "sweep")
    /\ \E s \in call[c].todo :
        LET toGrace == call[c].was = "ACTIVE" /\ s.renew
            rest == call[c].todo \ {s}
        IN  /\ \A t \in rest : s.row < t.row
            /\ \/ /\ subs[s.row].status # call[c].was
                  /\ Moved(c, rest) /\ UNCHANGED subs
               \/ /\ subs[s.row].status = call[c].was /\ toGrace
                  /\ call' = [call EXCEPT ![c].pc = "extend", ![c].todo = rest,
                                          ![c].end = AccessUntil(s)]
                  /\ subs' = [subs EXCEPT ![s.row].status = "GRACE_PERIOD",
                                          ![s.row].grace = s.expires + Grace]
               \/ /\ subs[s.row].status = call[c].was /\ ~toGrace
                  /\ call' = [call EXCEPT ![c].pc = "revoke", ![c].todo = rest]
                  /\ subs' = [subs EXCEPT ![s.row].status = "EXPIRED"]
    /\ Carried /\ UNCHANGED <<orderVars, ents, now, windows>>
-----------------------------------------------------------------------------
(* The user: the status read is the one the compare-and-set asks for. *)

Change(op, r, from, new) ==
    /\ Occurs(op) /\ subs[r].status \in from
    /\ subs' = [subs EXCEPT ![r] = new]
    /\ UNCHANGED <<load, call, faults, orderVars, ents, now, windows>>

CancelSubscription(r) == Change("cancel", r, Live, [subs[r] EXCEPT !.status = "CANCELLED"])
ResumeSubscription(r) ==
    /\ subs[r].expires > now
    /\ Change("resume", r, {"CANCELLED"}, [subs[r] EXCEPT !.status = "ACTIVE"])
SetAutoRenew(r) ==
    Change("renew", r, Status \ {"EXPIRED"}, [subs[r] EXCEPT !.renew = ~@])
-----------------------------------------------------------------------------
(* adminTransitionSubscription *)

Read(c, op, r, from, end) ==
    /\ Occurs(op) /\ subs[r].status \in from
    /\ Begin(c, [Idle EXCEPT !.pc = op, !.by = "admin", !.row = r,
                             !.was = subs[r].status, !.end = end])
    /\ UNCHANGED <<load, faults, orderVars, ents, subVars>>

AdminRead(c, r) ==
    \/ Read(c, "comp", r, Status \ {"ACTIVE"}, now + Period)
    \/ \E g \in Courtesies : Read(c, "grant_grace", r, Live, Later(now, subs[r].expires) + g)
    \/ Read(c, "expire", r, Status \ {"EXPIRED"}, 0)
    \/ Read(c, "stop", r, Live, 0)

Write(c, op, new, then) ==
    LET r == call[c].row IN
    /\ At(c, op)
    /\ IF subs[r].status = call[c].was
       THEN subs' = [subs EXCEPT ![r] = new] /\ Continue(c, then)
       ELSE Return(c) /\ UNCHANGED subs
    /\ Carried /\ UNCHANGED <<orderVars, ents, now, windows>>

AdminWrite(c) ==
    LET row == subs[call[c].row]
        end == call[c].end
    IN  \/ Write(c, "comp", [row EXCEPT !.status = "ACTIVE", !.started = now,
                                        !.expires = end, !.grace = 0], "grant")
        \/ Write(c, "grant_grace", [row EXCEPT !.status = "GRACE_PERIOD", !.grace = end],
                 "extend")
        \/ Write(c, "expire", [row EXCEPT !.status = "EXPIRED"], "revoke")
        \/ Write(c, "stop", [row EXCEPT !.status = "CANCELLED"], "revoke")
-----------------------------------------------------------------------------
Tick == now < load.time /\ now' = now + 1
        /\ UNCHANGED <<callVars, orderVars, ents, subs, windows>>

WindowStep(c) == Replay(c) \/ EnterUpsert(c) \/ WriteWindow(c)
SweepStep(c) == ReadDue(c) \/ NextStage(c) \/ SweepRow(c)
CallStep(c) ==
    \/ OrderStep(c) /\ UNCHANGED <<ents, subVars>>
    \/ AccessStep(c) /\ UNCHANGED subVars
    \/ WindowStep(c) \/ SweepStep(c) \/ AdminWrite(c)

Next ==
    \/ \E o \in Orders :
        /\ Checkout(o) \/ Capture(o) \/ \E c \in Calls : Deliver(c, o) \/ Activate(c, o)
        /\ UNCHANGED <<ents, subVars>>
    \/ \E c \in Calls : CallStep(c) \/ Sweep(c) \/ \E r \in Rows : AdminRead(c, r)
    \/ \E c \in Calls : Lose(c) /\ UNCHANGED <<ents, subVars>>
    \/ \E r \in Rows : CancelSubscription(r) \/ ResumeSubscription(r) \/ SetAutoRenew(r)
    \/ Tick

\* The user may have subscribed before.
Init ==
    /\ OrderInit /\ now = 0
    /\ ents = [i \in 1 .. load.rows |-> [expires |-> Period, revoked |-> FALSE]]
    /\ subs = [i \in 1 .. load.rows |-> [status |-> "ACTIVE", started |-> 0, renew |-> TRUE,
                                         expires |-> Period, grace |-> 0]]
    /\ windows = [o \in Plans |-> 0]

\* A handler that has begun is carried on, its key locks serve the calls in turn, and
\* the provider delivers an event until it is answered.
Spec == Init /\ [][Next]_vars
FairSpec ==
    /\ Spec /\ \A c \in Calls : SF_vars(CallStep(c))
    /\ \A o \in Orders : SF_vars(\E c \in Calls : Deliver(c, o) /\ UNCHANGED <<ents, subVars>>)
-----------------------------------------------------------------------------
(* Properties *)

\* No window and no revenue without the provider's money, and none for an order that
\* is not completed, whichever activations meet (subscriptions.ts:332-347).
NothingIsFree ==
    \A o \in Orders : o \in ledger \/ (o \in Plans /\ windows[o] > 0)
                        => o \in paid /\ order[o] = "COMPLETED"

Together == \A c, d \in Calls : load.at[c] = load.at[d]

\* On one process every window an order pays for adds its whole period: no activation
\* takes another's away (subscriptions.ts:489-491).  An administrator's comp may: a
\* subscription that was cancelled and comped between the read and the write has its
\* old status again, and the comped period is overwritten.
WindowsAddUp ==
    [][Together /\ "comp" \notin load.ops /\ windows' # windows =>
          \/ Len(subs') > Len(subs)
          \/ \E r \in Rows : subs'[r].expires >= subs[r].expires + Period]_windows

\* An order opens or extends a window once (subscriptions.ts:621-622: replaying a
\* completed checkout re-presents the live subscription).
OneWindowPerOrder == \A o \in Plans : windows[o] <= 1

\* What the provider captured opens its window and is posted in the end.  A call
\* that is lost may cost the posting; beside a subscription that was not paid for by
\* this order it, or a sweep that comes between, may cost the window.
PaidIsGranted ==
    <>[](\A o \in Plans \intersect paid :
            \/ windows[o] > 0 /\ (o \in ledger \/ faults < load.losses)
            \/ /\ load.rows > 0 \/ \E p \in Plans \ {o} : windows[p] > 0
               /\ faults < load.losses \/ "sweep" \in load.ops)
=============================================================================
