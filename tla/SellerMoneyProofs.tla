--------------------------- MODULE SellerMoneyProofs ---------------------------
(***************************************************************************)
(* What holds of orders, disputes, payouts and deal rooms however many     *)
(* handlers interleave.                                                    *)
(***************************************************************************)
EXTENDS SellerMoney, SumTheorems, TLAPS

OrderPcs == {"idle", "revise", "settle", "insert", "freeze", "effect"}
PayoutPcs == {"idle", "request", "pending", "processing", "balance", "create",
              "complete", "mark", "apply"}
DealPcs == {"idle", "link", "move", "look", "audit", "note"}
Places == OrderPcs \union PayoutPcs \union DealPcs

OrderStatus == {"PENDING", "IN_PROGRESS", "DELIVERED", "ACCEPTED", "CLOSED", "CANCELLED",
                "DISPUTED", "COMPLETED", "REFUNDED"}
Rests == {<< >>, <<"CLOSED">>, <<"RESOLVED", "CLOSED">>}
DealMoves == [from : DealStatus, to : DealStatus, rest : Rests]

\* The local state of a handler.
Objects == Targets \union Rooms \union {"none"}
Sights == {"none"} \union OrderStatus \union DisputeStatus
            \union ManualIds \union {PayoutId(n) : n \in Nat} \union DealMoves
CallType == [pc : Places, on : Objects, nr : Nat, seen : Sights]
CallOK == call \in [Calls -> CallType]

\* A step of handlers that stand at some of these places before and after.
Among(pcs) ==
    /\ CallOK'
    /\ \A c \in Calls : \/ call'[c] = call[c]
                        \/ call[c].pc \in pcs /\ call'[c].pc \in pcs

\* What each way of changing a call makes of it.
LEMMA BeginCall ==
    ASSUME CallOK, NEW c \in Calls, NEW new \in CallType, Begin(c, new)
    PROVE  /\ CallOK' /\ call[c].pc = "idle" /\ call'[c] = new
           /\ \A d \in Calls \ {c} : call'[d] = call[d]
BY DEF CallOK, Begin, At

\* A handler that goes on only changes its place.
LEMMA ContinueCall ==
    ASSUME CallOK, NEW c \in Calls, NEW p \in Places, Continue(c, p)
    PROVE  /\ CallOK' /\ call'[c].pc = p /\ call'[c].on = call[c].on
           /\ call'[c].nr = call[c].nr /\ call'[c].seen = call[c].seen
           /\ \A d \in Calls \ {c} : call'[d] = call[d]
BY DEF CallOK, CallType, Continue

\* A handler that does not run has the type of a call.
LEMMA IdleType == Idle \in CallType /\ Idle.pc = "idle"
BY DEF Idle, CallType, Places, OrderPcs, Objects, Sights

\* A handler that returns leaves nothing behind.
LEMMA ReturnCall ==
    ASSUME CallOK, NEW c \in Calls, Return(c)
    PROVE  /\ CallOK' /\ call'[c] = Idle /\ call'[c].pc = "idle"
           /\ \A d \in Calls \ {c} : call'[d] = call[d]
BY IdleType DEF CallOK, Return

\* The new calls.
CallOn(p, o) == [Idle EXCEPT !.pc = p, !.on = o]
CallNr(p, n) == [Idle EXCEPT !.pc = p, !.nr = n]
CallSeeing(p, o, s) == [Idle EXCEPT !.pc = p, !.on = o, !.seen = s]
CallNaming(p, n, s) == [Idle EXCEPT !.pc = p, !.nr = n, !.seen = s]

\* The calls that handlers begin with have the type of a call.
LEMMA NewCalls ==
    ASSUME NEW p \in Places, NEW o \in Objects, NEW n \in Nat, NEW s \in Sights
    PROVE  /\ CallOn(p, o) \in CallType /\ CallOn(p, o).pc = p /\ CallOn(p, o).on = o
           /\ CallNr(p, n) \in CallType /\ CallNr(p, n).pc = p /\ CallNr(p, n).nr = n
           /\ CallSeeing(p, o, s) \in CallType /\ CallSeeing(p, o, s).pc = p
           /\ CallSeeing(p, o, s).on = o /\ CallSeeing(p, o, s).seen = s
           /\ CallNaming(p, n, s) \in CallType /\ CallNaming(p, n, s).pc = p
           /\ CallNaming(p, n, s).nr = n /\ CallNaming(p, n, s).seen = s
BY IdleType DEF CallType, CallOn, CallNr, CallSeeing, CallNaming

\* There is something of each sort to put into a call.
LEMMA SightsAre == "none" \in Objects /\ "none" \in Sights /\ 0 \in Nat
BY DEF Objects, Sights

\* No decision of a dispute is taken back.
LEMMA TransitionsEnd ==
    /\ DisputeTransitions["CLOSED"] = {} /\ DisputeTransitions["RESOLVED_SELLER"] = {}
    /\ DisputeTransitions["RESOLVED_BUYER"] = {} /\ DisputeTransitions["PARTIAL_REFUND"] = {"CLOSED"}
BY DEF DisputeTransitions
-----------------------------------------------------------------------------
(* Orders and their disputes *)

\* Who may be credited for an order's work, and what stands behind a decision that is
\* about to be applied: its row, which a partial refund may have closed meanwhile.
Earnable(o) ==
    \/ o \in FreeOrders \union captured
    \/ \E i \in DOMAIN disputes[o] : disputes[o][i] = "RESOLVED_SELLER"
Ruled(t, d) ==
    /\ d \in Decisions
    /\ \E i \in DOMAIN disputes[t] :
        disputes[t][i] = d \/ (d = "PARTIAL_REFUND" /\ disputes[t][i] = "CLOSED")

Working == {"IN_PROGRESS", "DELIVERED", "ACCEPTED"}
Taken == {"ACCEPTED", "CLOSED"}

HandlerKnows(c) ==
    LET t == call[c].on  seen == call[c].seen IN
    /\ At(c, "revise") => t \in Orders
    /\ At(c, "settle") => t \in Orders /\ status[t] \in Taken /\ Earnable(t)
    /\ At(c, "insert") => t \in Targets
    /\ At(c, "freeze") => t \in Targets /\ seen \in Freezable(t)
    /\ At(c, "effect") => t \in Targets /\ Ruled(t, seen)
OrderKnows(o) ==
    /\ status[o] \in Working => Earnable(o)
    /\ SettleId(o) \in ledger => status[o] \in Taken /\ o \notin FreeOrders /\ Earnable(o)
RulingsTyped ==
    /\ status \in [Targets -> OrderStatus]
    /\ disputes \in [Targets -> Seq(DisputeStatus)]
RulingsInv ==
    /\ RulingsTyped
    /\ \A c \in Calls : HandlerKnows(c)
    /\ \A o \in Orders : OrderKnows(o)

\* What every step does to an order: it is only taken, and only closed, on the way; its
\* payment and its decided disputes stay; and it is credited for what it earned.
RowsMove ==
    \A t \in Targets : \A i \in DOMAIN disputes[t] :
        /\ i \in DOMAIN disputes'[t]
        /\ \/ disputes'[t][i] = disputes[t][i]
           \/ disputes'[t][i] \in DisputeTransitions[disputes[t][i]]
OrderMoves(o) ==
    /\ \/ status'[o] = status[o]
       \/ status[o] = "ACCEPTED" /\ status'[o] = "CLOSED"
       \/ status[o] \notin Taken /\ (status'[o] \in Working => Earnable(o))
    /\ SettleId(o) \in ledger' =>
        \/ SettleId(o) \in ledger
        \/ status'[o] \in Taken /\ o \notin FreeOrders /\ Earnable(o)
WorldMoves ==
    /\ captured \subseteq captured'
    /\ RowsMove
    /\ \A o \in Orders : OrderMoves(o)

\* What stands behind a decision, or an order's revenue, keeps standing.
LEMMA BasisStays ==
    ASSUME RulingsInv, RulingsTyped', WorldMoves
    PROVE  /\ \A o \in Orders : Earnable(o) => Earnable(o)'
           /\ \A t \in Targets : \A d \in Decisions : Ruled(t, d) => Ruled(t, d)'
<1>1. ASSUME NEW o \in Orders, Earnable(o) PROVE Earnable(o)'
  <2>1. CASE o \in FreeOrders \union captured
    BY <2>1 DEF Earnable, WorldMoves
  <2>2. CASE \E i \in DOMAIN disputes[o] : disputes[o][i] = "RESOLVED_SELLER"
    <3>1. PICK i \in DOMAIN disputes[o] : disputes[o][i] = "RESOLVED_SELLER"
      BY <2>2
    <3>2. i \in DOMAIN disputes'[o] /\ disputes'[o][i] = "RESOLVED_SELLER"
      BY <3>1, TransitionsEnd DEF WorldMoves, RowsMove, Targets
    <3> QED BY <3>2 DEF Earnable
  <2> QED BY <1>1, <2>1, <2>2 DEF Earnable
<1>2. ASSUME NEW t \in Targets, NEW d \in Decisions, Ruled(t, d) PROVE Ruled(t, d)'
  <2>1. PICK i \in DOMAIN disputes[t] :
            disputes[t][i] = d \/ (d = "PARTIAL_REFUND" /\ disputes[t][i] = "CLOSED")
    BY <1>2 DEF Ruled
  <2>2. i \in DOMAIN disputes'[t] /\ (disputes'[t][i] = disputes[t][i]
            \/ disputes'[t][i] \in DisputeTransitions[disputes[t][i]])
    BY DEF WorldMoves, RowsMove
  <2>3. disputes'[t][i] = d \/ (d = "PARTIAL_REFUND" /\ disputes'[t][i] = "CLOSED")
    BY <2>1, <2>2, TransitionsEnd DEF Decisions
  <2> QED BY <2>2, <2>3 DEF Ruled
<1> QED BY <1>1, <1>2

\* When orders and rulings only move the way the code moves them, what is known of every
\* handler that does not move stays true.
LEMMA RulingsStep ==
    ASSUME RulingsInv, RulingsTyped', WorldMoves,
           \A c \in Calls : call'[c] = call[c] \/ HandlerKnows(c)'
    PROVE  RulingsInv'
<1>1. ASSUME NEW c \in Calls PROVE HandlerKnows(c)'
  <2>1. CASE call'[c] = call[c]
    <3>1. HandlerKnows(c)
      BY DEF RulingsInv
    <3>2. ASSUME At(c, "settle") PROVE status'[call[c].on] \in Taken
      BY <3>1, <3>2 DEF HandlerKnows, WorldMoves, OrderMoves, Taken
    <3> QED BY <2>1, <3>1, <3>2, BasisStays DEF HandlerKnows, At, Freezable, Ruled
  <2> QED BY <2>1
<1>2. ASSUME NEW o \in Orders PROVE OrderKnows(o)'
  <2>1. OrderKnows(o) /\ OrderMoves(o) /\ (Earnable(o) => Earnable(o)')
    BY BasisStays DEF RulingsInv, WorldMoves
  <2>2. ASSUME status'[o] \in Working PROVE Earnable(o)'
    BY <2>1, <2>2 DEF OrderKnows, OrderMoves, Working, Taken
  <2>3. ASSUME SettleId(o) \in ledger'
        PROVE  status'[o] \in Taken /\ o \notin FreeOrders /\ Earnable(o)'
    BY <2>1, <2>3 DEF OrderKnows, OrderMoves, Taken
  <2> QED BY <2>2, <2>3 DEF OrderKnows, SettleId
<1> QED BY <1>1, <1>2 DEF RulingsInv

\* A step of one handler: what it did to the world, and what it knows afterwards.
LEMMA HandlerStep ==
    ASSUME RulingsInv, CallOK, CallOK', NEW c \in Calls, RulingsTyped', WorldMoves,
           call[c].pc \in OrderPcs, call'[c].pc \in OrderPcs, HandlerKnows(c)',
           \A d \in Calls \ {c} : call'[d] = call[d]
    PROVE  RulingsInv' /\ Among(OrderPcs)
BY RulingsStep DEF Among

\* A handler returns.
LEMMA Returns ==
    ASSUME RulingsInv, CallOK, NEW c \in Calls, Return(c), call[c].pc \in OrderPcs,
           RulingsTyped', WorldMoves
    PROVE  RulingsInv' /\ Among(OrderPcs)
<1>1. HandlerKnows(c)'
  BY ReturnCall DEF HandlerKnows, At
<1> QED BY <1>1, ReturnCall, HandlerStep DEF OrderPcs

\* A step of the world that is no handler's.
LEMMA NobodyMoves ==
    ASSUME RulingsInv, CallOK, UNCHANGED call, RulingsTyped', WorldMoves
    PROVE  RulingsInv' /\ Among(OrderPcs)
BY RulingsStep DEF Among, CallOK

\* Orders and disputes that stay as they are move in no other way.
LEMMA WorldStays ==
    ASSUME RulingsInv, UNCHANGED <<status, disputes, ledger>>, captured \subseteq captured'
    PROVE  RulingsTyped' /\ WorldMoves
BY DEF RulingsInv, RulingsTyped, WorldMoves, RowsMove, OrderMoves

\* An order moves along one edge of its machine.
LEMMA StatusMoves ==
    ASSUME RulingsInv, NEW t \in Targets, NEW to \in OrderStatus,
           status' = [status EXCEPT ![t] = to], UNCHANGED <<captured, disputes, ledger>>,
           t \in Orders =>
               \/ status[t] = "ACCEPTED" /\ to = "CLOSED"
               \/ status[t] \notin Taken /\ (to \in Working => Earnable(t))
    PROVE  RulingsTyped' /\ WorldMoves
BY DEF RulingsInv, RulingsTyped, WorldMoves, RowsMove, OrderMoves, Targets

\* The steps of an order that are one statement each.
LEMMA OrderKept ==
    ASSUME RulingsInv, CallOK, NEW o \in Orders, UNCHANGED disputes,
           Capture(o) \/ MarkServicePurchasePaid(o) \/ Deliver(o) \/ Close(o)
               \/ Cancel(o) \/ DisputeOrder(o)
    PROVE  RulingsInv' /\ Among(OrderPcs)
<1>0. o \in Targets /\ OrderKnows(o)
  BY DEF RulingsInv, Targets
<1>1. CASE Capture(o)
  BY <1>1, WorldStays, NobodyMoves DEF Capture, callVars, ledgerVars
<1>2. CASE \/ MarkServicePurchasePaid(o) \/ Deliver(o) \/ Close(o) \/ Cancel(o)
           \/ DisputeOrder(o)
  <2>1. UNCHANGED <<call, ledger, captured>>
    BY <1>2 DEF MarkServicePurchasePaid, Deliver, Close, Cancel, DisputeOrder, OrderOnly,
       callVars, ledgerVars
  <2>2. PICK to \in OrderStatus :
            /\ status' = [status EXCEPT ![o] = to]
            /\ \/ status[o] = "ACCEPTED" /\ to = "CLOSED"
               \/ status[o] \notin Taken /\ (to \in Working => Earnable(o))
    BY <1>0, <1>2 DEF MarkServicePurchasePaid, Deliver, Close, Cancel, DisputeOrder, Move,
       OrderStatus, Taken, Working, OrderKnows, Earnable
  <2> QED BY <1>0, <2>1, <2>2, StatusMoves, NobodyMoves
<1> QED BY <1>1, <1>2

\* The deliveries are counted against the revisions that are included.
LEMMA CountRevisionsKept ==
    ASSUME RulingsInv, CallOK, NEW c \in Calls, NEW o \in Orders, CountRevisions(c, o),
           UNCHANGED disputes
    PROVE  RulingsInv' /\ Among(OrderPcs)
<1>1. PICK new \in CallType : Begin(c, new) /\ new.pc = "revise" /\ new.on = o
  <2>1. Begin(c, CallOn("revise", o))
    BY DEF CountRevisions, CallOn
  <2>2. "revise" \in Places /\ o \in Objects
    BY DEF Places, OrderPcs, Objects, Targets
  <2> QED BY <2>1, <2>2, NewCalls, SightsAre
<1>2. RulingsTyped' /\ WorldMoves
  BY WorldStays DEF CountRevisions, ledgerVars, orderVars
<1>3. HandlerKnows(c)'
  BY <1>1, BeginCall DEF HandlerKnows, At
<1> QED BY <1>1, <1>2, <1>3, BeginCall, HandlerStep DEF OrderPcs

\* The acceptance settles an order that nobody disputes.
LEMMA AcceptKept ==
    ASSUME RulingsInv, CallOK, NEW c \in Calls, NEW o \in Orders, Accept(c, o),
           UNCHANGED disputes
    PROVE  RulingsInv' /\ Among(OrderPcs)
<1>1. PICK new \in CallType : Begin(c, new) /\ new.pc = "settle" /\ new.on = o
  <2>1. Begin(c, CallOn("settle", o))
    BY DEF Accept, CallOn
  <2>2. "settle" \in Places /\ o \in Objects
    BY DEF Places, OrderPcs, Objects, Targets
  <2> QED BY <2>1, <2>2, NewCalls, SightsAre
<1>2. o \in Targets /\ OrderKnows(o) /\ status \in [Targets -> OrderStatus]
  BY DEF RulingsInv, RulingsTyped, Targets
<1>3. /\ status[o] = "DELIVERED" /\ status' = [status EXCEPT ![o] = "ACCEPTED"]
      /\ UNCHANGED <<captured, disputes, ledger>>
  BY DEF Accept, Move, ledgerVars
<1>4. Earnable(o)
  BY <1>2, <1>3 DEF OrderKnows, Working
<1>5. RulingsTyped' /\ WorldMoves
  BY <1>2, <1>3, <1>4, StatusMoves DEF OrderStatus, Taken
<1>6. Earnable(o)'
  BY <1>4, <1>5, BasisStays
<1>7. HandlerKnows(c)'
  BY <1>1, <1>2, <1>3, <1>6, BeginCall DEF HandlerKnows, At, Taken
<1> QED BY <1>1, <1>5, <1>7, BeginCall, HandlerStep DEF OrderPcs

\* Every step of a service order.
LEMMA ServiceStepKept ==
    ASSUME RulingsInv, CallOK, NEW c \in Calls, ServiceStep(c), UNCHANGED disputes
    PROVE  RulingsInv' /\ Among(OrderPcs)
<1> DEFINE o == call[c].on
<1>0. HandlerKnows(c)
  BY DEF RulingsInv
<1>1. CASE Revise(c)
  <2>1. o \in Orders /\ o \in Targets /\ OrderKnows(o)
    BY <1>0, <1>1 DEF Revise, HandlerKnows, RulingsInv, Targets
  <2>2. RulingsTyped' /\ WorldMoves
    <3>1. CASE UNCHANGED status
      BY <1>1, <3>1, WorldStays DEF Revise, ledgerVars
    <3>2. CASE status[o] = "DELIVERED" /\ status' = [status EXCEPT ![o] = "IN_PROGRESS"]
      BY <1>1, <2>1, <3>2, StatusMoves DEF Revise, ledgerVars, OrderKnows, Working, Taken,
         OrderStatus
    <3> QED BY <1>1, <3>1, <3>2 DEF Revise, Move
  <2> QED BY <1>1, <2>2, Returns DEF Revise, At, OrderPcs
<1>2. CASE SettleServiceRevenue(c)
  <2>1. o \in Orders /\ status[o] \in Taken /\ Earnable(o)
    BY <1>0, <1>2 DEF SettleServiceRevenue, HandlerKnows
  <2>2. UNCHANGED <<status, captured, disputes>>
    BY <1>2 DEF SettleServiceRevenue, orderVars
  <2>3. ASSUME NEW u \in Orders, SettleId(u) \in ledger', SettleId(u) \notin ledger
        PROVE  status'[u] \in Taken /\ u \notin FreeOrders /\ Earnable(u)
    <3>1. o \notin FreeOrders /\ ledger' = ledger \union {SettleId(o)}
      BY <1>2, <2>3 DEF SettleServiceRevenue, Apply, Post, ledgerVars
    <3> QED BY <2>1, <2>2, <2>3, <3>1 DEF SettleId
  <2>4. RulingsTyped' /\ WorldMoves
    BY <2>2, <2>3 DEF RulingsInv, RulingsTyped, WorldMoves, RowsMove, OrderMoves
  <2> QED BY <1>2, <2>4, Returns DEF SettleServiceRevenue, At, OrderPcs
<1> QED BY <1>1, <1>2 DEF ServiceStep

\* A purchase completes, or is refunded.
LEMMA PurchaseKept ==
    ASSUME RulingsInv, CallOK, NEW p \in Purchases, Complete(p) \/ Refund(p)
    PROVE  RulingsInv' /\ Among(OrderPcs)
<1>1. p \in Targets /\ p \notin Orders
  BY DisputeAssumption DEF Targets
<1>2. /\ UNCHANGED <<call, captured, disputes>>
      /\ \E to \in OrderStatus : status' = [status EXCEPT ![p] = to]
      /\ ledger' \subseteq ledger \union {SettleId(p), RefundId(p)}
  <2>1. status[p] \in OrderStatus
    BY <1>1 DEF RulingsInv, RulingsTyped
  <2> QED BY <2>1 DEF Complete, Refund, Move, Apply, Post, callVars, OrderStatus
<1>3. \A o \in Orders : SettleId(o) \in ledger' => SettleId(o) \in ledger
  BY <1>1, <1>2 DEF SettleId, RefundId
<1>4. RulingsTyped' /\ WorldMoves
  BY <1>1, <1>2, <1>3 DEF RulingsInv, RulingsTyped, WorldMoves, RowsMove, OrderMoves, Targets
<1> QED BY <1>2, <1>4, NobodyMoves

\* A complaint reads what it is about.
LEMMA ReadTargetKept ==
    ASSUME RulingsInv, CallOK, NEW c \in Calls, NEW t \in Targets, ReadTarget(c, t)
    PROVE  RulingsInv' /\ Among(OrderPcs)
<1>1. PICK new \in CallType : Begin(c, new) /\ new.pc = "insert" /\ new.on = t
  <2>1. Begin(c, CallSeeing("insert", t, status[t]))
    BY DEF ReadTarget, CallSeeing
  <2>2. "insert" \in Places /\ t \in Objects /\ status[t] \in Sights
    BY DEF Places, OrderPcs, Objects, Sights, RulingsInv, RulingsTyped
  <2> QED BY <2>1, <2>2, NewCalls, SightsAre
<1>2. RulingsTyped' /\ WorldMoves
  BY WorldStays DEF ReadTarget, ledgerVars, orderVars
<1>3. HandlerKnows(c)'
  BY <1>1, BeginCall DEF HandlerKnows, At
<1> QED BY <1>1, <1>2, <1>3, BeginCall, HandlerStep DEF OrderPcs

\* A dispute opens over an order or a purchase that has none.
LEMMA InsertDisputeKept ==
    ASSUME RulingsInv, CallOK, NEW c \in Calls, InsertDispute(c)
    PROVE  RulingsInv' /\ Among(OrderPcs)
<1> DEFINE t == call[c].on
<1>1. call[c].pc = "insert" /\ t \in Targets
  BY DEF InsertDispute, RulingsInv, HandlerKnows, At
<1>2. RulingsTyped' /\ WorldMoves
  <2>1. CASE UNCHANGED disputes
    BY <2>1, WorldStays DEF InsertDispute, ledgerVars, orderVars
  <2>2. CASE disputes' = [disputes EXCEPT ![t] = Append(@, "OPEN")]
    <3>1. "OPEN" \in DisputeStatus /\ disputes[t] \in Seq(DisputeStatus)
      BY <1>1 DEF RulingsInv, RulingsTyped, DisputeStatus, DisputeTransitions
    <3>2. /\ disputes' \in [Targets -> Seq(DisputeStatus)]
          /\ RowsMove
      BY <1>1, <2>2, <3>1 DEF RulingsInv, RulingsTyped, RowsMove
    <3> QED BY <3>2 DEF InsertDispute, RulingsInv, RulingsTyped, WorldMoves, OrderMoves,
               ledgerVars, orderVars
  <2> QED BY <2>1, <2>2 DEF InsertDispute
<1>3. CASE Return(c)
  BY <1>1, <1>2, <1>3, Returns DEF OrderPcs
<1>4. CASE Continue(c, "freeze") /\ call[c].seen \in Freezable(t)
  <2>1. "freeze" \in Places
    BY DEF Places, OrderPcs
  <2>2. /\ CallOK' /\ call'[c].pc = "freeze" /\ call'[c].on = t
        /\ call'[c].seen = call[c].seen /\ \A d \in Calls \ {c} : call'[d] = call[d]
    BY <1>4, <2>1, ContinueCall
  <2>3. HandlerKnows(c)'
    BY <1>1, <1>4, <2>2 DEF HandlerKnows, At, Freezable
  <2> QED BY <1>1, <1>2, <2>2, <2>3, HandlerStep DEF OrderPcs
<1> QED BY <1>3, <1>4 DEF InsertDispute

\* The order under dispute is frozen.
LEMMA FreezeKept ==
    ASSUME RulingsInv, CallOK, NEW c \in Calls, Freeze(c)
    PROVE  RulingsInv' /\ Among(OrderPcs)
<1> DEFINE t == call[c].on
<1>1. call[c].pc = "freeze" /\ t \in Targets /\ call[c].seen \in Freezable(t)
  BY DEF Freeze, RulingsInv, HandlerKnows, At
<1>2. RulingsTyped' /\ WorldMoves
  <2>1. CASE UNCHANGED status
    BY <2>1, WorldStays DEF Freeze, ledgerVars
  <2>2. CASE status[t] = call[c].seen /\ status' = [status EXCEPT ![t] = "DISPUTED"]
    BY <1>1, <2>2, StatusMoves DEF Freeze, ledgerVars, Freezable, Working, Taken, OrderStatus
  <2> QED BY <2>1, <2>2 DEF Freeze, Move
<1> QED BY <1>1, <1>2, Returns DEF Freeze, OrderPcs

\* A dispute moves along one edge of its machine.
LEMMA TransitionDisputeKept ==
    ASSUME RulingsInv, CallOK, NEW c \in Calls, NEW t \in Targets,
           NEW i \in DOMAIN disputes[t], NEW next \in DisputeStatus,
           TransitionDispute(c, t, i, next)
    PROVE  RulingsInv' /\ Among(OrderPcs)
<1>1. PICK new \in CallType :
          /\ Begin(c, new)
          /\ \/ new.pc = "idle"
             \/ next \in Decisions /\ new.pc = "effect" /\ new.on = t /\ new.seen = next
  <2>1. Begin(c, IF next \in Decisions THEN CallSeeing("effect", t, next) ELSE Idle)
    BY DEF TransitionDispute, CallSeeing
  <2>2. "effect" \in Places /\ t \in Objects /\ next \in Sights
    BY DEF Places, OrderPcs, Objects, Sights
  <2> QED BY <2>1, <2>2, NewCalls, SightsAre, IdleType
<1>2. /\ disputes' \in [Targets -> Seq(DisputeStatus)]
      /\ RowsMove
      /\ i \in DOMAIN disputes'[t] /\ disputes'[t][i] = next
  <2>1. disputes \in [Targets -> Seq(DisputeStatus)] /\ disputes[t] \in Seq(DisputeStatus)
    BY DEF RulingsInv, RulingsTyped
  <2>2. [disputes[t] EXCEPT ![i] = next] \in Seq(DisputeStatus)
    BY <2>1
  <2>3. disputes' = [disputes EXCEPT ![t] = [disputes[t] EXCEPT ![i] = next]]
    BY DEF TransitionDispute
  <2> QED BY <2>1, <2>2, <2>3 DEF RowsMove, TransitionDispute
<1>3. RulingsTyped' /\ WorldMoves
  BY <1>2 DEF TransitionDispute, RulingsInv, RulingsTyped, WorldMoves, OrderMoves,
     ledgerVars, orderVars
<1>4. HandlerKnows(c)'
  BY <1>1, <1>2, BeginCall DEF HandlerKnows, At, Ruled
<1> QED BY <1>1, <1>3, <1>4, BeginCall, HandlerStep DEF OrderPcs

\* A ruling applies to an order frozen for it.
LEMMA ApplyDecisionKept ==
    ASSUME RulingsInv, CallOK, NEW c \in Calls, ApplyDecision(c)
    PROVE  RulingsInv' /\ Among(OrderPcs)
<1> DEFINE t == call[c].on
           d == call[c].seen
<1>1. call[c].pc = "effect" /\ t \in Targets /\ Ruled(t, d)
  BY DEF ApplyDecision, RulingsInv, HandlerKnows, At
<1>2. Outcome(t, d) \in OrderStatus /\ (t \in Orders /\ Outcome(t, d) \in Working => Earnable(t))
  BY <1>1, DisputeAssumption DEF Outcome, OrderStatus, Working, Ruled, Earnable, Targets
<1>3. RulingsTyped' /\ WorldMoves
  <2>1. CASE UNCHANGED status
    BY <2>1, WorldStays DEF ApplyDecision, ledgerVars
  <2>2. CASE status[t] = "DISPUTED" /\ status' = [status EXCEPT ![t] = Outcome(t, d)]
    BY <1>1, <1>2, <2>2, StatusMoves DEF ApplyDecision, ledgerVars, Taken
  <2> QED BY <2>1, <2>2 DEF ApplyDecision, Move
<1> QED BY <1>1, <1>3, Returns DEF ApplyDecision, OrderPcs

\* Every step of a dispute.
LEMMA DisputesKept ==
    ASSUME RulingsInv, CallOK, DisputesNext
    PROVE  RulingsInv' /\ Among(OrderPcs)
BY OrderKept, CountRevisionsKept, AcceptKept, ServiceStepKept, PurchaseKept, ReadTargetKept,
   InsertDisputeKept, FreezeKept, TransitionDisputeKept, ApplyDecisionKept
   DEF DisputesNext, ServiceNext, DisputeStep

\* Steps of payouts and deal rooms, and losses, leave orders and disputes as they are.
LEMMA RulingsFrame ==
    ASSUME RulingsInv, UNCHANGED <<status, disputes, captured>>,
           \A o \in Orders : SettleId(o) \in ledger' => SettleId(o) \in ledger,
           \A c \in Calls : call'[c] = call[c] \/ call'[c].pc \notin OrderPcs \ {"idle"}
    PROVE  RulingsInv'
<1>1. RulingsTyped' /\ WorldMoves
  BY DEF RulingsInv, RulingsTyped, WorldMoves, RowsMove, OrderMoves
<1>2. ASSUME NEW c \in Calls, call'[c].pc \notin OrderPcs \ {"idle"} PROVE HandlerKnows(c)'
  BY <1>2 DEF HandlerKnows, At, OrderPcs
<1> QED BY <1>1, <1>2, RulingsStep

\* Only a decision that is applied thaws a target.
LEMMA ThawStep ==
    ASSUME RulingsInv, DisputesNext, NEW t \in Targets,
           status[t] = "DISPUTED", status'[t] # "DISPUTED"
    PROVE  \E i \in DOMAIN disputes[t] :
              disputes[t][i] \in Decisions /\ status'[t] = Outcome(t, disputes[t][i])
<1>0. status \in [Targets -> OrderStatus]
  BY DEF RulingsInv, RulingsTyped
<1>1. CASE \E c \in Calls : ApplyDecision(c)
  <2>1. PICK c \in Calls : ApplyDecision(c)
    BY <1>1
  <2> DEFINE d == call[c].seen
  <2>2. t = call[c].on /\ status'[t] = Outcome(t, d) /\ Ruled(t, d)
    BY <1>0, <2>1 DEF ApplyDecision, Move, RulingsInv, HandlerKnows
  <2>3. PICK i \in DOMAIN disputes[t] :
            disputes[t][i] = d \/ (d = "PARTIAL_REFUND" /\ disputes[t][i] = "CLOSED")
    BY <2>2 DEF Ruled
  <2>4. CASE disputes[t][i] = d
    BY <2>2, <2>4 DEF Ruled
  <2>5. CASE d = "PARTIAL_REFUND" /\ disputes[t][i] = "CLOSED"
    <3>1. Outcome(t, d) = "DISPUTED" \/ Outcome(t, d) = Outcome(t, "CLOSED")
      BY <2>5 DEF Outcome, Targets
    <3> QED BY <2>2, <2>5, <3>1 DEF Decisions
  <2> QED BY <2>3, <2>4, <2>5
<1>2. CASE \E o \in Orders :
              \/ Capture(o) \/ MarkServicePurchasePaid(o) \/ Deliver(o) \/ Close(o)
              \/ Cancel(o) \/ DisputeOrder(o)
  BY <1>0, <1>2 DEF Capture, MarkServicePurchasePaid, Deliver, Close, Cancel, DisputeOrder, Move
<1>3. CASE \E c \in Calls, o \in Orders : CountRevisions(c, o) \/ Accept(c, o)
  BY <1>0, <1>3 DEF CountRevisions, Accept, Move, orderVars
<1>4. CASE \E c \in Calls : Revise(c) \/ SettleServiceRevenue(c) \/ InsertDispute(c) \/ Freeze(c)
  BY <1>0, <1>4 DEF Revise, SettleServiceRevenue, InsertDispute, Freeze, Move, orderVars
<1>5. CASE \E p \in Purchases : Complete(p) \/ Refund(p)
  BY <1>0, <1>5 DEF Complete, Refund, Move
<1>6. CASE \E c \in Calls, u \in Targets : ReadTarget(c, u) \/
              \E i \in DOMAIN disputes[u], next \in DisputeStatus : TransitionDispute(c, u, i, next)
  BY <1>0, <1>6 DEF ReadTarget, TransitionDispute, orderVars
<1> QED BY <1>1, <1>2, <1>3, <1>4, <1>5, <1>6 DEF DisputesNext, ServiceNext, ServiceStep,
           DisputeStep

\* What was credited was earned.
LEMMA RulingsCredit == ASSUME RulingsInv PROVE CreditIsEarned
BY DEF RulingsInv, OrderKnows, CreditIsEarned, Earnable, Taken
-----------------------------------------------------------------------------
(* Payouts *)

PayoutStatus == {"PENDING", "PROCESSING", "COMPLETED", "CANCELLED", "FAILED"}
TxnIds == ManualIds \union {PayoutId(n) : n \in Nat}
PayoutType == [amount : Nat, status : PayoutStatus, by : Instances, txn : TxnIds \union {NoTxn}]

\* What a request knows of the payouts its process made, and a completion of its own.
RequestKnows(c) ==
    /\ At(c, "processing") =>
        \A p \in Rows : payouts[p].by = load.at[c] => payouts[p].status # "PENDING"
    /\ call[c].pc \in {"balance", "create"} =>
        \A p \in Rows : payouts[p].by = load.at[c] =>
            payouts[p].status \notin {"PENDING", "PROCESSING"}
    /\ call[c].pc \in {"complete", "mark", "apply"} => call[c].nr \in Rows /\ call[c].seen \in TxnIds
\* The lock of a process admits one request.
OneInside ==
    \A c, d \in Calls : Requesting(c) /\ Requesting(d) /\ load.at[c] = load.at[d] => c = d
PayoutInv ==
    /\ load \in Workloads
    /\ payouts \in Seq(PayoutType)
    /\ OneInside
    /\ \A c \in Calls : RequestKnows(c)
    /\ OneOpenPerProcess

\* A call outside the handlers of payouts knows nothing of them.
LEMMA PayoutFrame ==
    ASSUME PayoutInv, UNCHANGED <<load, payouts>>,
           \A c \in Calls : call'[c] = call[c] \/ call'[c].pc \notin PayoutPcs \ {"idle"}
    PROVE  PayoutInv'
<1>1. OneInside'
  BY DEF PayoutInv, OneInside, Requesting, PayoutPcs
<1>2. ASSUME NEW c \in Calls PROVE RequestKnows(c)'
  BY DEF PayoutInv, RequestKnows, At, Rows, PayoutPcs
<1>3. OneOpenPerProcess'
  BY DEF PayoutInv, OneOpenPerProcess, Open, InStatus, Rows
<1> QED BY <1>1, <1>2, <1>3 DEF PayoutInv

\* A step of one handler of payouts, or of the administrator.
PayoutsOnlyEnd ==
    /\ Rows' = Rows
    /\ \A p \in Rows : /\ payouts'[p].by = payouts[p].by
                       /\ p \in Open' => p \in Open
                       /\ payouts'[p].status = "PENDING" => payouts[p].status = "PENDING"

\* A step of one payout handler, which may take the lock when no neighbour has it.
LEMMA PayoutHandler ==
    ASSUME PayoutInv, CallOK', NEW c \in Calls, UNCHANGED load,
           payouts' \in Seq(PayoutType), PayoutsOnlyEnd,
           \A d \in Calls \ {c} : call'[d] = call[d],
           call[c].pc \in PayoutPcs, call'[c].pc \in PayoutPcs, RequestKnows(c)',
           Requesting(c)' => Requesting(c) \/ ~\E d \in Calls : Neighbour(c, d) /\ Requesting(d)
    PROVE  PayoutInv' /\ Among(PayoutPcs)
<1>1. ASSUME NEW d \in Calls \ {c} PROVE RequestKnows(d)'
  BY DEF PayoutInv, RequestKnows, PayoutsOnlyEnd, At, Open, InStatus, Rows
<1>2. OneInside'
  BY DEF PayoutInv, OneInside, Requesting, Neighbour
<1>3. OneOpenPerProcess'
  BY DEF PayoutInv, OneOpenPerProcess, PayoutsOnlyEnd, Open, InStatus, Rows
<1> QED BY <1>1, <1>2, <1>3 DEF PayoutInv, Among

\* Payouts that stay as they are only end.
LEMMA PayoutsStay ==
    ASSUME PayoutInv, UNCHANGED payouts
    PROVE  payouts' \in Seq(PayoutType) /\ PayoutsOnlyEnd
BY DEF PayoutInv, PayoutsOnlyEnd, Open, InStatus, Rows

\* A handler that returns, or begins to ask.
LEMMA PayoutReturns ==
    ASSUME PayoutInv, CallOK, NEW c \in Calls, Return(c), call[c].pc \in PayoutPcs,
           UNCHANGED load, payouts' \in Seq(PayoutType), PayoutsOnlyEnd
    PROVE  PayoutInv' /\ Among(PayoutPcs)
<1>1. RequestKnows(c)' /\ ~Requesting(c)'
  BY ReturnCall DEF RequestKnows, Requesting, At
<1> QED BY <1>1, ReturnCall, PayoutHandler DEF PayoutPcs

\* A seller asks for a payout.
LEMMA RequestKept ==
    ASSUME PayoutInv, CallOK, NEW c \in Calls, NEW amount \in Sums, Request(c, amount)
    PROVE  PayoutInv' /\ Among(PayoutPcs)
<1>1. PICK new \in CallType : Begin(c, new) /\ new.pc = "request"
  <2>1. Begin(c, CallNr("request", amount))
    BY DEF Request, CallNr
  <2>2. "request" \in Places /\ amount \in Nat
    BY PayoutAssumption DEF Places, PayoutPcs
  <2> QED BY <2>1, <2>2, NewCalls, SightsAre
<1>2. RequestKnows(c)' /\ ~Requesting(c)'
  BY <1>1, BeginCall DEF RequestKnows, Requesting, At
<1> QED BY <1>1, <1>2, BeginCall, PayoutHandler, PayoutsStay DEF Request, payoutVars, PayoutPcs

\* An administrator completes a payout, naming the bank's transaction.
LEMMA TransitionKept ==
    ASSUME PayoutInv, CallOK, NEW c \in Calls, NEW p \in Rows,
           NEW id \in ManualIds \union {PayoutId(p)}, Transition(c, p, id)
    PROVE  PayoutInv' /\ Among(PayoutPcs)
<1>0. p \in Nat /\ id \in TxnIds
  BY DEF PayoutInv, Rows, TxnIds
<1>1. PICK new \in CallType : Begin(c, new) /\ new.pc = "complete" /\ new.nr = p /\ new.seen = id
  <2>1. Begin(c, CallNaming("complete", p, id))
    BY DEF Transition, CallNaming
  <2>2. "complete" \in Places /\ id \in Sights
    BY <1>0 DEF Places, PayoutPcs, Sights, TxnIds
  <2> QED BY <1>0, <2>1, <2>2, NewCalls, SightsAre
<1>2. UNCHANGED <<load, payouts>>
  BY DEF Transition, payoutVars
<1>3. RequestKnows(c)' /\ ~Requesting(c)'
  BY <1>0, <1>1, <1>2, BeginCall DEF RequestKnows, Requesting, At, Rows
<1> QED BY <1>1, <1>2, <1>3, BeginCall, PayoutHandler, PayoutsStay DEF PayoutPcs

\* The reads of a payout request under the lock of its process.
LEMMA RequestStepKept ==
    ASSUME PayoutInv, CallOK, NEW c \in Calls,
           EnterRequest(c) \/ GetOpenPayout(c) \/ ReadBalance(c)
    PROVE  PayoutInv' /\ Among(PayoutPcs)
<1>0. UNCHANGED <<load, payouts>> /\ payouts' \in Seq(PayoutType) /\ PayoutsOnlyEnd
  BY PayoutsStay DEF EnterRequest, GetOpenPayout, LookFor, ReadBalance, payoutVars
<1>1. CASE EnterRequest(c)
  <2>1. /\ CallOK' /\ call'[c].pc = "pending" /\ call[c].pc = "request"
        /\ \A d \in Calls \ {c} : call'[d] = call[d]
        /\ ~\E d \in Calls : Neighbour(c, d) /\ Requesting(d)
    BY <1>1, ContinueCall DEF EnterRequest, At, Places, PayoutPcs
  <2>2. RequestKnows(c)'
    BY <2>1 DEF RequestKnows, At
  <2> QED BY <1>0, <2>1, <2>2, PayoutHandler DEF PayoutPcs
<1>2. CASE GetOpenPayout(c) \/ ReadBalance(c)
  <2>1. CASE Return(c)
    BY <1>0, <1>2, <2>1, PayoutReturns DEF GetOpenPayout, ReadBalance, At, PayoutPcs
  <2>2. CASE ~Return(c)
    <3>1. PICK p \in {"processing", "balance", "create"} : Continue(c, p)
      BY <1>2, <2>2 DEF GetOpenPayout, LookFor, ReadBalance
    <3>2. /\ CallOK' /\ call'[c].pc = p /\ \A d \in Calls \ {c} : call'[d] = call[d]
      BY <3>1, ContinueCall DEF Places, PayoutPcs
    <3>3. \/ call[c].pc = "pending" /\ InStatus("PENDING") = {} /\ p = "processing"
          \/ call[c].pc = "processing" /\ InStatus("PROCESSING") = {} /\ p = "balance"
          \/ call[c].pc = "balance" /\ p = "create"
      <4>1. /\ Continue(c, "processing") => p = "processing"
            /\ Continue(c, "balance") => p = "balance"
            /\ Continue(c, "create") => p = "create"
        BY <3>2, ContinueCall DEF Places, PayoutPcs
      <4> QED BY <1>2, <2>2, <4>1 DEF GetOpenPayout, LookFor, ReadBalance, At
    <3>4. RequestKnows(c)'
      BY <1>0, <3>2, <3>3 DEF PayoutInv, RequestKnows, At, InStatus, Rows
    <3>5. Requesting(c)
      BY <3>3 DEF Requesting
    <3> QED BY <1>0, <3>2, <3>3, <3>4, <3>5, PayoutHandler DEF PayoutPcs
  <2> QED BY <2>1, <2>2
<1> QED BY <1>1, <1>2

\* The payout that is inserted is the only open one of its process.
LEMMA CreateKept ==
    ASSUME PayoutInv, CallOK, NEW c \in Calls, CreatePayout(c)
    PROVE  PayoutInv' /\ Among(PayoutPcs)
<1> DEFINE new == [amount |-> call[c].nr, status |-> "PENDING", by |-> load.at[c], txn |-> NoTxn]
           n == Len(payouts) + 1
<1>1. /\ call[c].pc = "create" /\ UNCHANGED load /\ Return(c)
      /\ payouts' = Append(payouts, new)
  BY DEF CreatePayout, At
<1>2. CallOK' /\ call'[c].pc = "idle" /\ \A d \in Calls \ {c} : call'[d] = call[d]
  BY <1>1, ReturnCall
<1>3. new \in PayoutType
  BY LedgerAssumption DEF PayoutInv, PayoutType, PayoutStatus, CallOK, CallType
<1>4. /\ payouts' \in Seq(PayoutType)
      /\ Rows' = Rows \union {n} /\ n \notin Rows /\ payouts'[n] = new
      /\ \A p \in Rows : payouts'[p] = payouts[p]
  BY <1>1, <1>3 DEF PayoutInv, Rows
<1>5. \A p \in Rows : payouts[p].by = load.at[c] => payouts[p].status \notin {"PENDING", "PROCESSING"}
  BY <1>1 DEF PayoutInv, RequestKnows
<1>6. OneOpenPerProcess'
  <2>1. Open' = Open \union {n}
    BY <1>4 DEF Open, InStatus
  <2>2. \A p \in Open : p \in Rows /\ payouts[p].by # load.at[c] /\ payouts'[p].by = payouts[p].by
    BY <1>4, <1>5 DEF Open, InStatus
  <2> QED BY <1>4, <2>1, <2>2 DEF OneOpenPerProcess, PayoutInv
<1>7. OneInside'
  BY <1>1, <1>2 DEF PayoutInv, OneInside, Requesting
<1>8. ASSUME NEW d \in Calls PROVE RequestKnows(d)'
  <2>1. CASE d = c
    BY <1>2, <2>1 DEF RequestKnows, At
  <2>2. CASE d # c
    <3>1. call'[d] = call[d] /\ RequestKnows(d)
      BY <1>2, <2>2 DEF PayoutInv
    <3>2. Requesting(d) => load.at[d] # load.at[c]
      BY <1>1, <2>2 DEF PayoutInv, OneInside, Requesting
    <3>3. \A p \in Rows' : payouts'[p].by = load.at[d] /\ Requesting(d) =>
              p \in Rows /\ payouts'[p] = payouts[p]
      BY <1>4, <3>2
    <3>4. At(d, "processing") => Requesting(d)
      BY DEF At, Requesting
    <3>5. call[d].pc \in {"balance", "create"} => Requesting(d)
      BY DEF Requesting
    <3> QED BY <1>1, <1>4, <3>1, <3>3, <3>4, <3>5 DEF RequestKnows, At
  <2> QED BY <2>1, <2>2
<1> QED BY <1>1, <1>2, <1>4, <1>6, <1>7, <1>8 DEF PayoutInv, Among, PayoutPcs

\* The steps of a completion.
LEMMA CompletionKept ==
    ASSUME PayoutInv, CallOK, NEW c \in Calls, CompletionStep(c)
    PROVE  PayoutInv' /\ Among(PayoutPcs)
<1>0. /\ call[c].pc \in {"complete", "mark", "apply"} /\ UNCHANGED load
      /\ call[c].nr \in Rows /\ call[c].seen \in TxnIds
  BY DEF CompletionStep, EnterCompletion, ReadMarker, ApplyCompletion, At, PayoutInv, RequestKnows
<1>1. CASE UNCHANGED payouts /\ \E p \in {"mark", "apply"} : Continue(c, p)
  <2>1. PICK p \in {"mark", "apply"} : Continue(c, p)
    BY <1>1
  <2>2. /\ CallOK' /\ call'[c].pc = p /\ call'[c].nr = call[c].nr /\ call'[c].seen = call[c].seen
        /\ \A d \in Calls \ {c} : call'[d] = call[d]
    BY <2>1, ContinueCall DEF Places, PayoutPcs
  <2>3. RequestKnows(c)' /\ ~Requesting(c)'
    BY <1>0, <1>1, <2>2 DEF RequestKnows, Requesting, At, Rows
  <2> QED BY <1>0, <1>1, <2>2, <2>3, PayoutHandler, PayoutsStay DEF PayoutPcs
<1>2. CASE UNCHANGED payouts /\ Return(c)
  BY <1>0, <1>2, PayoutReturns, PayoutsStay DEF PayoutPcs
<1>3. CASE Return(c) /\ payouts' = Completed(call[c].nr, call[c].seen)
  <2>1. payouts' \in Seq(PayoutType) /\ PayoutsOnlyEnd
    <3> DEFINE p == call[c].nr
               row == [payouts[p] EXCEPT !.status = "COMPLETED", !.txn = call[c].seen]
    <3>1. payouts[p] \in PayoutType
      BY <1>0 DEF PayoutInv, Rows
    <3>2. row \in PayoutType /\ row.status = "COMPLETED" /\ row.by = payouts[p].by
      BY <1>0, <3>1 DEF PayoutType, PayoutStatus
    <3>3. payouts' = [payouts EXCEPT ![p] = row]
      BY <1>3 DEF Completed
    <3> HIDE DEF row
    <3> QED BY <1>0, <3>2, <3>3 DEF PayoutInv, PayoutsOnlyEnd, Open, InStatus, Rows
  <2> QED BY <1>0, <1>3, <2>1, PayoutReturns DEF PayoutPcs
<1> QED BY <1>1, <1>2, <1>3 DEF CompletionStep, EnterCompletion, ReadMarker, ApplyCompletion,
           payoutVars

\* An administrator's decision is applied to the status it was made for.
LEMMA DecidedKept ==
    ASSUME PayoutInv, CallOK, NEW p \in Rows, Decided(p)
    PROVE  PayoutInv' /\ Among(PayoutPcs)
<1>1. PICK to \in PayoutStatus :
          /\ UNCHANGED <<load, call>> /\ payouts' = [payouts EXCEPT ![p].status = to]
          /\ to \in {"PROCESSING", "CANCELLED", "FAILED"} /\ p \in Open
  BY DEF Decided, Decide, callVars, PayoutStatus, Open, InStatus
<1>2. payouts' \in Seq(PayoutType) /\ PayoutsOnlyEnd
  <2> DEFINE row == [payouts[p] EXCEPT !.status = to]
  <2>1. payouts[p] \in PayoutType
    BY DEF PayoutInv, Rows
  <2>2. row \in PayoutType /\ row.status = to /\ row.by = payouts[p].by
    BY <1>1, <2>1 DEF PayoutType
  <2>3. payouts' = [payouts EXCEPT ![p] = row]
    BY <1>1
  <2> HIDE DEF row
  <2> QED BY <1>1, <2>2, <2>3 DEF PayoutInv, PayoutsOnlyEnd, Open, InStatus, Rows
<1>3. \A c \in Calls : RequestKnows(c)'
  BY <1>1, <1>2 DEF PayoutInv, RequestKnows, PayoutsOnlyEnd, At, Open, InStatus, Rows
<1>4. OneInside' /\ OneOpenPerProcess'
  BY <1>1, <1>2 DEF PayoutInv, OneInside, Requesting, OneOpenPerProcess, PayoutsOnlyEnd,
     Open, InStatus, Rows
<1> QED BY <1>1, <1>2, <1>3, <1>4 DEF PayoutInv, Among, CallOK

\* Every step of a payout.
LEMMA PayoutsKept ==
    ASSUME PayoutInv, CallOK, PayoutNext
    PROVE  PayoutInv' /\ Among(PayoutPcs)
BY RequestKept, TransitionKept, RequestStepKept, CreateKept, CompletionKept, DecidedKept
   DEF PayoutNext, RequestStep

\* A payout is posted under an id of its own, so it credits no order.
LEMMA PayoutsCreditNoOrder ==
    ASSUME PayoutInv, PayoutNext, NEW o \in Targets, SettleId(o) \in ledger'
    PROVE  SettleId(o) \in ledger
<1>1. SettleId(o) \notin TxnIds
  BY ManualAssumption DEF TxnIds, PayoutId, SettleId
<1>2. CASE UNCHANGED ledger
  BY <1>2
<1>3. CASE \E c \in Calls : ApplyCompletion(c)
  BY <1>1, <1>3 DEF ApplyCompletion, Apply, Post, ledgerVars, PayoutInv, RequestKnows, At
<1> QED BY <1>2, <1>3 DEF PayoutNext, Request, Transition, RequestStep, CompletionStep,
           EnterRequest, GetOpenPayout, LookFor, ReadBalance, CreatePayout, EnterCompletion,
           ReadMarker, Decided, Decide, ledgerVars
-----------------------------------------------------------------------------
(* Deal rooms *)

\* No room goes back.
Rank == [CREATED |-> 0, FUNDED |-> 1, DELIVERING |-> 2, DELIVERED |-> 3, ACCEPTED |-> 4,
         DISPUTED |-> 5, RESOLVED |-> 6, CLOSED |-> 7]

\* A move always goes to a status of a higher rank.
LEMMA RankFacts ==
    /\ \A s \in DealStatus : Rank[s] \in Nat
    /\ Rank["ACCEPTED"] < Rank["RESOLVED"] /\ Rank["RESOLVED"] < Rank["CLOSED"]
    /\ \A role \in Roles, from, to \in DealStatus : MayMove(role, from, to) => Rank[from] < Rank[to]
<1>1. /\ Rank["CREATED"] = 0 /\ Rank["FUNDED"] = 1 /\ Rank["DELIVERING"] = 2
      /\ Rank["DELIVERED"] = 3 /\ Rank["ACCEPTED"] = 4 /\ Rank["DISPUTED"] = 5
      /\ Rank["RESOLVED"] = 6 /\ Rank["CLOSED"] = 7
  BY DEF Rank
<1>2. \A s \in DealStatus : Rank[s] \in Nat
  BY <1>1 DEF DealStatus
<1>3. ASSUME NEW role \in Roles, NEW from \in DealStatus, NEW to \in DealStatus,
             MayMove(role, from, to)
      PROVE  Rank[from] < Rank[to]
  BY <1>1, <1>3 DEF MayMove, DealStatus, PartyTransitions
<1> QED BY <1>1, <1>2, <1>3

\* What the handlers of a deal room know of their move: where it leads, and what follows.
LeadsOn(m) ==
    /\ m \in DealMoves
    /\ Rank[m.from] < Rank[m.to]
    /\ \/ m.rest = << >>
       \/ m.to = "ACCEPTED" /\ m.rest = <<"RESOLVED", "CLOSED">>
       \/ m.to = "RESOLVED" /\ m.rest = <<"CLOSED">>
MoverKnows(c) == call[c].pc \in DealPcs \ {"idle"} => call[c].on \in Rooms /\ LeadsOn(call[c].seen)

\* The moves of a room that were made: those in its trail, and those about to be.
Auditing(c, r) == At(c, "audit") /\ call[c].on = r
Reached(r, s) == \/ \E i \in DOMAIN trail[r] : trail[r][i].to = s
                 \/ \E c \in Calls : Auditing(c, r) /\ call[c].seen.to = s
\* Two moves that start or end alike are one; each leads at most to where the room is.
MovesDiffer(r) ==
    /\ \A i, j \in DOMAIN trail[r] :
        trail[r][i].from = trail[r][j].from \/ trail[r][i].to = trail[r][j].to => i = j
    /\ \A c, d \in Calls : Auditing(c, r) /\ Auditing(d, r) /\ c # d =>
        call[c].seen.from # call[d].seen.from /\ call[c].seen.to # call[d].seen.to
    /\ \A i \in DOMAIN trail[r], c \in Calls : Auditing(c, r) =>
        trail[r][i].from # call[c].seen.from /\ trail[r][i].to # call[c].seen.to
MovesLead(r) ==
    /\ \A i \in DOMAIN trail[r] :
        Rank[trail[r][i].from] < Rank[trail[r][i].to] /\ Rank[trail[r][i].to] <= Rank[room[r]]
    /\ \A c \in Calls : Auditing(c, r) => Rank[call[c].seen.to] <= Rank[room[r]]
\* Every place the room was in, after the first, was reached by a move.
MovesConnect(r) ==
    /\ room[r] # "CREATED" => Reached(r, room[r])
    /\ \A i \in DOMAIN trail[r] : trail[r][i].from # "CREATED" => Reached(r, trail[r][i].from)
    /\ \A c \in Calls : Auditing(c, r) /\ call[c].seen.from # "CREATED" =>
            Reached(r, call[c].seen.from)
DisputeNoted(r) ==
    (\E i \in DOMAIN trail[r] : trail[r][i].to = "DISPUTED") =>
        r \in evidence \/ \E c \in Calls : At(c, "note") /\ call[c].on = r
TrailOf(r) == MovesDiffer(r) /\ MovesLead(r) /\ MovesConnect(r) /\ DisputeNoted(r)

MoveRow == [from : DealStatus, to : DealStatus]
DealTyped ==
    /\ room \in [Rooms -> DealStatus]
    /\ trail \in [Rooms -> Seq(MoveRow)]
    /\ faults \in Nat /\ faults <= MaxFaults
DealInv ==
    /\ DealTyped
    /\ \A c \in Calls : MoverKnows(c)
    /\ faults = MaxFaults => \A r \in Rooms : TrailOf(r)

\* Once something was lost, no more is claimed of the trails.
LEMMA AfterLoss ==
    ASSUME DealInv, faults > 0, faults' = faults - 1, room' \in [Rooms -> DealStatus],
           trail' \in [Rooms -> Seq(MoveRow)],
           \A c \in Calls : MoverKnows(c)'
    PROVE  DealInv'
<1>1. MaxFaults \in Nat
  BY LedgerAssumption
<1>2. faults \in Nat /\ faults <= MaxFaults
  BY DEF DealInv, DealTyped
<1>3. faults' \in Nat /\ faults' <= MaxFaults /\ faults' # MaxFaults
  BY <1>1, <1>2
<1> QED BY <1>3, Zenon DEF DealInv, DealTyped

\* A step that makes no move of this room and records none.
LEMMA TrailStays ==
    ASSUME NEW r \in Rooms, TrailOf(r), room'[r] = room[r], trail'[r] = trail[r],
           evidence \subseteq evidence',
           \A c \in Calls :
               \/ call'[c] = call[c]
               \/ call[c].pc \notin {"audit", "note"} /\ call'[c].pc # "audit"
               \/ call[c].pc = "note" /\ call'[c].pc = "idle" /\ call[c].on \in evidence'
               \/ call[c].on # r /\ (call'[c].pc # "audit" \/ call'[c].on # r)
    PROVE  TrailOf(r)'
<1>1. \A c \in Calls : /\ Auditing(c, r)' => Auditing(c, r)
                       /\ Auditing(c, r) => Auditing(c, r)' /\ call'[c] = call[c]
  BY DEF Auditing, At
<1>2. MovesDiffer(r)'
  BY <1>1 DEF TrailOf, MovesDiffer
<1>3. MovesLead(r)'
  BY <1>1 DEF TrailOf, MovesLead
<1>4. MovesConnect(r)'
  BY <1>1 DEF TrailOf, MovesConnect, Reached
<1>5. DisputeNoted(r)'
  BY DEF TrailOf, DisputeNoted, At
<1> QED BY <1>2, <1>3, <1>4, <1>5 DEF TrailOf

\* Orders, disputes and payouts leave the rooms alone.
LEMMA DealFrame ==
    ASSUME DealInv, UNCHANGED <<room, trail, evidence, faults>>,
           \A c \in Calls : \/ call'[c] = call[c]
                            \/ /\ call[c].pc \notin DealPcs \ {"idle"}
                               /\ call'[c].pc \notin DealPcs \ {"idle"}
    PROVE  DealInv'
<1>1. \A c \in Calls : MoverKnows(c)'
  BY DEF DealInv, MoverKnows
<1>2. ASSUME NEW r \in Rooms, TrailOf(r) PROVE TrailOf(r)'
  BY <1>2, TrailStays DEF DealPcs
<1> QED BY <1>1, <1>2 DEF DealInv, DealTyped

\* A step of one handler of deal rooms.
DealHandler(c) ==
    /\ CallOK'
    /\ \A d \in Calls \ {c} : call'[d] = call[d]
    /\ call[c].pc \in DealPcs /\ call'[c].pc \in DealPcs /\ MoverKnows(c)'

\* A step that writes no trail keeps what is known of every room.
LEMMA QuietStep ==
    ASSUME DealInv, NEW c \in Calls, DealHandler(c), UNCHANGED <<room, trail, faults>>,
           evidence \subseteq evidence',
           \/ call[c].pc \notin {"audit", "note"} /\ call'[c].pc # "audit"
           \/ call[c].pc = "note" /\ call'[c].pc = "idle" /\ call[c].on \in evidence'
    PROVE  DealInv' /\ Among(DealPcs)
<1>1. ASSUME NEW r \in Rooms, TrailOf(r) PROVE TrailOf(r)'
  BY <1>1, TrailStays DEF DealHandler
<1> QED BY <1>1 DEF DealInv, DealTyped, DealHandler, Among, MoverKnows

\* The tails of the ways a room may still go.
LEMMA RestEnds ==
    /\ Head(<<"RESOLVED", "CLOSED">>) = "RESOLVED" /\ Tail(<<"RESOLVED", "CLOSED">>) = <<"CLOSED">>
    /\ Head(<<"CLOSED">>) = "CLOSED" /\ Tail(<<"CLOSED">>) = << >>
OBVIOUS

Onward(m, to, rest) == [m EXCEPT !.from = m.to, !.to = to, !.rest = rest]
\* The next of several moves starts where the last one ended.
LEMMA NextMove ==
    ASSUME NEW m \in DealMoves, NEW to \in DealStatus, NEW rest \in Rests
    PROVE  /\ Onward(m, to, rest) \in DealMoves /\ Onward(m, to, rest).from = m.to
           /\ Onward(m, to, rest).to = to /\ Onward(m, to, rest).rest = rest
BY DEF DealMoves, Onward

\* What remains of a request after a move.
LEMMA ProceedCall ==
    ASSUME DealInv, CallOK, NEW c \in Calls, call[c].pc \in {"look", "audit"}, Proceed(c)
    PROVE  /\ DealHandler(c) /\ call'[c].pc \in {"idle", "note", "move"}
           /\ call[c].seen.to = "DISPUTED" => call'[c].pc = "note" /\ call'[c].on = call[c].on
<1> DEFINE move == call[c].seen
           next == Onward(move, Head(move.rest), Tail(move.rest))
<1>1. call[c].on \in Rooms /\ LeadsOn(move) /\ call[c].pc \in DealPcs /\ call[c] \in CallType
  BY DEF DealInv, MoverKnows, DealPcs, CallOK
<1>2. CASE move.to = "DISPUTED"
  <2>1. Continue(c, "note")
    <3>1. move.rest = << >>
      BY <1>1, <1>2 DEF LeadsOn
    <3> QED BY <1>2, <3>1 DEF Proceed
  <2>2. "note" \in Places
    BY DEF Places, DealPcs
  <2> QED BY <1>1, <1>2, <2>1, <2>2, ContinueCall DEF DealHandler, MoverKnows, DealPcs
<1>3. CASE move.to # "DISPUTED" /\ move.rest # << >>
  <2>1. call' = [call EXCEPT ![c].pc = "move", ![c].seen = next]
    BY <1>3 DEF Proceed, Onward
  <2>2. LeadsOn(next)
    <3>1. \/ /\ move.to = "ACCEPTED"
             /\ Head(move.rest) = "RESOLVED" /\ Tail(move.rest) = <<"CLOSED">>
          \/ move.to = "RESOLVED" /\ Head(move.rest) = "CLOSED" /\ Tail(move.rest) = << >>
      BY <1>1, <1>3, RestEnds, Zenon DEF LeadsOn
    <3>2. Head(move.rest) \in DealStatus /\ Tail(move.rest) \in Rests
      BY <3>1 DEF DealStatus, Rests
    <3>3. /\ next \in DealMoves /\ next.from = move.to
          /\ next.to = Head(move.rest) /\ next.rest = Tail(move.rest)
      BY <1>1, <3>2, NextMove DEF LeadsOn
    <3> HIDE DEF next
    <3> QED BY <3>1, <3>3, RankFacts DEF LeadsOn
  <2>3. next \in Sights /\ "move" \in Places
    BY <2>2 DEF LeadsOn, Sights, Places, DealPcs
  <2> HIDE DEF next
  <2>4. /\ CallOK' /\ call'[c].pc = "move" /\ call'[c].on = call[c].on /\ call'[c].seen = next
        /\ \A d \in Calls \ {c} : call'[d] = call[d]
    BY <2>1, <2>3 DEF CallOK, CallType
  <2> QED BY <1>1, <1>3, <2>2, <2>4 DEF DealHandler, MoverKnows, DealPcs
<1>4. CASE move.to # "DISPUTED" /\ move.rest = << >>
  <2>1. Return(c)
    BY <1>4 DEF Proceed
  <2> QED BY <1>1, <1>4, <2>1, ReturnCall DEF DealHandler, MoverKnows, DealPcs
<1> QED BY <1>2, <1>3, <1>4

\* A handler reads the room it is about.
LEMMA ReadRoomKept ==
    ASSUME DealInv, CallOK, NEW c \in Calls, NEW r \in Rooms, NEW to \in DealStatus,
           ReadRoom(c, r, to)
    PROVE  DealInv' /\ Among(DealPcs)
<1>1. PICK p \in {"link", "move"}, rest \in MayGoOn(to) :
          Begin(c, CallSeeing(p, r, [from |-> room[r], to |-> to, rest |-> rest]))
  BY DEF ReadRoom, CallSeeing
<1> DEFINE m == [from |-> room[r], to |-> to, rest |-> rest]
<1>2. LeadsOn(m)
  <2>1. room[r] \in DealStatus
    BY DEF DealInv, DealTyped
  <2>2. Rank[room[r]] < Rank[to]
    BY <2>1, RankFacts DEF ReadRoom
  <2>3. rest = << >> \/ (to = "ACCEPTED" /\ rest = <<"RESOLVED", "CLOSED">>)
    BY DEF MayGoOn
  <2> QED BY <2>1, <2>2, <2>3 DEF LeadsOn, DealMoves, Rests
<1>3. p \in Places /\ r \in Objects /\ m \in Sights
  BY <1>2 DEF Places, DealPcs, Objects, Sights, LeadsOn
<1> HIDE DEF m
<1>4. PICK new \in CallType : Begin(c, new) /\ new.pc = p /\ new.on = r /\ new.seen = m
  BY <1>1, <1>3, NewCalls, SightsAre DEF m
<1>5. DealHandler(c) /\ call[c].pc = "idle" /\ call'[c].pc = p
  BY <1>2, <1>4, BeginCall DEF DealHandler, MoverKnows, DealPcs
<1> QED BY <1>5, QuietStep DEF ReadRoom, dealVars

\* A room that is moved is moved on, from where it was.
LEMMA CasKept ==
    ASSUME DealInv, CallOK, NEW c \in Calls, CasTransition(c)
    PROVE  DealInv' /\ Among(DealPcs)
<1>0. call[c].pc = "move" /\ call[c].on \in Rooms /\ LeadsOn(call[c].seen)
  BY DEF CasTransition, DealInv, MoverKnows, At, DealPcs
<1>1. PICK r \in Rooms, move \in DealMoves :
          r = call[c].on /\ move = call[c].seen /\ call[c].pc = "move" /\ LeadsOn(move)
  BY <1>0 DEF LeadsOn
<1>2. CASE Continue(c, "look") /\ UNCHANGED room
  <2>1. DealHandler(c) /\ call'[c].pc = "look"
    BY <1>1, <1>2, ContinueCall DEF DealHandler, MoverKnows, DealPcs, Places
  <2> QED BY <1>1, <1>2, <2>1, QuietStep DEF CasTransition
<1>3. CASE /\ room[r] = move.from /\ Continue(c, "audit")
           /\ room' = [room EXCEPT ![r] = move.to]
  <2>1. /\ DealHandler(c) /\ call'[c].pc = "audit" /\ call'[c].on = r /\ call'[c].seen = move
        /\ \A d \in Calls \ {c} : call'[d] = call[d]
    BY <1>1, <1>3, ContinueCall DEF DealHandler, MoverKnows, DealPcs, Places
  <2>2. DealTyped' /\ room'[r] = move.to /\ UNCHANGED <<trail, evidence, faults>>
    BY <1>1, <1>3 DEF CasTransition, DealInv, DealTyped, LeadsOn, DealMoves
  <2>3. ASSUME NEW u \in Rooms, u # r, TrailOf(u) PROVE TrailOf(u)'
    BY <1>1, <1>3, <2>1, <2>2, <2>3, TrailStays DEF DealInv, DealTyped
  <2>4. ASSUME TrailOf(r) PROVE TrailOf(r)'
    <3>1. \A d \in Calls : Auditing(d, r)' <=> d = c \/ Auditing(d, r)
      BY <2>1 DEF Auditing, At
    <3>2. ~Auditing(c, r)
      BY <1>1 DEF Auditing, At
    <3>3. Rank[room[r]] < Rank[room'[r]] /\ Rank[room[r]] \in Nat /\ Rank[room'[r]] \in Nat
      BY <1>1, <1>3, <2>2, RankFacts DEF LeadsOn, DealMoves
    <3>4. \A i \in DOMAIN trail[r] :
              /\ Rank[trail[r][i].from] \in Nat /\ Rank[trail[r][i].to] \in Nat
              /\ Rank[trail[r][i].from] < Rank[room[r]] /\ Rank[trail[r][i].to] <= Rank[room[r]]
      <4>1. \A i \in DOMAIN trail[r] : trail[r][i] \in MoveRow
        BY DEF DealInv, DealTyped
      <4> QED BY <2>4, <3>3, <4>1, RankFacts DEF TrailOf, MovesLead, MoveRow
    <3>5. \A d \in Calls : Auditing(d, r) =>
              /\ Rank[call[d].seen.from] \in Nat /\ Rank[call[d].seen.to] \in Nat
              /\ Rank[call[d].seen.from] < Rank[room[r]] /\ Rank[call[d].seen.to] <= Rank[room[r]]
      <4>1. \A d \in Calls : Auditing(d, r) => LeadsOn(call[d].seen)
        BY DEF DealInv, MoverKnows, Auditing, At, DealPcs
      <4>2. \A d \in Calls : Auditing(d, r) =>
              /\ Rank[call[d].seen.from] \in Nat /\ Rank[call[d].seen.to] \in Nat
              /\ Rank[call[d].seen.from] < Rank[call[d].seen.to]
        BY <4>1, RankFacts DEF LeadsOn, DealMoves
      <4> QED BY <2>4, <3>3, <4>2 DEF TrailOf, MovesLead
    <3>6. MovesDiffer(r)'
      <4>1. \A i \in DOMAIN trail[r] : trail[r][i].from # room[r] /\ trail[r][i].to # room'[r]
        BY <3>3, <3>4
      <4>2. \A d \in Calls : Auditing(d, r) => call[d].seen.from # room[r] /\ call[d].seen.to # room'[r]
        BY <3>3, <3>5
      <4> QED BY <1>3, <2>1, <2>2, <2>4, <3>1, <4>1, <4>2 DEF TrailOf, MovesDiffer
    <3>7. MovesLead(r)'
      BY <1>3, <2>1, <2>2, <2>4, <3>1, <3>3, <3>4, <3>5 DEF TrailOf, MovesLead
    <3>8. \A s : Reached(r, s) => Reached(r, s)'
      BY <2>1, <2>2, <3>1, <3>2 DEF Reached
    <3>9. Reached(r, room[r])'
      BY <2>1, <2>2, <3>1 DEF Reached
    <3>10. MovesConnect(r)'
      BY <1>3, <2>1, <2>2, <2>4, <3>1, <3>8, <3>9 DEF TrailOf, MovesConnect
    <3>11. DisputeNoted(r)'
      BY <1>1, <2>1, <2>2, <2>4 DEF TrailOf, DisputeNoted, At
    <3> QED BY <3>6, <3>7, <3>10, <3>11 DEF TrailOf
  <2> QED BY <1>1, <2>1, <2>2, <2>3, <2>4 DEF DealInv, DealHandler, Among, MoverKnows
<1> QED BY <1>1, <1>2, <1>3 DEF CasTransition

\* A recorded move is the same move.
LEMMA RecordAuditKept ==
    ASSUME DealInv, CallOK, NEW c \in Calls, RecordAudit(c)
    PROVE  DealInv' /\ Among(DealPcs)
<1>0. call[c].pc = "audit" /\ call[c].on \in Rooms /\ LeadsOn(call[c].seen)
  BY DEF RecordAudit, DealInv, MoverKnows, At, DealPcs
<1>1. PICK r \in Rooms, move \in DealMoves :
          r = call[c].on /\ move = call[c].seen /\ call[c].pc = "audit" /\ LeadsOn(move)
  BY <1>0 DEF LeadsOn
<1> DEFINE row == [from |-> move.from, to |-> move.to]
           k == Len(trail[r]) + 1
<1>2. /\ DealHandler(c) /\ call'[c].pc \in {"idle", "note", "move"}
      /\ move.to = "DISPUTED" => call'[c].pc = "note" /\ call'[c].on = r
      /\ \A d \in Calls \ {c} : call'[d] = call[d]
  BY <1>1, ProceedCall DEF RecordAudit, DealHandler
<1>3. UNCHANGED <<room, evidence>>
  BY DEF RecordAudit
<1>4. \A d \in Calls : MoverKnows(d)'
  BY <1>2 DEF DealInv, DealHandler, MoverKnows
<1>5. Among(DealPcs)
  BY <1>2 DEF DealHandler, Among
<1>6. CASE faults > 0 /\ faults' = faults - 1 /\ UNCHANGED trail
  BY <1>3, <1>4, <1>5, <1>6, AfterLoss DEF DealInv, DealTyped
<1>7. CASE trail' = [trail EXCEPT ![r] = Append(@, row)] /\ UNCHANGED faults
  <2>1. row \in MoveRow /\ row.from = move.from /\ row.to = move.to
    BY DEF DealMoves, MoveRow
  <2>2. trail[r] \in Seq(MoveRow)
    BY <1>1 DEF DealInv, DealTyped
  <2> HIDE DEF row
  <2>3. /\ DOMAIN trail'[r] = DOMAIN trail[r] \union {k} /\ k \notin DOMAIN trail[r]
        /\ trail'[r][k] = row /\ \A i \in DOMAIN trail[r] : trail'[r][i] = trail[r][i]
    BY <1>1, <1>7, <2>1, <2>2 DEF DealInv, DealTyped
  <2>4. DealTyped'
    BY <1>1, <1>3, <1>7, <2>1, <2>2 DEF DealInv, DealTyped
  <2>5. ASSUME NEW u \in Rooms, u # r, TrailOf(u) PROVE TrailOf(u)'
    <3>1. trail'[u] = trail[u] /\ room'[u] = room[u]
      BY <1>3, <1>7, <2>5 DEF DealInv, DealTyped
    <3> QED BY <1>1, <1>2, <1>3, <2>5, <3>1, TrailStays
  <2>6. ASSUME TrailOf(r) PROVE TrailOf(r)'
    <3> HIDE DEF k
    <3>1. \A d \in Calls : Auditing(d, r)' <=> d # c /\ Auditing(d, r)
      BY <1>1, <1>2 DEF Auditing, At
    <3>2. Auditing(c, r)
      BY <1>1 DEF Auditing, At
    <3>3. MovesDiffer(r)'
      BY <1>1, <1>2, <2>1, <2>3, <2>6, <3>1, <3>2 DEF TrailOf, MovesDiffer
    <3>4. MovesLead(r)'
      BY <1>1, <1>2, <1>3, <2>1, <2>3, <2>6, <3>1, <3>2 DEF TrailOf, MovesLead, LeadsOn
    <3>5. \A s : Reached(r, s) => Reached(r, s)'
      BY <1>1, <1>2, <2>1, <2>3, <3>1 DEF Reached
    <3>6. MovesConnect(r)'
      BY <1>1, <1>2, <1>3, <2>1, <2>3, <2>6, <3>1, <3>2, <3>5 DEF TrailOf, MovesConnect
    <3>7. DisputeNoted(r)'
      BY <1>1, <1>2, <1>3, <2>1, <2>3, <2>6 DEF TrailOf, DisputeNoted, At
    <3> QED BY <3>3, <3>4, <3>6, <3>7 DEF TrailOf
  <2> QED BY <1>1, <1>4, <1>5, <1>7, <2>4, <2>5, <2>6 DEF DealInv
<1> QED BY <1>1, <1>6, <1>7 DEF RecordAudit

\* Every step of a deal room.
LEMMA DealsKept ==
    ASSUME DealInv, CallOK, DealNext
    PROVE  DealInv' /\ Among(DealPcs)
<1>1. ASSUME NEW c \in Calls, LinkOrder(c) PROVE DealInv' /\ Among(DealPcs)
  <2>1. call[c].pc = "link" /\ MoverKnows(c) /\ UNCHANGED <<room, trail, evidence, faults>>
    BY <1>1 DEF LinkOrder, At, DealInv
  <2>2. DealHandler(c) /\ call'[c].pc = "move"
    BY <1>1, <2>1, ContinueCall DEF LinkOrder, DealHandler, MoverKnows, DealPcs, Places
  <2> QED BY <2>1, <2>2, QuietStep
<1>2. ASSUME NEW c \in Calls, LookAgain(c) PROVE DealInv' /\ Among(DealPcs)
  <2>1. call[c].pc = "look" /\ UNCHANGED <<room, trail, evidence, faults>>
    BY <1>2 DEF LookAgain, At, dealVars
  <2>2. DealHandler(c) /\ call'[c].pc # "audit"
    <3>1. CASE Proceed(c)
      BY <2>1, <3>1, ProceedCall
    <3>2. CASE Return(c)
      BY <2>1, <3>2, ReturnCall DEF DealHandler, MoverKnows, DealPcs
    <3> QED BY <1>2, <3>1, <3>2 DEF LookAgain
  <2> QED BY <2>1, <2>2, QuietStep
<1>3. ASSUME NEW c \in Calls, AppendSystemEvidence(c) PROVE DealInv' /\ Among(DealPcs)
  <2>1. /\ call[c].pc = "note" /\ UNCHANGED <<room, trail, faults>> /\ Return(c)
        /\ evidence' = evidence \union {call[c].on}
    BY <1>3 DEF AppendSystemEvidence, At
  <2>2. DealHandler(c) /\ call'[c].pc = "idle"
    BY <2>1, ReturnCall DEF DealHandler, MoverKnows, DealPcs
  <2> QED BY <2>1, <2>2, QuietStep
<1> QED BY <1>1, <1>2, <1>3, ReadRoomKept, CasKept, RecordAuditKept DEF DealNext, DealStep

\* The path of a room whose handlers have all returned is written in its trail.
LEMMA DealsTrail == ASSUME DealInv PROVE TrailIsThePath
<1> SUFFICES ASSUME NEW r \in Rooms, faults = MaxFaults, \A c \in Calls : call[c].on # r
             PROVE  LET rows == trail[r]
                        reached(s) == \E i \in DOMAIN rows : rows[i].to = s IN
                    /\ \A i, j \in DOMAIN rows :
                        rows[i].from = rows[j].from \/ rows[i].to = rows[j].to => i = j
                    /\ \A s \in {room[r]} \union {rows[i].from : i \in DOMAIN rows} :
                        s # "CREATED" => reached(s)
                    /\ reached("DISPUTED") => r \in evidence
  BY DEF TrailIsThePath
<1>1. TrailOf(r) /\ \A c \in Calls : ~Auditing(c, r)
  BY DEF DealInv, Auditing
<1>2. \A s : Reached(r, s) => \E i \in DOMAIN trail[r] : trail[r][i].to = s
  BY <1>1 DEF Reached
<1>3. \A i, j \in DOMAIN trail[r] :
          trail[r][i].from = trail[r][j].from \/ trail[r][i].to = trail[r][j].to => i = j
  BY <1>1 DEF TrailOf, MovesDiffer
<1>4. \A s \in {room[r]} \union {trail[r][i].from : i \in DOMAIN trail[r]} :
          s # "CREATED" => \E i \in DOMAIN trail[r] : trail[r][i].to = s
  BY <1>1, <1>2 DEF TrailOf, MovesConnect
<1>5. (\E i \in DOMAIN trail[r] : trail[r][i].to = "DISPUTED") => r \in evidence
  BY <1>1 DEF TrailOf, DisputeNoted
<1> QED BY <1>3, <1>4, <1>5
-----------------------------------------------------------------------------
(* All of them together *)

Inv == CallOK /\ RulingsInv /\ PayoutInv /\ DealInv

\* The initial rows satisfy the invariant.
LEMMA InitInv == ASSUME Init PROVE Inv
<1> USE DEF Init, LedgerInit, DisputesInit, PayoutInit, DealInit
<1>1. CallOK /\ \A c \in Calls : call[c].pc = "idle"
  BY IdleType DEF CallOK
<1>2. RulingsInv
  <2>1. RulingsTyped
    BY DEF RulingsTyped, OrderStatus
  <2>2. \A o \in Orders : OrderKnows(o)
    BY DEF OrderKnows, Targets, Working, Earnable
  <2> QED BY <1>1, <2>1, <2>2 DEF RulingsInv, HandlerKnows, At
<1>3. PayoutInv
  BY <1>1 DEF PayoutInv, OneInside, Requesting, RequestKnows, At, OneOpenPerProcess, Open,
     InStatus, Rows
<1>4. DealInv
  <2>1. DealTyped
    BY LedgerAssumption DEF DealTyped, DealStatus
  <2>2. \A r \in Rooms : room[r] = "CREATED" /\ trail[r] = << >>
    OBVIOUS
  <2>3. ASSUME NEW r \in Rooms PROVE TrailOf(r)
    BY <1>1, <2>2 DEF TrailOf, MovesDiffer, MovesLead, MovesConnect, DisputeNoted, Auditing, At
  <2> QED BY <1>1, <2>1, <2>3 DEF DealInv, MoverKnows
<1> QED BY <1>1, <1>2, <1>3, <1>4 DEF Inv

\* No handler chooses another workload, and only deal rooms and losses count faults.
LEMMA LoadStays ==
    /\ DisputesNext => UNCHANGED <<load, faults>>
    /\ PayoutNext => UNCHANGED <<load, faults>>
    /\ DealNext => UNCHANGED load
<1>1. ASSUME DisputesNext PROVE UNCHANGED <<load, faults>>
  BY <1>1 DEF DisputesNext, ServiceNext, ServiceStep, DisputeStep, Capture,
     MarkServicePurchasePaid, Deliver, Close, Cancel, DisputeOrder, OrderOnly, CountRevisions,
     Accept, Revise, SettleServiceRevenue, Complete, Refund, ReadTarget, InsertDispute, Freeze,
     TransitionDispute, ApplyDecision, callVars
<1>2. ASSUME PayoutNext PROVE UNCHANGED <<load, faults>>
  BY <1>2 DEF PayoutNext, Request, Transition, RequestStep, CompletionStep, EnterRequest,
     GetOpenPayout, LookFor, ReadBalance, CreatePayout, EnterCompletion, ReadMarker,
     ApplyCompletion, Decided, Decide, callVars
<1>3. ASSUME DealNext PROVE UNCHANGED load
  BY <1>3 DEF DealNext, DealStep, ReadRoom, LinkOrder, CasTransition, LookAgain, RecordAudit,
     AppendSystemEvidence
<1> QED BY <1>1, <1>2, <1>3

\* Every step keeps the invariant.
LEMMA NextInv == ASSUME Inv, [Next]_vars PROVE Inv'
<1> USE DEF Inv
<1>1. CASE DisputesNext /\ UNCHANGED <<payoutVars, dealVars>>
  <2>1. RulingsInv' /\ Among(OrderPcs) /\ UNCHANGED <<load, faults>>
    BY <1>1, DisputesKept, LoadStays
  <2>2. PayoutInv'
    BY <1>1, <2>1, PayoutFrame DEF Among, OrderPcs, PayoutPcs, payoutVars
  <2>3. DealInv'
    BY <1>1, <2>1, DealFrame DEF Among, OrderPcs, DealPcs, dealVars
  <2> QED BY <2>1, <2>2, <2>3 DEF Among
<1>2. CASE PayoutNext /\ UNCHANGED <<orderVars, disputeVars, dealVars>>
  <2>1. PayoutInv' /\ Among(PayoutPcs) /\ UNCHANGED <<load, faults>>
    BY <1>2, PayoutsKept, LoadStays
  <2>2. RulingsInv'
    <3>1. \A o \in Orders : SettleId(o) \in ledger' => SettleId(o) \in ledger
      BY <1>2, PayoutsCreditNoOrder DEF Targets
    <3> QED BY <1>2, <2>1, <3>1, RulingsFrame DEF Among, OrderPcs, PayoutPcs, orderVars,
               disputeVars
  <2>3. DealInv'
    BY <1>2, <2>1, DealFrame DEF Among, PayoutPcs, DealPcs, dealVars
  <2> QED BY <2>1, <2>2, <2>3 DEF Among
<1>3. CASE DealNext /\ UNCHANGED <<ledgerVars, tradeVars>>
  <2>0. UNCHANGED <<status, disputes, captured, payouts, ledger>>
    BY <1>3 DEF ledgerVars, tradeVars, orderVars, disputeVars, payoutVars
  <2>1. DealInv' /\ Among(DealPcs) /\ UNCHANGED load
    BY <1>3, DealsKept, LoadStays
  <2>2. RulingsInv'
    BY <2>0, <2>1, RulingsFrame DEF Among, OrderPcs, DealPcs
  <2>3. PayoutInv'
    BY <2>0, <2>1, PayoutFrame DEF Among, PayoutPcs, DealPcs
  <2> QED BY <2>1, <2>2, <2>3 DEF Among
<1>4. CASE \E c \in Calls : Lose(c) /\ UNCHANGED <<tradeVars, dealVars>>
  <2>1. PICK c \in Calls : Lose(c) /\ UNCHANGED <<tradeVars, dealVars>>
    BY <1>4
  <2>2. /\ UNCHANGED <<load, status, disputes, captured, payouts, ledger, room, trail>>
        /\ Return(c) /\ faults > 0 /\ faults' = faults - 1
    BY <2>1 DEF Lose, ledgerVars, tradeVars, orderVars, disputeVars, payoutVars, dealVars
  <2>3. /\ CallOK' /\ call'[c].pc = "idle"
        /\ \A d \in Calls \ {c} : call'[d] = call[d]
    BY <2>2, ReturnCall
  <2>4. RulingsInv'
    BY <2>2, <2>3, RulingsFrame
  <2>5. PayoutInv'
    BY <2>2, <2>3, PayoutFrame
  <2>6. \A d \in Calls : MoverKnows(d)'
    BY <2>3 DEF DealInv, MoverKnows
  <2>7. DealInv'
    BY <2>2, <2>6, AfterLoss DEF DealInv, DealTyped
  <2> QED BY <2>3, <2>4, <2>5, <2>7
<1>5. CASE UNCHANGED vars
  <2>1. UNCHANGED <<load, call, faults, status, disputes, captured, payouts, ledger, room, trail,
                    evidence>>
    BY <1>5 DEF vars, callVars, ledgerVars, tradeVars, orderVars, disputeVars, payoutVars, dealVars
  <2>2. CallOK'
    BY <2>1 DEF CallOK
  <2> QED BY <2>1, <2>2, RulingsFrame, PayoutFrame, DealFrame
<1> QED BY <1>1, <1>2, <1>3, <1>4, <1>5 DEF Next

\* The invariant holds of every behaviour.
THEOREM Invariant == Spec => []Inv
BY InitInv, NextInv, PTL DEF Spec

\* The seller of a priced order is credited only for accepted work that was paid for, or
\* that a dispute was decided in favour of (services.ts, disputes.ts).
THEOREM CreditIsAlwaysEarned == Spec => []CreditIsEarned
<1>1. Inv => CreditIsEarned
  BY RulingsCredit DEF Inv
<1> QED BY <1>1, Invariant, PTL

\* One open payout per backend process (payouts.ts).
THEOREM OneOpenAtATime == Spec => []OneOpenPerProcess
<1>1. Inv => OneOpenPerProcess
  BY DEF Inv, PayoutInv
<1> QED BY <1>1, Invariant, PTL

\* The audit rows of a room are the path it took (deals.ts).
THEOREM TrailIsAlwaysThePath == Spec => []TrailIsThePath
<1>1. Inv => TrailIsThePath
  BY DealsTrail DEF Inv
<1> QED BY <1>1, Invariant, PTL

\* Only the decision of a dispute thaws what it froze (disputes.ts).
THEOREM RulingsAloneThaw == Spec => OnlyRulingsThaw
<1>1. ASSUME Inv, [Next]_vars
      PROVE  [\A t \in Targets : status[t] = "DISPUTED" /\ status'[t] # "DISPUTED" =>
                 \E i \in DOMAIN disputes[t] :
                     /\ disputes[t][i] \in Decisions
                     /\ status'[t] = Outcome(t, disputes[t][i])]_<<status, disputes>>
  <2>1. CASE DisputesNext
    BY <1>1, <2>1, ThawStep DEF Inv
  <2>2. CASE UNCHANGED status
    BY <2>2
  <2>3. DisputesNext \/ UNCHANGED status
    BY <1>1 DEF Next, vars, tradeVars, orderVars
  <2> QED BY <2>1, <2>2, <2>3
<1> QED BY <1>1, Invariant, PTL DEF Spec, OnlyRulingsThaw
-----------------------------------------------------------------------------
(* The balance *)

\* Finitely many settlements and refunds have been posted; a purchase that was settled
\* does not wait for its payment any more; and the balance is what they add up to.
SettledPurchases == \A p \in Purchases : SettleId(p) \in ledger => status[p] # "PENDING"
BalanceInv ==
    /\ available \in Int
    /\ IsFiniteSet(Earned) /\ IsFiniteSet(TakenBack)
    /\ SettledPurchases
    /\ BalanceIsEarned

\* The payouts that are completed, and what they paid, stay as they are.
PaidRowsStay ==
    /\ payouts' \in Seq(PayoutType)
    /\ InStatus("COMPLETED")' = InStatus("COMPLETED")
    /\ \A p \in InStatus("COMPLETED") : payouts'[p].amount = payouts[p].amount

\* The ids of settlements, refunds and payouts differ.
LEMMA IdsDiffer ==
    /\ \A t, u \in Targets : SettleId(t) = SettleId(u) => t = u
    /\ \A t, u \in Targets : RefundId(t) = RefundId(u) => t = u
    /\ \A t, u \in Targets : SettleId(t) # RefundId(u)
    /\ \A t \in Targets : SettleId(t) \notin TxnIds /\ RefundId(t) \notin TxnIds
BY ManualAssumption DEF SettleId, RefundId, TxnIds, PayoutId

\* Finitely many payouts are completed, and each took an amount.
LEMMA PaidIsFinite ==
    ASSUME payouts \in Seq(PayoutType)
    PROVE  /\ IsFiniteSet(InStatus("COMPLETED")) /\ InStatus("COMPLETED") \subseteq Rows
           /\ \A p \in Rows : payouts[p].amount \in Nat
           /\ PaidOut \in Nat
<1>1. Rows = 1 .. Len(payouts) /\ Len(payouts) \in Nat
  BY DEF Rows
<1>2. IsFiniteSet(Rows)
  BY <1>1, FS_Interval
<1>3. InStatus("COMPLETED") \subseteq Rows
  BY DEF InStatus
<1>4. IsFiniteSet(InStatus("COMPLETED"))
  BY <1>2, <1>3, FS_Subset
<1>5. ASSUME NEW p \in Rows PROVE payouts[p].amount \in Nat
  <2>1. payouts[p] \in PayoutType
    BY DEF Rows
  <2> QED BY <2>1 DEF PayoutType
<1> DEFINE f == [p \in Rows |-> payouts[p].amount]
           S == InStatus("COMPLETED")
<1>6. \A p \in S : f[p] \in Nat
  BY <1>3, <1>5
<1>7. PaidOut = SumFunctionOnSet(f, S)
  BY DEF PaidOut
<1> HIDE DEF f, S
<1>8. PaidOut \in Nat
  <2>1. IsFiniteSet(S)
    BY <1>4 DEF S
  <2> QED BY <1>6, <1>7, <2>1, SumOfNaturals
<1> QED BY <1>3, <1>4, <1>5, <1>8

\* Nothing more is paid out while the completed payouts stay as they are.
LEMMA PaidStays ==
    ASSUME payouts \in Seq(PayoutType), PaidRowsStay
    PROVE  PaidOut' = PaidOut
<1> DEFINE f == [p \in Rows |-> payouts[p].amount]
           g == [p \in Rows' |-> payouts'[p].amount]
           S == InStatus("COMPLETED")
<1>1. S \subseteq Rows /\ S \subseteq Rows' /\ IsFiniteSet(S)
  BY PaidIsFinite DEF PaidRowsStay, InStatus
<1>2. \A p \in S : f[p] = g[p]
  BY <1>1 DEF PaidRowsStay
<1>3. PaidOut = SumFunctionOnSet(f, S) /\ PaidOut' = SumFunctionOnSet(g, S)
  BY DEF PaidOut, PaidRowsStay
<1> HIDE DEF f, g, S
<1> QED BY <1>1, <1>2, <1>3, SameSum

\* A completion pays the amount of its row.
LEMMA PaidMore ==
    ASSUME payouts \in Seq(PayoutType), payouts' \in Seq(PayoutType), NEW d \in Rows,
           d \notin InStatus("COMPLETED"), Rows' = Rows,
           \A p \in Rows : payouts'[p].amount = payouts[p].amount,
           InStatus("COMPLETED")' = InStatus("COMPLETED") \union {d}
    PROVE  PaidOut' = PaidOut + payouts[d].amount
<1> DEFINE f == [p \in Rows |-> payouts[p].amount]
           g == [p \in Rows' |-> payouts'[p].amount]
           S == InStatus("COMPLETED")
<1>1. /\ S \subseteq Rows /\ IsFiniteSet(S) /\ PaidOut \in Int
      /\ \A p \in Rows : payouts[p].amount \in Int
  BY PaidIsFinite
<1>2. /\ \A p \in S : f[p] \in Int /\ g[p] = f[p]
      /\ g[d] = payouts[d].amount /\ g[d] \in Int
  BY <1>1
<1>3. PaidOut = SumFunctionOnSet(f, S) /\ PaidOut' = SumFunctionOnSet(g, S \union {d})
  BY DEF PaidOut
<1>4. d \notin S
  OBVIOUS
<1> HIDE DEF f, g, S
<1>5. SumFunctionOnSet(g, S \union {d}) = g[d] + SumFunctionOnSet(f, S)
  BY <1>1, <1>2, <1>4, SumOfMore
<1> QED BY <1>1, <1>2, <1>3, <1>5

\* What a set that grows by one adds.
LEMMA OneMore ==
    ASSUME NEW S, IsFiniteSet(S), NEW t, t \notin S
    PROVE  IsFiniteSet(S \union {t}) /\ SumOf(S \union {t}) = SumOf(S) + Revenue
<1>1. IsFiniteSet(S \union {t}) /\ Cardinality(S \union {t}) = Cardinality(S) + 1
      /\ Cardinality(S) \in Nat
  BY FS_AddElement, FS_CardinalityType
<1>2. PICK n \in Nat : n = Cardinality(S) /\ Cardinality(S \union {t}) = n + 1
  BY <1>1
<1>3. Revenue * (n + 1) = Revenue * n + Revenue
  BY OrderAssumption
<1> QED BY <1>1, <1>2, <1>3, Zenon DEF SumOf

\* No purchase goes back to waiting for its payment.
NobodyWaitsAgain == \A p \in Purchases : status'[p] = "PENDING" => status[p] = "PENDING"

\* A step that posts nothing and completes no payout.
LEMMA NothingPosted ==
    ASSUME BalanceInv, PayoutInv, PaidRowsStay, NobodyWaitsAgain, UNCHANGED ledgerVars
    PROVE  BalanceInv'
<1>1. PaidOut' = PaidOut
  BY PaidStays DEF PayoutInv
<1>2. Earned' = Earned /\ TakenBack' = TakenBack /\ available' = available
  BY DEF Earned, TakenBack, ledgerVars
<1>3. SettledPurchases'
  BY DEF BalanceInv, SettledPurchases, NobodyWaitsAgain, ledgerVars
<1> QED BY <1>1, <1>2, <1>3 DEF BalanceInv, BalanceIsEarned, SumOf

\* A settlement adds its target to what was earned.
LEMMA SettlementPosted ==
    ASSUME BalanceInv, PayoutInv, PaidRowsStay, NobodyWaitsAgain, NEW t \in Targets,
           SettleId(t) \notin ledger, Apply(SettleId(t), Revenue),
           t \in Purchases => status'[t] # "PENDING"
    PROVE  BalanceInv'
<1>1. PaidOut' = PaidOut /\ PaidOut \in Int
  BY PaidStays, PaidIsFinite DEF PayoutInv
<1>2. /\ available' = available + Revenue
      /\ ledger' = ledger \union {SettleId(t)}
  BY DEF Apply, Post
<1>3. /\ Earned' = Earned \union {t} /\ t \notin Earned
      /\ TakenBack' = TakenBack
  BY <1>2, IdsDiffer DEF Earned, TakenBack, Targets
<1>4. IsFiniteSet(Earned)' /\ SumOf(Earned)' = SumOf(Earned) + Revenue
  BY <1>3, OneMore DEF BalanceInv, SumOf
<1>5. SettledPurchases'
  <2>1. \A p \in Purchases : SettleId(p) \in ledger' => SettleId(p) \in ledger \/ p = t
    BY <1>2, IdsDiffer DEF Targets
  <2> QED BY <2>1 DEF BalanceInv, SettledPurchases, NobodyWaitsAgain
<1>6. IsFiniteSet(TakenBack)' /\ SumOf(TakenBack)' = SumOf(TakenBack)
  BY <1>3 DEF BalanceInv, SumOf
<1>7. SumOf(Earned) \in Int /\ SumOf(TakenBack) \in Int /\ Revenue \in Int
  BY OrderAssumption, FS_CardinalityType DEF BalanceInv, SumOf
<1>8. available' \in Int /\ BalanceIsEarned'
  <2>1. available \in Int /\ available = SumOf(Earned) - SumOf(TakenBack) - PaidOut
    BY DEF BalanceInv, BalanceIsEarned
  <2>2. available' = SumOf(Earned)' - SumOf(TakenBack)' - PaidOut'
    BY <1>1, <1>2, <1>4, <1>6, <1>7, <2>1
  <2> QED BY <1>2, <1>7, <2>1, <2>2 DEF BalanceIsEarned
<1> QED BY <1>4, <1>5, <1>6, <1>8 DEF BalanceInv

\* A refund adds its purchase to what was taken back.
LEMMA RefundPosted ==
    ASSUME BalanceInv, PayoutInv, PaidRowsStay, NobodyWaitsAgain, NEW p \in Purchases,
           RefundId(p) \notin ledger, Apply(RefundId(p), -Revenue)
    PROVE  BalanceInv'
<1>1. PaidOut' = PaidOut /\ PaidOut \in Int
  BY PaidStays, PaidIsFinite DEF PayoutInv
<1>2. /\ available' = available + -Revenue
      /\ ledger' = ledger \union {RefundId(p)}
  BY DEF Apply, Post
<1>3. /\ TakenBack' = TakenBack \union {p} /\ p \notin TakenBack
      /\ Earned' = Earned
  BY <1>2, IdsDiffer DEF Earned, TakenBack, Targets
<1>4. IsFiniteSet(TakenBack)' /\ SumOf(TakenBack)' = SumOf(TakenBack) + Revenue
  BY <1>3, OneMore DEF BalanceInv, SumOf
<1>5. SettledPurchases'
  <2>1. \A q \in Purchases : SettleId(q) \in ledger' => SettleId(q) \in ledger
    BY <1>2, IdsDiffer DEF Targets
  <2> QED BY <2>1 DEF BalanceInv, SettledPurchases, NobodyWaitsAgain
<1>6. IsFiniteSet(Earned)' /\ SumOf(Earned)' = SumOf(Earned)
  BY <1>3 DEF BalanceInv, SumOf
<1>7. SumOf(Earned) \in Int /\ SumOf(TakenBack) \in Int /\ Revenue \in Int
  BY OrderAssumption, FS_CardinalityType DEF BalanceInv, SumOf
<1>8. available' \in Int /\ BalanceIsEarned'
  <2>1. available \in Int /\ available = SumOf(Earned) - SumOf(TakenBack) - PaidOut
    BY DEF BalanceInv, BalanceIsEarned
  <2>2. available' = SumOf(Earned)' - SumOf(TakenBack)' - PaidOut'
    BY <1>1, <1>2, <1>4, <1>6, <1>7, <2>1
  <2> QED BY <1>2, <1>7, <2>1, <2>2 DEF BalanceIsEarned
<1> QED BY <1>4, <1>5, <1>6, <1>8 DEF BalanceInv

\* A completion pays once what its row asks for, whoever else completes it: the update
\* of the row admits one of them.
LEMMA CompletionPosted ==
    ASSUME BalanceInv, PayoutInv, NEW c \in Calls, ApplyCompletion(c), UNCHANGED status
    PROVE  BalanceInv'
<1> DEFINE d == call[c].nr
           id == call[c].seen
<1>0. d \in Rows /\ id \in TxnIds /\ payouts \in Seq(PayoutType) /\ NobodyWaitsAgain
  BY DEF PayoutInv, RequestKnows, ApplyCompletion, At, NobodyWaitsAgain
<1>1. CASE UNCHANGED <<ledgerVars, payoutVars>>
  <2>1. PaidRowsStay
    BY <1>0, <1>1 DEF PaidRowsStay, payoutVars, InStatus, Rows
  <2> QED BY <1>0, <1>1, <2>1, NothingPosted DEF ledgerVars
<1>2. CASE /\ payouts[d].status = "PROCESSING" /\ payouts' = Completed(d, id)
           /\ Apply(id, -payouts[d].amount)
  <2> DEFINE row == [payouts[d] EXCEPT !.status = "COMPLETED", !.txn = id]
  <2>1. payouts[d] \in PayoutType
    BY <1>0 DEF Rows
  <2>2. row \in PayoutType /\ row.status = "COMPLETED" /\ row.amount = payouts[d].amount
    BY <1>0, <2>1 DEF PayoutType, PayoutStatus
  <2>3. payouts' = [payouts EXCEPT ![d] = row]
    BY <1>2 DEF Completed
  <2> HIDE DEF row, d, id
  <2>4. /\ payouts' \in Seq(PayoutType) /\ Rows' = Rows
        /\ \A p \in Rows : payouts'[p] = IF p = d THEN row ELSE payouts[p]
    BY <1>0, <2>2, <2>3 DEF Rows
  <2>5. /\ InStatus("COMPLETED")' = InStatus("COMPLETED") \union {d}
        /\ d \notin InStatus("COMPLETED")
        /\ \A p \in Rows : payouts'[p].amount = payouts[p].amount
    BY <1>0, <1>2, <2>2, <2>4 DEF InStatus
  <2>6. PaidOut' = PaidOut + payouts[d].amount
    BY <1>0, <2>4, <2>5, PaidMore
  <2>7. available' = available + -payouts[d].amount /\ ledger' = ledger \union {id}
    BY <1>2 DEF Apply, Post, d, id
  <2>8. Earned' = Earned /\ TakenBack' = TakenBack
    BY <1>0, <2>7, IdsDiffer DEF Earned, TakenBack, Targets
  <2>9. SettledPurchases'
    <3>1. \A q \in Purchases : SettleId(q) \in ledger' => SettleId(q) \in ledger
      BY <1>0, <2>7, IdsDiffer DEF Targets
    <3> QED BY <1>0, <3>1 DEF BalanceInv, SettledPurchases, NobodyWaitsAgain
  <2>10. /\ SumOf(Earned) \in Int /\ SumOf(TakenBack) \in Int /\ payouts[d].amount \in Int
         /\ PaidOut \in Int
    BY <1>0, PaidIsFinite, OrderAssumption, FS_CardinalityType DEF BalanceInv, SumOf
  <2>11. SumOf(Earned)' = SumOf(Earned) /\ SumOf(TakenBack)' = SumOf(TakenBack)
    BY <2>8 DEF SumOf
  <2>12. available' \in Int /\ BalanceIsEarned'
    <3>1. available \in Int /\ available = SumOf(Earned) - SumOf(TakenBack) - PaidOut
      BY DEF BalanceInv, BalanceIsEarned
    <3>2. available' = SumOf(Earned)' - SumOf(TakenBack)' - PaidOut'
      BY <2>6, <2>7, <2>10, <2>11, <3>1
    <3> QED BY <2>7, <2>10, <3>1, <3>2 DEF BalanceIsEarned
  <2> QED BY <2>8, <2>9, <2>12 DEF BalanceInv
<1> QED BY <1>1, <1>2 DEF ApplyCompletion

\* The payouts' other steps complete none.
LEMMA UnpaidStep ==
    ASSUME PayoutInv, PayoutInv', PayoutNext, \A c \in Calls : ~ApplyCompletion(c)
    PROVE  PaidRowsStay /\ UNCHANGED ledgerVars
<1>0. payouts \in Seq(PayoutType) /\ payouts' \in Seq(PayoutType)
  BY DEF PayoutInv
<1>1. CASE UNCHANGED payouts /\ UNCHANGED ledgerVars
  BY <1>0, <1>1 DEF PaidRowsStay, InStatus, Rows
<1>2. CASE \E c \in Calls : CreatePayout(c)
  <2>1. PICK new : payouts' = Append(payouts, new) /\ new.status = "PENDING"
    BY <1>2 DEF CreatePayout
  <2>2. /\ Rows' = Rows \union {Len(payouts) + 1}
        /\ \A p \in Rows : payouts'[p] = payouts[p]
        /\ payouts'[Len(payouts) + 1] = new
    BY <1>0, <2>1 DEF Rows
  <2>3. InStatus("COMPLETED")' = InStatus("COMPLETED")
    BY <2>1, <2>2 DEF InStatus
  <2> QED BY <1>0, <1>2, <2>2, <2>3 DEF PaidRowsStay, InStatus, CreatePayout
<1>3. CASE \E p \in Rows : Decided(p)
  <2>1. PICK p \in Rows, to \in PayoutStatus \ {"COMPLETED"} :
            /\ payouts' = [payouts EXCEPT ![p].status = to]
            /\ payouts[p].status # "COMPLETED"
    BY <1>3 DEF Decided, Decide, PayoutStatus
  <2>2. payouts[p] \in PayoutType
    BY <1>0 DEF Rows
  <2> DEFINE row == [payouts[p] EXCEPT !.status = to]
  <2>3. row.status = to /\ row.amount = payouts[p].amount
    BY <2>2 DEF PayoutType
  <2>4. payouts' = [payouts EXCEPT ![p] = row]
    BY <2>1
  <2> HIDE DEF row
  <2>5. Rows' = Rows /\ \A q \in Rows : payouts'[q] = IF q = p THEN row ELSE payouts[q]
    BY <1>0, <2>4 DEF Rows
  <2> QED BY <1>0, <1>3, <2>1, <2>3, <2>5 DEF PaidRowsStay, InStatus, Decided, Decide
<1> QED BY <1>1, <1>2, <1>3 DEF PayoutNext, Request, Transition, RequestStep, CompletionStep,
           EnterRequest, GetOpenPayout, LookFor, ReadBalance, EnterCompletion, ReadMarker,
           payoutVars

\* No step of an order or a dispute makes a purchase wait for its payment.
LEMMA NobodyWaits ==
    ASSUME RulingsInv, DisputesNext
    PROVE  NobodyWaitsAgain
<1>0. status \in [Targets -> OrderStatus] /\ \A p \in Purchases : p \in Targets
  BY DEF RulingsInv, RulingsTyped, Targets
<1>1. \/ UNCHANGED status
      \/ \E t \in Targets : \E to \in OrderStatus \ {"PENDING"} :
            status' = [status EXCEPT ![t] = to]
  <2>1. ASSUME ServiceNext
        PROVE  \/ UNCHANGED status
               \/ \E t \in Orders : \E to \in OrderStatus \ {"PENDING"} :
                     status' = [status EXCEPT ![t] = to]
    <3>1. \A c \in Calls : At(c, "revise") => call[c].on \in Orders
      BY DEF RulingsInv, HandlerKnows
    <3> QED BY <2>1, <3>1 DEF ServiceNext, Capture, MarkServicePurchasePaid, Deliver, Close,
               Cancel, DisputeOrder, CountRevisions, Accept, ServiceStep, Revise,
               SettleServiceRevenue, Move, OrderOnly, orderVars, OrderStatus
  <2>2. ASSUME NEW p \in Purchases, Complete(p) \/ Refund(p)
        PROVE  \/ UNCHANGED status
               \/ \E to \in OrderStatus \ {"PENDING"} : status' = [status EXCEPT ![p] = to]
    BY <1>0, <2>2 DEF Complete, Refund, Move, OrderStatus
  <2>3. ASSUME NEW c \in Calls, DisputeStep(c)
        PROVE  \/ UNCHANGED status
               \/ \E t \in Targets : \E to \in OrderStatus \ {"PENDING"} :
                     status' = [status EXCEPT ![t] = to]
    <3>1. At(c, "freeze") \/ At(c, "effect") => call[c].on \in Targets
      BY DEF RulingsInv, HandlerKnows
    <3>2. \A t, d : Outcome(t, d) \in OrderStatus \ {"PENDING"}
      BY DEF Outcome, OrderStatus
    <3> QED BY <2>3, <3>1, <3>2 DEF DisputeStep, InsertDispute, Freeze, ApplyDecision, Move,
               orderVars, OrderStatus
  <2>4. ASSUME NEW c \in Calls, NEW t \in Targets,
               \/ ReadTarget(c, t)
               \/ \E i \in DOMAIN disputes[t], next \in DisputeStatus :
                      TransitionDispute(c, t, i, next)
        PROVE  UNCHANGED status
    BY <2>4 DEF ReadTarget, TransitionDispute, orderVars
  <2> QED BY <2>1, <2>2, <2>3, <2>4 DEF DisputesNext, Targets
<1> QED BY <1>0, <1>1 DEF NobodyWaitsAgain

\* Every step of an order, a purchase or a dispute keeps the balance.
LEMMA DisputesBalance ==
    ASSUME BalanceInv, RulingsInv, PayoutInv, DisputesNext, UNCHANGED payouts
    PROVE  BalanceInv'
<1>0. PaidRowsStay /\ NobodyWaitsAgain
  BY NobodyWaits DEF PaidRowsStay, PayoutInv, InStatus, Rows
<1>1. CASE UNCHANGED ledgerVars
  BY <1>0, <1>1, NothingPosted
<1>2. CASE \E c \in Calls : SettleServiceRevenue(c)
  <2>1. PICK c \in Calls : SettleServiceRevenue(c)
    BY <1>2
  <2>2. call[c].on \in Orders
    BY <2>1 DEF SettleServiceRevenue, RulingsInv, HandlerKnows
  <2>3. call[c].on \in Targets /\ call[c].on \notin Purchases
    BY <2>2, DisputeAssumption DEF Targets
  <2>4. CASE ~UNCHANGED ledgerVars
    <3>1. SettleId(call[c].on) \notin ledger /\ Apply(SettleId(call[c].on), Revenue)
      BY <2>1, <2>4 DEF SettleServiceRevenue, RevenueOf
    <3> QED BY <1>0, <2>3, <3>1, SettlementPosted
  <2> QED BY <1>1, <2>4
<1>3. CASE \E p \in Purchases : Complete(p)
  <2>1. PICK p \in Purchases : Complete(p)
    BY <1>3
  <2>2. p \in Targets /\ status \in [Targets -> OrderStatus]
    BY DEF Targets, RulingsInv, RulingsTyped
  <2>3. /\ SettleId(p) \notin ledger /\ Apply(SettleId(p), Revenue)
        /\ status'[p] # "PENDING"
    BY <2>1, <2>2 DEF Complete, Move, BalanceInv, SettledPurchases
  <2> QED BY <1>0, <2>2, <2>3, SettlementPosted
<1>4. CASE \E p \in Purchases : Refund(p)
  BY <1>0, <1>4, RefundPosted DEF Refund
<1> QED BY <1>1, <1>2, <1>3, <1>4 DEF DisputesNext, ServiceNext, Capture,
           MarkServicePurchasePaid, Deliver, Close, Cancel, DisputeOrder, OrderOnly,
           CountRevisions, Accept, ServiceStep, Revise, DisputeStep, ReadTarget,
           TransitionDispute, InsertDispute, Freeze, ApplyDecision

\* Every step of a payout keeps the balance.
LEMMA PayoutsBalance ==
    ASSUME BalanceInv, PayoutInv, PayoutInv', PayoutNext, UNCHANGED status
    PROVE  BalanceInv'
<1>1. CASE \E c \in Calls : ApplyCompletion(c)
  BY <1>1, CompletionPosted
<1>2. CASE \A c \in Calls : ~ApplyCompletion(c)
  <2>1. NobodyWaitsAgain
    BY DEF NobodyWaitsAgain
  <2> QED BY <1>2, <2>1, UnpaidStep, NothingPosted
<1> QED BY <1>1, <1>2

\* The balance is what its postings say in every behaviour, whoever completes a payout,
\* settles an order or refunds a purchase at the same time.
THEOREM BalanceInvariant == Spec => []BalanceInv
<1>1. ASSUME Init PROVE BalanceInv
  <2>1. /\ Earned = {} /\ TakenBack = {} /\ available = 0
        /\ InStatus("COMPLETED") = {} /\ ledger = {}
    BY <1>1 DEF Init, LedgerInit, PayoutInit, Earned, TakenBack, InStatus, Rows
  <2>2. PaidOut = 0
    BY <2>1, SumOfNothing DEF PaidOut
  <2>3. SumOf(Earned) = 0 /\ SumOf(TakenBack) = 0
    BY <2>1, FS_EmptySet, OrderAssumption DEF SumOf
  <2>4. BalanceIsEarned
    BY <2>1, <2>2, <2>3 DEF BalanceIsEarned
  <2>5. SettledPurchases
    BY <2>1 DEF SettledPurchases
  <2> QED BY <2>1, <2>4, <2>5, FS_EmptySet DEF BalanceInv
<1>2. ASSUME Inv, Inv', BalanceInv, [Next]_vars PROVE BalanceInv'
  <2>1. CASE DisputesNext /\ UNCHANGED <<payoutVars, dealVars>>
    BY <1>2, <2>1, DisputesBalance DEF Inv, payoutVars
  <2>2. CASE PayoutNext /\ UNCHANGED <<orderVars, disputeVars, dealVars>>
    BY <1>2, <2>2, PayoutsBalance DEF Inv, orderVars
  <2>3. CASE UNCHANGED <<ledgerVars, tradeVars>>
    <3>1. PaidRowsStay /\ NobodyWaitsAgain
      BY <1>2, <2>3 DEF Inv, PayoutInv, PaidRowsStay, NobodyWaitsAgain, tradeVars, payoutVars,
         orderVars, InStatus, Rows
    <3> QED BY <1>2, <2>3, <3>1, NothingPosted DEF Inv
  <2> QED BY <1>2, <2>1, <2>2, <2>3 DEF Next, Lose, vars
<1> QED BY <1>1, <1>2, Invariant, PTL DEF Spec

\* The available balance is the revenue of the settled orders and purchases, less the
\* refunded purchases and each completed payout once (ledger.ts, payouts.ts).
THEOREM BalanceIsAlwaysEarned == Spec => []BalanceIsEarned
<1>1. BalanceInv => BalanceIsEarned
  BY DEF BalanceInv
<1> QED BY <1>1, BalanceInvariant, PTL
=============================================================================
