--------------------------------- MODULE Deals ---------------------------------
(***************************************************************************)
(* lib/deals.ts: protected deal rooms.  A transition reads the room, moves *)
(* it by a compare-and-set on the status it read, and records the move in  *)
(* the audit log and among the room's evidence afterwards.  A room posts   *)
(* nothing to a ledger.                                                    *)
(***************************************************************************)
EXTENDS SellerLedger

CONSTANT Rooms        \* deal rooms, from their creation on

VARIABLES
    room,         \* DealRoom.status
    linked,       \* rooms with an orderId
    trail,        \* the deal_transitioned rows of the audit log, in order
    evidence      \* rooms with the DealEvidence row of a dispute; optional notes are left out

dealVars == <<room, linked, trail, evidence>>

PartyTransitions ==
    {<<"buyer", "CREATED", "FUNDED">>, <<"seller", "FUNDED", "DELIVERING">>,
     <<"seller", "DELIVERING", "DELIVERED">>, <<"buyer", "DELIVERED", "ACCEPTED">>}
Roles == {"buyer", "seller", "admin"}
DealStatus ==
    {"CREATED", "FUNDED", "DELIVERING", "DELIVERED", "ACCEPTED", "DISPUTED",
     "RESOLVED", "CLOSED"}

\* Which moves a role may ask for; an administrator may also act for a party, but
\* opens no dispute.
MayMove(role, from, to) ==
    \/ \E party \in {role} \union (IF role = "admin" THEN Roles ELSE {}) :
        <<party, from, to>> \in PartyTransitions
    \/ to = "DISPUTED" /\ role # "admin" /\ from \notin {"DISPUTED", "RESOLVED", "CLOSED"}
    \/ to = "RESOLVED" /\ role = "admin" /\ from = "DISPUTED"
    \/ to = "CLOSED" /\ from # "CLOSED" /\ (role = "admin" \/ from = "RESOLVED")

\* Acceptance may go on to resolve and close the room.
MayGoOn(to) == IF to = "ACCEPTED" THEN {<< >>, <<"RESOLVED", "CLOSED">>} ELSE {<< >>}

DealInit ==
    /\ room = [r \in Rooms |-> "CREATED"] /\ linked = {}
    /\ trail = [r \in Rooms |-> << >>] /\ evidence = {}
-----------------------------------------------------------------------------
(* POST /deals/:id/transition *)

ReadRoom(c, r, to) ==
    /\ Occurs("deal") /\ r \in load.targets
    /\ \E role \in Roles : MayMove(role, room[r], to)
    /\ \E rest \in MayGoOn(to), link \in BOOLEAN :
        /\ link => to = "FUNDED" /\ r \notin linked
        /\ Begin(c, [Idle EXCEPT !.pc = IF link THEN "link" ELSE "move", !.on = r,
                        !.seen = [from |-> room[r], to |-> to, rest |-> rest]])
    /\ UNCHANGED <<load, faults, dealVars>>

\* The order is linked before the room is moved, and stays linked if it is not.
LinkOrder(c) ==
    /\ At(c, "link") /\ Continue(c, "move")
    /\ linked' = linked \union {call[c].on}
    /\ UNCHANGED <<load, faults, room, trail, evidence>>

\* Mutant: the room is moved whatever became of it since it was read.
MoveUnguarded(c) ==
    /\ At(c, "move") /\ Continue(c, "audit")
    /\ room' = [room EXCEPT ![call[c].on] = call[c].seen.to]
    /\ UNCHANGED <<load, faults, linked, trail, evidence>>

\* casTransition: the room moves if it is still as it was read.
CasTransition(c) ==
    LET r == call[c].on  move == call[c].seen IN
    /\ At(c, "move")
    /\ \/ /\ room[r] = move.from /\ Continue(c, "audit")
          /\ room' = [room EXCEPT ![r] = move.to]
       \/ room[r] # move.from /\ Continue(c, "look") /\ UNCHANGED room
    /\ UNCHANGED <<load, faults, linked, trail, evidence>>

\* What remains of a request once its move is made, by this call or another.
Proceed(c) ==
    LET move == call[c].seen IN
    CASE move.to = "DISPUTED" -> Continue(c, "note")
      [] move.rest # << >> ->
            call' = [call EXCEPT ![c].pc = "move",
                        ![c].seen = [move EXCEPT !.from = move.to, !.to = Head(move.rest),
                                                 !.rest = Tail(move.rest)]]
      [] OTHER -> Return(c)

\* A lost race is a success if the room is where the caller wanted it.
LookAgain(c) ==
    /\ At(c, "look")
    /\ IF room[call[c].on] = call[c].seen.to THEN Proceed(c) ELSE Return(c)
    /\ UNCHANGED <<load, faults, dealVars>>

\* recordAudit: a row that cannot be written is logged and the request goes on.
RecordAudit(c) ==
    LET move == call[c].seen IN
    /\ At(c, "audit") /\ Proceed(c)
    /\ \/ /\ trail' = [trail EXCEPT ![call[c].on] =
                            Append(@, [from |-> move.from, to |-> move.to])]
          /\ UNCHANGED faults
       \/ faults > 0 /\ faults' = faults - 1 /\ UNCHANGED trail
    /\ UNCHANGED <<load, room, linked, evidence>>

AppendSystemEvidence(c) ==
    /\ At(c, "note") /\ Return(c)
    /\ evidence' = evidence \union {call[c].on}
    /\ UNCHANGED <<load, faults, room, linked, trail>>

DealStep(c) ==
    \/ LinkOrder(c) \/ CasTransition(c) \/ LookAgain(c)
    \/ RecordAudit(c) \/ AppendSystemEvidence(c)
DealNext ==
    \E c \in Calls :
        \/ \E r \in Rooms, to \in DealStatus : ReadRoom(c, r, to)
        \/ DealStep(c)
-----------------------------------------------------------------------------
(* Property *)

\* When no call is under way and nothing was lost, a room's audit rows are the path it
\* took: one row for each move, whoever raced for it, from CREATED to where it is;
\* and a room that was disputed has the evidence of it.
TrailIsThePath ==
    \A r \in Rooms :
        LET rows == trail[r]
            reached(s) == \E i \in DOMAIN rows : rows[i].to = s IN
        faults = MaxFaults /\ (\A c \in Calls : call[c].on # r) =>
            /\ \A i, j \in DOMAIN rows :
                rows[i].from = rows[j].from \/ rows[i].to = rows[j].to => i = j
            /\ \A s \in {room[r]} \union {rows[i].from : i \in DOMAIN rows} :
                s # "CREATED" => reached(s)
            /\ reached("DISPUTED") => r \in evidence
=============================================================================
