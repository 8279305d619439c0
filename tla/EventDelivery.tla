---------------------------- MODULE EventDelivery ----------------------------
(***************************************************************************)
(* What the outbox promises to the domain action that writes an event: the *)
(* event is acknowledged only after a handler ran for it, it is tried a    *)
(* bounded number of times and handled at most once per try, it is given   *)
(* up only when the tries are used up, and its fate is final.              *)
(***************************************************************************)
EXTENDS Naturals

CONSTANTS Events, MaxAttempts

VARIABLES
    fate,     \* "none", "open", "done" (acknowledged), "dead", "gone" (pruned)
    tries,
    runs      \* how often a handler ran to its end, by event and try

vars == <<fate, tries, runs>>

Emit(e) ==
    /\ fate[e] = "none"
    /\ fate' = [fate EXCEPT ![e] = "open"]
    /\ UNCHANGED <<tries, runs>>

Try(e) ==
    /\ fate[e] = "open" /\ tries[e] < MaxAttempts
    /\ tries' = [tries EXCEPT ![e] = @ + 1]
    /\ UNCHANGED <<fate, runs>>

\* A handler may still be running when another try has settled the event.
Run(e) ==
    /\ \E n \in 1 .. tries[e] :
         /\ runs[e][n] = 0
         /\ runs' = [runs EXCEPT ![e][n] = 1]
    /\ UNCHANGED <<fate, tries>>

Acknowledge(e) ==
    /\ fate[e] = "open"
    /\ \E n \in 1 .. tries[e] : runs[e][n] > 0
    /\ fate' = [fate EXCEPT ![e] = "done"]
    /\ UNCHANGED <<tries, runs>>

GiveUp(e) ==
    /\ fate[e] = "open" /\ tries[e] = MaxAttempts
    /\ fate' = [fate EXCEPT ![e] = "dead"]
    /\ UNCHANGED <<tries, runs>>

Forget(e) ==
    /\ fate[e] \in {"done", "dead"}
    /\ fate' = [fate EXCEPT ![e] = "gone"]
    /\ UNCHANGED <<tries, runs>>

Init ==
    /\ fate = [e \in Events |-> "none"]
    /\ tries = [e \in Events |-> 0]
    /\ runs = [e \in Events |-> [n \in 1 .. MaxAttempts |-> 0]]

Next == \E e \in Events :
    Emit(e) \/ Try(e) \/ Run(e) \/ Acknowledge(e) \/ GiveUp(e) \/ Forget(e)

Spec == Init /\ [][Next]_vars
=============================================================================
