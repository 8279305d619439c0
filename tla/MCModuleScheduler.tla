-------------------------- MODULE MCModuleScheduler --------------------------
(***************************************************************************)
(* Instances of ModuleScheduler for TLC.                                   *)
(***************************************************************************)
EXTENDS ModuleScheduler

CONSTANTS
    t1, t3, w1, w2, k1, k2, res, none,
    MaxPosts      \* bound on the tasks and timers that are posted

\* t3 belongs to no resource.
OwnerOfTasks == [t \in Tasks |-> IF t = t3 THEN none ELSE res]
OwnerOfTimers == [k \in Timers |-> res]

\* One timer that fires twice, one that fires until it is cancelled.
RepeatsOfTimers == [k \in Timers |-> IF k = k1 THEN 2 ELSE 0]

Posts == Cardinality(posted) + Cardinality({t \in Tasks : status[t] # "None"})

\* Only posts are refused: what the fairness is about is left as it is.
BoundedNext == SchedulerNext /\ Posts' <= MaxPosts
BoundedFairSpec == SchedulerInit /\ [][BoundedNext]_schedulerVars /\ Fairness
=============================================================================
