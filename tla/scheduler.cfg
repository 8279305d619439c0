SPECIFICATION BoundedFairSpec
CONSTANTS
    t1 = t1  t3 = t3  w1 = w1  w2 = w2  k1 = k1  k2 = k2
    res = res  none = none
    Tasks = {t1, t3}
    Workers = {w1, w2}
    Resources = {res}
    NoOwner = none
    Owner <- OwnerOfTasks
    QueueLimit = 2
    MaxStops = 1
    Timers = {k1, k2}
    TimerOwner <- OwnerOfTimers
    Repeats <- RepeatsOfTimers
    MaxFires = 2
    MaxPosts = 3
INVARIANTS CancelledIsSilent RepeatsAreKept
PROPERTIES TasksAreDelivered ShutdownEnds EndedGenerationIsSilent
CHECK_DEADLOCK FALSE
