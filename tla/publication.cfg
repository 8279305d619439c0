SPECIFICATION FairSpec
CONSTANTS
    c1 = c1  c2 = c2  v1 = v1  v2 = v2  buyer = buyer  fan = fan
    Calls = {c1, c2}
    Workloads <- MCWorkloads
    Versions = {v1, v2}
    Buyers = {buyer}
    Watchers = {buyer, fan}
INVARIANTS UnsignedIsTransient
PROPERTIES SuspensionHolds EveryoneIsTold
CHECK_DEADLOCK FALSE
