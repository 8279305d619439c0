CONSTANTS
    q1 = q1
    q2 = q2
    q3 = q3
    k1 = k1
    none = none
    b1 = b1
    b2 = b2
    x1 = x1
    x2 = x2
    i1 = i1
    i2 = i2
    Requests = {q1, q2, q3}
    Keys = {k1}
    NoKey = none
    Replies <- MCReplies
    Instances = {i1, i2}
    Workloads <- MCWorkloads
    UsageLimits = {1, 2}
    MaxEvents = 1
    MaxLapses = 1
SPECIFICATION CheckoutFairSpec
INVARIANTS RetriesAgree UsageIsExact
PROPERTIES FreeIsCompleted PaidIsCompleted
CHECK_DEADLOCK FALSE
