SPECIFICATION FairSpec
CONSTANTS
    o1 = o1  o2 = o2  p1 = p1  p2 = p2  c1 = c1  c2 = c2  i1 = i1  i2 = i2  r1 = r1
    Calls = {c1, c2}
    Instances = {i1, i2}
    Workloads <- MCWorkloads
    MaxFaults = 1
    Orders = {o1, o2}
    FreeOrders = {o2}
    Revenue = 2
    MaxRevisions = 2
    Purchases = {p1, p2}
    MaxDisputes = 2
    Sums = {1, 2}
    ManualIds <- MCManualIds
    MaxPayouts = 2
    Rooms = {r1}
INVARIANTS CreditIsEarned BalanceIsEarned OneOpenPerProcess TrailIsThePath
PROPERTIES OnlyRulingsThaw AcceptedIsSettled
CHECK_DEADLOCK FALSE
