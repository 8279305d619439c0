SPECIFICATION Spec
CONSTANTS
    c1 = c1  c2 = c2  i1 = i1  i2 = i2  s1 = s1  s2 = s2  a1 = a1
    Calls = {c1, c2}
    Instances = {i1, i2}
    Workloads <- OneOrder
    Plans = {s1, s2}
    Campaigns = {a1}
    Period = 2
    Grace = 1
    Courtesies = {1, 2}
INVARIANTS OneWindowPerOrder
CHECK_DEADLOCK FALSE
