SPECIFICATION Spec
CONSTANTS
    c1 = c1  c2 = c2  own = own  other = other  n1 = n1  n2 = n2  k1 = k1  k2 = k2  k3 = k3
    Calls = {c1, c2}
    Workloads <- MCWorkloads
    Keys = {own, other}
    Nonces = {n1, n2}
    KeyIds = {k1, k2, k3}
    Own = own
    MaxAttempts = 2
INVARIANTS RevocationBites NonceIsSpentOnce LeasesVerify
CHECK_DEADLOCK FALSE
