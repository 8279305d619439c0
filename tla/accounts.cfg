SPECIFICATION Spec
CONSTANTS
    c1 = c1  c2 = c2  b1 = b1  b2 = b2  q1 = q1  q2 = q2
    Calls = {c1, c2}
    Workloads <- MCWorkloads
    Browsers = {b1, b2}
    Tokens = {1, 2, 3, 4, 5, 6}
    Providers = {q1, q2}
INVARIANTS OneSuccessor PasswordEndsSessions EndedStaysEnded
PROPERTIES SuspendedGetsNothing
CHECK_DEADLOCK FALSE
