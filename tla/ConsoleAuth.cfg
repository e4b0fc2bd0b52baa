SPECIFICATION Spec
CONSTANTS
    Threads = {t1, t2}
    Browsers = {b1, b2}
    Passwords = {p1, p2}
    MaxFailures = 2
    LockFor = 2
    SessionTtl = 2
    FlowTtl = 1
    TokenTtl = {1, 2}
    MaxPending = 1
    MaxTime = 2
    MaxSessions = 2
    MaxFlows = 2
    MaxChanges = 1
INVARIANTS GuessesBounded SessionsFollowPassword SignInUsedOnce
CHECK_DEADLOCK FALSE
SYMMETRY Symmetry
