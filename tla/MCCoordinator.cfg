CONSTANTS
    a1 = a1
    a2 = a2
    a3 = a3
    s1 = s1
    q1 = q1
    p1 = p1
    w1 = w1
    Accounts = {a1, a2, a3}
    Limit = 2
    SuspendCalls = {s1, q1}
    ShutdownCalls = {q1}
    SupersedeCalls = {p1}
    CancelCalls = {w1}
    Target <- CallTargets
SPECIFICATION FairSpec
INVARIANTS
    TypeOK
    AtMostLimit
    SuspendedMeansQuiet
PROPERTY
    CallsReturn
CHECK_DEADLOCK FALSE
