CONSTANTS
    a1 = a1
    a2 = a2
    s1 = s1
    s2 = s2
    v1 = v1
    d1 = d1
    d2 = d2
    x1 = x1
    x2 = x2
    q1 = q1
    NoCall = NoCall
    Accounts = {a1, a2}
    SyncCalls = {s1}
    ActivateCalls = {v1}
    DisconnectCalls = {d1, d2}
    DeletionCalls = {x1}
    ShutdownCalls = {q1}
    Target <- MixedTargets
SPECIFICATION Spec
INVARIANTS
    TypeOK
    NoWorkWhileErasing
    IdleMeansResumed
CHECK_DEADLOCK FALSE
