CONSTANTS
    a1 = a1
    a2 = a2
    s1 = s1
    s2 = s2
    v1 = v1
    d1 = d1
    d2 = d2
    x1 = x1
    x2 = x2
    q1 = q1
    NoCall = NoCall
    Accounts = {a1}
    SyncCalls = {s1}
    ActivateCalls = {}
    DisconnectCalls = {d1}
    DeletionCalls = {x1, x2}
    ShutdownCalls = {q1}
    Target <- SameTarget
SPECIFICATION FairSpec
PROPERTIES
    EveryCallReturns
    RetentionGoesOn
CHECK_DEADLOCK FALSE
