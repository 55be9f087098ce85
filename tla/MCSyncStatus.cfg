SPECIFICATION FairSpec
CONSTANTS
    a1 = a1
    a2 = a2
    NoRow = NoRow
    NoCode = NoCode
    Accounts <- OneAccount
    Commanded <- OneAccount
    Failures <- SomeFailures
    MaxPages = 1
    MaxTime = 7
    MaxCrashes = 1
INVARIANTS
    TypeOK
    RowsAreTrue
PROPERTIES
    CooldownSurvives
    RetryHonoursCooldown
    AttemptEnds
CHECK_DEADLOCK FALSE
