SPECIFICATION FairSpec
CONSTANTS
    a1 = a1
    a2 = a2
    NoAccount = NoAccount
    Accounts <- TwoAccounts
    Scopes <- DeepAndWide
    Jobs <- JobsOfWorker
    Units <- UnitsOf
    MaxRefreshes = 2
    MaxRenewals = 1
    MaxWaiting = 2
    MaxPending = 2
    Parallel = 2
INVARIANTS
    TokenMatchesCredential
    RefreshesAreShared
    KeyOutlivesWork
    RequestsHaveRun
PROPERTIES
    AdmissionsAreSpaced
    RunsEnd
CHECK_DEADLOCK FALSE
